------------------------------ MODULE SysvShim ------------------------------
(***************************************************************************)
(* steam-sysv-shim.c: semaphores inside one process, for its threads.  One *)
(* mutex protects the table, one condition variable is broadcast on every  *)
(* change.  An action is one critical section: from locking the mutex, or  *)
(* waking in pthread_cond_wait, to unlocking it or going to sleep.         *)
(*                                                                         *)
(* An id is the number of a slot (SHIM_SEM_ID_BASE left out) and is used   *)
(* again at once.  Values are unsigned shorts and wrap.  What a call       *)
(* returns is left out: one that fails, or only reads (a semget that finds *)
(* the key; GETVAL, GETPID, GETNCNT, GETZCNT and every unsupported command *)
(* of semctl), is a step that changes nothing.                             *)
(***************************************************************************)
EXTENDS Integers, Sequences, FiniteSets

CONSTANTS Threads,
          MaxShimSets,     \* SHIM_SEM_SETS
          MaxShimSems,     \* SHIM_SEMS_PER_SET
          Short,           \* one more than the largest unsigned short
          MaxSetval,       \* 32767
          ShimKeys,        \* keys that are asked for; 0 is IPC_PRIVATE
          ShimValues,      \* values that are set
          ShimLists        \* lists of operations [sem_num, sem_op, nowait]

ASSUME ShimAssumptions ==
  /\ {MaxShimSets, MaxShimSems} \subseteq Nat \ {0}
  /\ Short \in Nat /\ MaxSetval \in 0 .. Short - 1
  /\ ShimKeys \subseteq Nat /\ ShimValues \subseteq Nat
  /\ ShimLists \subseteq
       Seq([sem_num : Nat, sem_op : -MaxSetval .. MaxSetval, nowait : BOOLEAN])

VARIABLES sets,      \* of a slot: [used, key, count, value]
          waits,     \* of a thread: the semop it is inside of, or NoSemop
          asleep     \* threads in pthread_cond_wait that nothing has woken

shimvars == <<sets, waits, asleep>>

ShimSlots == 0 .. MaxShimSets - 1
ShimSems == 0 .. MaxShimSems - 1
IPC_PRIVATE == 0
NoSemop == [id |-> -1, ops |-> <<>>]
FreeSet == [used |-> FALSE, key |-> 0, count |-> 0,
            value |-> [s \in ShimSems |-> 0]]

ShimInit ==
  /\ sets = [i \in ShimSlots |-> FreeSet]
  /\ waits = [t \in Threads |-> NoSemop]
  /\ asleep = {}

from_id(id) == id \in ShimSlots /\ sets[id].used

-----------------------------------------------------------------------------
(* semget and semctl.                                                      *)

First(slots) == CHOOSE i \in slots : \A j \in slots : i <= j

free_slots == {i \in ShimSlots : ~sets[i].used}

slots_with(key) ==
  {i \in ShimSlots : sets[i].used /\ sets[i].key = key /\ key # IPC_PRIVATE}

\* The key is not known and a set may be created; with IPC_PRIVATE it always
\* may.  A set found by its key is returned whatever its size.
semget ==
  \E key \in ShimKeys, nsems \in 1 .. MaxShimSems :
    /\ slots_with(key) = {} /\ free_slots # {}
    /\ sets' = [sets EXCEPT ![First(free_slots)] =
                  [FreeSet EXCEPT !.used = TRUE, !.key = key, !.count = nsems]]
    /\ UNCHANGED <<waits, asleep>>

\* Mutant of remove_set: nobody is told.
remove_set_silently(id) ==
  /\ from_id(id)
  /\ sets' = [sets EXCEPT ![id] = FreeSet]
  /\ UNCHANGED asleep

remove_set(id) ==
  /\ from_id(id)
  /\ sets' = [sets EXCEPT ![id] = FreeSet]
  /\ asleep' = {}

setval(id, semnum, value) ==
  /\ from_id(id) /\ semnum < sets[id].count /\ value <= MaxSetval
  /\ sets' = [sets EXCEPT ![id].value[semnum] = value]
  /\ asleep' = {}

semctl ==
  \E id \in ShimSlots :
    /\ \/ remove_set(id)
       \/ \E semnum \in ShimSems, value \in ShimValues : setval(id, semnum, value)
    /\ UNCHANGED waits

-----------------------------------------------------------------------------
(* semop.                                                                  *)

blocks(value, op) ==
  \/ op.sem_op < 0 /\ value < -op.sem_op
  \/ op.sem_op = 0 /\ value # 0

\* Every operation is judged by the values before the call, in order.
judge(set, ops) ==
  LET outside(k) == ops[k].sem_num >= set.count
      stops == {k \in DOMAIN ops : outside(k)
                                     \/ blocks(set.value[ops[k].sem_num], ops[k])}
      k == First(stops)
  IN  IF stops = {} THEN "0"
      ELSE IF outside(k) THEN "EFBIG"
      ELSE IF ops[k].nowait THEN "EAGAIN" ELSE "blocked"

performed(value, ops) ==
  LET v[k \in 0 .. Len(ops)] ==
        IF k = 0 THEN value
        ELSE [v[k - 1] EXCEPT ![ops[k].sem_num] = (@ + ops[k].sem_op) % Short]
  IN  v[Len(ops)]

perform(id, ops) ==
  /\ sets' = [sets EXCEPT ![id].value = performed(@, ops)]
  /\ asleep' = {}

\* One round of the loop.
attempt(t, id, ops) ==
  LET verdict == IF from_id(id) THEN judge(sets[id], ops) ELSE "EINVAL"
  IN  \/ /\ verdict = "0"
         /\ perform(id, ops)
         /\ waits' = [waits EXCEPT ![t] = NoSemop]
      \/ /\ verdict = "blocked"
         /\ waits' = [waits EXCEPT ![t] = [id |-> id, ops |-> ops]]
         /\ asleep' = asleep \cup {t}
         /\ UNCHANGED sets
      \/ /\ verdict \notin {"0", "blocked"}
         /\ waits' = [waits EXCEPT ![t] = NoSemop]
         /\ asleep' = asleep \ {t}
         /\ UNCHANGED sets

semop(t) == \E id \in 0 .. MaxShimSets, ops \in ShimLists : attempt(t, id, ops)

\* Mutant of wakes: the operations are not judged again.
wakes_unchecked(t) ==
  /\ from_id(waits[t].id)
  /\ perform(waits[t].id, waits[t].ops)
  /\ waits' = [waits EXCEPT ![t] = NoSemop]

\* pthread_cond_wait returns, after a broadcast or for no reason.
wakes(t) == attempt(t, waits[t].id, waits[t].ops)

ShimNext ==
  \E t \in Threads : \/ waits[t] = NoSemop /\ (semget \/ semctl \/ semop(t))
                     \/ waits[t] # NoSemop /\ wakes(t)

ShimSpec == ShimInit /\ [][ShimNext]_shimvars

-----------------------------------------------------------------------------
(* Properties.                                                             *)

\* A thread that sleeps in semop and was not woken has a live set and an
\* operation that still blocks: every change of the table, a removal and the
\* reuse of a slot included, wakes whom it concerns.
SleepersBlocked ==
  \A t \in asleep : /\ from_id(waits[t].id)
                    /\ judge(sets[waits[t].id], waits[t].ops) = "blocked"

\* However sets are created and removed, no two share a key that others can
\* ask for, so threads that agree on a key agree on the set.
ShimKeysUnique ==
  \A i, j \in ShimSlots :
    (/\ sets[i].used /\ sets[j].used
     /\ sets[i].key = sets[j].key /\ sets[i].key # IPC_PRIVATE) => i = j

\* A semop that names each semaphore once takes no more than there is, also
\* when it has slept and others have taken from the semaphore meanwhile.
TakesWhatIsThere ==
  [][\A t \in Threads :
       LET id == waits[t].id
           ops == waits[t].ops
       IN  (/\ waits[t] # NoSemop /\ waits'[t] = NoSemop /\ sets' # sets
            /\ \A j, k \in DOMAIN ops : ops[j].sem_num = ops[k].sem_num => j = k)
             => \A k \in DOMAIN ops : ops[k].sem_op <= 0 =>
                  sets'[id].value[ops[k].sem_num] =
                    sets[id].value[ops[k].sem_num] + ops[k].sem_op]_shimvars
=============================================================================
