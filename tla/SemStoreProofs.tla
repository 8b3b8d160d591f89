--------------------------- MODULE SemStoreProofs ---------------------------
(***************************************************************************)
(* The invariants of SemStore, and the all-or-nothing property, for every  *)
(* size of the tables and every set of callers and arguments.              *)
(***************************************************************************)
EXTENDS SemStoreHistory, SemStoreOpsProofs

\* The inductive invariant: a well formed store, and a typed last result.
IInv == StoreOK(store) /\ last \in [call : Calls, result : Int]

\* Every id of SemIds is an integer.
LEMMA SemIdsInt == SemIds \subseteq Int
<1>1. \A i \in Slots, g \in 1 .. MaxGeneration : make_id(i, g) \in Int
  BY IdRoundTrip, Bounds
<1> QED
  BY <1>1 DEF SemIds

\* The empty store of tgc_sem_store_create is well formed.
LEMMA InitOK == Init => IInv
<1> SUFFICES ASSUME Init PROVE IInv
  OBVIOUS
<1>1. StoreOK(store)
  BY EmptyStoreOK DEF Init
<1>2. last \in [call : Calls, result : Int]
  BY DEF Init, Calls
<1> QED
  BY <1>1, <1>2 DEF IInv

\* What each operation does to a well formed store, seen from Next: it stays
\* well formed, and an unsuccessful call leaves it unchanged.
Good == /\ IInv'
        /\ (last'.result < 0 \/ (last'.call = "semop" /\ last'.result # 0))
             => store' = store

\* A call whose answer is well formed is a good step.
LEMMA CallOK ==
  ASSUME NEW name \in Calls, NEW r, Call(name, r),
         StoreOK(r.store), r.result \in Int,
         r.result < 0 \/ (name = "semop" /\ r.result # 0) => r.store = store
  PROVE  Good
<1>1. store' = r.store /\ last' = [call |-> name, result |-> r.result]
  BY DEF Call
<1>2. StoreOK(store')
  BY <1>1
<1>3. last' \in [call : Calls, result : Int]
  BY <1>1
<1>4. IInv'
  BY <1>2, <1>3 DEF IInv
<1> QED
  BY <1>1, <1>4 DEF Good

\* Every call of Next is a good step.
LEMMA NextOK == ASSUME IInv, Next PROVE Good
<1>1. StoreOK(store) /\ SemIds \subseteq Int /\ Pids \subseteq Nat
  BY SemIdsInt, CallerAssumptions DEF IInv
<1>2. ASSUME Semget PROVE Good
  <2>1. PICK c \in GetCalls, who \in Whos, oom \in BOOLEAN :
          Call("semget", get_as(store, c.key, c.nsems, c.flags, who, oom))
    BY <1>2 DEF Semget
  <2>2. /\ c.key \in Int /\ c.nsems \in Int /\ c.flags.mode \in 0 .. MaxMode
        /\ who.uid \in Nat /\ who.gid \in Nat
    BY CallerAssumptions
  <2> DEFINE r == get_as(store, c.key, c.nsems, c.flags, who, oom)
  <2>3. StoreOK(r.store) /\ r.result \in Int /\ (r.result < 0 => r.store = store)
    BY <1>1, <2>2, GetAsOK
  <2> HIDE DEF r
  <2> QED
    BY <2>1, <2>3, CallOK DEF r, Calls
<1>3. ASSUME Remove PROVE Good
  <2>1. PICK semid \in SemIds : Call("remove", remove(store, semid))
    BY <1>3 DEF Remove
  <2>2. semid \in Int
    BY <1>1
  <2> DEFINE r == remove(store, semid)
  <2>3. StoreOK(r.store) /\ r.result \in Int /\ (r.result < 0 => r.store = store)
    BY <1>1, <2>2, RemoveOK
  <2> HIDE DEF r
  <2> QED
    BY <2>1, <2>3, CallOK DEF r, Calls
<1>4. ASSUME Setval PROVE Good
  <2>1. PICK semid \in SemIds, n \in SemNums, v \in NewValues, pid \in Pids :
          Call("setval", setval(store, semid, n, v, pid))
    BY <1>4 DEF Setval
  <2>2. semid \in Int /\ n \in Nat /\ v \in Nat /\ pid \in Nat
    BY <1>1, CallerAssumptions, Bounds DEF SemNums
  <2> DEFINE r == setval(store, semid, n, v, pid)
  <2>3. StoreOK(r.store) /\ r.result \in Int /\ (r.result < 0 => r.store = store)
    BY <1>1, <2>2, SetvalOK
  <2> HIDE DEF r
  <2> QED
    BY <2>1, <2>3, CallOK DEF r, Calls
<1>5. ASSUME Setall PROVE Good
  <2>1. PICK semid \in SemIds, v \in NewValues, n \in SemNums, pid \in Pids :
          Call("setall", setall(store, semid, [i \in 1 .. n |-> v], pid))
    BY <1>5, Zenon DEF Setall
  <2>2. semid \in Int /\ pid \in Nat /\ [i \in 1 .. n |-> v] \in Seq(Nat)
    BY <1>1, CallerAssumptions, Bounds DEF SemNums
  <2> DEFINE r == setall(store, semid, [i \in 1 .. n |-> v], pid)
  <2>3. StoreOK(r.store) /\ r.result \in Int /\ (r.result < 0 => r.store = store)
    BY <1>1, <2>2, SetallOK
  <2> HIDE DEF r
  <2> QED
    BY <2>1, <2>3, CallOK DEF r, Calls
<1>6. ASSUME SetMetadata PROVE Good
  <2>1. PICK semid \in SemIds, m \in Metas, who \in Whos :
          Call("set_metadata",
               set_metadata(store, semid, m.uid, m.gid, m.mode, who))
    BY <1>6 DEF SetMetadata
  <2>2. /\ semid \in Int /\ m.uid \in Nat /\ m.gid \in Nat /\ m.mode \in Nat
    BY <1>1, CallerAssumptions
  <2> DEFINE r == set_metadata(store, semid, m.uid, m.gid, m.mode, who)
  <2>3. StoreOK(r.store) /\ r.result \in Int /\ (r.result < 0 => r.store = store)
    BY <1>1, <2>2, SetMetadataOK
  <2> HIDE DEF r
  <2> QED
    BY <2>1, <2>3, CallOK DEF r, Calls
<1>7. ASSUME AdjustWaitCount PROVE Good
  <2>1. PICK semid \in SemIds, n \in SemNums, zero \in BOOLEAN,
             d \in CountDeltas :
          Call("adjust_wait_count",
               adjust_wait_count(store, semid, n, zero, d))
    BY <1>7 DEF AdjustWaitCount
  <2>2. semid \in Int /\ n \in Nat /\ d \in Int
    BY <1>1, CallerAssumptions, Bounds DEF SemNums
  <2> DEFINE r == adjust_wait_count(store, semid, n, zero, d)
  <2>3. StoreOK(r.store) /\ r.result \in Int /\ (r.result < 0 => r.store = store)
    BY <1>1, <2>2, AdjustWaitCountOK
  <2> HIDE DEF r
  <2> QED
    BY <2>1, <2>3, CallOK DEF r, Calls
<1>8. ASSUME Semop PROVE Good
  <2>1. PICK semid \in SemIds, ops \in OpLists, pid \in Pids :
          Call("semop", tryop(store, semid, ops, pid))
    BY <1>8 DEF Semop
  <2>2. semid \in Int /\ ops \in Seq(OpRec) /\ pid \in Nat
    BY <1>1, CallerAssumptions DEF OpRec
  <2> DEFINE r == tryop(store, semid, ops, pid)
  <2>3. StoreOK(r.store) /\ r.result \in Int /\ (r.result # 0 => r.store = store)
    BY <1>1, <2>2, TryopOK
  <2> HIDE DEF r
  <2> QED
    BY <2>1, <2>3, CallOK DEF r, Calls
<1>9. ASSUME ProcessExit PROVE Good
  <2>1. PICK pid \in Pids : Call("process_exit", process_exit(store, pid))
    BY <1>9 DEF ProcessExit
  <2>2. pid \in Nat
    BY <1>1
  <2> DEFINE r == process_exit(store, pid)
  <2>3. StoreOK(r.store) /\ r.result \in 0 .. 1
    BY <1>1, <2>2, ProcessExitOK
  <2>4. r.result \in Int /\ ~(r.result < 0)
    BY <2>3
  <2> HIDE DEF r
  <2> QED
    BY <2>1, <2>3, <2>4, CallOK DEF r, Calls
<1> QED
  BY <1>2, <1>3, <1>4, <1>5, <1>6, <1>7, <1>8, <1>9 DEF Next

\* The store stays well formed, whatever is called in whatever order.
THEOREM StoreInvariant == Spec => []IInv
<1>1. IInv /\ UNCHANGED vars => IInv'
  BY DEF IInv, vars
<1>2. IInv /\ [Next]_vars => IInv'
  BY <1>1, NextOK DEF Good
<1> QED
  BY InitOK, <1>2, PTL DEF Spec

\* Type correctness: semaphore values and adjustments stay in range for every
\* MaxValue, whatever semop, SETVAL, SETALL and process exits add to them.
THEOREM TypeCorrect == Spec => []TypeOK
<1>1. IInv => TypeOK
  BY DEF IInv, StoreOK, TypeOK
<1> QED
  BY StoreInvariant, <1>1, PTL

\* semget never creates a second live set with the key of another.
THEOREM KeysStayUnique == Spec => []UniqueKeys
<1>1. IInv => UniqueKeys
  BY DEF IInv, StoreOK, UniqueKeys
<1> QED
  BY StoreInvariant, <1>1, PTL

\* Every undo entry names a live semaphore, is the only one of its process
\* for it, and the entries fit the table, however large it is.
THEOREM UndoStaysSound == Spec => []UndoSound
<1>1. IInv => UndoSound
  BY DEF IInv, StoreOK, UndoSound
<1> QED
  BY StoreInvariant, <1>1, PTL

\* No call reaches behind the semaphores its set owns.
THEOREM SemsStayOwn == Spec => []OnlyOwnSems
<1>1. IInv => OnlyOwnSems
  BY DEF IInv, StoreOK, OnlyOwnSems
<1> QED
  BY StoreInvariant, <1>1, PTL

\* A failing or blocked call has no effect, for operation lists of any length
\* and an undo table at its limit.
THEOREM CallsAreAllOrNothing == Spec => AllOrNothing
<1>1. IInv /\ [Next]_vars =>
        [last'.result < 0 \/ (last'.call = "semop" /\ last'.result # 0)
           => store' = store]_vars
  BY NextOK DEF Good
<1> QED
  BY StoreInvariant, <1>1, PTL DEF Spec, AllOrNothing

-----------------------------------------------------------------------------
(* Removed ids.                                                            *)

\* What one call may do to a slot: nothing, create a set in it, or remove one
\* and take the next generation.
SlotTurns(old, new) ==
  \/ new.active = old.active /\ new.generation = old.generation
  \/ /\ ~old.active /\ new.active
     /\ new.generation = IF old.generation = 0 THEN 1 ELSE old.generation
  \/ /\ old.active /\ ~new.active /\ old.generation # 0
     /\ new.generation = next_generation(old.generation)
Turns(st, new) == \A i \in Slots : SlotTurns(st.sets[i], new.sets[i])

\* A call that writes one slot turns at most that one.
LEMMA OneTurns ==
  ASSUME NEW st, st.sets \in [Slots -> SemSet], NEW i \in Slots, NEW set, NEW new,
         new.sets = [st.sets EXCEPT ![i] = set], SlotTurns(st.sets[i], set)
  PROVE  Turns(st, new)
BY Zenon DEF Turns, SlotTurns

\* Nothing turns in a store that stays.
LEMMA NoneTurns == ASSUME NEW st PROVE Turns(st, st)
BY Zenon DEF Turns, SlotTurns

\* semget creates at most one set, in a free slot.
LEMMA GetTurns ==
  ASSUME NEW st, StoreOK(st), NEW key, NEW nsems, NEW flags, NEW who, NEW oom
  PROVE  Turns(st, get_as(st, key, nsems, flags, who, oom).store)
<1> DEFINE a == get_as(st, key, nsems, flags, who, oom)
           free == free_slots(st)
           i == Smallest(free)
           set == new_set(st.sets[i], key, nsems, flags, who)
<1>1. st.sets \in [Slots -> SemSet]
  BY Zenon DEF StoreOK, StoreType
<1>2. CASE a.store = st
  BY <1>2, NoneTurns, Zenon
<1>3. CASE free # {} /\ a = get_new(st, i, key, nsems, flags, who)
  <2>1. free \in SUBSET Slots
    BY DEF free_slots
  <2> HIDE DEF free
  <2>2. i \in free
    BY <1>3, <2>1, SmallestIn
  <2>3. i \in Slots /\ ~st.sets[i].active
    BY <2>2 DEF free, free_slots
  <2>4. get_new(st, i, key, nsems, flags, who).store = [st EXCEPT !.sets[i] = set]
    BY Zenon DEF get_new, Returns
  <2>5. /\ set.active = TRUE
        /\ set.generation = IF st.sets[i].generation = 0 THEN 1
                            ELSE st.sets[i].generation
    <3> HIDE DEF i
    <3> QED
      BY Zenon DEF new_set, FreeSet
  <2>6. SlotTurns(st.sets[i], set)
    <3> HIDE DEF i, set
    <3> QED
      BY <2>3, <2>5, Zenon DEF SlotTurns
  <2> HIDE DEF i, set, a
  <2>7. a.store = [st EXCEPT !.sets[i] = set]
    BY <1>3, <2>4
  <2>8. a.store.sets = [st.sets EXCEPT ![i] = set]
    BY <2>7, Zenon DEF StoreOK, StoreType
  <2>9. Turns(st, a.store)
    BY <1>1, <2>3, <2>6, <2>8, OneTurns, Zenon
  <2> QED
    BY <2>9 DEF a
<1>4. \/ a.store = st
      \/ free # {} /\ a = get_new(st, i, key, nsems, flags, who)
  <2>1. \A k : get_existing(st, k, nsems, flags).store = st
    BY Zenon DEF get_existing, Returns
  <2>2. \A e : Returns(st, e).store = st
    BY Zenon DEF Returns
  <2>3. \/ \E k : a = get_existing(st, k, nsems, flags)
        \/ \E e : a = Returns(st, e)
        \/ free # {} /\ a = get_new(st, i, key, nsems, flags, who)
    BY Zenon DEF get_as
  <2> HIDE DEF a, free, i
  <2> QED
    BY <2>1, <2>2, <2>3, Zenon
<1> QED
  BY <1>2, <1>3, <1>4, Zenon

\* A removal ends one set, and its slot takes the next generation.
LEMMA RemoveTurns ==
  ASSUME NEW st, StoreOK(st), NEW semid \in Int
  PROVE  Turns(st, remove(st, semid).store)
<1> DEFINE i == id_index(semid)
           set == FreeSet(next_generation(st.sets[i].generation))
           new == remove(st, semid).store
<1>1. CASE ~found(st, semid)
  BY <1>1, NoneTurns, Zenon DEF remove, Returns
<1>2. CASE found(st, semid)
  <2>1. /\ i \in Slots /\ st.sets[i].active
        /\ st.sets[i].generation = id_generation(semid)
        /\ id_generation(semid) # 0
    BY <1>2, Zenon DEF found, decodes
  <2>2. new.sets = [st.sets EXCEPT ![i] = set]
    BY <1>2, Zenon DEF remove, Returns
  <2>3. /\ set.active = FALSE
        /\ set.generation = next_generation(st.sets[i].generation)
    BY Zenon DEF FreeSet
  <2> HIDE DEF i, set, new
  <2>4. SlotTurns(st.sets[i], set)
    BY <2>1, <2>3, Zenon DEF SlotTurns
  <2>5. st.sets \in [Slots -> SemSet]
    BY Zenon DEF StoreOK, StoreType
  <2>6. Turns(st, new)
    BY <2>1, <2>2, <2>4, <2>5, OneTurns, Zenon
  <2> QED
    BY <2>6 DEF new
<1> QED
  BY <1>1, <1>2

\* A call that writes a set but neither creates nor removes it turns nothing.
LEMMA WriteTurns ==
  ASSUME NEW st, StoreOK(st), NEW i \in Slots, NEW set, NEW new,
         new.sets = [st.sets EXCEPT ![i] = set],
         set.active = st.sets[i].active,
         set.generation = st.sets[i].generation
  PROVE  Turns(st, new)
<1>1. st.sets \in [Slots -> SemSet]
  BY Zenon DEF StoreOK, StoreType
<1>2. SlotTurns(st.sets[i], set)
  BY Zenon DEF SlotTurns
<1> QED
  BY <1>1, <1>2, OneTurns, Zenon

\* The set that SETVAL, SETALL and IPC_SET write keeps its id.
LEMMA ControlTurns ==
  ASSUME NEW st, StoreOK(st), NEW semid \in Int
  PROVE  /\ \A n, v, pid : Turns(st, setval(st, semid, n, v, pid).store)
         /\ \A values, pid : Turns(st, setall(st, semid, values, pid).store)
         /\ \A uid, gid, mode, who :
              Turns(st, set_metadata(st, semid, uid, gid, mode, who).store)
<1> DEFINE i == id_index(semid)
           old == st.sets[i]
<1>0. \A e, x : Returns(x, e).store = x
  BY Zenon DEF Returns
<1>1. st.sets \in [Slots -> SemSet] /\ Turns(st, st)
  BY NoneTurns, Zenon DEF StoreOK, StoreType
<1>2. found(st, semid) => i \in Slots /\ old \in SemSet
  BY <1>1, Zenon DEF found, decodes
<1>3. ASSUME NEW n, NEW v, NEW pid
      PROVE  Turns(st, setval(st, semid, n, v, pid).store)
  <2> DEFINE r == setval(st, semid, n, v, pid)
             sets == [st.sets EXCEPT ![i].values[n] = v, ![i].last_pids[n] = pid]
             undo == clear_undo_entries(st.undo, semid, {n})
             set == [old EXCEPT !.values[n] = v, !.last_pids[n] = pid]
             new == [sets |-> sets, undo |-> undo]
  <2>1. \/ \E e : r = Returns(st, e)
        \/ found(st, semid) /\ r = Returns(new, 0)
    BY Zenon DEF setval, has_sem
  <2>2. CASE \E e : r = Returns(st, e)
    BY <1>0, <1>1, <2>2, Zenon
  <2>3. CASE found(st, semid) /\ r = Returns(new, 0)
    <3>1. new.sets = [st.sets EXCEPT ![i] = set]
      BY <1>1, <1>2, <2>3, Zenon
    <3>2. /\ i \in Slots
          /\ set.active = st.sets[i].active
          /\ set.generation = st.sets[i].generation
      BY <1>2, <2>3, Zenon DEF SemSet
    <3> HIDE DEF r, new, set, i
    <3>3. Turns(st, new)
      BY <3>1, <3>2, WriteTurns, SMT
    <3>4. r.store = new
      BY <1>0, <2>3, Zenon
    <3> QED
      BY <3>3, <3>4, Zenon DEF r
  <2> QED
    BY <2>1, <2>2, <2>3, Zenon
<1>4. ASSUME NEW values, NEW pid
      PROVE  Turns(st, setall(st, semid, values, pid).store)
  <2> DEFINE r == setall(st, semid, values, pid)
             n == Len(values)
             V == [s \in Sems |-> IF s < n THEN values[s + 1] ELSE 0]
             P == [s \in Sems |-> IF s < n THEN pid ELSE 0]
             sets == [st.sets EXCEPT ![i].values = V, ![i].last_pids = P]
             undo == clear_undo_entries(st.undo, semid, Sems)
             set == [old EXCEPT !.values = V, !.last_pids = P]
             new == [sets |-> sets, undo |-> undo]
  <2>1. \/ \E e : r = Returns(st, e)
        \/ found(st, semid) /\ r = Returns(new, 0)
    BY Zenon DEF setall
  <2>2. CASE \E e : r = Returns(st, e)
    BY <1>0, <1>1, <2>2, Zenon
  <2>3. CASE found(st, semid) /\ r = Returns(new, 0)
    <3> HIDE DEF V, P
    <3>1. new.sets = [st.sets EXCEPT ![i] = set]
      BY <1>1, <1>2, <2>3, Zenon
    <3>2. /\ i \in Slots
          /\ set.active = st.sets[i].active
          /\ set.generation = st.sets[i].generation
      BY <1>2, <2>3, Zenon DEF SemSet
    <3> HIDE DEF r, new, set, i
    <3>3. Turns(st, new)
      BY <3>1, <3>2, WriteTurns, SMT
    <3>4. r.store = new
      BY <1>0, <2>3, Zenon
    <3> QED
      BY <3>3, <3>4, Zenon DEF r
  <2> QED
    BY <2>1, <2>2, <2>3, Zenon
<1>5. ASSUME NEW uid, NEW gid, NEW mode, NEW who
      PROVE  Turns(st, set_metadata(st, semid, uid, gid, mode, who).store)
  <2> DEFINE r == set_metadata(st, semid, uid, gid, mode, who)
             set == [old EXCEPT !.gid = gid, !.mode = mode]
             new == [st EXCEPT !.sets[i] = set]
  <2>1. \/ \E e : r = Returns(st, e)
        \/ found(st, semid) /\ r = Returns(new, 0)
    BY Zenon DEF set_metadata, set_of
  <2>2. CASE \E e : r = Returns(st, e)
    BY <1>0, <1>1, <2>2, Zenon
  <2>3. CASE found(st, semid) /\ r = Returns(new, 0)
    <3>1. new.sets = [st.sets EXCEPT ![i] = set]
      BY Zenon DEF StoreOK, StoreType
    <3>2. /\ i \in Slots
          /\ set.active = st.sets[i].active
          /\ set.generation = st.sets[i].generation
      BY <1>2, <2>3, Zenon DEF SemSet
    <3> HIDE DEF r, new, set, i
    <3>3. Turns(st, new)
      BY <3>1, <3>2, WriteTurns, SMT
    <3>4. r.store = new
      BY <1>0, <2>3, Zenon
    <3> QED
      BY <3>3, <3>4, Zenon DEF r
  <2> QED
    BY <2>1, <2>2, <2>3, Zenon
<1> QED
  BY <1>3, <1>4, <1>5, Zenon

\* So does a set whose waiters are counted.
LEMMA CountTurns ==
  ASSUME NEW st, StoreOK(st), NEW semid \in Int, NEW n, NEW zero, NEW d
  PROVE  Turns(st, adjust_wait_count(st, semid, n, zero, d).store)
<1> DEFINE i == id_index(semid)
           old == st.sets[i]
           r == adjust_wait_count(st, semid, n, zero, d)
           count == counter(old, zero)[n] + d
           set == with_count(old, zero, n, count)
           new == [st EXCEPT !.sets[i] = set]
<1>0. \A e, x : Returns(x, e).store = x
  BY Zenon DEF Returns
<1>1. \/ \E e : r = Returns(st, e)
      \/ found(st, semid) /\ r = Returns(new, 0)
  BY Zenon DEF adjust_wait_count, has_sem, set_of
<1>2. CASE \E e : r = Returns(st, e)
  BY <1>0, <1>2, NoneTurns, Zenon
<1>3. CASE found(st, semid) /\ r = Returns(new, 0)
  <2>1. i \in Slots /\ old \in SemSet
    BY <1>3, Zenon DEF found, decodes, StoreOK, StoreType
  <2>2. new.sets = [st.sets EXCEPT ![i] = set]
    BY Zenon DEF StoreOK, StoreType
  <2> HIDE DEF count
  <2>3. /\ set.active = st.sets[i].active
        /\ set.generation = st.sets[i].generation
    BY <2>1, Zenon DEF SemSet, with_count
  <2> HIDE DEF r, new, set, i
  <2>4. Turns(st, new)
    BY <2>1, <2>2, <2>3, WriteTurns, SMT
  <2>5. r.store = new
    BY <1>0, <1>3, Zenon
  <2> QED
    BY <2>4, <2>5, Zenon DEF r
<1> QED
  BY <1>1, <1>2, <1>3, Zenon

\* An exit writes values, in all sets, and no id.
LEMMA ExitTurns ==
  ASSUME NEW st, StoreOK(st), NEW pid
  PROVE  Turns(st, process_exit(st, pid).store)
<1> DEFINE P(i) == [s \in Sems |-> IF exit_entries(st, pid, i, s) = {}
                                   THEN st.sets[i].last_pids[s] ELSE pid]
           V(i) == [s \in Sems |-> exit_value(st, pid, i, s)]
           set(i) == [st.sets[i] EXCEPT !.values = V(i), !.last_pids = P(i)]
           new == process_exit(st, pid).store
<1>1. new.sets = [i \in Slots |-> set(i)]
  BY Zenon DEF process_exit, Returns
<1> HIDE DEF V, P, new
<1>2. ASSUME NEW i \in Slots PROVE SlotTurns(st.sets[i], new.sets[i])
  <2>1. st.sets[i] \in SemSet
    BY Zenon DEF StoreOK, StoreType
  <2>2. new.sets[i] = set(i)
    BY <1>1, Zenon
  <2>3. set(i).active = st.sets[i].active
        /\ set(i).generation = st.sets[i].generation
    BY <2>1, Zenon DEF SemSet
  <2> QED
    BY <2>2, <2>3, Zenon DEF SlotTurns
<1> QED
  BY <1>2, ZenonT(40) DEF Turns, new

\* Every call turns a slot the way a removal or a creation does, or not at all.
LEMMA NextTurns == ASSUME IInv, Next PROVE Turns(store, store')
<1>1. StoreOK(store) /\ SemIds \subseteq Int /\ Pids \subseteq Nat
  BY SemIdsInt, CallerAssumptions DEF IInv
<1>2. ASSUME NEW name, NEW r, Call(name, r), Turns(store, r.store)
      PROVE  Turns(store, store')
  BY <1>2, Zenon DEF Call
<1>3. ASSUME Semget PROVE Turns(store, store')
  BY <1>1, <1>2, <1>3, GetTurns, Zenon DEF Semget
<1>4. ASSUME Remove PROVE Turns(store, store')
  BY <1>1, <1>2, <1>4, RemoveTurns, Zenon DEF Remove
<1>5. ASSUME Setval \/ Setall \/ SetMetadata PROVE Turns(store, store')
  BY <1>1, <1>2, <1>5, ControlTurns, Zenon DEF Setval, Setall, SetMetadata
<1>6. ASSUME AdjustWaitCount PROVE Turns(store, store')
  BY <1>1, <1>2, <1>6, CountTurns, Zenon DEF AdjustWaitCount
<1>7. ASSUME Semop PROVE Turns(store, store')
  <2>1. PICK semid \in SemIds, ops \in OpLists, pid \in Pids :
          Call("semop", tryop(store, semid, ops, pid))
    BY <1>7 DEF Semop
  <2>2. semid \in Int /\ ops \in Seq(OpRec) /\ pid \in Nat
    BY <1>1, CallerAssumptions DEF OpRec
  <2> DEFINE r == tryop(store, semid, ops, pid)
  <2>3. SameSlots(store, r.store)
    BY <1>1, <2>2, TryopOK
  <2> HIDE DEF r
  <2>4. Turns(store, r.store)
    BY <2>3, Zenon DEF SameSlots, Turns, SlotTurns
  <2> QED
    BY <1>2, <2>1, <2>4, Zenon DEF r
<1>8. ASSUME ProcessExit PROVE Turns(store, store')
  BY <1>1, <1>2, <1>8, ExitTurns, Zenon DEF ProcessExit
<1> QED
  BY <1>3, <1>4, <1>5, <1>6, <1>7, <1>8, Zenon DEF Next

\* The generation n removals before generation g.
Back(g, n) == IF g > n THEN g - n ELSE g - n + MaxGeneration

\* What is remembered of slot i at generation g: the ids of the generations
\* before g, the latest last, and fewer than there are generations.
Recalls(ids, i, g) ==
  /\ ids \in Seq(Int) /\ Len(ids) < MaxGeneration
  /\ Len(ids) > 0 => g > 0
  /\ \A k \in 1 .. Len(ids) : ids[k] = make_id(i, Back(g, Len(ids) - k + 1))

\* The inductive invariant with the history.
HInv == IInv /\ \A i \in Slots : Recalls(recent[i], i, store.sets[i].generation)

\* Going back is going forward in reverse, and within MaxGeneration steps it
\* does not come around.
LEMMA BackSteps ==
  ASSUME NEW g \in 1 .. MaxGeneration
  PROVE  /\ Back(next_generation(g), 1) = g
         /\ \A n \in 1 .. MaxGeneration - 1 :
              /\ Back(next_generation(g), n + 1) = Back(g, n)
              /\ Back(g, n) \in Nat /\ Back(g, n) # g
BY StoreBounds DEF Back, next_generation

\* A removal is remembered, and the oldest one forgotten.
LEMMA RecallsMore ==
  ASSUME NEW i \in Slots, NEW g \in 1 .. MaxGeneration, NEW ids, Recalls(ids, i, g),
         NEW r, r = Append(ids, make_id(i, g))
  PROVE  Recalls(IF Len(r) >= MaxGeneration THEN Tail(r) ELSE r, i,
                 next_generation(g))
<1> DEFINE n == Len(ids)
           h == next_generation(g)
           id == make_id(i, g)
<1>1. /\ ids \in Seq(Int) /\ n \in Nat /\ n < MaxGeneration /\ id \in Int
      /\ MaxGeneration \in Nat
  <2>1. ids \in Seq(Int) /\ n \in Nat /\ n < MaxGeneration
    BY DEF Recalls
  <2>2. id \in Int
    BY StoreBounds DEF make_id, IdBase, Slots
  <2> QED
    BY <2>1, <2>2, StoreBounds
<1>2. h > 0
  BY StoreBounds DEF next_generation
<1> HIDE DEF id
<1>3. /\ r \in Seq(Int) /\ Len(r) = n + 1 /\ r[n + 1] = id
      /\ \A k \in 1 .. n : r[k] = ids[k]
  BY <1>1 DEF id
<1> HIDE DEF n, h
<1>4. ASSUME NEW k \in 1 .. n + 1, n + 1 - k + 1 <= MaxGeneration
      PROVE  r[k] = make_id(i, Back(h, n + 1 - k + 1))
  <2>1. CASE k = n + 1
    <3>1. n + 1 - k + 1 = 1
      BY <1>1, <2>1
    <3>2. Back(h, 1) = g
      BY BackSteps, Zenon DEF h
    <3> QED
      BY <1>3, <2>1, <3>1, <3>2, Zenon DEF id
  <2>2. CASE k # n + 1
    <3>1. /\ k \in 1 .. n /\ n - k + 1 \in 1 .. MaxGeneration - 1
          /\ n + 1 - k + 1 = (n - k + 1) + 1
      BY <1>1, <1>4, <2>2
    <3>2. ids[k] = make_id(i, Back(g, n - k + 1))
      BY <3>1, Zenon DEF Recalls, n
    <3>3. Back(h, (n - k + 1) + 1) = Back(g, n - k + 1)
      BY <3>1, BackSteps, Zenon DEF h
    <3> QED
      BY <1>3, <3>1, <3>2, <3>3, Zenon
  <2> QED
    BY <2>1, <2>2, Zenon
<1>5. CASE Len(r) >= MaxGeneration
  <2> DEFINE t == Tail(r)
  <2>1. t \in Seq(Int) /\ Len(t) = n /\ \A k \in 1 .. n : t[k] = r[k + 1]
    BY <1>1, <1>3
  <2> HIDE DEF t
  <2>2. ASSUME NEW k \in 1 .. n PROVE t[k] = make_id(i, Back(h, n - k + 1))
    <3>1. /\ k + 1 \in 1 .. n + 1 /\ n + 1 - (k + 1) + 1 <= MaxGeneration
          /\ n + 1 - (k + 1) + 1 = n - k + 1
      BY <1>1
    <3>2. r[k + 1] = make_id(i, Back(h, n + 1 - (k + 1) + 1))
      BY <1>4, <3>1, Zenon
    <3> QED
      BY <2>1, <3>1, <3>2, Zenon
  <2>3. Recalls(t, i, h)
    BY <1>1, <1>2, <2>1, <2>2, Zenon DEF Recalls
  <2> QED
    BY <1>5, <2>3, Zenon DEF t, h
<1>6. CASE ~(Len(r) >= MaxGeneration)
  <2>1. Len(r) < MaxGeneration /\ n + 1 <= MaxGeneration
    BY <1>1, <1>3, <1>6
  <2>2. ASSUME NEW k \in 1 .. Len(r)
        PROVE  r[k] = make_id(i, Back(h, Len(r) - k + 1))
    <3>1. k \in 1 .. n + 1 /\ n + 1 - k + 1 <= MaxGeneration
      BY <1>1, <1>3, <2>1
    <3>2. r[k] = make_id(i, Back(h, n + 1 - k + 1))
      BY <1>4, <3>1, Zenon
    <3>3. Len(r) = n + 1
      BY <1>3
    <3>4. Len(r) - k + 1 = n + 1 - k + 1
      BY <1>1, <3>3
    <3> QED
      BY <3>2, <3>4, Zenon
  <2>3. Recalls(r, i, h)
    BY <1>2, <1>3, <2>1, <2>2, Zenon DEF Recalls
  <2> QED
    BY <1>6, <2>3, Zenon DEF h
<1> QED
  BY <1>5, <1>6, Zenon

\* One step keeps what is remembered of a slot true of it.
LEMMA HistoryStep == ASSUME HInv, HistoryNext PROVE HInv'
<1>1. IInv /\ IInv' /\ Turns(store, store')
  BY NextOK, NextTurns, Zenon DEF HInv, HistoryNext, Good
<1>2. ASSUME NEW i \in Slots
      PROVE  Recalls(recent'[i], i, store'.sets[i].generation)
  <2> DEFINE old == store.sets[i]
             new == store'.sets[i]
             r == Append(recent[i], make_id(i, old.generation))
  <2>1. Recalls(recent[i], i, old.generation) /\ SlotTurns(old, new)
    BY <1>1, Zenon DEF HInv, Turns
  <2>2. old.generation \in 0 .. MaxGeneration
    BY <1>1 DEF IInv, StoreOK, StoreType, SemSet
  <2>3. recent'[i] = IF old.active /\ ~new.active
                     THEN IF Len(r) >= MaxGeneration THEN Tail(r) ELSE r
                     ELSE recent[i]
    BY Zenon DEF HistoryNext, Remember
  <2> HIDE DEF old, new
  <2>4. CASE new.active = old.active /\ new.generation = old.generation
    BY <2>1, <2>3, <2>4, Zenon DEF new, old
  <2>5. CASE /\ ~old.active /\ new.active
             /\ new.generation = IF old.generation = 0 THEN 1 ELSE old.generation
    <3>1. recent'[i] = recent[i]
      BY <2>3, <2>5, Zenon
    <3>2. CASE old.generation = 0
      <4>1. new.generation = 1 /\ Len(recent[i]) = 0 /\ recent[i] \in Seq(Int)
        BY <2>1, <2>5, <3>2 DEF Recalls
      <4>2. Recalls(recent[i], i, 1)
        BY <4>1, StoreBounds DEF Recalls
      <4> QED
        BY <3>1, <4>1, <4>2, Zenon DEF new
    <3>3. CASE old.generation # 0
      BY <2>1, <2>5, <3>1, <3>3, Zenon DEF new
    <3> QED
      BY <3>2, <3>3
  <2>6. CASE /\ old.active /\ ~new.active /\ old.generation # 0
             /\ new.generation = next_generation(old.generation)
    <3>1. old.generation \in 1 .. MaxGeneration
      BY <2>2, <2>6
    <3> HIDE DEF r
    <3>2. Recalls(IF Len(r) >= MaxGeneration THEN Tail(r) ELSE r, i,
                  next_generation(old.generation))
      BY <2>1, <3>1, RecallsMore, Zenon DEF r
    <3> QED
      BY <2>3, <2>6, <3>2, Zenon DEF new
  <2> QED
    BY <2>1, <2>4, <2>5, <2>6, Zenon DEF SlotTurns
<1> QED
  BY <1>1, <1>2, Zenon DEF HInv

\* The id of a removed set stays invalid through every later creation and
\* removal in its slot, until MaxGeneration - 1 more sets were removed there,
\* for every number of slots and generations.
THEOREM RemovedIdsStayInvalid == HistorySpec => []StaleIdsRejected
<1>1. HistoryInit => HInv
  <2> SUFFICES ASSUME HistoryInit PROVE HInv
    OBVIOUS
  <2>1. IInv
    BY InitOK DEF HistoryInit
  <2>2. ASSUME NEW i \in Slots, NEW g PROVE Recalls(recent[i], i, g)
    <3>1. recent[i] = <<>>
      BY Zenon DEF HistoryInit
    <3> QED
      BY <3>1, StoreBounds DEF Recalls
  <2> QED
    BY <2>1, <2>2, Zenon DEF HInv
<1>2. HInv /\ [HistoryNext]_hvars => HInv'
  <2>1. HInv /\ UNCHANGED hvars => HInv'
    BY Zenon DEF HInv, IInv, hvars
  <2> QED
    BY <2>1, HistoryStep, Zenon
<1>3. HInv => StaleIdsRejected
  <2> SUFFICES ASSUME HInv, NEW i \in Slots, NEW k \in DOMAIN recent[i]
               PROVE  ~found(store, recent[i][k])
    BY Zenon DEF StaleIdsRejected
  <2> DEFINE g == store.sets[i].generation
             n == Len(recent[i]) - k + 1
  <2>1. Recalls(recent[i], i, g)
    BY Zenon DEF HInv
  <2>2. g \in 0 .. MaxGeneration
    BY DEF HInv, IInv, StoreOK, StoreType, SemSet
  <2>3. k \in 1 .. Len(recent[i]) /\ n \in 1 .. MaxGeneration - 1 /\ g > 0
    <3>1. /\ recent[i] \in Seq(Int) /\ Len(recent[i]) < MaxGeneration
          /\ Len(recent[i]) > 0 => g > 0
      BY <2>1, Zenon DEF Recalls
    <3>2. k \in 1 .. Len(recent[i]) /\ Len(recent[i]) \in Nat
      BY <3>1
    <3>3. PICK m : m = Len(recent[i])
      BY Zenon
    <3>4. m \in Nat /\ k \in 1 .. m /\ m < MaxGeneration /\ (m > 0 => g > 0)
      BY <3>1, <3>2, <3>3, Zenon
    <3> HIDE DEF g
    <3>5. m - k + 1 \in 1 .. MaxGeneration - 1 /\ m > 0
      BY <3>4, StoreBounds
    <3> QED
      BY <3>3, <3>4, <3>5, Zenon
  <2>4. recent[i][k] = make_id(i, Back(g, n))
    BY <2>1, <2>3, Zenon DEF Recalls
  <2> HIDE DEF g, n
  <2>5. g \in 1 .. MaxGeneration
    BY <2>2, <2>3
  <2>6. Back(g, n) \in Nat /\ Back(g, n) # g
    BY <2>3, <2>5, BackSteps, Zenon
  <2> DEFINE id == make_id(i, Back(g, n))
  <2>7. id_index(id) = i /\ id_generation(id) = Back(g, n)
    BY <2>6, IdRoundTrip, Zenon
  <2> HIDE DEF id
  <2>8. ~found(store, id)
    BY <2>6, <2>7, Zenon DEF found, g
  <2> QED
    BY <2>4, <2>8, Zenon DEF id
<1> QED
  BY <1>1, <1>2, <1>3, PTL DEF HistorySpec
=============================================================================
