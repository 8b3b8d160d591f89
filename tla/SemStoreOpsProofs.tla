------------------------- MODULE SemStoreOpsProofs -------------------------
(***************************************************************************)
(* Every call of the state core keeps a store well formed: StoreOK holds   *)
(* of what it returns if it held of what it was given.  The lemmas are     *)
(* about store values, so they serve SemStore and SemBroker alike.         *)
(***************************************************************************)
EXTENDS SemStoreOps, WellFoundedInduction, FiniteSetTheorems, TLAPS

-----------------------------------------------------------------------------
(* The loops of the C code, which the models write as recursive functions  *)
(* on an interval 0..n.  The induction they rest on is stated for sets, so *)
(* that no proof has to instantiate an operator.                           *)

\* A nonempty set of naturals has a least element.
LEMMA LeastElement ==
  ASSUME NEW T, T \subseteq Nat, T # {}
  PROVE  \E x \in T : \A y \in T : x <= y
<1> DEFINE R == OpToRel(<, Nat)
<1>1. IsWellFoundedOn(R, Nat)
  BY NatLessThanWellFounded, Zenon
<1> HIDE DEF R
<1>2. \E x \in T : \A y \in T : ~ (<<y, x>> \in R)
  BY <1>1, WFMin, Zenon
<1>3. PICK x \in T : \A y \in T : ~ (<<y, x>> \in R)
  BY <1>2
<1>4. \A y \in T : ~(y < x)
  BY <1>3, Zenon DEF R, OpToRel
<1> QED
  BY <1>4

\* Induction on the naturals, for a set in place of a predicate.
LEMMA NatSetInduction ==
  ASSUME NEW S, 0 \in S, \A n \in Nat : n \in S => n + 1 \in S
  PROVE  Nat \subseteq S
<1> SUFFICES ASSUME Nat \ S # {} PROVE FALSE
  OBVIOUS
<1>1. PICK x \in Nat \ S : \A y \in Nat \ S : x <= y
  BY LeastElement, Zenon
<1>2. x # 0
  OBVIOUS
<1>3. x - 1 \in Nat /\ ~(x <= x - 1) /\ (x - 1) + 1 = x
  BY <1>2
<1>4. x - 1 \in S
  BY <1>1, <1>3
<1> QED
  BY <1>3, <1>4

\* The runs of a loop of n rounds over a set D of states: w[i] is the state
\* after i rounds, and g[i] what round i does.
Runs(D, a, n, g) ==
  {w \in [0 .. n -> D] : w[0] = a /\ \A i \in 1 .. n : w[i] = g[i][w[i - 1]]}

\* Every loop has a run.
LEMMA LoopRuns ==
  ASSUME NEW D, NEW a \in D, NEW n \in Nat, NEW g \in [1 .. n -> [D -> D]]
  PROVE  Runs(D, a, n, g) # {}
<1> DEFINE Good(m, w) == w[0] = a /\ \A i \in 1 .. m : w[i] = g[i][w[i - 1]]
           S == {m \in Nat : m <= n => \E w \in [0 .. m -> D] : Good(m, w)}
<1>1. 0 \in S
  <2>1. [i \in 0 .. 0 |-> a] \in [0 .. 0 -> D] /\ Good(0, [i \in 0 .. 0 |-> a])
    OBVIOUS
  <2> QED
    BY <2>1, Zenon
<1>2. ASSUME NEW m \in Nat, m \in S PROVE m + 1 \in S
  <2> SUFFICES ASSUME m + 1 <= n
               PROVE  \E w \in [0 .. m + 1 -> D] : Good(m + 1, w)
    OBVIOUS
  <2>1. PICK w \in [0 .. m -> D] : Good(m, w)
    BY <1>2
  <2> DEFINE b == g[m + 1][w[m]]
             v == [i \in 0 .. m + 1 |-> IF i = m + 1 THEN b ELSE w[i]]
  <2>2. b \in D
    OBVIOUS
  <2>3. v \in [0 .. m + 1 -> D]
    BY <2>2
  <2>4. Good(m + 1, v)
    BY <2>1
  <2> QED
    BY <2>3, <2>4, Zenon
<1>3. Nat \subseteq S
  <2> HIDE DEF S
  <2> QED
    BY <1>1, <1>2, NatSetInduction, Zenon
<1> QED
  BY <1>3 DEF Runs

\* What a loop's rounds preserve holds at its end.
LEMMA LoopInvariant ==
  ASSUME NEW n \in Nat, NEW D, NEW F, F[0] \in D[0],
         \A i \in 1 .. n : F[i - 1] \in D[i - 1] => F[i] \in D[i]
  PROVE  F[n] \in D[n]
<1> DEFINE S == {i \in Nat : i <= n => F[i] \in D[i]}
<1>1. 0 \in S
  OBVIOUS
<1>2. ASSUME NEW i \in Nat, i \in S PROVE i + 1 \in S
  <2> SUFFICES ASSUME i + 1 <= n PROVE F[i + 1] \in D[i + 1]
    OBVIOUS
  <2>1. F[i] \in D[i]
    BY <1>2
  <2>2. i + 1 \in 1 .. n /\ (i + 1) - 1 = i
    OBVIOUS
  <2> QED
    BY <2>1, <2>2, Zenon
<1>3. n \in S
  <2> HIDE DEF S
  <2> QED
    BY <1>1, <1>2, NatSetInduction, Zenon
<1> QED
  BY <1>3

-----------------------------------------------------------------------------
(* Identifiers.                                                            *)

\* make_id and decode_id are inverse: an id names one slot and generation.
LEMMA IdRoundTrip ==
  ASSUME NEW i \in Slots, NEW g \in Nat
  PROVE  /\ make_id(i, g) \in Nat \ {0}
         /\ id_index(make_id(i, g)) = i
         /\ id_generation(make_id(i, g)) = g
BY StoreBounds, SMT DEF make_id, id_index, id_generation, IdBase, Slots

\* Two ids that resolve to the same slot are the same id.
LEMMA FoundIdsDiffer ==
  ASSUME NEW st, NEW a \in Int, NEW b \in Int, found(st, a), found(st, b),
         id_index(a) = id_index(b)
  PROVE  a = b
<1>1. id_generation(a) = id_generation(b)
  BY DEF found
<1> QED
  BY <1>1, SMT DEF found, decodes, id_index, id_generation, IdBase

\* find_set: an id it accepts names a slot in use, and its generation.
LEMMA FoundSlot ==
  ASSUME NEW st, NEW a \in Int, found(st, a)
  PROVE  id_index(a) \in Slots
BY Zenon DEF found, decodes

\* A call that keeps which sets live, with which size, keeps every id.
LEMMA SameIds ==
  ASSUME NEW st, NEW new, NEW a \in Int, NEW s,
         \A i \in Slots : /\ new.sets[i].active = st.sets[i].active
                          /\ new.sets[i].generation = st.sets[i].generation
                          /\ new.sets[i].nsems = st.sets[i].nsems
  PROVE  /\ found(new, a) = found(st, a)
         /\ has_sem(new, a, s) = has_sem(st, a, s)
BY DEF found, decodes, has_sem, set_of

\* The slots and semaphores are intervals; an unused slot is a SemSet.
LEMMA Bounds ==
  /\ MaxSets \in Nat /\ MaxPerSet \in Nat /\ MaxValue \in Nat
  /\ MaxGeneration \in Nat /\ MaxGeneration >= 1
  /\ MaxWaitCount \in Nat /\ MaxUndoEntries \in Nat
  /\ Zeros \in [Sems -> Values] /\ Zeros \in [Sems -> Nat]
  /\ Zeros \in [Sems -> 0 .. MaxWaitCount]
BY StoreBounds DEF Zeros, Values

\* The numbers of a store are numbers.
LEMMA SmallNumbers ==
  /\ \A s \in Sems : s \in Nat /\ s \in Int
  /\ \A n \in 0 .. MaxPerSet : n \in Nat /\ n \in Int
  /\ \A g \in 0 .. MaxGeneration : g \in Nat
  /\ \A n \in 0 .. MaxWaitCount : n \in Nat /\ n \in Int
  /\ \A a \in Adjustments : a \in Int
  /\ 0 \in Int /\ 1 \in Int
BY Bounds DEF Sems, Adjustments

\* The order of the naturals, for the leaves that only compare generations.
LEMMA NatOrder ==
  /\ \A a \in Nat : a >= a
  /\ \A a, b \in Nat : a < b => ~(a >= b)
  /\ \A a, b, c \in Nat : a >= b /\ b >= c => a >= c
  /\ \A a, b, c \in Nat : a >= b /\ b > c => a > c
OBVIOUS

\* A generation that has not run out grows by one.
LEMMA GenerationGrows ==
  ASSUME NEW g \in Nat, g < MaxGeneration PROVE next_generation(g) = g + 1
BY Bounds DEF next_generation

\* What is answered in place of 0.
LEMMA Codes ==
  /\ TGC_SEM_OP_BLOCKED \in Int /\ TGC_SEM_OP_BLOCKED # 0
  /\ -EAGAIN \in Int /\ -EAGAIN # 0
  /\ -EINVAL \in Int /\ -EINVAL # 0
  /\ -ERANGE \in Int /\ -ENOSPC \in Int
BY DEF TGC_SEM_OP_BLOCKED, EAGAIN, EINVAL, ERANGE, ENOSPC

\* The semaphores below n are those of a set of n.
LEMMA SemOfSet ==
  ASSUME NEW n \in 0 .. MaxPerSet, NEW s \in Sems, ~(s >= n)
  PROVE  s \in 0 .. n - 1
BY Bounds DEF Sems

\* The cleared slot that remove leaves is a slot record.
LEMMA FreeSetType ==
  ASSUME NEW g \in 0 .. MaxGeneration
  PROVE  FreeSet(g) \in SemSet
BY Bounds DEF FreeSet, SemSet, IPC_PRIVATE, MaxMode

\* init: the empty store is well formed.
LEMMA EmptyStoreOK == StoreOK(EmptyStore)
<1>1. StoreType(EmptyStore)
  <2>1. FreeSet(0) \in SemSet
    BY FreeSetType, Bounds
  <2> QED
    BY <2>1 DEF StoreType, EmptyStore
<1>2. \A i \in Slots : EmptyStore.sets[i] = FreeSet(0)
  BY DEF EmptyStore
<1>3. EmptyStore.undo = {}
  BY Zenon DEF EmptyStore
<1>4. KeysUnique(EmptyStore)
  BY <1>2 DEF KeysUnique, FreeSet
<1>5. UndoFits(EmptyStore)
  BY <1>3, FS_EmptySet, Bounds DEF UndoFits
<1>6. OwnSemsOnly(EmptyStore)
  BY <1>2 DEF OwnSemsOnly, FreeSet, Zeros
<1> QED
  BY <1>1, <1>3, <1>4, <1>5, <1>6, Zenon DEF StoreOK, UndoLive, UndoUnique

-----------------------------------------------------------------------------
(* Calls that keep the table of sets in shape.                             *)

\* Same sets, no new adjustments, no semaphore beyond nsems touched: enough.
LEMMA ShapeKept ==
  ASSUME NEW st, StoreOK(st), NEW new, StoreType(new), OwnSemsOnly(new),
         new.undo \subseteq st.undo,
         \A i \in Slots : /\ new.sets[i].active = st.sets[i].active
                          /\ new.sets[i].generation = st.sets[i].generation
                          /\ new.sets[i].nsems = st.sets[i].nsems
                          /\ new.sets[i].key = st.sets[i].key
  PROVE  StoreOK(new)
<1>1. KeysUnique(new)
  BY DEF KeysUnique, StoreOK
<1>2. UndoLive(new)
  <2> SUFFICES ASSUME NEW e \in new.undo PROVE has_sem(new, e.semid, e.semnum)
    BY DEF UndoLive
  <2>1. e \in st.undo /\ e.semid \in Int
    BY Zenon DEF StoreOK, StoreType, UndoEntry
  <2>2. has_sem(st, e.semid, e.semnum)
    BY <2>1, Zenon DEF StoreOK, UndoLive
  <2> QED
    BY <2>1, <2>2, SameIds
<1>3. UndoUnique(new)
  BY Zenon DEF UndoUnique, StoreOK
<1>4. UndoFits(new)
  <2>1. IsFiniteSet(st.undo) /\ Cardinality(st.undo) <= MaxUndoEntries
    BY Zenon DEF StoreOK, UndoFits
  <2>2. /\ IsFiniteSet(new.undo)
        /\ Cardinality(new.undo) <= Cardinality(st.undo)
        /\ Cardinality(new.undo) \in Nat /\ Cardinality(st.undo) \in Nat
    BY <2>1, FS_Subset, FS_CardinalityType, Zenon
  <2> QED
    BY <2>1, <2>2, Bounds DEF UndoFits
<1> QED
  BY <1>1, <1>2, <1>3, <1>4 DEF StoreOK

\* The common case: one slot gets a new record that keeps its shape.
LEMMA SlotUpdated ==
  ASSUME NEW st, StoreOK(st), NEW i \in Slots, NEW set \in SemSet,
         set.active = st.sets[i].active, set.key = st.sets[i].key,
         set.generation = st.sets[i].generation,
         set.nsems = st.sets[i].nsems,
         \A s \in Sems : s >= set.nsems =>
           /\ set.values[s] = 0 /\ set.last_pids[s] = 0
           /\ set.negative_waiters[s] = 0 /\ set.zero_waiters[s] = 0,
         NEW undo \in SUBSET st.undo
  PROVE  StoreOK([sets |-> [st.sets EXCEPT ![i] = set], undo |-> undo])
<1> DEFINE new == [sets |-> [st.sets EXCEPT ![i] = set], undo |-> undo]
<1>1. st.sets \in [Slots -> SemSet] /\ st.undo \subseteq UndoEntry
  BY Zenon DEF StoreOK, StoreType
<1>2. /\ new.undo = undo /\ new.sets[i] = set
      /\ \A j \in Slots : j # i => new.sets[j] = st.sets[j]
  BY <1>1, Zenon
<1>3. StoreType(new)
  BY <1>1 DEF StoreType
<1> HIDE DEF new
<1>4. OwnSemsOnly(new)
  <2> SUFFICES ASSUME NEW j \in Slots, NEW s \in Sems, s >= new.sets[j].nsems
               PROVE  /\ new.sets[j].values[s] = 0
                      /\ new.sets[j].last_pids[s] = 0
                      /\ new.sets[j].negative_waiters[s] = 0
                      /\ new.sets[j].zero_waiters[s] = 0
    BY Zenon DEF OwnSemsOnly
  <2>1. CASE j = i
    BY <2>1, <1>2, Zenon
  <2>2. CASE j # i
    BY <2>2, <1>2 DEF StoreOK, OwnSemsOnly
  <2> QED
    BY <2>1, <2>2, Zenon
<1>5. \A j \in Slots : /\ new.sets[j].active = st.sets[j].active
                       /\ new.sets[j].generation = st.sets[j].generation
                       /\ new.sets[j].nsems = st.sets[j].nsems
                       /\ new.sets[j].key = st.sets[j].key
  BY <1>2, Zenon
<1>6. StoreOK(new)
  BY <1>2, <1>3, <1>4, <1>5, ShapeKept, Zenon
<1> QED
  BY <1>6, Zenon DEF new

\* What StoreOK says of the set an id resolves to.
LEMMA FoundSet ==
  ASSUME NEW st, StoreOK(st), NEW semid \in Int, found(st, semid)
  PROVE  /\ id_index(semid) \in Slots
         /\ set_of(st, semid) = st.sets[id_index(semid)]
         /\ set_of(st, semid) \in SemSet
         /\ \A s \in Sems : s >= set_of(st, semid).nsems =>
              /\ set_of(st, semid).values[s] = 0
              /\ set_of(st, semid).last_pids[s] = 0
              /\ set_of(st, semid).negative_waiters[s] = 0
              /\ set_of(st, semid).zero_waiters[s] = 0
<1>1. id_index(semid) \in Slots
  BY FoundSlot
<1>2. set_of(st, semid) = st.sets[id_index(semid)]
  BY DEF set_of
<1>3. st.sets \in [Slots -> SemSet]
  BY DEF StoreOK, StoreType
<1> QED
  BY <1>1, <1>2, <1>3, Zenon DEF StoreOK, OwnSemsOnly

\* An index below nsems is an index of the arrays.
LEMMA HasSem ==
  ASSUME NEW st, StoreOK(st), NEW semid \in Int, NEW semnum \in Nat,
         has_sem(st, semid, semnum)
  PROVE  /\ found(st, semid) /\ semnum \in Sems
         /\ semnum < set_of(st, semid).nsems
<1>1. found(st, semid) /\ semnum \in 0 .. set_of(st, semid).nsems - 1
  BY DEF has_sem
<1>2. set_of(st, semid).nsems \in 0 .. MaxPerSet
  BY <1>1, FoundSet DEF SemSet
<1> QED
  BY <1>1, <1>2, Bounds DEF Sems

\* setval keeps the store well formed, and changes nothing when it is refused.
LEMMA SetvalOK ==
  ASSUME NEW st, StoreOK(st), NEW semid \in Int, NEW semnum \in Nat,
         NEW value \in Nat, NEW pid \in Nat
  PROVE  LET r == setval(st, semid, semnum, value, pid)
         IN  /\ StoreOK(r.store) /\ r.result \in Int
             /\ r.result < 0 => r.store = st
<1> DEFINE i == id_index(semid)
           undo == clear_undo_entries(st.undo, semid, {semnum})
           set == [st.sets[i] EXCEPT !.values[semnum] = value,
                                     !.last_pids[semnum] = pid]
           new == [sets |-> [st.sets EXCEPT ![i] = set], undo |-> undo]
<1>1. CASE ~has_sem(st, semid, semnum)
  BY <1>1 DEF setval, Returns, EINVAL
<1>2. CASE has_sem(st, semid, semnum) /\ value > MaxValue
  BY <1>2 DEF setval, Returns, ERANGE
<1>3. CASE has_sem(st, semid, semnum) /\ ~(value > MaxValue)
  <2>1. /\ i \in Slots /\ st.sets[i] \in SemSet /\ semnum \in Sems
        /\ semnum < st.sets[i].nsems /\ value \in Values
        /\ \A s \in Sems : s >= st.sets[i].nsems =>
             /\ st.sets[i].values[s] = 0 /\ st.sets[i].last_pids[s] = 0
             /\ st.sets[i].negative_waiters[s] = 0
             /\ st.sets[i].zero_waiters[s] = 0
    BY <1>3, HasSem, FoundSet, Bounds DEF Values
  <2>2. st.sets \in [Slots -> SemSet]
    BY Zenon DEF StoreOK, StoreType
  <2>3. setval(st, semid, semnum, value, pid) = Returns(new, 0)
    BY <1>3, <2>1, <2>2, Zenon DEF setval
  <2>4. /\ set \in SemSet
        /\ set.active = st.sets[i].active /\ set.key = st.sets[i].key
        /\ set.generation = st.sets[i].generation
        /\ set.nsems = st.sets[i].nsems
        /\ \A s \in Sems : s # semnum =>
             /\ set.values[s] = st.sets[i].values[s]
             /\ set.last_pids[s] = st.sets[i].last_pids[s]
        /\ set.negative_waiters = st.sets[i].negative_waiters
        /\ set.zero_waiters = st.sets[i].zero_waiters
    BY <2>1, Zenon DEF SemSet
  <2>5. undo \in SUBSET st.undo
    BY DEF clear_undo_entries
  <2> HIDE DEF set, undo, i
  <2>6. \A s \in Sems : s >= set.nsems =>
           /\ set.values[s] = 0 /\ set.last_pids[s] = 0
           /\ set.negative_waiters[s] = 0 /\ set.zero_waiters[s] = 0
    <3>1. set.nsems \in Nat /\ \A s \in Sems : s \in Nat
      BY <2>4, SmallNumbers, Zenon DEF SemSet
    <3>2. \A s \in Sems : s >= set.nsems => s # semnum
      BY <2>1, <2>4, <3>1
    <3> QED
      BY <2>1, <2>4, <3>2, Zenon
  <2>7. StoreOK(new)
    BY <2>1, <2>4, <2>5, <2>6, SlotUpdated, Zenon
  <2> QED
    BY <2>3, <2>7 DEF Returns
<1> QED
  BY <1>1, <1>2, <1>3, Zenon

\* setall keeps the store well formed: it writes the first nsems values only.
LEMMA SetallOK ==
  ASSUME NEW st, StoreOK(st), NEW semid \in Int, NEW values \in Seq(Nat),
         NEW pid \in Nat
  PROVE  LET r == setall(st, semid, values, pid)
         IN  /\ StoreOK(r.store) /\ r.result \in Int
             /\ r.result < 0 => r.store = st
<1> DEFINE i == id_index(semid)
           n == Len(values)
           undo == clear_undo_entries(st.undo, semid, Sems)
           vals == [s \in Sems |-> IF s < n THEN values[s + 1] ELSE 0]
           pids == [s \in Sems |-> IF s < n THEN pid ELSE 0]
           set == [st.sets[i] EXCEPT !.values = vals, !.last_pids = pids]
           new == [sets |-> [st.sets EXCEPT ![i] = set], undo |-> undo]
<1>1. CASE ~found(st, semid) \/ n # set_of(st, semid).nsems
  BY <1>1 DEF setall, Returns, EINVAL
<1>2. CASE /\ ~(~found(st, semid) \/ n # set_of(st, semid).nsems)
           /\ \E k \in 1 .. n : values[k] > MaxValue
  BY <1>2 DEF setall, Returns, ERANGE
<1>3. CASE /\ ~(~found(st, semid) \/ n # set_of(st, semid).nsems)
           /\ ~ \E k \in 1 .. n : values[k] > MaxValue
  <2>1. /\ i \in Slots /\ st.sets[i] \in SemSet /\ n = st.sets[i].nsems
        /\ \A s \in Sems : s >= st.sets[i].nsems =>
             /\ st.sets[i].values[s] = 0 /\ st.sets[i].last_pids[s] = 0
             /\ st.sets[i].negative_waiters[s] = 0
             /\ st.sets[i].zero_waiters[s] = 0
    BY <1>3, FoundSet
  <2>2. st.sets \in [Slots -> SemSet]
    BY Zenon DEF StoreOK, StoreType
  <2>3. setall(st, semid, values, pid) = Returns(new, 0)
    BY <1>3, <2>1, <2>2, Zenon DEF setall
  <2>4. vals \in [Sems -> Values]
    <3> SUFFICES ASSUME NEW s \in Sems
                 PROVE  (IF s < n THEN values[s + 1] ELSE 0) \in Values
      OBVIOUS
    <3>1. s \in Nat
      BY Bounds DEF Sems
    <3>2. CASE s < n
      <4>1. s + 1 \in 1 .. n
        BY <3>1, <3>2
      <4>2. values[s + 1] \in Nat /\ ~(values[s + 1] > MaxValue)
        BY <1>3, <4>1
      <4> QED
        BY <3>2, <4>2, Bounds DEF Values
    <3>3. CASE ~(s < n)
      BY <3>3, Bounds DEF Values
    <3> QED
      BY <3>2, <3>3
  <2>5. pids \in [Sems -> Nat]
    OBVIOUS
  <2>6. undo \in SUBSET st.undo
    BY DEF clear_undo_entries
  <2>7. \A s \in Sems : s >= n => vals[s] = 0 /\ pids[s] = 0
    BY Bounds DEF Sems
  <2> HIDE DEF vals, pids, undo, i
  <2>8. /\ set \in SemSet
        /\ set.active = st.sets[i].active /\ set.key = st.sets[i].key
        /\ set.generation = st.sets[i].generation
        /\ set.nsems = st.sets[i].nsems
        /\ set.values = vals /\ set.last_pids = pids
        /\ set.negative_waiters = st.sets[i].negative_waiters
        /\ set.zero_waiters = st.sets[i].zero_waiters
    BY <2>1, <2>4, <2>5, Zenon DEF SemSet
  <2> HIDE DEF set
  <2>9. \A s \in Sems : s >= set.nsems =>
           /\ set.values[s] = 0 /\ set.last_pids[s] = 0
           /\ set.negative_waiters[s] = 0 /\ set.zero_waiters[s] = 0
    BY <2>1, <2>7, <2>8
  <2>10. StoreOK(new)
    BY <2>1, <2>6, <2>8, <2>9, SlotUpdated, ZenonT(40)
  <2> QED
    BY <2>3, <2>10 DEF Returns
<1> QED
  BY <1>1, <1>2, <1>3, Zenon

\* set_metadata changes the owner and mode of one set and nothing else.
LEMMA SetMetadataOK ==
  ASSUME NEW st, StoreOK(st), NEW semid \in Int, NEW uid \in Nat,
         NEW gid \in Nat, NEW mode \in Nat, NEW who
  PROVE  LET r == set_metadata(st, semid, uid, gid, mode, who)
         IN  /\ StoreOK(r.store) /\ r.result \in Int
             /\ r.result < 0 => r.store = st
<1> DEFINE i == id_index(semid)
           set == [st.sets[i] EXCEPT !.gid = gid, !.mode = mode]
           new == [sets |-> [st.sets EXCEPT ![i] = set], undo |-> st.undo]
           r == set_metadata(st, semid, uid, gid, mode, who)
<1>1. CASE r = Returns(st, -EINVAL) \/ r = Returns(st, -EPERM)
  BY <1>1 DEF Returns, EINVAL, EPERM
<1>2. CASE found(st, semid) /\ mode <= MaxMode
           /\ r = Returns([st EXCEPT !.sets[i] = set], 0)
  <2>1. /\ i \in Slots /\ st.sets[i] \in SemSet
        /\ \A s \in Sems : s >= st.sets[i].nsems =>
             /\ st.sets[i].values[s] = 0 /\ st.sets[i].last_pids[s] = 0
             /\ st.sets[i].negative_waiters[s] = 0
             /\ st.sets[i].zero_waiters[s] = 0
    BY <1>2, FoundSet
  <2>2. st \in [sets : [Slots -> SemSet], undo : SUBSET UndoEntry]
    BY DEF StoreOK, StoreType
  <2>3. r = Returns(new, 0)
    <3>1. [st EXCEPT !.sets[i] = set] = new
      BY <2>2
    <3> QED
      BY <1>2, <3>1, Zenon
  <2>4. mode \in 0 .. MaxMode
    BY <1>2 DEF MaxMode
  <2> HIDE DEF i, r
  <2>5. /\ set \in SemSet
        /\ set.active = st.sets[i].active /\ set.key = st.sets[i].key
        /\ set.generation = st.sets[i].generation
        /\ set.nsems = st.sets[i].nsems
        /\ set.values = st.sets[i].values
        /\ set.last_pids = st.sets[i].last_pids
        /\ set.negative_waiters = st.sets[i].negative_waiters
        /\ set.zero_waiters = st.sets[i].zero_waiters
    BY <2>1, <2>4, Zenon DEF SemSet
  <2> HIDE DEF set
  <2>6. StoreOK(new)
    BY <2>1, <2>5, SlotUpdated
  <2>7. StoreOK(r.store) /\ r.result = 0
    BY <2>3, <2>6 DEF Returns
  <2> QED
    BY <2>7 DEF r
<1>3. mode > MaxMode \/ mode <= MaxMode
  BY DEF MaxMode
<1> QED
  BY <1>1, <1>2, <1>3 DEF set_metadata, set_of

\* adjust_wait_count: the counts stay natural numbers.
LEMMA AdjustWaitCountOK ==
  ASSUME NEW st, StoreOK(st), NEW semid \in Int, NEW semnum \in Nat,
         NEW zero \in BOOLEAN, NEW delta \in Int
  PROVE  LET r == adjust_wait_count(st, semid, semnum, zero, delta)
         IN  /\ StoreOK(r.store) /\ r.result \in Int
             /\ r.result < 0 => r.store = st
<1> DEFINE i == id_index(semid)
           count == counter(set_of(st, semid), zero)[semnum] + delta
           set == with_count(st.sets[i], zero, semnum, count)
           new == [sets |-> [st.sets EXCEPT ![i] = set], undo |-> st.undo]
<1>1. CASE ~has_sem(st, semid, semnum)
  BY <1>1 DEF adjust_wait_count, Returns, EINVAL
<1>2. CASE has_sem(st, semid, semnum) /\ count \notin 0 .. MaxWaitCount
  BY <1>2 DEF adjust_wait_count, Returns, ERANGE
<1>3. CASE has_sem(st, semid, semnum) /\ count \in 0 .. MaxWaitCount
  <2>1. /\ i \in Slots /\ st.sets[i] \in SemSet /\ semnum \in Sems
        /\ semnum < st.sets[i].nsems /\ set_of(st, semid) = st.sets[i]
        /\ \A s \in Sems : s >= st.sets[i].nsems =>
             /\ st.sets[i].values[s] = 0 /\ st.sets[i].last_pids[s] = 0
             /\ st.sets[i].negative_waiters[s] = 0
             /\ st.sets[i].zero_waiters[s] = 0
    BY <1>3, HasSem, FoundSet
  <2>2. st \in [sets : [Slots -> SemSet], undo : SUBSET UndoEntry]
    BY Zenon DEF StoreOK, StoreType
  <2>3. adjust_wait_count(st, semid, semnum, zero, delta) = Returns(new, 0)
    BY <1>3, <2>1, <2>2 DEF adjust_wait_count
  <2> HIDE DEF count, i
  <2>4. /\ set \in SemSet
        /\ set.active = st.sets[i].active /\ set.key = st.sets[i].key
        /\ set.generation = st.sets[i].generation
        /\ set.nsems = st.sets[i].nsems
        /\ set.values = st.sets[i].values
        /\ set.last_pids = st.sets[i].last_pids
        /\ \A s \in Sems : s # semnum =>
             /\ set.negative_waiters[s] = st.sets[i].negative_waiters[s]
             /\ set.zero_waiters[s] = st.sets[i].zero_waiters[s]
    <3>1. CASE zero
      BY <3>1, <2>1, <1>3, Zenon DEF SemSet, with_count
    <3>2. CASE ~zero
      BY <3>2, <2>1, <1>3, Zenon DEF SemSet, with_count
    <3> QED
      BY <3>1, <3>2, Zenon
  <2> HIDE DEF set
  <2>5. \A s \in Sems : s >= set.nsems =>
           /\ set.values[s] = 0 /\ set.last_pids[s] = 0
           /\ set.negative_waiters[s] = 0 /\ set.zero_waiters[s] = 0
    <3>1. set.nsems \in Nat /\ \A s \in Sems : s \in Nat
      BY <2>4, SmallNumbers, Zenon DEF SemSet
    <3>2. \A s \in Sems : s >= set.nsems => s # semnum
      BY <2>1, <2>4, <3>1
    <3> QED
      BY <2>1, <2>4, <3>2
  <2>6. StoreOK(new)
    BY <2>1, <2>4, <2>5, SlotUpdated, Zenon
  <2> QED
    BY <2>3, <2>6 DEF Returns
<1> QED
  BY <1>1, <1>2, <1>3, Zenon

-----------------------------------------------------------------------------
(* Calls that create and remove sets.                                      *)

\* The first slot a search finds belongs to the slots it searched.
LEMMA SmallestIn ==
  ASSUME NEW S \in SUBSET Slots, S # {}
  PROVE  Smallest(S) \in S
<1>1. S \subseteq Nat
  BY Bounds DEF Slots
<1>2. \E x \in S : \A y \in S : x <= y
  BY <1>1, LeastElement, Zenon
<1> QED
  BY <1>2, Zenon DEF Smallest

\* remove: the slot is cleared together with every adjustment of its id.
LEMMA RemoveOK ==
  ASSUME NEW st, StoreOK(st), NEW semid \in Int
  PROVE  LET r == remove(st, semid)
         IN  /\ StoreOK(r.store) /\ r.result \in Int
             /\ r.result < 0 => r.store = st
<1>1. CASE ~found(st, semid)
  BY <1>1 DEF remove, Returns, EINVAL
<1>2. CASE found(st, semid)
  <2> DEFINE i == id_index(semid)
             set == FreeSet(next_generation(st.sets[i].generation))
             undo == clear_undo_entries(st.undo, semid, Sems)
             new == [sets |-> [st.sets EXCEPT ![i] = set], undo |-> undo]
  <2>1. /\ i \in Slots /\ st.sets[i] \in SemSet
        /\ st.sets \in [Slots -> SemSet] /\ st.undo \subseteq UndoEntry
    BY <1>2, FoundSet DEF StoreOK, StoreType
  <2>2. remove(st, semid) = Returns(new, 0)
    BY <1>2, <2>1, Zenon DEF remove
  <2>3. next_generation(st.sets[i].generation) \in 0 .. MaxGeneration
    BY <2>1, Bounds DEF next_generation, SemSet
  <2>4. /\ set \in SemSet /\ ~set.active /\ set.nsems = 0
        /\ \A s \in Sems : /\ set.values[s] = 0 /\ set.last_pids[s] = 0
                           /\ set.negative_waiters[s] = 0
                           /\ set.zero_waiters[s] = 0
    BY <2>3, FreeSetType DEF FreeSet, Zeros
  <2>5. undo \subseteq st.undo
    BY DEF clear_undo_entries
  <2>6. \A e \in undo : e.semid # semid
    BY <2>1, <2>5, Zenon DEF clear_undo_entries, UndoEntry
  <2> HIDE DEF set, undo
  <2>7. /\ new.undo = undo /\ new.sets[i] = set
        /\ \A j \in Slots : j # i => new.sets[j] = st.sets[j]
    BY <2>1, Zenon
  <2>8. StoreType(new)
    BY <2>1, <2>4, <2>5, Zenon DEF StoreType
  <2> HIDE DEF new
  <2>9. KeysUnique(new)
    BY <2>4, <2>7 DEF KeysUnique, StoreOK
  <2>10. UndoLive(new)
    <3> SUFFICES ASSUME NEW e \in undo
                 PROVE  has_sem(new, e.semid, e.semnum)
      BY <2>7, Zenon DEF UndoLive
    <3>1. /\ has_sem(st, e.semid, e.semnum) /\ e.semid \in Int
          /\ e.semid # semid
      BY <2>1, <2>5, <2>6, Zenon DEF StoreOK, UndoLive, UndoEntry
    <3>2. id_index(e.semid) # i /\ id_index(e.semid) \in Slots
      BY <1>2, <3>1, FoundIdsDiffer, FoundSlot, Zenon DEF has_sem
    <3> QED
      BY <3>1, <3>2, <2>7, Zenon DEF has_sem, found, set_of
  <2>11. UndoUnique(new)
    BY <2>5, <2>7, Zenon DEF UndoUnique, StoreOK
  <2>12. UndoFits(new)
    BY <2>5, <2>7, FS_Subset, FS_CardinalityType, Bounds
       DEF UndoFits, StoreOK
  <2>13. OwnSemsOnly(new)
    BY <2>4, <2>7 DEF OwnSemsOnly, StoreOK
  <2>14. StoreOK(new)
    BY <2>8, <2>9, <2>10, <2>11, <2>12, <2>13, Zenon DEF StoreOK
  <2> QED
    BY <2>2, <2>14 DEF Returns
<1> QED
  BY <1>1, <1>2, Zenon

\* get with a free slot: the new set is empty and its key was not in use.
LEMMA GetNewOK ==
  ASSUME NEW st, StoreOK(st), NEW i \in Slots, ~st.sets[i].active,
         NEW key \in Int, keyed_slots(st, key) = {},
         NEW nsems \in 1 .. MaxPerSet,
         NEW flags, flags.mode \in 0 .. MaxMode,
         NEW who, who.uid \in Nat, who.gid \in Nat
  PROVE  LET r == get_new(st, i, key, nsems, flags, who)
         IN  StoreOK(r.store) /\ r.result \in Nat
<1> DEFINE g == IF st.sets[i].generation = 0 THEN 1
                ELSE st.sets[i].generation
           set == new_set(st.sets[i], key, nsems, flags, who)
           new == [sets |-> [st.sets EXCEPT ![i] = set], undo |-> st.undo]
<1>1. /\ st \in [sets : [Slots -> SemSet], undo : SUBSET UndoEntry]
      /\ st.sets[i] \in SemSet
  BY Zenon DEF StoreOK, StoreType
<1>2. g \in 0 .. MaxGeneration
  BY <1>1, Bounds DEF SemSet
<1>3. /\ set \in SemSet /\ set.active /\ set.nsems = nsems /\ set.key = key
      /\ set.generation = g
      /\ \A s \in Sems : /\ set.values[s] = 0 /\ set.last_pids[s] = 0
                         /\ set.negative_waiters[s] = 0
                         /\ set.zero_waiters[s] = 0
  <2>1. FreeSet(g) \in SemSet
    BY <1>2, FreeSetType
  <2>2. nsems \in 0 .. MaxPerSet
    BY Bounds
  <2>3. /\ FreeSet(g).generation = g
        /\ \A s \in Sems : /\ FreeSet(g).values[s] = 0
                           /\ FreeSet(g).last_pids[s] = 0
                           /\ FreeSet(g).negative_waiters[s] = 0
                           /\ FreeSet(g).zero_waiters[s] = 0
    BY DEF FreeSet, Zeros
  <2>4. set = [FreeSet(g) EXCEPT !.active = TRUE, !.key = key, !.nsems = nsems,
                 !.uid = who.uid, !.gid = who.gid, !.cuid = who.uid,
                 !.cgid = who.gid, !.mode = flags.mode]
    BY DEF new_set
  <2> HIDE DEF g, set
  <2> QED
    BY <2>1, <2>2, <2>3, <2>4, Zenon DEF SemSet
<1>4. get_new(st, i, key, nsems, flags, who)
        = Returns(new, make_id(i, set.generation))
  BY <1>1 DEF get_new
<1> HIDE DEF set, g
<1>5. /\ new.undo = st.undo /\ new.sets[i] = set
      /\ \A j \in Slots : j # i => new.sets[j] = st.sets[j]
  BY <1>1
<1>6. StoreType(new)
  BY <1>1, <1>3 DEF StoreType
<1> HIDE DEF new
<1>7. KeysUnique(new)
  <2> SUFFICES ASSUME NEW j \in Slots, NEW k \in Slots, j # k,
                      new.sets[j].active, new.sets[k].active,
                      new.sets[j].key = new.sets[k].key,
                      new.sets[j].key # IPC_PRIVATE
               PROVE  FALSE
    BY Zenon DEF KeysUnique
  <2>1. CASE j = i
    BY <2>1, <1>3, <1>5 DEF keyed_slots
  <2>2. CASE k = i
    BY <2>2, <1>3, <1>5 DEF keyed_slots
  <2>3. CASE j # i /\ k # i
    BY <2>3, <1>5, Zenon DEF StoreOK, KeysUnique
  <2> QED
    BY <2>1, <2>2, <2>3
<1>8. UndoLive(new)
  <2> SUFFICES ASSUME NEW e \in st.undo PROVE has_sem(new, e.semid, e.semnum)
    BY <1>5, Zenon DEF UndoLive
  <2>1. has_sem(st, e.semid, e.semnum) /\ e.semid \in Int
    BY <1>1, Zenon DEF StoreOK, UndoLive, UndoEntry
  <2>2. id_index(e.semid) \in Slots /\ id_index(e.semid) # i
    BY <2>1, FoundSlot, Zenon DEF has_sem, found
  <2> QED
    BY <2>1, <2>2, <1>5, Zenon DEF has_sem, found, set_of
<1>9. UndoUnique(new) /\ UndoFits(new)
  BY <1>5, Zenon DEF UndoUnique, UndoFits, StoreOK
<1>10. OwnSemsOnly(new)
  BY <1>3, <1>5 DEF OwnSemsOnly, StoreOK
<1>11. StoreOK(new)
  BY <1>6, <1>7, <1>8, <1>9, <1>10, Zenon DEF StoreOK
<1>12. make_id(i, set.generation) \in Nat
  BY <1>2, <1>3, IdRoundTrip, Bounds
<1> QED
  BY <1>4, <1>11, <1>12 DEF Returns

\* get, all of its cases.
LEMMA GetAsOK ==
  ASSUME NEW st, StoreOK(st), NEW key \in Int, NEW nsems \in Int,
         NEW flags, flags.mode \in 0 .. MaxMode,
         NEW who, who.uid \in Nat, who.gid \in Nat, NEW oom
  PROVE  LET r == get_as(st, key, nsems, flags, who, oom)
         IN  /\ StoreOK(r.store) /\ r.result \in Int
             /\ r.result < 0 => r.store = st
<1> DEFINE K == keyed_slots(st, key)
           k == Smallest(K)
           free == free_slots(st)
<1>1. CASE K # {}
  <2>1. k \in Slots
    BY <1>1, SmallestIn, Zenon DEF keyed_slots
  <2>2. st.sets[k].generation \in Nat
    BY <2>1, Bounds DEF StoreOK, StoreType, SemSet
  <2>3. make_id(k, st.sets[k].generation) \in Int
    BY <2>1, <2>2, IdRoundTrip
  <2>4. get_as(st, key, nsems, flags, who, oom)
          = get_existing(st, k, nsems, flags)
    BY <1>1, Zenon DEF get_as
  <2> HIDE DEF k
  <2> QED
    BY <2>3, <2>4 DEF get_existing, Returns, EEXIST, EINVAL
<1>2. CASE K = {} /\ get_as(st, key, nsems, flags, who, oom) \in
             {Returns(st, -ENOENT), Returns(st, -EINVAL),
              Returns(st, -ENOSPC), Returns(st, -ENOMEM)}
  BY <1>2 DEF Returns, ENOENT, EINVAL, ENOSPC, ENOMEM
<1>3. CASE /\ K = {} /\ free # {} /\ ~(nsems <= 0 \/ nsems > MaxPerSet)
           /\ get_as(st, key, nsems, flags, who, oom)
                = get_new(st, Smallest(free), key, nsems, flags, who)
  <2>1. Smallest(free) \in Slots /\ ~st.sets[Smallest(free)].active
    BY <1>3, SmallestIn, Zenon DEF free_slots
  <2>2. nsems \in 1 .. MaxPerSet
    BY <1>3, Bounds
  <2>3. LET r == get_new(st, Smallest(free), key, nsems, flags, who)
        IN  StoreOK(r.store) /\ r.result \in Nat
    BY <1>3, <2>1, <2>2, GetNewOK, Zenon
  <2> QED
    BY <1>3, <2>3
<1> QED
  BY <1>1, <1>2, <1>3, Zenon DEF get_as

-----------------------------------------------------------------------------
(* Process exit.                                                           *)

\* process_exit clamps the restored value to the range of a semaphore.
LEMMA ExitValueOK ==
  ASSUME NEW st, StoreOK(st), NEW pid, NEW i \in Slots, NEW s \in Sems
  PROVE  /\ exit_value(st, pid, i, s) \in Values
         /\ s >= st.sets[i].nsems => /\ exit_value(st, pid, i, s) = 0
                                     /\ exit_entries(st, pid, i, s) = {}
<1> DEFINE E == exit_entries(st, pid, i, s)
           v == st.sets[i].values[s]
<1>1. st.sets[i] \in SemSet /\ st.undo \subseteq UndoEntry
  BY Zenon DEF StoreOK, StoreType
<1>2. v \in Values /\ st.sets[i].nsems \in Int /\ s \in Int
  <2>1. /\ st.sets[i].values \in [Sems -> Values]
        /\ st.sets[i].nsems \in 0 .. MaxPerSet
    BY <1>1, Zenon DEF SemSet
  <2> QED
    BY <2>1, SmallNumbers, Zenon
<1>3. s >= st.sets[i].nsems => E = {} /\ v = 0
  BY <1>2 DEF exit_entries, StoreOK, OwnSemsOnly
<1>4. CASE E = {}
  BY <1>2, <1>3, <1>4, Zenon DEF exit_value
<1>5. CASE E # {}
  <2> DEFINE e == CHOOSE e \in E : TRUE
  <2>1. e \in E
    BY <1>5, Zenon
  <2>2. e \in UndoEntry
    BY <1>1, <2>1, Zenon DEF exit_entries
  <2>3. e.adjustment \in Int
    BY <2>2, Bounds DEF UndoEntry, Adjustments
  <2>4. exit_value(st, pid, i, s) = clamp(v + e.adjustment)
    BY <1>5, Zenon DEF exit_value
  <2> HIDE DEF e, v, E
  <2>5. clamp(v + e.adjustment) \in Values
    BY <1>2, <2>3, Bounds DEF clamp, Values
  <2> QED
    BY <1>3, <1>5, <2>4, <2>5, Zenon DEF E
<1> QED
  BY <1>4, <1>5, Zenon

\* process_exit: the values stay in range and the process's entries go.
LEMMA ProcessExitOK ==
  ASSUME NEW st, StoreOK(st), NEW pid \in Nat
  PROVE  LET r == process_exit(st, pid)
         IN  /\ StoreOK(r.store) /\ r.result \in 0 .. 1
<1> DEFINE P(i) == [s \in Sems |-> IF exit_entries(st, pid, i, s) = {}
                                   THEN st.sets[i].last_pids[s] ELSE pid]
           V(i) == [s \in Sems |-> exit_value(st, pid, i, s)]
           set(i) == [st.sets[i] EXCEPT !.values = V(i), !.last_pids = P(i)]
           new == [sets |-> [i \in Slots |-> set(i)],
                   undo |-> {e \in st.undo : e.pid # pid}]
<1>1. st.sets \in [Slots -> SemSet] /\ st.undo \subseteq UndoEntry
  BY DEF StoreOK, StoreType
<1>2. process_exit(st, pid).store = new
  BY DEF process_exit, Returns
<1>3. process_exit(st, pid).result \in 0 .. 1
  BY DEF process_exit, Returns
<1>4. ASSUME NEW i \in Slots
      PROVE  /\ set(i) \in SemSet
             /\ set(i).active = st.sets[i].active
             /\ set(i).generation = st.sets[i].generation
             /\ set(i).nsems = st.sets[i].nsems
             /\ set(i).key = st.sets[i].key
             /\ \A s \in Sems : s >= st.sets[i].nsems =>
                  /\ set(i).values[s] = 0 /\ set(i).last_pids[s] = 0
                  /\ set(i).negative_waiters[s] = 0
                  /\ set(i).zero_waiters[s] = 0
  <2>1. st.sets[i] \in SemSet
    BY <1>1
  <2>2. V(i) \in [Sems -> Values]
    BY ExitValueOK
  <2>3. P(i) \in [Sems -> Nat]
    BY <2>1, Zenon DEF SemSet
  <2>4. ASSUME NEW s \in Sems, s >= st.sets[i].nsems
        PROVE  /\ V(i)[s] = 0 /\ P(i)[s] = 0
               /\ st.sets[i].negative_waiters[s] = 0
               /\ st.sets[i].zero_waiters[s] = 0
    BY <2>4, ExitValueOK DEF StoreOK, OwnSemsOnly
  <2> HIDE DEF V, P
  <2> QED
    BY <2>1, <2>2, <2>3, <2>4, Zenon DEF SemSet
<1> HIDE DEF set
<1>5. new.undo \subseteq st.undo /\ \A i \in Slots : new.sets[i] = set(i)
  OBVIOUS
<1>6. StoreType(new)
  BY <1>1, <1>4, Zenon DEF StoreType
<1> HIDE DEF new
<1>7. OwnSemsOnly(new)
  BY <1>4, <1>5 DEF OwnSemsOnly
<1>8. StoreOK(new)
  BY <1>4, <1>5, <1>6, <1>7, ShapeKept
<1> QED
  BY <1>2, <1>3, <1>8, Zenon

Reasons == [sem_num : Sems, wait_for_zero : BOOLEAN]
OpRec == [sem_num : Nat, sem_op : Int, nowait : BOOLEAN, undo : BOOLEAN]

\* The states of the first two loops, for a set of n semaphores and for
\* operations that undo on the semaphores U only.
Work(n) == {w \in [result : Int, values : [Sems -> Values],
                   reason : Reasons] :
              /\ \A s \in Sems : s >= n => w.values[s] = 0
              /\ n > 0 => w.reason.sem_num < n}

Deltas(U) == {d \in [result : Int, deltas : [Sems -> Adjustments]] :
                \A s \in Sems : d.deltas[s] # 0 => s \in U}

\* A round of the first loop changes one value and leaves it in range.
LEMMA ApplyType ==
  ASSUME NEW n \in 0 .. MaxPerSet, NEW w \in Work(n),
         NEW op \in OpRec, op.sem_num < n
  PROVE  apply_op(w, op) \in Work(n)
<1> DEFINE v == w.values[op.sem_num]
<1>1. /\ w \in [result : Int, values : [Sems -> Values], reason : Reasons]
      /\ \A s \in Sems : s >= n => w.values[s] = 0
      /\ n > 0 => w.reason.sem_num < n
  BY DEF Work
<1>2. op.sem_num \in Sems /\ \A s \in Sems : s >= n => s # op.sem_num
  BY Bounds DEF Sems, OpRec
<1>3. v \in Values /\ v \in Int /\ op.sem_op \in Int /\ w.result \in Int
  BY <1>1, <1>2, Bounds DEF OpRec, Values
<1>4. CASE w.result # 0
  BY <1>4, Zenon DEF apply_op
<1>5. CASE w.result = 0 /\ would_block(v, op.sem_op)
  <2> DEFINE r == IF op.nowait THEN -EAGAIN ELSE TGC_SEM_OP_BLOCKED
             e == [sem_num |-> op.sem_num, wait_for_zero |-> op.sem_op = 0]
  <2>1. r \in Int
    BY DEF EAGAIN, TGC_SEM_OP_BLOCKED
  <2>2. e \in Reasons /\ e.sem_num < n
    BY <1>2 DEF Reasons
  <2>3. apply_op(w, op) = [w EXCEPT !.result = r, !.reason = e]
    BY <1>5 DEF apply_op
  <2> HIDE DEF r, e
  <2> QED
    BY <1>1, <2>1, <2>2, <2>3, Zenon DEF Work
<1>6. CASE /\ w.result = 0 /\ ~would_block(v, op.sem_op)
           /\ v + op.sem_op > MaxValue
  <2>1. apply_op(w, op) = [w EXCEPT !.result = -ERANGE]
    BY <1>6 DEF apply_op
  <2> QED
    BY <1>1, <2>1 DEF Work, ERANGE
<1>7. CASE /\ w.result = 0 /\ ~would_block(v, op.sem_op)
           /\ ~(v + op.sem_op > MaxValue)
  <2>1. apply_op(w, op) = [w EXCEPT !.values[op.sem_num] = v + op.sem_op]
    BY <1>7 DEF apply_op
  <2>2. v + op.sem_op \in Values
    BY <1>3, <1>7, Bounds DEF would_block, Values
  <2> HIDE DEF v
  <2> QED
    BY <1>1, <1>2, <2>1, <2>2 DEF Work
<1> QED
  BY <1>4, <1>5, <1>6, <1>7, Zenon

\* The working copy: in range throughout, and zero behind nsems.
LEMMA WorkingType ==
  ASSUME NEW n \in 0 .. MaxPerSet, NEW v \in [Sems -> Values],
         \A s \in Sems : s >= n => v[s] = 0,
         NEW ops \in Seq(OpRec), \A k \in 1 .. Len(ops) : ops[k].sem_num < n
  PROVE  working(v, ops) \in Work(n)
<1> DEFINE m == Len(ops)
           a == [result |-> 0, values |-> v, reason |-> NoReason]
           g == [i \in 1 .. m |-> [x \in Work(n) |-> apply_op(x, ops[i])]]
           D == [i \in 0 .. m |-> Work(n)]
           Def(w) == [i \in 0 .. m |-> IF i = 0 THEN a
                                       ELSE apply_op(w[i - 1], ops[i])]
           F == CHOOSE w : w = Def(w)
<1>1. a \in Work(n)
  <2>1. NoReason \in Reasons /\ NoReason.sem_num = 0
    BY StoreBounds DEF NoReason, Reasons, Sems
  <2> QED
    BY <2>1 DEF Work
<1>2. m \in Nat /\ \A i \in 1 .. m : ops[i] \in OpRec /\ ops[i].sem_num < n
  OBVIOUS
<1>3. \A i \in 1 .. m : \A x \in Work(n) : apply_op(x, ops[i]) \in Work(n)
  BY <1>2, ApplyType, Zenon
<1> HIDE DEF m, a
<1>4. g \in [1 .. m -> [Work(n) -> Work(n)]]
  BY <1>3, Zenon
<1>5. PICK w \in [0 .. m -> Work(n)] :
        w[0] = a /\ \A i \in 1 .. m : w[i] = g[i][w[i - 1]]
  <2> DEFINE W == Work(n)
  <2>1. a \in W /\ m \in Nat /\ g \in [1 .. m -> [W -> W]]
    BY <1>1, <1>2, <1>4, Zenon
  <2> HIDE DEF g, W, Def, F
  <2>2. Runs(W, a, m, g) # {}
    BY <2>1, LoopRuns, Zenon
  <2> QED
    BY <2>2, Zenon DEF W, Runs
<1>6. ASSUME NEW i \in 1 .. m PROVE w[i] = apply_op(w[i - 1], ops[i])
  <2>1. w[i - 1] \in Work(n)
    BY <1>2
  <2>2. g[i] = [x \in Work(n) |-> apply_op(x, ops[i])]
    BY Zenon
  <2>3. w[i] = g[i][w[i - 1]]
    BY <1>5, Zenon
  <2> HIDE DEF g
  <2> QED
    BY <2>1, <2>2, <2>3, Zenon
<1>7. w = Def(w)
  BY <1>2, <1>5, <1>6
<1>8. F = Def(F)
  <2> HIDE DEF Def
  <2> QED
    BY <1>7
<1>9. working(v, ops) = F[m]
  BY DEF working, m, a
<1> HIDE DEF F
<1>10. F[0] = a /\ \A i \in 1 .. m : F[i] = apply_op(F[i - 1], ops[i])
  BY <1>2, <1>8
<1>11. F[0] \in D[0] /\ \A i \in 1 .. m : F[i - 1] \in D[i - 1] => F[i] \in D[i]
  BY <1>1, <1>2, <1>3, <1>10
<1>12. F[m] \in D[m]
  <2> HIDE DEF D
  <2> QED
    BY <1>2, <1>11, LoopInvariant, Zenon
<1> QED
  BY <1>2, <1>9, <1>12

\* A round of the second loop: the sum is range checked before it is kept.
LEMMA AddDeltaType ==
  ASSUME NEW U, NEW d \in Deltas(U), NEW op \in OpRec, op.sem_num \in Sems,
         op.undo => op.sem_num \in U
  PROVE  add_delta(d, op) \in Deltas(U)
<1> DEFINE delta == d.deltas[op.sem_num] - op.sem_op
<1>1. /\ d \in [result : Int, deltas : [Sems -> Adjustments]]
      /\ \A s \in Sems : d.deltas[s] # 0 => s \in U
  BY Zenon DEF Deltas
<1>3. CASE d.result # 0 \/ ~op.undo
  BY <1>3, Zenon DEF add_delta
<1>4. CASE ~(d.result # 0 \/ ~op.undo) /\ delta \notin Adjustments
  <2>1. add_delta(d, op) = [d EXCEPT !.result = -ERANGE]
    BY <1>4, Zenon DEF add_delta
  <2> QED
    BY <1>1, <2>1 DEF Deltas, ERANGE
<1>5. CASE ~(d.result # 0 \/ ~op.undo) /\ delta \in Adjustments
  <2>1. add_delta(d, op) = [d EXCEPT !.deltas[op.sem_num] = delta]
    BY <1>5, Zenon DEF add_delta
  <2> HIDE DEF delta
  <2> QED
    BY <1>1, <1>5, <2>1, Zenon DEF Deltas
<1> QED
  BY <1>3, <1>4, <1>5, Zenon

\* The second loop as a whole: every accumulated delta is in range.
LEMMA UndoDeltasType ==
  ASSUME NEW U, NEW ops \in Seq(OpRec),
         \A k \in 1 .. Len(ops) : /\ ops[k].sem_num \in Sems
                                  /\ ops[k].undo => ops[k].sem_num \in U
  PROVE  undo_deltas(ops) \in Deltas(U)
<1> DEFINE m == Len(ops)
           a == [result |-> 0, deltas |-> Zeros]
           g == [i \in 1 .. m |-> [x \in Deltas(U) |-> add_delta(x, ops[i])]]
           D == [i \in 0 .. m |-> Deltas(U)]
           Def(w) == [i \in 0 .. m |-> IF i = 0 THEN a
                                       ELSE add_delta(w[i - 1], ops[i])]
           F == CHOOSE w : w = Def(w)
<1>1. a \in Deltas(U)
  <2>1. Zeros \in [Sems -> Adjustments] /\ \A s \in Sems : Zeros[s] = 0
    BY Bounds DEF Zeros, Adjustments
  <2> QED
    BY <2>1 DEF Deltas
<1>2. m \in Nat /\ \A i \in 1 .. m : ops[i] \in OpRec
  OBVIOUS
<1>3. \A i \in 1 .. m : \A x \in Deltas(U) : add_delta(x, ops[i]) \in Deltas(U)
  <2> SUFFICES ASSUME NEW i \in 1 .. m, NEW x \in Deltas(U)
               PROVE  add_delta(x, ops[i]) \in Deltas(U)
    BY Zenon
  <2>1. /\ ops[i] \in OpRec /\ ops[i].sem_num \in Sems
        /\ ops[i].undo => ops[i].sem_num \in U
    BY <1>2, Zenon
  <2> QED
    BY <2>1, AddDeltaType, Zenon
<1> HIDE DEF m, a
<1>4. g \in [1 .. m -> [Deltas(U) -> Deltas(U)]]
  BY <1>3, Zenon
<1>5. PICK w \in [0 .. m -> Deltas(U)] :
        w[0] = a /\ \A i \in 1 .. m : w[i] = g[i][w[i - 1]]
  <2> DEFINE W == Deltas(U)
  <2>1. a \in W /\ m \in Nat /\ g \in [1 .. m -> [W -> W]]
    BY <1>1, <1>2, <1>4, Zenon
  <2> HIDE DEF g, W, Def, F
  <2>2. Runs(W, a, m, g) # {}
    BY <2>1, LoopRuns, Zenon
  <2> QED
    BY <2>2, Zenon DEF W, Runs
<1>6. ASSUME NEW i \in 1 .. m PROVE w[i] = add_delta(w[i - 1], ops[i])
  <2>1. w[i - 1] \in Deltas(U)
    BY <1>2
  <2>2. g[i] = [x \in Deltas(U) |-> add_delta(x, ops[i])]
    BY Zenon
  <2>3. w[i] = g[i][w[i - 1]]
    BY <1>5, Zenon
  <2> HIDE DEF g
  <2> QED
    BY <2>1, <2>2, <2>3, Zenon
<1>7. w = Def(w)
  BY <1>2, <1>5, <1>6
<1>8. F = Def(F)
  <2> HIDE DEF Def
  <2> QED
    BY <1>7
<1>9. undo_deltas(ops) = F[m]
  BY DEF undo_deltas, m, a
<1> HIDE DEF F
<1>10. F[0] = a /\ \A i \in 1 .. m : F[i] = add_delta(F[i - 1], ops[i])
  BY <1>2, <1>8
<1>11. F[0] \in D[0] /\ \A i \in 1 .. m : F[i - 1] \in D[i - 1] => F[i] \in D[i]
  BY <1>1, <1>2, <1>3, <1>10
<1>12. F[m] \in D[m]
  <2> HIDE DEF D
  <2> QED
    BY <1>2, <1>11, LoopInvariant
<1> QED
  BY <1>2, <1>9, <1>12

-----------------------------------------------------------------------------
(* The undo table.                                                         *)

\* The undo tables the last loop could build, sums in range or not.
Entries == [pid : Nat, semid : Int, semnum : Sems, adjustment : Int]
Tables == [result : Int, undo : SUBSET Entries]

\* The semaphores of a call whose adjustment has no entry yet.
Required(undo, pid, semid, deltas) ==
  {s \in Sems : deltas[s] # 0 /\ undo_entries(undo, pid, semid, s) = {}}

\* The loop invariant of the last loop after k rounds: no error yet, the
\* entries of semaphores k and up are the old ones, and there is still room
\* for each of those that needs a new entry.
Committed(undo, pid, semid, deltas, k) ==
  {u \in [result : {0}, undo : SUBSET UndoEntry] :
     /\ \A e, f \in u.undo :
          e.pid = f.pid /\ e.semid = f.semid /\ e.semnum = f.semnum => e = f
     /\ \A e \in u.undo : \/ e \in undo
                          \/ /\ e.pid = pid /\ e.semid = semid
                             /\ deltas[e.semnum] # 0
     /\ \A s \in Sems : s >= k => undo_entries(u.undo, pid, semid, s)
                                    = undo_entries(undo, pid, semid, s)
     /\ IsFiniteSet(u.undo)
     /\ Cardinality(u.undo)
          + Cardinality({s \in Required(undo, pid, semid, deltas) : s >= k})
          <= MaxUndoEntries}

\* A recorded adjustment, zero without an entry, is an integer.
LEMMA RecordedInt ==
  ASSUME NEW undo \in SUBSET Entries, NEW pid, NEW semid, NEW s
  PROVE  recorded(undo, pid, semid, s) \in Int
<1> DEFINE E == undo_entries(undo, pid, semid, s)
<1>1. CASE E = {}
  BY <1>1 DEF recorded
<1>2. CASE E # {}
  <2>1. (CHOOSE e \in E : TRUE) \in Entries
    BY <1>2, Zenon DEF undo_entries
  <2> QED
    BY <1>2, <2>1, Zenon DEF recorded, Entries
<1> QED
  BY <1>1, <1>2, Zenon

\* A round of the last loop keeps the table a finite set of undo entries.
LEMMA CommitRoundType ==
  ASSUME NEW u \in Tables, NEW pid \in Nat, NEW semid \in Int,
         NEW s \in Sems, NEW delta \in Int
  PROVE  commit_undo_entry(u, pid, semid, s, delta) \in Tables
<1> DEFINE sum == recorded(u.undo, pid, semid, s) + delta
           new == [pid |-> pid, semid |-> semid, semnum |-> s,
                   adjustment |-> sum]
           old == undo_entries(u.undo, pid, semid, s)
<1>1. new \in Entries
  <2>1. sum \in Int
    BY RecordedInt DEF Tables
  <2> HIDE DEF sum
  <2> QED
    BY <2>1, Zenon DEF Entries
<1>2. commit_undo_entry(u, pid, semid, s, delta) \in
        {u, [u EXCEPT !.result = -ENOSPC],
         [u EXCEPT !.undo = (@ \ old) \cup (IF sum = 0 THEN {} ELSE {new})]}
  BY DEF commit_undo_entry
<1> HIDE DEF new, sum, old
<1> QED
  BY <1>1, <1>2 DEF Tables, ENOSPC

\* A set of semaphores is finite.
LEMMA SemsFinite ==
  ASSUME NEW S \in SUBSET Sems
  PROVE  IsFiniteSet(S) /\ Cardinality(S) \in Nat
<1>1. IsFiniteSet(Sems)
  BY FS_Interval, Bounds DEF Sems
<1> QED
  BY <1>1, FS_Subset, FS_CardinalityType, Zenon

\* One round of the last loop keeps its invariant: the late -ENOSPC cannot
\* happen, and the sum that is stored was range checked by the third loop.
LEMMA CommitRoundOK ==
  ASSUME NEW undo, NEW pid \in Nat, NEW semid \in Int,
         NEW deltas \in [Sems -> Adjustments], NEW s \in Sems,
         deltas[s] # 0 =>
           deltas[s] + recorded(undo, pid, semid, s) \in Adjustments,
         NEW u \in Committed(undo, pid, semid, deltas, s)
  PROVE  commit_undo_entry(u, pid, semid, s, deltas[s])
           \in Committed(undo, pid, semid, deltas, s + 1)
<1> DEFINE R == Required(undo, pid, semid, deltas)
           R0 == {x \in R : x >= s}
           R1 == {x \in R : x >= s + 1}
           sum == recorded(u.undo, pid, semid, s) + deltas[s]
           new == [pid |-> pid, semid |-> semid, semnum |-> s,
                   adjustment |-> sum]
           old == undo_entries(u.undo, pid, semid, s)
           add == IF sum = 0 THEN {} ELSE {new}
           res == commit_undo_entry(u, pid, semid, s, deltas[s])
<1>1. /\ u \in [result : {0}, undo : SUBSET UndoEntry]
      /\ \A e, f \in u.undo :
           e.pid = f.pid /\ e.semid = f.semid /\ e.semnum = f.semnum => e = f
      /\ \A e \in u.undo : \/ e \in undo
                           \/ /\ e.pid = pid /\ e.semid = semid
                              /\ deltas[e.semnum] # 0
      /\ \A x \in Sems : x >= s => undo_entries(u.undo, pid, semid, x)
                                     = undo_entries(undo, pid, semid, x)
      /\ IsFiniteSet(u.undo)
      /\ Cardinality(u.undo) + Cardinality(R0) <= MaxUndoEntries
  BY Zenon DEF Committed
<1>2. s \in Int /\ \A x \in Sems : x \in Int
  BY Bounds DEF Sems
<1>3. /\ R0 \in SUBSET Sems /\ R1 \in SUBSET Sems
      /\ IsFiniteSet(R0) /\ IsFiniteSet(R1)
      /\ Cardinality(R0) \in Nat /\ Cardinality(R1) \in Nat
      /\ Cardinality(u.undo) \in Nat
  <2>1. R0 \in SUBSET Sems /\ R1 \in SUBSET Sems
    BY Zenon DEF Required
  <2> QED
    BY <1>1, <2>1, SemsFinite, FS_CardinalityType, Zenon
<1>4. old = undo_entries(undo, pid, semid, s)
  BY <1>1, <1>2
<1>5. R1 = R0 \ {s}
  <2>1. \A x \in R : x \in Int
    BY <1>2, Zenon DEF Required
  <2> HIDE DEF R
  <2> QED
    BY <1>2, <2>1
<1>6. s \in R0 <=> deltas[s] # 0 /\ old = {}
  BY <1>2, <1>4 DEF Required
<1>7. Cardinality(R0) = Cardinality(R1) + (IF s \in R0 THEN 1 ELSE 0)
  <2> HIDE DEF R0, R1
  <2> QED
    BY <1>3, <1>5, FS_RemoveElement
<1>8. CASE deltas[s] = 0
  <2>1. res = u
    BY <1>8, Zenon DEF commit_undo_entry
  <2>2. R1 = R0
    BY <1>5, <1>6, <1>8, Zenon
  <2>3. \A x \in Sems : x >= s + 1 => x >= s
    BY <1>2
  <2> HIDE DEF res, R0, old
  <2>4. res \in Committed(undo, pid, semid, deltas, s + 1)
    BY <1>1, <2>1, <2>2, <2>3, Zenon DEF Committed
  <2> QED
    BY <2>4, Zenon DEF res
<1>9. CASE deltas[s] # 0
  <2>1. sum \in Adjustments
    <3>1. recorded(u.undo, pid, semid, s) = recorded(undo, pid, semid, s)
      BY <1>4 DEF recorded
    <3>2. recorded(u.undo, pid, semid, s) \in Int
      <4>1. u.undo \in SUBSET Entries
        BY <1>1, SmallNumbers, Zenon DEF UndoEntry, Entries
      <4> QED
        BY <4>1, RecordedInt, Zenon
    <3>3. deltas[s] \in Int
      BY SmallNumbers, Zenon
    <3> QED
      BY <1>9, <3>1, <3>2, <3>3
  <2>2. add \subseteq UndoEntry /\ \A e \in add : e = new
    <3>1. sum # 0 => new \in UndoEntry
      <4> HIDE DEF sum
      <4> QED
        BY <2>1, Zenon DEF UndoEntry
    <3> HIDE DEF new, sum
    <3> QED
      BY <3>1, Zenon
  <2>3. ~(old = {} /\ Cardinality(u.undo) >= MaxUndoEntries)
    <3> HIDE DEF R0, R1, old
    <3> QED
      BY <1>1, <1>3, <1>6, <1>7, <1>9, Bounds
  <2>4. res = [u EXCEPT !.undo = (@ \ old) \cup add]
    BY <1>1, <1>9, <2>3, Zenon DEF commit_undo_entry
  <2> DEFINE table == (u.undo \ old) \cup add
  <2>5. res \in [result : {0}, undo : SUBSET UndoEntry] /\ res.undo = table
    <3> HIDE DEF add, old, res
    <3> QED
      BY <1>1, <2>2, <2>4, Zenon
  <2> HIDE DEF res, add
  <2>6. \A e, f \in table :
          e.pid = f.pid /\ e.semid = f.semid /\ e.semnum = f.semnum => e = f
    <3>1. \A e \in u.undo \ old : e # new => ~(/\ e.pid = new.pid
                                               /\ e.semid = new.semid
                                               /\ e.semnum = new.semnum)
      BY <1>1, Zenon DEF undo_entries
    <3> HIDE DEF new, old
    <3> QED
      BY <1>1, <2>2, <3>1, Zenon
  <2>7. \A e \in table : \/ e \in undo
                         \/ /\ e.pid = pid /\ e.semid = semid
                            /\ deltas[e.semnum] # 0
    BY <1>1, <1>9, <2>2
  <2>8. ASSUME NEW x \in Sems, x >= s + 1
        PROVE  undo_entries(table, pid, semid, x)
                 = undo_entries(undo, pid, semid, x)
    <3>1. x >= s /\ x # s
      BY <1>2, <2>8
    <3>2. undo_entries(table, pid, semid, x)
            = undo_entries(u.undo, pid, semid, x)
      BY <2>2, <3>1 DEF undo_entries
    <3> QED
      BY <1>1, <3>1, <3>2, Zenon
  <2>9. /\ IsFiniteSet(table)
        /\ Cardinality(table) \in Nat
        /\ Cardinality(table) <= Cardinality(u.undo)
                                   + (IF old = {} THEN 1 ELSE 0)
    <3>1. /\ IsFiniteSet(u.undo \ old) /\ Cardinality(u.undo \ old) \in Nat
          /\ Cardinality(u.undo \ old) <= Cardinality(u.undo)
          /\ old # {} => Cardinality(u.undo \ old) # Cardinality(u.undo)
      <4>1. u.undo \ old \in SUBSET u.undo
        BY Zenon
      <4>2. old # {} => u.undo \ old # u.undo
        BY Zenon DEF undo_entries
      <4> HIDE DEF old
      <4> QED
        BY <1>1, <4>1, <4>2, FS_Subset, FS_CardinalityType, Zenon
    <3>2. table = u.undo \ old \/ table = (u.undo \ old) \cup {new}
      BY Zenon DEF add
    <3> HIDE DEF table, new, old
    <3>3. CASE table = u.undo \ old
      BY <1>3, <3>1, <3>3
    <3>4. CASE table = (u.undo \ old) \cup {new}
      <4>1. /\ IsFiniteSet(table)
            /\ Cardinality(table) = Cardinality(u.undo \ old)
               \/ Cardinality(table) = Cardinality(u.undo \ old) + 1
        BY <3>1, <3>4, FS_AddElement, Zenon
      <4> QED
        BY <1>3, <3>1, <4>1
    <3> QED
      BY <3>2, <3>3, <3>4, Zenon
  <2>10. Cardinality(table) + Cardinality(R1) <= MaxUndoEntries
    <3> HIDE DEF table, old, R0, R1
    <3> QED
      BY <1>1, <1>3, <1>6, <1>7, <1>9, <2>9, Bounds
  <2> HIDE DEF table
  <2>11. res \in Committed(undo, pid, semid, deltas, s + 1)
    BY <2>5, <2>6, <2>7, <2>8, <2>9, <2>10 DEF Committed
  <2> QED
    BY <2>11 DEF res
<1> QED
  BY <1>8, <1>9, Zenon

\* The third loop's answer 0 is what the last loop needs to start.
LEMMA CheckMeans ==
  ASSUME NEW st, StoreOK(st), NEW pid, NEW semid,
         NEW deltas \in [Sems -> Adjustments],
         undo_check(st, pid, semid, deltas) = 0
  PROVE  /\ \A s \in Sems : deltas[s] # 0 =>
              deltas[s] + recorded(st.undo, pid, semid, s) \in Adjustments
         /\ [result |-> 0, undo |-> st.undo]
              \in Committed(st.undo, pid, semid, deltas, 0)
<1> DEFINE touched == {s \in Sems : deltas[s] # 0}
           required == {s \in touched :
                          undo_entries(st.undo, pid, semid, s) = {}}
           R == Required(st.undo, pid, semid, deltas)
           bad == \E s \in touched :
             deltas[s] + recorded(st.undo, pid, semid, s) \notin Adjustments
<1>1. required = R
  BY DEF Required
<1>2. -ERANGE # 0 /\ -ENOSPC # 0
  BY DEF ERANGE, ENOSPC
<1>3. ~bad /\ ~(Cardinality(R) > MaxUndoEntries - Cardinality(st.undo))
  <2>1. undo_check(st, pid, semid, deltas) =
          IF bad THEN -ERANGE
          ELSE IF Cardinality(required)
                    > MaxUndoEntries - Cardinality(st.undo) THEN -ENOSPC
          ELSE 0
    BY Zenon DEF undo_check
  <2> HIDE DEF bad, required, R
  <2> QED
    BY <1>1, <1>2, <2>1
<1>4. /\ st.undo \in SUBSET UndoEntry /\ IsFiniteSet(st.undo)
      /\ Cardinality(st.undo) \in Nat
      /\ R \in SUBSET Sems /\ Cardinality(R) \in Nat
  <2>1. /\ st.undo \in SUBSET UndoEntry /\ IsFiniteSet(st.undo)
        /\ R \in SUBSET Sems
    BY DEF StoreOK, StoreType, UndoFits, Required
  <2> HIDE DEF R
  <2> QED
    BY <2>1, SemsFinite, FS_CardinalityType, Zenon
<1>5. {s \in R : s >= 0} = R
  <2>1. \A s \in Sems : s >= 0
    BY Bounds DEF Sems
  <2> HIDE DEF R
  <2> QED
    BY <1>4, <2>1, Zenon
<1>6. Cardinality(st.undo) + Cardinality({s \in R : s >= 0})
        <= MaxUndoEntries
  <2> HIDE DEF R
  <2> QED
    BY <1>3, <1>4, <1>5, Bounds
<1>7. [result |-> 0, undo |-> st.undo]
        \in Committed(st.undo, pid, semid, deltas, 0)
  BY <1>4, <1>6, Zenon DEF Committed, StoreOK, UndoUnique
<1> QED
  BY <1>3, <1>7, Zenon

\* The last loop as a whole: it ends without an error and with a sound table.
LEMMA CommitUndoOK ==
  ASSUME NEW st, StoreOK(st), NEW pid \in Nat, NEW semid \in Int,
         NEW deltas \in [Sems -> Adjustments],
         undo_check(st, pid, semid, deltas) = 0
  PROVE  commit_undo(st.undo, pid, semid, deltas)
           \in Committed(st.undo, pid, semid, deltas, MaxPerSet)
<1> DEFINE m == MaxPerSet
           a == [result |-> 0, undo |-> st.undo]
           round(x, i) == commit_undo_entry(x, pid, semid, i - 1, deltas[i - 1])
           g == [i \in 1 .. m |-> [x \in Tables |-> round(x, i)]]
           C(k) == Committed(st.undo, pid, semid, deltas, k)
           D == [k \in 0 .. m |-> C(k)]
           Def(w) == [i \in 0 .. m |-> IF i = 0 THEN a
                                       ELSE round(w[i - 1], i)]
           F == CHOOSE w : w = Def(w)
<1>1. a \in Tables /\ a \in C(0)
  <2>1. st.undo \subseteq Entries
    BY SmallNumbers, Zenon DEF StoreOK, StoreType, UndoEntry, Entries
  <2> QED
    BY <2>1, CheckMeans DEF Tables
<1>2. m \in Nat /\ \A i \in 1 .. m : i - 1 \in Sems /\ (i - 1) + 1 = i
  BY Bounds DEF Sems
<1>3. \A i \in 1 .. m : \A x \in Tables : round(x, i) \in Tables
  <2> SUFFICES ASSUME NEW i \in 1 .. m, NEW x \in Tables
               PROVE  round(x, i) \in Tables
    BY Zenon
  <2>1. deltas[i - 1] \in Int
    BY <1>2, SmallNumbers, Zenon
  <2> QED
    BY <1>2, <2>1, CommitRoundType, Zenon
<1>4. \A i \in 1 .. m : \A x \in C(i - 1) : round(x, i) \in C(i)
  <2> SUFFICES ASSUME NEW i \in 1 .. m, NEW x \in C(i - 1)
               PROVE  round(x, i) \in C(i)
    BY Zenon
  <2>1. deltas[i - 1] # 0 =>
          deltas[i - 1] + recorded(st.undo, pid, semid, i - 1) \in Adjustments
    BY <1>2, CheckMeans, Zenon
  <2>2. round(x, i) \in C((i - 1) + 1)
    BY <1>2, <2>1, CommitRoundOK
  <2> QED
    BY <1>2, <2>2, Zenon
<1>5. commit_undo(st.undo, pid, semid, deltas) = F[m]
  BY DEF commit_undo
<1> HIDE DEF a, round, C, m
<1>6. g \in [1 .. m -> [Tables -> Tables]]
  BY <1>3
<1>7. PICK w \in [0 .. m -> Tables] :
        w[0] = a /\ \A i \in 1 .. m : w[i] = g[i][w[i - 1]]
  <2> HIDE DEF g, Def, F
  <2>1. Runs(Tables, a, m, g) # {}
    BY <1>1, <1>2, <1>6, LoopRuns, Zenon
  <2> QED
    BY <2>1 DEF Runs
<1>8. ASSUME NEW i \in 1 .. m PROVE w[i] = round(w[i - 1], i)
  <2>1. w[i - 1] \in Tables
    BY <1>2
  <2>2. g[i] = [x \in Tables |-> round(x, i)]
    BY Zenon
  <2>3. w[i] = g[i][w[i - 1]]
    BY <1>7, Zenon
  <2> HIDE DEF g
  <2> QED
    BY <2>1, <2>2, <2>3
<1>9. w = Def(w)
  BY <1>2, <1>7, <1>8
<1>10. F = Def(F)
  <2> HIDE DEF Def
  <2> QED
    BY <1>9, Zenon
<1> HIDE DEF F
<1>11. F[0] = a /\ \A i \in 1 .. m : F[i] = round(F[i - 1], i)
  BY <1>2, <1>10
<1>12. F[0] \in D[0] /\ \A i \in 1 .. m : F[i - 1] \in D[i - 1] => F[i] \in D[i]
  BY <1>1, <1>2, <1>4, <1>11
<1>13. F[m] \in D[m]
  <2> HIDE DEF D
  <2> QED
    BY <1>2, <1>12, LoopInvariant, Zenon
<1> QED
  <2>1. m \in 0 .. m
    BY <1>2
  <2>2. D[m] = C(m)
    BY <2>1, Zenon
  <2> HIDE DEF D
  <2> QED
    BY <1>5, <1>13, <2>2, Zenon DEF C, m

\* Two stores with the same sets in the same slots.
SameSlots(st, new) ==
  \A i \in Slots : /\ new.sets[i].active = st.sets[i].active
                   /\ new.sets[i].generation = st.sets[i].generation

\* And with the same waiters.
SameCounts(st, new) ==
  \A i \in Slots : /\ new.sets[i].active = st.sets[i].active
                   /\ new.sets[i].generation = st.sets[i].generation
                   /\ new.sets[i].nsems = st.sets[i].nsems
                   /\ new.sets[i].negative_waiters = st.sets[i].negative_waiters
                   /\ new.sets[i].zero_waiters = st.sets[i].zero_waiters

\* The records of a store that pid's operations may leave: those there were,
\* and its own if an operation asks for that.
RecordsOwn(st, new, ops, pid) ==
  \A e \in new.undo : \/ e \in st.undo
                      \/ e.pid = pid /\ \E k \in 1 .. Len(ops) : ops[k].undo

\* A semop keeps the store well formed, and unless it returns 0 it has not
\* touched it: the error after the write (sem_store.c:613) is unreachable.  It
\* creates and removes no set, counts no waiter, and records adjustments for its
\* caller alone, and only if an operation asks for that.
LEMMA TryopOK ==
  ASSUME NEW st, StoreOK(st), NEW semid \in Int, NEW ops \in Seq(OpRec),
         NEW pid \in Nat
  PROVE  LET r == tryop(st, semid, ops, pid)
         IN  /\ StoreOK(r.store) /\ r.result \in Int
             /\ r.result # 0 => r.store = st
             /\ SameSlots(st, r.store) /\ SameCounts(st, r.store)
             /\ RecordsOwn(st, r.store, ops, pid)
<1> DEFINE i == id_index(semid)
           set == set_of(st, semid)
           n == set.nsems
           w == working(set.values, ops)
           d == undo_deltas(ops)
           check == undo_check(st, pid, semid, d.deltas)
           U == {s \in Sems : \E k \in 1 .. Len(ops) :
                                ops[k].undo /\ ops[k].sem_num = s}
           invalid == ~found(st, semid) \/ ops = <<>>
                      \/ \E k \in 1 .. Len(ops) : ops[k].sem_num >= n
<1>1. CASE invalid
  <2>1. tryop(st, semid, ops, pid) = Returns(st, -EINVAL)
    BY <1>1 DEF tryop
  <2>2. -EINVAL \in Int
    BY Codes, Zenon
  <2>3. /\ Returns(st, -EINVAL).result \in Int
        /\ Returns(st, -EINVAL).store = st
    BY <2>2, Zenon DEF Returns
  <2> HIDE DEF invalid
  <2> QED
    BY <2>1, <2>3, Zenon DEF SameSlots, SameCounts, RecordsOwn
<1>2. CASE ~invalid
  <2>1. /\ found(st, semid) /\ i \in Slots /\ set = st.sets[i]
        /\ set \in SemSet /\ n \in 0 .. MaxPerSet
        /\ set.values \in [Sems -> Values]
        /\ \A s \in Sems : s >= n => /\ set.values[s] = 0
                                     /\ set.last_pids[s] = 0
                                     /\ set.negative_waiters[s] = 0
                                     /\ set.zero_waiters[s] = 0
    <3>1. found(st, semid) /\ i \in Slots /\ set = st.sets[i]
      BY <1>2, FoundSlot DEF set_of
    <3>2. st.sets[i] \in SemSet
      BY <3>1, Zenon DEF StoreOK, StoreType
    <3> HIDE DEF i
    <3> QED
      BY <3>1, <3>2, ZenonT(40) DEF SemSet, StoreOK, OwnSemsOnly
  <2>2. \A k \in 1 .. Len(ops) : ops[k] \in OpRec /\ ops[k].sem_num < n
    <3>1. \A k \in 1 .. Len(ops) : ops[k] \in OpRec /\ ~(ops[k].sem_num >= n)
      BY <1>2
    <3> HIDE DEF n
    <3> QED
      BY <3>1, <2>1, Bounds DEF OpRec
  <2>3. w \in Work(n) /\ d \in Deltas(U)
    <3> HIDE DEF n, set
    <3>1. \A k \in 1 .. Len(ops) : ops[k].sem_num \in Sems
      <4>1. \A k \in 1 .. Len(ops) : ops[k].sem_num \in Nat /\ ops[k].sem_num < n
        BY <2>2, Zenon DEF OpRec
      <4>2. n \in 0 .. MaxPerSet
        BY <2>1, Zenon
      <4> QED
        BY <4>1, <4>2, Bounds DEF Sems
    <3>2. \A k \in 1 .. Len(ops) : ops[k].undo => ops[k].sem_num \in U
      BY <3>1, Zenon
    <3> HIDE DEF U
    <3> QED
      BY <2>1, <2>2, <3>1, <3>2, WorkingType, UndoDeltasType, Zenon
  <2>4. /\ w.result \in Int /\ d.result \in Int /\ check \in Int
    <3>1. w.result \in Int /\ d.result \in Int
      BY <2>3, Zenon DEF Work, Deltas
    <3>2. -ERANGE \in Int /\ -ENOSPC \in Int /\ 0 \in Int
      BY Codes, SmallNumbers, Zenon
    <3> QED
      BY <3>1, <3>2, Zenon DEF undo_check
  <2>5. tryop(st, semid, ops, pid) =
          IF w.result # 0 THEN Returns(st, w.result)
          ELSE IF d.result # 0 THEN Returns(st, d.result)
          ELSE IF check # 0 THEN Returns(st, check)
          ELSE commit(st, semid, ops, w.values, d.deltas, pid)
    BY <1>2 DEF tryop
  <2>6. CASE check # 0 \/ w.result # 0 \/ d.result # 0
    <3> HIDE DEF w, d, check
    <3>1. PICK x \in Int : tryop(st, semid, ops, pid) = Returns(st, x)
      BY <2>4, <2>5, <2>6, Zenon
    <3>2. SameSlots(st, st) /\ SameCounts(st, st) /\ RecordsOwn(st, st, ops, pid)
      BY Zenon DEF SameSlots, SameCounts, RecordsOwn
    <3> QED
      BY <3>1, <3>2 DEF Returns
  <2>7. CASE check = 0 /\ w.result = 0 /\ d.result = 0
    <3> DEFINE u == commit_undo(st.undo, pid, semid, d.deltas)
               nums == {ops[k].sem_num : k \in 1 .. Len(ops)}
               pids == [s \in Sems |-> IF s \in nums THEN pid
                                       ELSE set.last_pids[s]]
               new == [st.sets[i] EXCEPT !.values = w.values,
                                         !.last_pids = pids]
    <3>1. /\ d.deltas \in [Sems -> Adjustments]
          /\ \A s \in Sems : d.deltas[s] # 0 => s \in U
          /\ \A s \in Sems : s >= n => d.deltas[s] = 0
      <4>1. /\ d.deltas \in [Sems -> Adjustments]
            /\ \A s \in Sems : d.deltas[s] # 0 => s \in U
        BY <2>3, Zenon DEF Deltas
      <4>2. \A s \in U : ~(s >= n)
        <5>1. ASSUME NEW s \in U, s >= n PROVE FALSE
          <6>1. PICK k \in 1 .. Len(ops) : ops[k].sem_num = s
            BY <5>1, Zenon
          <6>2. ops[k].sem_num \in Nat /\ ops[k].sem_num < n
            BY <2>2, ZenonT(40) DEF OpRec
          <6> HIDE DEF n, U
          <6> QED
            BY <2>1, <5>1, <6>1, <6>2, Bounds
        <5> QED
          BY <5>1, ZenonT(40)
      <4> HIDE DEF d, n, U
      <4> QED
        BY <4>1, <4>2, Zenon
    <3>2. u \in Committed(st.undo, pid, semid, d.deltas, MaxPerSet)
      <4> HIDE DEF d
      <4> QED
        BY <2>7, <3>1, CommitUndoOK
    <3>3. tryop(st, semid, ops, pid) =
            Returns([sets |-> [st.sets EXCEPT ![i] = new], undo |-> u.undo],
                    u.result)
      <4>1. tryop(st, semid, ops, pid)
              = commit(st, semid, ops, w.values, d.deltas, pid)
        BY <2>5, <2>7
      <4> HIDE DEF w, d
      <4> QED
        BY <2>1, <4>1, ZenonT(40) DEF commit
    <3>4. /\ w.values \in [Sems -> Values]
          /\ \A s \in Sems : s >= n => w.values[s] = 0
      BY <2>3, ZenonT(40) DEF Work
    <3>5. /\ pids \in [Sems -> Nat]
          /\ \A s \in Sems : s >= n => pids[s] = 0
      <4>1. ASSUME NEW s \in Sems, s >= n PROVE s \notin nums
        <5>1. ASSUME NEW k \in 1 .. Len(ops) PROVE ops[k].sem_num # s
          <6>1. ops[k].sem_num \in Nat /\ ops[k].sem_num < n
            BY <2>2, Zenon DEF OpRec
          <6> HIDE DEF n
          <6> QED
            BY <2>1, <4>1, <6>1, Bounds DEF Sems
        <5> QED
          BY <5>1, Zenon
      <4>2. set.last_pids \in [Sems -> Nat]
        BY <2>1, Zenon DEF SemSet
      <4> HIDE DEF nums, set
      <4> QED
        BY <2>1, <4>1, <4>2, Zenon
    <3> HIDE DEF w, d, u, pids
    <3>6. /\ new \in SemSet /\ new.active = set.active /\ new.key = set.key
          /\ new.generation = set.generation /\ new.nsems = n
          /\ new.negative_waiters = set.negative_waiters
          /\ new.zero_waiters = set.zero_waiters
          /\ \A s \in Sems : s >= n => /\ new.values[s] = 0
                                       /\ new.last_pids[s] = 0
                                       /\ new.negative_waiters[s] = 0
                                       /\ new.zero_waiters[s] = 0
      <4> HIDE DEF set, i
      <4> QED
        BY <2>1, <3>4, <3>5, Zenon DEF SemSet, n
    <3> HIDE DEF new
    <3> DEFINE mid == [sets |-> [st.sets EXCEPT ![i] = new],
                       undo |-> st.undo]
               end == [sets |-> [st.sets EXCEPT ![i] = new],
                       undo |-> u.undo]
    <3>7. StoreOK(mid)
      <4> HIDE DEF i, set
      <4> QED
        BY <2>1, <3>6, SlotUpdated, ZenonT(40) DEF n
    <3>8. /\ u.result = 0 /\ u.undo \in SUBSET UndoEntry
          /\ IsFiniteSet(u.undo) /\ Cardinality(u.undo) <= MaxUndoEntries
          /\ \A e, f \in u.undo :
               e.pid = f.pid /\ e.semid = f.semid /\ e.semnum = f.semnum
                 => e = f
          /\ \A e \in u.undo : \/ e \in st.undo
                               \/ /\ e.pid = pid /\ e.semid = semid
                                  /\ d.deltas[e.semnum] # 0
      <4> DEFINE R == {s \in Required(st.undo, pid, semid, d.deltas) :
                         s >= MaxPerSet}
      <4>1. R \in SUBSET Sems
        BY Zenon DEF Required
      <4>2. Cardinality(R) \in Nat
        BY <4>1, SemsFinite, Zenon
      <4>3. /\ u.result = 0 /\ u.undo \in SUBSET UndoEntry
            /\ IsFiniteSet(u.undo)
            /\ Cardinality(u.undo) + Cardinality(R) <= MaxUndoEntries
        BY <3>2, Zenon DEF Committed
      <4>4. Cardinality(u.undo) <= MaxUndoEntries
        <5> HIDE DEF R
        <5> QED
          BY <4>2, <4>3, FS_CardinalityType, Bounds
      <4> QED
        BY <3>2, <4>3, <4>4 DEF Committed
    <3>9. /\ mid.sets = end.sets /\ end.undo = u.undo /\ mid.undo = st.undo
          /\ end \in [sets : {mid.sets}, undo : {u.undo}]
      BY Zenon
    <3>10. set_of(mid, semid).nsems = n /\ found(mid, semid)
      <4>1. mid.sets[i] = new
        BY <2>1 DEF StoreOK, StoreType
      <4> QED
        BY <2>1, <3>6, <4>1, ZenonT(40) DEF found, set_of
    <3> HIDE DEF mid, end
    <3>11. StoreType(end)
      BY <3>7, <3>8, <3>9, Zenon DEF StoreOK, StoreType
    <3>12. UndoLive(end)
      <4> SUFFICES ASSUME NEW e \in u.undo
                   PROVE  has_sem(end, e.semid, e.semnum)
        BY <3>9, Zenon DEF UndoLive
      <4>1. has_sem(mid, e.semid, e.semnum)
        <5>1. CASE e \in st.undo
          BY <3>7, <3>9, <5>1, Zenon DEF StoreOK, UndoLive
        <5>2. CASE e.semid = semid /\ d.deltas[e.semnum] # 0
          <6>1. e.semnum \in Sems /\ ~(e.semnum >= n)
            BY <3>1, <3>8, <5>2, ZenonT(40) DEF UndoEntry
          <6>2. e.semnum \in 0 .. n - 1
            <7>1. n \in 0 .. MaxPerSet
              BY <2>1, Zenon
            <7> HIDE DEF n
            <7> QED
              BY <6>1, <7>1, SemOfSet, Zenon
          <6> QED
            BY <3>10, <5>2, <6>2, Zenon DEF has_sem
        <5> QED
          BY <3>8, <5>1, <5>2, Zenon
      <4> QED
        BY <3>9, <4>1, Zenon DEF has_sem, found, set_of
    <3>13. KeysUnique(end) /\ OwnSemsOnly(end)
      <4>1. KeysUnique(mid) /\ OwnSemsOnly(mid)
        BY <3>7, Zenon DEF StoreOK
      <4>2. \A j \in Slots : end.sets[j] = mid.sets[j]
        BY <3>9, Zenon
      <4> QED
        BY <4>1, <4>2 DEF KeysUnique, OwnSemsOnly
    <3>14. UndoUnique(end) /\ UndoFits(end)
      BY <3>8, <3>9, Zenon DEF UndoUnique, UndoFits
    <3>15. StoreOK(end)
      BY <3>11, <3>12, <3>13, <3>14, ZenonT(40) DEF StoreOK
    <3>16. SameSlots(st, end) /\ SameCounts(st, end)
      <4>1. st.sets \in [Slots -> SemSet]
        BY DEF StoreOK, StoreType
      <4>2. end.sets = [st.sets EXCEPT ![i] = new]
        BY Zenon DEF end
      <4> HIDE DEF i, set
      <4> QED
        BY <2>1, <3>6, <4>1, <4>2, Zenon DEF SameSlots, SameCounts, n
    <3>17. \A e \in u.undo : \/ e \in st.undo
                             \/ e.pid = pid /\ \E k \in 1 .. Len(ops) : ops[k].undo
      <4>1. \A e \in u.undo : e.semnum \in Sems
        BY <3>8, Zenon DEF UndoEntry
      <4>2. \A s \in U : \E k \in 1 .. Len(ops) : ops[k].undo
        BY Zenon
      <4>3. \A s \in Sems : d.deltas[s] # 0 => \E k \in 1 .. Len(ops) : ops[k].undo
        <5> HIDE DEF U, d
        <5> QED
          BY <3>1, <4>2, Zenon
      <4> HIDE DEF U, u, d
      <4>4. \A e \in u.undo : \/ e \in st.undo
                              \/ e.pid = pid /\ d.deltas[e.semnum] # 0
        BY <3>8
      <4> QED
        BY <4>1, <4>3, <4>4, Zenon
    <3>18. RecordsOwn(st, end, ops, pid)
      BY <3>17, Zenon DEF end, RecordsOwn
    <3>19. tryop(st, semid, ops, pid) = Returns(end, 0)
      <4> HIDE DEF u, new
      <4> QED
        BY <3>3, <3>8, Zenon DEF end
    <3> QED
      BY <3>15, <3>16, <3>18, <3>19 DEF Returns
  <2> QED
    BY <2>6, <2>7, Zenon
<1> QED
  BY <1>1, <1>2, Zenon
=============================================================================
