---------------------------- MODULE WakeupProofs ----------------------------
(***************************************************************************)
(* No wakeup is lost: what the broker does without a broadcast leaves a    *)
(* blocked operation blocked. And the broker implements AtomicService.     *)
(* Both for any number of workers, sets and requests.                      *)
(***************************************************************************)
EXTENDS BrokerProofs

\* Nothing a blocked operation looks at differs between two stores.
Quiet(st, new) ==
  /\ new.undo = st.undo
  /\ \A i \in Slots : st.sets[i].active =>
       /\ new.sets[i].active
       /\ new.sets[i].generation = st.sets[i].generation
       /\ new.sets[i].nsems = st.sets[i].nsems
       /\ new.sets[i].values = st.sets[i].values

\* The outcome of a semop depends on its set's size and values, and on the
\* undo table, alone.
LEMMA StillBlocked ==
  ASSUME NEW st, NEW new, Quiet(st, new),
         NEW r, is_semop(r), r.semid \in Int, NEW pid,
         dispatch(st, r, pid).result = TGC_SEM_OP_BLOCKED
  PROVE  dispatch(new, r, pid).result = TGC_SEM_OP_BLOCKED
<1> DEFINE semid == r.semid
           ops == r.ops
           bad(x) == ~found(x, semid) \/ ops = <<>>
                     \/ \E k \in 1 .. Len(ops) :
                          ops[k].sem_num >= set_of(x, semid).nsems
           w(x) == working(set_of(x, semid).values, ops)
           d == undo_deltas(ops)
           check(x) == undo_check(x, pid, semid, d.deltas)
           done(x) == commit(x, semid, ops, w(x).values, d.deltas, pid)
<1>1. \A x : tryop(x, semid, ops, pid) =
        IF bad(x) THEN Returns(x, -EINVAL)
        ELSE IF w(x).result # 0 THEN Returns(x, w(x).result)
        ELSE IF d.result # 0 THEN Returns(x, d.result)
        ELSE IF check(x) # 0 THEN Returns(x, check(x))
        ELSE done(x)
  BY DEF tryop
<1>2. tryop(st, semid, ops, pid).result = 1
  BY Zenon DEF dispatch, is_semop, TGC_SEM_OP_BLOCKED
<1>3. ~bad(st)
  <2> HIDE DEF bad, w, d, check, done, semid, ops
  <2>1. bad(st) => tryop(st, semid, ops, pid) = Returns(st, -EINVAL)
    BY <1>1
  <2> QED
    BY <1>2, <2>1 DEF Returns, EINVAL
<1>4. /\ id_index(semid) \in Slots /\ found(new, semid)
      /\ set_of(new, semid).nsems = set_of(st, semid).nsems
      /\ set_of(new, semid).values = set_of(st, semid).values
  BY <1>3, Zenon DEF found, decodes, set_of, Quiet
<1>5. ~bad(new) /\ w(new) = w(st) /\ check(new) = check(st)
  BY <1>3, <1>4, Zenon DEF Quiet, undo_check
<1>6. done(new).result = done(st).result
  BY <1>5, Zenon DEF commit, Returns, Quiet
<1> HIDE DEF bad, w, d, check, done, semid, ops
<1>7. tryop(new, semid, ops, pid).result = tryop(st, semid, ops, pid).result
  BY <1>1, <1>3, <1>5, <1>6 DEF Returns
<1> QED
  BY <1>2, <1>7, Zenon DEF dispatch, is_semop, TGC_SEM_OP_BLOCKED, semid, ops

\* Counting a waiter is quiet.
LEMMA CountIsQuiet ==
  ASSUME NEW st, NEW new, StoreOK(st), StoreOK(new), SameButCounts(st, new)
  PROVE  Quiet(st, new)
<1> SUFFICES ASSUME NEW i \in Slots, st.sets[i].active
             PROVE  /\ new.sets[i].active
                    /\ new.sets[i].generation = st.sets[i].generation
                    /\ new.sets[i].nsems = st.sets[i].nsems
                    /\ new.sets[i].values = st.sets[i].values
  BY Zenon DEF Quiet, SameButCounts
<1>1. st.sets[i] \in SemSet /\ new.sets[i] \in SemSet
  BY Zenon DEF StoreOK, StoreType
<1>2. Uncounted(st.sets[i]) = Uncounted(new.sets[i])
  BY Zenon DEF SameButCounts
<1>3. ASSUME NEW s \in SemSet
      PROVE  /\ Uncounted(s).active = s.active
             /\ Uncounted(s).generation = s.generation
             /\ Uncounted(s).nsems = s.nsems /\ Uncounted(s).values = s.values
  BY Zenon DEF Uncounted, SemSet
<1> QED
  BY <1>1, <1>2, <1>3

\* A store is as quiet as itself.
LEMMA SameIsQuiet == ASSUME NEW st PROVE Quiet(st, st)
BY Zenon DEF Quiet

\* A new set takes a slot that no waiter's set is in.
LEMMA GetIsQuiet ==
  ASSUME NEW st, StoreOK(st), NEW key, NEW nsems, NEW flags, NEW who
  PROVE  Quiet(st, get_as(st, key, nsems, flags, who, FALSE).store)
<1> DEFINE a == get_as(st, key, nsems, flags, who, FALSE)
           free == free_slots(st)
           i == Smallest(free)
           new == new_set(st.sets[i], key, nsems, flags, who)
<1>1. CASE a.store = st
  BY <1>1, SameIsQuiet, Zenon
<1>2. CASE free # {} /\ a = get_new(st, i, key, nsems, flags, who)
  <2>1. free \in SUBSET Slots
    BY DEF free_slots
  <2> HIDE DEF free
  <2>2. i \in free
    BY <1>2, <2>1, SmallestIn
  <2>3. i \in Slots /\ ~st.sets[i].active
    BY <2>2 DEF free, free_slots
  <2>4. a.store = [st EXCEPT !.sets[i] = new]
    <3>1. get_new(st, i, key, nsems, flags, who).store = [st EXCEPT !.sets[i] = new]
      BY Zenon DEF get_new, Returns
    <3> HIDE DEF a, i, new
    <3> QED
      BY <1>2, <3>1
  <2> HIDE DEF new, a, i
  <2>5. a.store.undo = st.undo /\ a.store.sets = [st.sets EXCEPT ![i] = new]
    BY <2>4, Zenon DEF StoreOK, StoreType
  <2>6. st.sets \in [Slots -> SemSet]
    BY Zenon DEF StoreOK, StoreType
  <2>7. \A j \in Slots : st.sets[j].active => a.store.sets[j] = st.sets[j]
    BY <2>3, <2>5, <2>6
  <2> QED
    BY <2>5, <2>7, Zenon DEF Quiet, a
<1>3. \/ a.store = st
      \/ free # {} /\ a = get_new(st, i, key, nsems, flags, who)
  <2>1. \A k : get_existing(st, k, nsems, flags).store = st
    BY Zenon DEF get_existing, Returns
  <2>2. \A e : Returns(st, e).store = st
    BY Zenon DEF Returns
  <2>3. \/ \E k : a = get_existing(st, k, nsems, flags)
        \/ \E e : a = Returns(st, e)
        \/ free # {} /\ a = get_new(st, i, key, nsems, flags, who)
    BY Zenon DEF get_as
  <2>4. ASSUME NEW k, a = get_existing(st, k, nsems, flags) PROVE a.store = st
    BY <2>1, <2>4, Zenon
  <2>5. ASSUME NEW e, a = Returns(st, e) PROVE a.store = st
    BY <2>2, <2>5, Zenon
  <2> HIDE DEF a, free, i
  <2> QED
    BY <2>3, <2>4, <2>5
<1> QED
  BY <1>1, <1>2, <1>3, Zenon

\* IPC_SET changes a group and a mode.
LEMMA MetaIsQuiet ==
  ASSUME NEW st, StoreOK(st), NEW semid \in Int, NEW uid, NEW gid, NEW mode,
         NEW who
  PROVE  Quiet(st, set_metadata(st, semid, uid, gid, mode, who).store)
<1> DEFINE a == set_metadata(st, semid, uid, gid, mode, who)
           i == id_index(semid)
           new == [set_of(st, semid) EXCEPT !.gid = gid, !.mode = mode]
<1>1. CASE a.store = st
  BY <1>1, SameIsQuiet
<1>2. CASE found(st, semid) /\ a.store = [st EXCEPT !.sets[i] = new]
  <2>1. i \in Slots /\ set_of(st, semid) = st.sets[i] /\ st.sets[i] \in SemSet
    BY <1>2, FoundSet, Zenon
  <2>2. /\ new.active = st.sets[i].active
        /\ new.generation = st.sets[i].generation
        /\ new.nsems = st.sets[i].nsems /\ new.values = st.sets[i].values
    BY <2>1, Zenon DEF SemSet
  <2> HIDE DEF new, i, a
  <2>3. a.store.undo = st.undo /\ a.store.sets = [st.sets EXCEPT ![i] = new]
    BY <1>2, Zenon DEF StoreOK, StoreType
  <2>4. st.sets \in [Slots -> SemSet]
    BY Zenon DEF StoreOK, StoreType
  <2>5. \A j \in Slots :
          /\ a.store.sets[j].active = st.sets[j].active
          /\ a.store.sets[j].generation = st.sets[j].generation
          /\ a.store.sets[j].nsems = st.sets[j].nsems
          /\ a.store.sets[j].values = st.sets[j].values
    BY <2>1, <2>2, <2>3, <2>4
  <2> QED
    BY <2>3, <2>5, Zenon DEF Quiet, a
<1>3. \/ a.store = st
      \/ found(st, semid) /\ a.store = [st EXCEPT !.sets[i] = new]
  <2>1. \A x, e : Returns(x, e).store = x
    BY Zenon DEF Returns
  <2>2. \/ \E e : a = Returns(st, e)
        \/ found(st, semid) /\ a = Returns([st EXCEPT !.sets[i] = new], 0)
    BY Zenon DEF set_metadata
  <2>3. ASSUME NEW e, a = Returns(st, e) PROVE a.store = st
    BY <2>1, <2>3, Zenon
  <2>4. CASE found(st, semid) /\ a = Returns([st EXCEPT !.sets[i] = new], 0)
    BY <2>1, <2>4, Zenon
  <2> QED
    BY <2>2, <2>3, <2>4
<1> QED
  BY <1>1, <1>2, <1>3

\* operation_changed_state names every operation that may let a waiter go on.
LEMMA NoBroadcastIsQuiet ==
  ASSUME NEW st, StoreOK(st), NEW r \in Requests, NEW pid \in Nat,
         ~operation_changed_state(r, dispatch(st, r, pid).result)
  PROVE  Quiet(st, dispatch(st, r, pid).store)
<1> DEFINE d == dispatch(st, r, pid)
<1>1. CASE is_semop(r)
  <2>1. r.semid \in Int /\ r.ops \in Seq(OpRec)
    BY <1>1, SemopFields, Zenon
  <2>2. d = tryop(st, r.semid, r.ops, pid)
    BY <1>1, Zenon DEF dispatch, is_semop
  <2>3. d.result = 0 \/ d.store = st
    <3> DEFINE t == tryop(st, r.semid, r.ops, pid)
    <3>1. t.result # 0 => t.store = st
      BY <2>1, TryopOK, Zenon
    <3> HIDE DEF t, d
    <3> QED
      BY <2>2, <3>1 DEF t
  <2> QED
    BY <1>1, <2>3, SameIsQuiet DEF operation_changed_state
<1>2. CASE r.opcode = "SETVAL"
  <2>1. d = setval(st, r.semid, r.semnum, r.value, pid)
    BY <1>2, ZenonT(40) DEF dispatch, is_semop
  <2>2. d.result = 0 \/ d.store = st
    BY <2>1 DEF setval, Returns
  <2> QED
    BY <1>2, <2>2, SameIsQuiet DEF operation_changed_state
<1>3. CASE r.opcode = "SETALL"
  <2>1. d = setall(st, r.semid, r.values, pid)
    BY <1>3, Zenon DEF dispatch, is_semop
  <2>2. d.result = 0 \/ d.store = st
    BY <2>1 DEF setall, Returns
  <2> QED
    BY <1>3, <2>2, SameIsQuiet DEF operation_changed_state
<1>4. CASE r.opcode = "REMOVE"
  <2>1. d = remove(st, r.semid)
    BY <1>4, Zenon DEF dispatch, is_semop
  <2>2. d.result = 0 \/ d.store = st
    BY <2>1 DEF remove, Returns
  <2> QED
    BY <1>4, <2>2, SameIsQuiet DEF operation_changed_state
<1>5. CASE r.opcode = "SEMGET"
  <2>1. d = get_as(st, r.key, r.nsems, r.flags, r.who, FALSE)
    BY <1>5, Zenon DEF dispatch, is_semop
  <2> QED
    BY <2>1, GetIsQuiet, Zenon
<1>6. CASE r.opcode = "SETMETA"
  <2>1. d = set_metadata(st, r.semid, r.uid, r.gid, r.mode, r.who)
    BY <1>6 DEF dispatch, is_semop
  <2>2. r.semid \in Int
    BY <1>6, BrokerAssumptions, Zenon
  <2> QED
    BY <2>1, <2>2, MetaIsQuiet
<1>7. CASE r.opcode \in {"GETVAL", "GETPID", "GETNCNT", "GETZCNT"}
  <2>1. d = Returns(st, Reads(st, r))
    BY <1>7, Zenon DEF dispatch, is_semop
  <2> QED
    BY <2>1, SameIsQuiet DEF Returns
<1>8. is_semop(r) \/ r.opcode \in {"SETVAL", "SETALL", "REMOVE", "SEMGET",
        "SETMETA", "GETVAL", "GETPID", "GETNCNT", "GETZCNT"}
  BY BrokerAssumptions, Zenon DEF is_semop
<1> QED
  BY <1>1, <1>2, <1>3, <1>4, <1>5, <1>6, <1>7, <1>8

\* The exit of a process that applies nothing had nothing to give back: every
\* entry names a live semaphore.
LEMMA NothingRestored ==
  ASSUME NEW st, StoreOK(st), NEW p, ~(process_exit(st, p).result > 0)
  PROVE  Quiet(st, process_exit(st, p).store)
<1> DEFINE V(i) == [s \in Sems |-> exit_value(st, p, i, s)]
           P(i) == [s \in Sems |-> IF exit_entries(st, p, i, s) = {}
                                   THEN st.sets[i].last_pids[s] ELSE p]
           new == process_exit(st, p).store
<1>1. st.sets \in [Slots -> SemSet] /\ st.undo \subseteq UndoEntry
  BY Zenon DEF StoreOK, StoreType
<1>2. ~\E i \in Slots, s \in Sems : exit_entries(st, p, i, s) # {}
  BY DEF process_exit, Returns
<1>3. ASSUME NEW e \in st.undo PROVE e.pid # p
  <2>1. /\ has_sem(st, e.semid, e.semnum) /\ e.semid \in Int
        /\ e.semnum \in Sems /\ e.semnum \in Nat
    BY <1>1, Bounds DEF StoreOK, UndoLive, UndoEntry, Sems
  <2>2. found(st, e.semid) /\ e.semnum < set_of(st, e.semid).nsems
    BY <2>1, HasSem, Zenon
  <2>3. /\ id_index(e.semid) \in Slots
        /\ set_of(st, e.semid) = st.sets[id_index(e.semid)]
    BY <2>1, <2>2, FoundSet, Zenon
  <2>4. exit_entries(st, p, id_index(e.semid), e.semnum) = {}
    BY <1>2, <2>1, <2>3
  <2> QED
    BY <2>2, <2>3, <2>4, Zenon DEF exit_entries
<1>4. /\ new.undo = {e \in st.undo : e.pid # p}
      /\ new.sets = [i \in Slots |->
           [st.sets[i] EXCEPT !.values = V(i), !.last_pids = P(i)]]
  BY Zenon DEF process_exit, Returns
<1>5. new.undo = st.undo
  BY <1>3, <1>4, Zenon
<1>6. ASSUME NEW i \in Slots PROVE V(i) = st.sets[i].values
  <2>1. st.sets[i].values \in [Sems -> Values]
    BY <1>1, Zenon DEF SemSet
  <2>2. \A s \in Sems : exit_value(st, p, i, s) = st.sets[i].values[s]
    BY <1>2, Zenon DEF exit_value
  <2> QED
    BY <2>1, <2>2, Zenon
<1> HIDE DEF new, V, P
<1>7. ASSUME NEW i \in Slots
      PROVE  /\ new.sets[i].active = st.sets[i].active
             /\ new.sets[i].generation = st.sets[i].generation
             /\ new.sets[i].nsems = st.sets[i].nsems
             /\ new.sets[i].values = st.sets[i].values
  <2>1. st.sets[i] \in SemSet /\ V(i) = st.sets[i].values
    BY <1>1, <1>6, Zenon
  <2>2. new.sets[i] = [st.sets[i] EXCEPT !.values = V(i), !.last_pids = P(i)]
    BY <1>4, Zenon
  <2> QED
    BY <2>1, <2>2 DEF SemSet
<1>8. Quiet(st, new)
  BY <1>5, <1>7, Zenon DEF Quiet
<1> QED
  BY <1>8, Zenon DEF new

\* Quiet changes add up.
LEMMA QuietTwice ==
  ASSUME NEW a, NEW b, NEW c, Quiet(a, b), Quiet(b, c)
  PROVE  Quiet(a, c)
BY Zenon DEF Quiet

\* A scan that does not broadcast is quiet.
LEMMA ScanIsQuiet ==
  ASSUME BrokerInv, ~scan.broadcast
  PROVE  Quiet(store, scan.store)
<1> DEFINE m == MaxWatchers
           x == exits(store, watchers, alive)
           D == [k \in 0 .. m |-> {st \in Stores : Quiet(store, st)}]
<1>1. /\ StoreOK(store) /\ watchers \in [WatcherSlots -> Pids \cup {0}]
      /\ m \in Nat
  BY Processes, Zenon DEF BrokerInv, TypeOK
<1>2. /\ x[0] = store
      /\ \A k \in 1 .. m :
           /\ StoreOK(x[k - 1]) /\ StoreOK(x[k])
           /\ x[k] = IF watchers[k] = 0 \/ watchers[k] \in alive THEN x[k - 1]
                     ELSE process_exit(x[k - 1], watchers[k]).store
  BY <1>1, ExitRounds
<1>3. \A k \in 1 .. m : watchers[k] # 0 /\ watchers[k] \notin alive =>
        ~(process_exit(x[k - 1], watchers[k]).result > 0)
  BY Zenon DEF scan, WatcherSlots
<1>4. scan.store = x[m]
  BY Zenon DEF scan
<1> HIDE DEF x, m
<1>5. \A st : StoreOK(st) => st \in Stores
  BY Zenon DEF Stores, StoreOK, StoreType
<1>6. ASSUME NEW k \in 1 .. m, Quiet(store, x[k - 1]) PROVE Quiet(store, x[k])
  <2>1. CASE watchers[k] = 0 \/ watchers[k] \in alive
    <3>1. x[k] = x[k - 1]
      BY <1>2, <2>1, Zenon
    <3> QED
      BY <1>6, <3>1, Zenon
  <2>2. CASE ~(watchers[k] = 0 \/ watchers[k] \in alive)
    <3>1. /\ x[k] = process_exit(x[k - 1], watchers[k]).store
          /\ StoreOK(x[k - 1])
          /\ ~(process_exit(x[k - 1], watchers[k]).result > 0)
      BY <1>2, <1>3, <2>2, Zenon
    <3>2. Quiet(x[k - 1], x[k])
      BY <3>1, NothingRestored, Zenon
    <3> QED
      BY <1>6, <3>2, QuietTwice, Zenon
  <2> QED
    BY <2>1, <2>2, Zenon
<1>7. x[0] \in D[0]
  BY <1>1, <1>2, <1>5, SameIsQuiet
<1>8. \A k \in 1 .. m : x[k - 1] \in D[k - 1] => x[k] \in D[k]
  <2> TAKE k \in 1 .. m
  <2>1. k - 1 \in 0 .. m /\ k \in 0 .. m
    BY <1>1
  <2> QED
    BY <1>2, <1>5, <1>6, <2>1, Zenon
<1>9. x[m] \in D[m]
  <2> HIDE DEF D
  <2> QED
    BY <1>1, <1>7, <1>8, LoopInvariant, Zenon
<1> QED
  BY <1>1, <1>4, <1>9

-----------------------------------------------------------------------------
(* The steps.                                                              *)

\* A sleeper that headed its queue and still does stays blocked.
LEMMA SleepsOn ==
  ASSUME BrokerInv, NoLostWakeup, NEW c \in asleep, Quiet(store, store'),
         req'[c] = req[c], peer'[c] = peer[c], waiter_is_first_for_set(c)
  PROVE  dispatch(store', req'[c], peer'[c]).result = TGC_SEM_OP_BLOCKED
<1>1. c \in Conns /\ state[c] = "waiting"
  BY Zenon DEF BrokerInv, TypeOK
<1>2. req[c] \in Requests /\ is_semop(req[c])
  BY <1>1, Zenon DEF BrokerInv, Asking
<1>3. req[c].semid \in Int
  BY <1>2, SemopFields, Zenon
<1>4. dispatch(store, req[c], peer[c]).result = TGC_SEM_OP_BLOCKED
  BY Zenon DEF NoLostWakeup
<1> QED
  BY <1>2, <1>3, <1>4, StillBlocked

\* A step that leaves the queue and the sleepers' requests alone, and the
\* store quiet, loses no wakeup.
LEMMA QuietStep ==
  ASSUME BrokerInv, NoLostWakeup, queue' = queue, asleep' \subseteq asleep,
         Quiet(store, store'),
         \A c \in asleep : req'[c] = req[c] /\ peer'[c] = peer[c]
  PROVE  NoLostWakeup'
<1> SUFFICES ASSUME NEW c \in asleep', waiter_is_first_for_set(c)'
             PROVE  dispatch(store', req'[c], peer'[c]).result
                      = TGC_SEM_OP_BLOCKED
  BY Zenon DEF NoLostWakeup
<1>1. c \in asleep /\ waiter_is_first_for_set(c)
  BY Zenon DEF waiter_is_first_for_set, Position
<1> QED
  BY <1>1, SleepsOn, Zenon

\* Clients touch neither the queue nor a request that waits.
LEMMA ClientWakes == ASSUME BrokerInv, NoLostWakeup, Client PROVE NoLostWakeup'
<1>1. UNCHANGED bvars
  BY Zenon DEF Client, Connect, Close, Send, Receive, Fork, Exit
<1>2. \A c \in asleep : c \in Conns /\ state[c] = "waiting"
  BY Zenon DEF BrokerInv, TypeOK
<1>3. /\ peer \in [Conns -> Pids \cup {0}]
      /\ req \in [Conns -> Requests \cup {NoRequest}]
  BY Zenon DEF BrokerInv, TypeOK
<1>4. \A c \in asleep : req'[c] = req[c] /\ peer'[c] = peer[c]
  BY <1>2, <1>3, Zenon DEF Client, Connect, Close, Send, Receive, Fork, Exit
<1>5. Quiet(store, store')
  BY <1>1, SameIsQuiet, Zenon DEF bvars
<1> QED
  BY <1>1, <1>4, <1>5, QuietStep DEF bvars

\* The workers: they broadcast, change nothing, or are quiet.
LEMMA WorkerWakes ==
  ASSUME BrokerInv, NoLostWakeup, BrokerInv', NEW c \in Conns, Worker(c)
  PROVE  NoLostWakeup'
<1>1. asleep' = {} => NoLostWakeup'
  BY Zenon DEF NoLostWakeup
<1>2. \A x \in asleep : x \in Conns /\ state[x] = "waiting"
  BY Zenon DEF BrokerInv, TypeOK
<1>3. CASE HangUp(c)
  <2>1. /\ peer \in [Conns -> Pids \cup {0}]
        /\ req \in [Conns -> Requests \cup {NoRequest}]
    BY Zenon DEF BrokerInv, TypeOK
  <2>2. \A x \in asleep : req'[x] = req[x] /\ peer'[x] = peer[x]
    BY <1>2, <1>3, <2>1, Zenon DEF HangUp
  <2>3. Quiet(store, store')
    BY <1>3, SameIsQuiet, Zenon DEF HangUp, bvars
  <2> QED
    BY <1>3, <2>2, <2>3, QuietStep DEF HangUp, bvars
<1>4. CASE retry_peer_closed(c) \/ retry_first(c) \/ operation_timed_out(c)
  BY <1>1, <1>4, Zenon
  DEF retry_peer_closed, retry_first, operation_timed_out, Leave, Broadcast
<1>5. CASE retry_sleeps(c)
  <2>1. /\ asleep' = asleep \cup {c} /\ store' = store /\ queue' = queue
        /\ req' = req /\ peer' = peer
        /\ \/ ~waiter_is_first_for_set(c)
           \/ dispatch(store, req[c], peer[c]).result = TGC_SEM_OP_BLOCKED
    BY <1>5, Zenon DEF retry_sleeps, cvars
  <2>2. ASSUME NEW x \in asleep', waiter_is_first_for_set(x)'
        PROVE  dispatch(store', req'[x], peer'[x]).result = TGC_SEM_OP_BLOCKED
    <3>1. waiter_is_first_for_set(x)
      BY <2>1, <2>2, Zenon DEF waiter_is_first_for_set, Position
    <3>2. CASE x = c
      BY <2>1, <3>1, <3>2, Zenon
    <3>3. CASE x # c
      BY <2>1, <3>1, <3>3, Zenon DEF NoLostWakeup
    <3> QED
      BY <3>2, <3>3, Zenon
  <2> QED
    BY <2>2, Zenon DEF NoLostWakeup
<1>6. CASE dispatch_request(c)
  <2>1. PICK w : \/ Answer(c, w.result) /\ UNCHANGED bvars
                 \/ Serve(c, w) \/ Enqueue(c, w) \/ Abandon(c, w)
    BY <1>6, Zenon DEF dispatch_request
  <2>2. /\ StoreOK(store) /\ state[c] = "sent" /\ req[c] \in Requests
        /\ peer[c] \in Pids /\ peer[c] \in Nat
    BY <1>6, Processes, Zenon DEF dispatch_request, BrokerInv, Asking
  <2>3. CASE Answer(c, w.result) /\ UNCHANGED bvars
    <3>1. Quiet(store, store')
      BY <2>3, SameIsQuiet DEF bvars
    <3> QED
      BY <2>3, <3>1, QuietStep, Zenon DEF Answer, bvars
  <2>4. CASE Abandon(c, w)
    BY <1>1, <2>4, Zenon DEF Abandon, Broadcast
  <2>5. CASE Serve(c, w)
    <3> DEFINE d == dispatch(store, req[c], peer[c])
    <3>1. /\ store' = d.store /\ queue' = queue /\ req' = req /\ peer' = peer
          /\ asleep' \subseteq asleep
          /\ operation_changed_state(req[c], d.result) => asleep' = {}
      BY <2>5, Zenon DEF Serve, Broadcast, Answer
    <3>2. CASE operation_changed_state(req[c], d.result)
      BY <1>1, <3>1, <3>2, Zenon
    <3>3. CASE ~operation_changed_state(req[c], d.result)
      <4>1. Quiet(store, d.store)
        BY <2>2, <3>3, NoBroadcastIsQuiet, Zenon
      <4> HIDE DEF d
      <4> QED
        BY <3>1, <4>1, QuietStep, Zenon
    <3> QED
      BY <3>2, <3>3
  <2>6. CASE Enqueue(c, w)
    <3> DEFINE why == wait_reason(store, req[c].semid, req[c].ops)
               new == [conn |-> c, semid |-> req[c].semid,
                       semnum |-> why.sem_num, zero |-> why.wait_for_zero]
    <3>1. /\ must_wait(req[c], dispatch(store, req[c], peer[c]).result)
          /\ queue' = Append(queue, new)
          /\ store' = adjust_wait_count(store, req[c].semid, why.sem_num,
                                        why.wait_for_zero, 1).store
          /\ asleep' \subseteq asleep \cup {c} /\ req' = req /\ peer' = peer
      BY <2>6, Zenon DEF Enqueue
    <3>2. is_semop(req[c]) /\ req[c].semid \in Int
      BY <3>1, <2>2, SemopFields, Zenon DEF must_wait
    <3>3. Quiet(store, store')
      <4>1. why \in Reasons
        BY <3>1, <2>2, WaitReason, Zenon
      <4>2. why.sem_num \in Nat /\ why.wait_for_zero \in BOOLEAN
        BY <4>1, Bounds DEF Reasons, Sems
      <4>3. store' = adjust_wait_count(store, req[c].semid, why.sem_num,
                                       why.wait_for_zero, 1).store
        BY <3>1, Zenon
      <4> HIDE DEF why, new
      <4>4. SameButCounts(store, store') /\ StoreOK(store')
        <5>1. 1 \in Int
          BY SmallNumbers, Zenon
        <5> QED
          BY <2>2, <3>2, <4>2, <4>3, <5>1, CountOnly, Zenon
      <4> QED
        BY <2>2, <4>4, CountIsQuiet, Zenon
    <3>4. dispatch(store', req'[c], peer'[c]).result = TGC_SEM_OP_BLOCKED
      <4>1. dispatch(store, req[c], peer[c]).result = TGC_SEM_OP_BLOCKED
        BY <3>1, Zenon DEF must_wait
      <4>2. req'[c] = req[c] /\ peer'[c] = peer[c]
        BY <3>1, Zenon
      <4> HIDE DEF why, new
      <4>3. dispatch(store', req[c], peer[c]).result = TGC_SEM_OP_BLOCKED
        BY <3>2, <3>3, <4>1, StillBlocked
      <4> QED
        BY <4>2, <4>3, Zenon
    <3>5. ASSUME NEW x \in asleep, waiter_is_first_for_set(x)'
          PROVE  waiter_is_first_for_set(x)
      <4> DEFINE k == Position(x)
                 n == Len(queue)
      <4>1. queue \in Seq(Waiter) /\ queue' \in Seq(Waiter)
        BY Zenon DEF BrokerInv, TypeOK
      <4>2. n \in Nat /\ k \in 1 .. n /\ queue[k].conn = x
        BY <1>2, <4>1, Unlinks, ZenonT(40) DEF BrokerInv
      <4> HIDE DEF k, new
      <4>3. /\ DOMAIN queue' = 1 .. n + 1
            /\ \A j \in 1 .. n : queue'[j] = queue[j]
        BY <3>1, <4>1
      <4>4. \A j \in 1 .. n + 1 : queue'[j].conn = x => j = k
        BY <4>2, <4>3 DEF BrokerInv, QueueIsWaiters
      <4>5. (CHOOSE j \in DOMAIN queue' : queue'[j].conn = x) = k
        BY <4>2, <4>3, <4>4
      <4>6. \A j \in 1 .. k - 1 : queue'[j].semid # queue'[k].semid
        BY <3>5, <4>5, Zenon DEF waiter_is_first_for_set, Position
      <4>7. \A j \in 1 .. k - 1 : queue[j].semid # queue[k].semid
        BY <4>2, <4>3, <4>6
      <4> QED
        BY <4>7, Zenon DEF waiter_is_first_for_set, k
    <3>6. ASSUME NEW x \in asleep', waiter_is_first_for_set(x)'
          PROVE  dispatch(store', req'[x], peer'[x]).result = TGC_SEM_OP_BLOCKED
      <4>1. CASE x = c
        BY <3>4, <4>1, ZenonT(40)
      <4>2. CASE x # c
        BY <3>1, <3>3, <3>5, <3>6, <4>2, SleepsOn, Zenon
      <4> QED
        BY <4>1, <4>2
    <3> QED
      BY <3>6 DEF NoLostWakeup
  <2> QED
    BY <2>1, <2>3, <2>4, <2>5, <2>6
<1> QED
  BY <1>3, <1>4, <1>5, <1>6 DEF Worker

\* The monitor broadcasts whenever an exit gave something back.
LEMMA MonitorWakes ==
  ASSUME BrokerInv, NoLostWakeup, monitor_process_exits
  PROVE  NoLostWakeup'
<1>1. /\ store' = scan.store /\ queue' = queue /\ req' = req /\ peer' = peer
      /\ asleep' = IF scan.broadcast THEN {} ELSE asleep
  BY Zenon DEF monitor_process_exits, cvars
<1>2. CASE scan.broadcast
  BY <1>1, <1>2, Zenon DEF NoLostWakeup
<1>3. CASE ~scan.broadcast
  <2>1. Quiet(store, store')
    BY <1>1, <1>3, ScanIsQuiet
  <2> QED
    BY <1>1, <1>3, <2>1, QuietStep
<1> QED
  BY <1>2, <1>3, Zenon

\* No wakeup is lost: a worker that sleeps at the head of its set's queue has
\* nothing it could do, whatever the other workers, the clients and the
\* monitor have done since its last look at the store.
THEOREM NoWakeupIsLost == Spec => []NoLostWakeup
<1>1. Init => NoLostWakeup
  BY Zenon DEF Init, NoLostWakeup
<1>2. BrokerInv /\ BrokerInv' /\ NoLostWakeup /\ Next => NoLostWakeup'
  BY ClientWakes, WorkerWakes, MonitorWakes, Zenon DEF Next
<1>3. NoLostWakeup /\ UNCHANGED vars => NoLostWakeup'
  BY DEF NoLostWakeup, waiter_is_first_for_set, Position, vars, bvars, cvars
<1> QED
  BY <1>1, <1>2, <1>3, BrokerInvariant, PTL DEF Spec

-----------------------------------------------------------------------------
(* The broker implements AtomicService.                                    *)

\* A broker that starts is a service that starts.
LEMMA ServiceStarts == Init => Service!ServiceInit
BY Zenon DEF Init, Service!ServiceInit, Phase

\* Processes, connections and answers are the service's too.
LEMMA ClientSimulates ==
  ASSUME BrokerInv, Client
  PROVE  Service!ServiceNext \/ UNCHANGED Service!svars
<1>1. TypeOK
  BY Zenon DEF BrokerInv
<1>2. ASSUME NEW c \in Conns, NEW p \in Pids, Connect(c, p)
      PROVE  Service!Arrive(c)
  BY <1>1, <1>2, Zenon DEF Connect, Service!Arrive, Phase, TypeOK, bvars
<1>3. ASSUME NEW c \in Conns, NEW p \in Pids, Close(c, p)
      PROVE  Service!Processes
  BY <1>1, <1>3, Zenon DEF Close, Service!Processes, TypeOK, bvars
<1>4. ASSUME NEW c \in Conns, NEW r \in Requests, Send(c, r)
      PROVE  Service!Ask(c)
  BY <1>1, <1>4, Zenon DEF Send, Service!Ask, Phase, TypeOK, bvars
<1>5. ASSUME NEW c \in Conns, Receive(c)
      PROVE  Service!Forget(c)
  BY <1>1, <1>5, ZenonT(60) DEF Receive, Service!Forget, Phase, TypeOK, bvars
<1>6. ASSUME NEW p \in Pids, NEW q \in Pids, Fork(p, q)
      PROVE  Service!Processes
  BY <1>1, <1>6 DEF Fork, Service!Processes, TypeOK, bvars
<1>7. ASSUME NEW p \in Pids, Exit(p)
      PROVE  Service!Processes
  BY <1>1, <1>7, Zenon DEF Exit, Service!Processes, TypeOK, bvars
<1> QED
  BY <1>2, <1>3, <1>4, <1>5, <1>6, <1>7 DEF Client, Service!ServiceNext

\* The end of a connection.
LEMMA HangUpSimulates ==
  ASSUME BrokerInv, NEW c \in Conns, HangUp(c)
  PROVE  Service!Forget(c)
BY Zenon DEF BrokerInv, HangUp, Service!Forget, Phase, TypeOK, bvars

\* An answer ends a pending request.
LEMMA AnswerSimulates ==
  ASSUME TypeOK, NEW c \in Conns, state[c] \in {"sent", "waiting"},
         NEW result, Answer(c, result)
  PROVE  Service!Done(c) /\ reply' = [reply EXCEPT ![c] = result]
BY ZenonT(60) DEF TypeOK, Answer, Service!Done, Phase

\* A store is itself, counts included.
LEMMA SameStore == ASSUME NEW st PROVE SameButCounts(st, st)
BY Zenon DEF SameButCounts

\* dispatch_request is a failure, the effect, or the start of a wait.
LEMMA DispatchSimulates ==
  ASSUME BrokerInv, NEW c \in Conns, dispatch_request(c)
  PROVE  Service!TakeEffect(c) \/ Service!Fail(c) \/ Service!Wait
<1>1. /\ StoreOK(store) /\ TypeOK /\ Asking
      /\ watchers \in [WatcherSlots -> Pids \cup {0}]
  BY ZenonT(60) DEF BrokerInv, TypeOK
<1>2. /\ state[c] = "sent" /\ req[c] \in Requests /\ peer[c] \in Pids
      /\ peer[c] \in Nat
  BY <1>1, Processes, ZenonT(60) DEF dispatch_request, Asking
<1>3. PICK gone \in {FALSE, peer[c] \notin alive} :
        LET w == IF request_uses_undo(req[c]) THEN watch_process(peer[c], gone)
                 ELSE [result |-> 0, watchers |-> watchers, broadcast |-> FALSE]
        IN  \/ /\ w.result # 0
               /\ Answer(c, w.result)
               /\ UNCHANGED bvars
            \/ w.result = 0 /\ Serve(c, w)
            \/ w.result = 0 /\ Enqueue(c, w)
            \/ w.result = 0 /\ Abandon(c, w)
  BY ZenonT(60) DEF dispatch_request
<1> DEFINE w == IF request_uses_undo(req[c]) THEN watch_process(peer[c], gone)
                ELSE [result |-> 0, watchers |-> watchers, broadcast |-> FALSE]
           d == dispatch(store, req[c], peer[c])
           here == holders[c] # {}
<1>4. w.result # 0 => request_uses_undo(req[c]) /\ w.result \in {-ENOSPC, -ENOENT}
  BY <1>1, <1>2, WatchOK, ZenonT(60)
<1>5. \/ w.result # 0 /\ Answer(c, w.result) /\ UNCHANGED bvars
      \/ Serve(c, w) \/ Enqueue(c, w) \/ Abandon(c, w)
  BY <1>3, ZenonT(60)
<1> HIDE DEF w
<1>6. CASE w.result # 0 /\ Answer(c, w.result) /\ UNCHANGED bvars
  <2>1. Service!Done(c) /\ reply' = [reply EXCEPT ![c] = w.result]
    BY <1>1, <1>2, <1>6, AnswerSimulates, ZenonT(60)
  <2>2. w.result \in Excuses(req[c], here)
    BY <1>4, <1>6, Zenon DEF Excuses
  <2>3. SameButCounts(store, store')
    BY <1>6, SameStore, ZenonT(60) DEF bvars
  <2> QED
    BY <2>1, <2>2, <2>3, ZenonT(60) DEF Service!Fail
<1>7. CASE Serve(c, w)
  <2>1. store' = d.store /\ ~must_wait(req[c], d.result) /\ Answer(c, d.result)
    BY <1>7, Zenon DEF Serve
  <2>2. Service!Done(c) /\ reply' = [reply EXCEPT ![c] = d.result]
    BY <1>1, <1>2, <2>1, AnswerSimulates, ZenonT(60)
  <2>3. SameButCounts(d.store, store')
    BY <2>1, SameStore, ZenonT(60)
  <2> QED
    BY <2>1, <2>2, <2>3, ZenonT(60) DEF Service!TakeEffect
<1>8. CASE Enqueue(c, w)
  <2> DEFINE why == wait_reason(store, req[c].semid, req[c].ops)
  <2>1. /\ must_wait(req[c], d.result)
        /\ store' = adjust_wait_count(store, req[c].semid, why.sem_num,
                                      why.wait_for_zero, 1).store
        /\ state' = [state EXCEPT ![c] = "waiting"]
        /\ UNCHANGED <<peer, holders, req, reply, alive>>
    BY <1>8, ZenonT(60) DEF Enqueue
  <2>2. why \in Reasons
    BY <2>1, <1>1, <1>2, WaitReason, ZenonT(60)
  <2>3. req[c].semid \in Int
    BY <2>1, <1>2, SemopFields, ZenonT(60) DEF must_wait
  <2> HIDE DEF why, d
  <2>4. why.sem_num \in Nat /\ why.wait_for_zero \in BOOLEAN
    BY <2>2, ReasonFields
  <2>5. SameButCounts(store, store')
    <3> DEFINE id == req[c].semid
               n == why.sem_num
               zero == why.wait_for_zero
               after == adjust_wait_count(store, id, n, zero, 1).store
    <3>1. /\ StoreOK(store) /\ id \in Int /\ n \in Nat /\ zero \in BOOLEAN
          /\ 1 \in Int
      BY <1>1, <2>3, <2>4
    <3> HIDE DEF id, n, zero
    <3>2. SameButCounts(store, after)
      BY <3>1, CountOnly, Zenon
    <3> USE DEF id, n, zero
    <3>3. store' = after
      BY <2>1, Zenon
    <3> HIDE DEF after
    <3> QED
      BY <3>2, <3>3, Zenon
  <2>6. \A x \in Conns : Phase(state'[x]) = Phase(state[x])
    BY <1>1, <1>2, <2>1, ZenonT(60) DEF Phase, TypeOK
  <2> QED
    BY <2>1, <2>5, <2>6, ZenonT(60) DEF Service!Wait
<1>9. CASE Abandon(c, w)
  <2>1. store' = store /\ holders[c] = {} /\ Answer(c, TGC_SEM_OP_BLOCKED)
    BY <1>9, Zenon DEF Abandon
  <2>2. Service!Done(c) /\ reply' = [reply EXCEPT ![c] = TGC_SEM_OP_BLOCKED]
    BY <1>1, <1>2, <2>1, AnswerSimulates, ZenonT(60)
  <2>3. TGC_SEM_OP_BLOCKED \in Excuses(req[c], here)
    BY <2>1, Zenon DEF Excuses
  <2>4. SameButCounts(store, store')
    BY <2>1, SameStore, Zenon
  <2> QED
    BY <2>2, <2>3, <2>4, ZenonT(60) DEF Service!Fail
<1> QED
  BY <1>5, <1>6, <1>7, <1>8, <1>9

\* A waiter leaves the queue with the effect of its request, or without any
\* and for a reason the service allows.
LEMMA RetrySimulates ==
  ASSUME BrokerInv, NEW c \in Conns,
         \/ retry_peer_closed(c) \/ retry_first(c)
         \/ retry_sleeps(c) \/ operation_timed_out(c)
  PROVE  \/ Service!TakeEffect(c) \/ Service!Fail(c)
         \/ UNCHANGED Service!svars
<1> DEFINE d == dispatch(store, req[c], peer[c])
           here == holders[c] # {}
<1>1. /\ StoreOK(store) /\ TypeOK /\ Asking /\ QueueIsWaiters
      /\ queue \in Seq(Waiter)
  BY Zenon DEF BrokerInv, TypeOK
<1>2. state[c] = "waiting"
  BY ZenonT(60) DEF retry_peer_closed, retry_first, retry_sleeps, operation_timed_out
<1>3. req[c] \in Requests /\ peer[c] \in Nat
  BY <1>1, <1>2, Processes, Zenon DEF Asking
<1>4. StoreOK(d.store)
  BY <1>1, <1>3, DispatchOK, Zenon
<1>5. ASSUME NEW st, StoreOK(st), NEW result, Leave(c, st, result)
      PROVE  /\ SameButCounts(st, store') /\ Service!Done(c)
             /\ reply' = [reply EXCEPT ![c] = result]
  <2>1. store' = finish_waiter(st, c) /\ Answer(c, result)
    BY <1>5 DEF Leave
  <2>2. SameButCounts(st, store')
    BY <1>1, <1>2, <1>5, <2>1, FinishWaiter, ZenonT(60)
  <2> QED
    BY <1>1, <1>2, <2>1, <2>2, AnswerSimulates, ZenonT(60)
<1>6. CASE retry_peer_closed(c)
  <2>1. holders[c] = {} /\ Leave(c, store, TGC_SEM_OP_BLOCKED)
    BY <1>6, Zenon DEF retry_peer_closed
  <2>2. TGC_SEM_OP_BLOCKED \in Excuses(req[c], here)
    BY <2>1, ZenonT(60) DEF Excuses
  <2>3. /\ SameButCounts(store, store') /\ Service!Done(c)
        /\ reply' = [reply EXCEPT ![c] = TGC_SEM_OP_BLOCKED]
    BY <1>1, <1>5, <2>1, ZenonT(60)
  <2> QED
    BY <2>2, <2>3, ZenonT(60) DEF Service!Fail
<1>7. CASE operation_timed_out(c)
  <2>1. req[c].opcode = "SEMTIMEDOP" /\ Leave(c, store, -EAGAIN)
    BY <1>7, Zenon DEF operation_timed_out
  <2>2. -EAGAIN \in Excuses(req[c], here)
    BY <2>1, ZenonT(60) DEF Excuses
  <2>3. /\ SameButCounts(store, store') /\ Service!Done(c)
        /\ reply' = [reply EXCEPT ![c] = -EAGAIN]
    BY <1>1, <1>5, <2>1, ZenonT(60)
  <2> QED
    BY <2>2, <2>3, ZenonT(60) DEF Service!Fail
<1>8. CASE retry_first(c)
  <2>1. d.result # TGC_SEM_OP_BLOCKED /\ Leave(c, d.store, d.result)
    BY <1>8, ZenonT(60) DEF retry_first
  <2>2. ~must_wait(req[c], d.result)
    BY <2>1, ZenonT(60) DEF must_wait
  <2>3. /\ SameButCounts(d.store, store') /\ Service!Done(c)
        /\ reply' = [reply EXCEPT ![c] = d.result]
    <3> HIDE DEF d
    <3> QED
      BY <1>4, <1>5, <2>1, ZenonT(60)
  <2> QED
    BY <2>2, <2>3, ZenonT(60) DEF Service!TakeEffect
<1>9. CASE retry_sleeps(c)
  BY <1>9, ZenonT(60) DEF retry_sleeps, cvars, Service!svars
<1> QED
  BY <1>6, <1>7, <1>8, <1>9, ZenonT(60)

\* The monitor's scan is the exit of the processes it found gone.
LEMMA MonitorSimulates ==
  ASSUME BrokerInv, monitor_process_exits
  PROVE  Service!Restore
<1>1. watchers \in [WatcherSlots -> Pids \cup {0}]
  BY ZenonT(60) DEF BrokerInv, TypeOK
<1>2. store' = after_exits(store, watchers, alive) /\ UNCHANGED <<cvars, alive>>
  BY Zenon DEF monitor_process_exits, scan, after_exits
<1> QED
  BY <1>1, <1>2, ZenonT(60) DEF Service!Restore, cvars

\* The broker implements AtomicService, for any number of workers, processes
\* and watcher slots: its threads, queue, wakeups and deadlines cannot be told
\* from requests that take effect in one step each.
THEOREM BrokerIsAtomic == Spec => AtomicSemaphores
<1>1. BrokerInv /\ Next => Service!ServiceNext \/ UNCHANGED Service!svars
  BY ClientSimulates, HangUpSimulates, DispatchSimulates, RetrySimulates,
     MonitorSimulates, ZenonT(60) DEF Next, Worker, Service!ServiceNext
<1>2. UNCHANGED vars => UNCHANGED Service!svars
  BY Zenon DEF vars, bvars, cvars, Service!svars
<1> QED
  BY BrokerInvariant, ServiceStarts, <1>1, <1>2, PTL
  DEF Spec, AtomicSemaphores, Service!ServiceSpec

=============================================================================
