---------------------------- MODULE BrokerProofs ----------------------------
(***************************************************************************)
(* Invariants of the broker, for any number of connections, processes,     *)
(* watcher slots and requests.                                             *)
(***************************************************************************)
EXTENDS SemBroker, SemStoreOpsProofs

\* A semop request is what the dispatcher takes it for, and only that.
LEMMA SemopFields ==
  ASSUME NEW r \in Requests, is_semop(r)
  PROVE  r.semid \in Int /\ r.ops \in Seq(OpRec)
BY BrokerAssumptions, Zenon DEF is_semop, OpRec

\* r is q with one element more.
Grown(q, r, e) ==
  /\ Len(q) \in Nat
  /\ DOMAIN q = 1 .. Len(q) /\ DOMAIN r = 1 .. Len(q) + 1
  /\ (\A k \in 1 .. Len(q) : r[k] = q[k]) /\ r[Len(q) + 1] = e
  /\ Len(q) + 1 \in DOMAIN r /\ DOMAIN q \subseteq DOMAIN r
  /\ \A k \in DOMAIN r : k \in 1 .. Len(q) \/ k = Len(q) + 1

\* Which is what Append does.
LEMMA AppendGrows ==
  ASSUME NEW S, NEW q \in Seq(S), NEW e \in S
  PROVE  Append(q, e) \in Seq(S) /\ Grown(q, Append(q, e), e)
BY DEF Grown

\* A read returns a number of the set, or an error.
LEMMA ReadsInt ==
  ASSUME NEW st, StoreOK(st), NEW r, r.semid \in Int, r.semnum \in Nat,
         r.opcode \in {"GETVAL", "GETPID", "GETNCNT", "GETZCNT"}
  PROVE  Reads(st, r) \in Int
<1>1. CASE ~has_sem(st, r.semid, r.semnum)
  BY <1>1 DEF Reads, EINVAL
<1>2. CASE has_sem(st, r.semid, r.semnum)
  <2> DEFINE set == set_of(st, r.semid)
  <2>1. set \in SemSet /\ r.semnum \in Sems
    BY <1>2, HasSem, FoundSet, Zenon
  <2>2. /\ set.values \in [Sems -> Values] /\ set.last_pids \in [Sems -> Nat]
        /\ set.negative_waiters \in [Sems -> 0 .. MaxWaitCount]
        /\ set.zero_waiters \in [Sems -> 0 .. MaxWaitCount]
    BY <2>1, Zenon DEF SemSet
  <2> HIDE DEF set
  <2>3. /\ set.values[r.semnum] \in Int /\ set.last_pids[r.semnum] \in Int
        /\ set.negative_waiters[r.semnum] \in Int
        /\ set.zero_waiters[r.semnum] \in Int
    BY <2>1, <2>2, Bounds DEF Values
  <2> QED
    BY <1>2, <2>3, Zenon DEF Reads, set
<1> QED
  BY <1>1, <1>2, Zenon

\* Whatever is asked, the store stays well formed.
LEMMA DispatchOK ==
  ASSUME NEW st, StoreOK(st), NEW r \in Requests, NEW pid \in Nat
  PROVE  /\ StoreOK(dispatch(st, r, pid).store)
         /\ dispatch(st, r, pid).result \in Int
<1> DEFINE d == dispatch(st, r, pid)
           Goal == StoreOK(d.store) /\ d.result \in Int
<1>1. CASE is_semop(r)
  <2>1. r.semid \in Int /\ r.ops \in Seq(OpRec)
    BY <1>1, SemopFields, Zenon
  <2>2. d = tryop(st, r.semid, r.ops, pid)
    BY <1>1, Zenon DEF dispatch, is_semop
  <2>3. /\ StoreOK(tryop(st, r.semid, r.ops, pid).store)
        /\ tryop(st, r.semid, r.ops, pid).result \in Int
    BY <2>1, TryopOK, Zenon
  <2> QED
    BY <2>2, <2>3, Zenon
<1>2. CASE r.opcode = "SETVAL"
  <2>1. r.semid \in Int /\ r.semnum \in Nat /\ r.value \in Nat
    BY <1>2, BrokerAssumptions, Zenon
  <2>2. d = setval(st, r.semid, r.semnum, r.value, pid)
    BY <1>2, Zenon DEF dispatch, is_semop
  <2>3. /\ StoreOK(setval(st, r.semid, r.semnum, r.value, pid).store)
        /\ setval(st, r.semid, r.semnum, r.value, pid).result \in Int
    BY <2>1, SetvalOK, Zenon
  <2> QED
    BY <2>2, <2>3, Zenon
<1>3. CASE r.opcode = "SETALL"
  <2>1. r.semid \in Int /\ r.values \in Seq(Nat)
    BY <1>3, BrokerAssumptions, Zenon
  <2>2. d = setall(st, r.semid, r.values, pid)
    BY <1>3, Zenon DEF dispatch, is_semop
  <2> QED
    BY <2>1, <2>2, SetallOK, ZenonT(60)
<1>4. CASE r.opcode = "REMOVE"
  <2>1. r.semid \in Int
    BY <1>4, BrokerAssumptions, Zenon
  <2>2. d = remove(st, r.semid)
    BY <1>4, Zenon DEF dispatch, is_semop
  <2> QED
    BY <2>1, <2>2, RemoveOK, Zenon
<1>5. CASE r.opcode = "SEMGET"
  <2>1. /\ r.key \in Int /\ r.nsems \in Int /\ r.flags.mode \in 0 .. MaxMode
        /\ r.who.uid \in Nat /\ r.who.gid \in Nat
    BY <1>5, BrokerAssumptions, Zenon
  <2>2. d = get_as(st, r.key, r.nsems, r.flags, r.who, FALSE)
    BY <1>5, Zenon DEF dispatch, is_semop
  <2>3. /\ StoreOK(get_as(st, r.key, r.nsems, r.flags, r.who, FALSE).store)
        /\ get_as(st, r.key, r.nsems, r.flags, r.who, FALSE).result \in Int
    BY <2>1, GetAsOK, Zenon
  <2> QED
    BY <2>2, <2>3, Zenon
<1>6. CASE r.opcode = "SETMETA"
  <2>1. /\ r.semid \in Int /\ r.uid \in Nat /\ r.gid \in Nat /\ r.mode \in Nat
    BY <1>6, BrokerAssumptions, Zenon
  <2>2. d = set_metadata(st, r.semid, r.uid, r.gid, r.mode, r.who)
    BY <1>6, Zenon DEF dispatch, is_semop
  <2> QED
    BY <2>1, <2>2, SetMetadataOK
<1>7. CASE r.opcode \in {"GETVAL", "GETPID", "GETNCNT", "GETZCNT"}
  <2>1. r.semid \in Int /\ r.semnum \in Nat
    BY <1>7, BrokerAssumptions, Zenon
  <2>2. d = Returns(st, Reads(st, r))
    BY <1>7, Zenon DEF dispatch, is_semop
  <2>3. Reads(st, r) \in Int
    BY <1>7, <2>1, ReadsInt, Zenon
  <2> QED
    BY <2>2, <2>3 DEF Returns
<1>8. is_semop(r) \/ r.opcode \in {"SETVAL", "SETALL", "REMOVE", "SEMGET",
        "SETMETA", "GETVAL", "GETPID", "GETNCNT", "GETZCNT"}
  BY BrokerAssumptions DEF is_semop
<1> QED
  BY <1>1, <1>2, <1>3, <1>4, <1>5, <1>6, <1>7, <1>8

\* A semop that has to wait was not refused, so it waits for a semaphore of
\* its set.
LEMMA WaitReason ==
  ASSUME NEW st, StoreOK(st), NEW r \in Requests, NEW pid \in Nat,
         must_wait(r, dispatch(st, r, pid).result)
  PROVE  LET why == wait_reason(st, r.semid, r.ops)
         IN  why \in Reasons /\ has_sem(st, r.semid, why.sem_num)
<1> DEFINE set == set_of(st, r.semid)
           n == set.nsems
           invalid == ~found(st, r.semid) \/ r.ops = <<>>
                      \/ \E k \in 1 .. Len(r.ops) : r.ops[k].sem_num >= n
<1>1. is_semop(r) /\ dispatch(st, r, pid).result = 1
  BY DEF must_wait, TGC_SEM_OP_BLOCKED
<1>2. r.semid \in Int /\ r.ops \in Seq(OpRec)
  BY <1>1, SemopFields, Zenon
<1>3. tryop(st, r.semid, r.ops, pid).result = 1
  BY <1>1, ZenonT(60) DEF dispatch, is_semop
<1>4. ~invalid
  <2>1. invalid => tryop(st, r.semid, r.ops, pid) = Returns(st, -EINVAL)
    BY Zenon DEF tryop
  <2> QED
    BY <1>3, <2>1 DEF Returns, EINVAL
<1>5. /\ set \in SemSet
      /\ \A s \in Sems : s >= n => set.values[s] = 0
  BY <1>2, <1>4, FoundSet, Zenon
<1>6. n \in 0 .. MaxPerSet /\ set.values \in [Sems -> Values]
  BY <1>5, Zenon DEF SemSet
<1>7. \A k \in 1 .. Len(r.ops) : r.ops[k].sem_num < n
  <2> TAKE k \in 1 .. Len(r.ops)
  <2>1. r.ops[k] \in OpRec
    BY <1>2
  <2>2. r.ops[k].sem_num \in Nat
    BY <2>1, Zenon DEF OpRec
  <2> QED
    BY <1>4, <1>6, <2>2, Bounds
<1>8. working(set.values, r.ops) \in Work(n)
  BY <1>2, <1>5, <1>6, <1>7, WorkingType, Zenon
<1>9. n > 0
  <2>1. 1 \in 1 .. Len(r.ops) /\ r.ops[1] \in OpRec
    BY <1>2, <1>4
  <2>2. r.ops[1].sem_num \in Nat /\ r.ops[1].sem_num < n
    BY <1>7, <2>1, Zenon DEF OpRec
  <2> HIDE DEF n
  <2> QED
    BY <1>6, <2>2, Bounds
<1> DEFINE why == wait_reason(st, r.semid, r.ops)
<1>10. why \in Reasons /\ why.sem_num < n
  BY <1>8, <1>9, Zenon DEF wait_reason, Work
<1>11. why.sem_num \in 0 .. n - 1
  <2>1. why.sem_num \in Sems
    BY <1>10, Zenon DEF Reasons
  <2> HIDE DEF why, n
  <2> QED
    BY <1>6, <1>10, <2>1, Bounds DEF Sems
<1> QED
  BY <1>4, <1>10, <1>11, Zenon DEF has_sem

\* A reason names a semaphore, and says whether zero is awaited.
LEMMA ReasonFields ==
  ASSUME NEW why \in Reasons
  PROVE  why.sem_num \in Sems /\ why.sem_num \in Nat /\ why.wait_for_zero \in BOOLEAN
<1>1. why.sem_num \in Sems /\ why.wait_for_zero \in BOOLEAN
  BY Zenon DEF Reasons
<1>2. Sems \subseteq Nat
  BY Bounds DEF Sems
<1> QED
  BY <1>1, <1>2, Zenon

\* Counting a waiter in or out changes nothing else.
LEMMA CountOnly ==
  ASSUME NEW st, StoreOK(st), NEW semid \in Int, NEW n \in Nat,
         NEW zero \in BOOLEAN, NEW delta \in Int
  PROVE  LET new == adjust_wait_count(st, semid, n, zero, delta).store
         IN  StoreOK(new) /\ SameButCounts(st, new)
<1> DEFINE a == adjust_wait_count(st, semid, n, zero, delta)
           i == id_index(semid)
           count == counter(set_of(st, semid), zero)[n] + delta
           set == with_count(set_of(st, semid), zero, n, count)
<1>1. StoreOK(a.store)
  BY AdjustWaitCountOK, Zenon
<1>2. CASE a.store = st
  BY <1>1, <1>2, Zenon DEF SameButCounts
<1>3. CASE has_sem(st, semid, n) /\ a = Returns([st EXCEPT !.sets[i] = set], 0)
  <2>1. /\ i \in Slots /\ set_of(st, semid) = st.sets[i]
        /\ st.sets[i] \in SemSet /\ st.sets \in [Slots -> SemSet]
    BY <1>3, HasSem, FoundSet, Zenon DEF StoreOK, StoreType
  <2>2. a.store.undo = st.undo /\ a.store.sets = [st.sets EXCEPT ![i] = set]
    BY <1>3 DEF Returns, StoreOK, StoreType
  <2>3. Uncounted(set) = Uncounted(st.sets[i])
    BY <2>1, ZenonT(60) DEF Uncounted, with_count, SemSet
  <2>4. \A j \in Slots : Uncounted(st.sets[j]) = Uncounted(a.store.sets[j])
    BY <2>1, <2>2, <2>3, Zenon
  <2> QED
    BY <1>1, <2>2, <2>4, Zenon DEF SameButCounts
<1>4. \/ a = Returns(st, -EINVAL) \/ a = Returns(st, -ERANGE)
      \/ has_sem(st, semid, n) /\ a = Returns([st EXCEPT !.sets[i] = set], 0)
  BY Zenon DEF adjust_wait_count
<1> QED
  BY <1>2, <1>3, <1>4 DEF Returns

\* The stores that are well formed, as a set.
Stores == {st \in [sets : [Slots -> SemSet], undo : SUBSET UndoEntry] :
             StoreOK(st)}

\* The rounds of the monitor's loop: each leaves a well formed store.
LEMMA ExitRounds ==
  ASSUME NEW st, StoreOK(st), NEW list \in [WatcherSlots -> Pids \cup {0}],
         NEW up
  PROVE  LET x == exits(st, list, up)
         IN  /\ x[0] = st
             /\ \A k \in 1 .. MaxWatchers :
                  /\ StoreOK(x[k - 1]) /\ StoreOK(x[k])
                  /\ x[k] = IF list[k] = 0 \/ list[k] \in up THEN x[k - 1]
                            ELSE process_exit(x[k - 1], list[k]).store
             /\ StoreOK(x[MaxWatchers])
<1>0. \A k \in 1 .. MaxWatchers : list[k] \in Pids \cup {0}
  BY Zenon DEF WatcherSlots
<1> DEFINE m == MaxWatchers
           round(x, k) == IF list[k] = 0 \/ list[k] \in up THEN x
                          ELSE process_exit(x, list[k]).store
           g == [k \in 1 .. m |-> [x \in Stores |-> round(x, k)]]
           D == [k \in 0 .. m |-> Stores]
           Def(x) == [k \in 0 .. m |->
                        IF k = 0 THEN st
                        ELSE IF list[k] = 0 \/ list[k] \in up THEN x[k - 1]
                        ELSE process_exit(x[k - 1], list[k]).store]
           F == CHOOSE x : x = Def(x)
<1>1. st \in Stores /\ m \in Nat
  BY BrokerAssumptions, Zenon DEF Stores, StoreOK, StoreType
<1>2. \A k \in 1 .. m : \A x \in Stores : round(x, k) \in Stores
  <2> TAKE k \in 1 .. m
  <2> TAKE x \in Stores
  <2>1. StoreOK(x)
    BY Zenon DEF Stores
  <2>2. CASE list[k] = 0 \/ list[k] \in up
    BY <2>2, Zenon
  <2>3. CASE ~(list[k] = 0 \/ list[k] \in up)
    <3>1. list[k] \in Nat
      <4>1. Pids \subseteq Nat
        BY BrokerAssumptions, Zenon
      <4>2. list[k] \in Pids
        BY <1>0, <2>3, Zenon
      <4> QED
        BY <4>1, <4>2, Zenon
    <3>2. StoreOK(process_exit(x, list[k]).store)
      BY <2>1, <3>1, ProcessExitOK, ZenonT(60)
    <3>3. process_exit(x, list[k]).store \in Stores
      BY <3>2, Zenon DEF Stores, StoreOK, StoreType
    <3> QED
      BY <2>3, <3>3, Zenon
  <2> QED
    BY <2>2, <2>3, Zenon
<1> HIDE DEF m
<1>3. g \in [1 .. m -> [Stores -> Stores]]
  BY <1>2, Zenon
<1>4. PICK w \in [0 .. m -> Stores] :
        w[0] = st /\ \A k \in 1 .. m : w[k] = g[k][w[k - 1]]
  <2> HIDE DEF g, Def, F
  <2>1. Runs(Stores, st, m, g) # {}
    BY <1>1, <1>3, LoopRuns, Zenon
  <2> QED
    BY <2>1, Zenon DEF Runs
<1>5. ASSUME NEW k \in 1 .. m PROVE w[k] = round(w[k - 1], k)
  <2>1. w[k - 1] \in Stores
    BY <1>1
  <2>2. g[k] = [x \in Stores |-> round(x, k)]
    BY Zenon
  <2>3. w[k] = g[k][w[k - 1]]
    BY <1>4, Zenon
  <2> HIDE DEF g
  <2> QED
    BY <2>1, <2>2, <2>3, Zenon
<1>6. w = Def(w)
  BY <1>1, <1>4, <1>5
<1>7. F = Def(F)
  <2> HIDE DEF Def
  <2> QED
    BY <1>6, Zenon
<1>8. exits(st, list, up) = F
  BY Zenon DEF exits, m
<1> HIDE DEF F
<1>9. F[0] = st /\ \A k \in 1 .. m : F[k] = round(F[k - 1], k)
  BY <1>1, <1>7
<1>10. F[0] \in D[0] /\ \A k \in 1 .. m : F[k - 1] \in D[k - 1] => F[k] \in D[k]
  <2> HIDE DEF round
  <2> QED
    BY <1>1, <1>2, <1>9
<1>11. \A k \in 0 .. m : F[k] \in Stores
  <2> TAKE k \in 0 .. m
  <2>1. k \in Nat /\ \A i \in 1 .. k : F[i - 1] \in D[i - 1] => F[i] \in D[i]
    BY <1>1, <1>10
  <2>2. F[k] \in D[k]
    <3> HIDE DEF D
    <3> QED
      BY <1>10, <2>1, LoopInvariant, Zenon
  <2> QED
    BY <2>2, Zenon
<1>12. \A k \in 0 .. m : StoreOK(F[k])
  BY <1>11, Zenon DEF Stores
<1>13. \A k \in 1 .. m : k \in 0 .. m /\ k - 1 \in 0 .. m
  BY <1>1
<1>14. m \in 0 .. m
  BY <1>1
<1> QED
  BY <1>8, <1>9, <1>12, <1>13, <1>14, Zenon DEF m

\* The monitor's scan leaves a well formed store, whoever has exited.
LEMMA ExitsOK ==
  ASSUME NEW st, StoreOK(st), NEW list \in [WatcherSlots -> Pids \cup {0}],
         NEW up
  PROVE  StoreOK(after_exits(st, list, up))
BY ExitRounds, Zenon DEF after_exits

\* watch_process: it fails for want of a slot or of the process, and wakes
\* the monitor when it takes a slot.
LEMMA WatchOK ==
  ASSUME watchers \in [WatcherSlots -> Pids \cup {0}], NEW p \in Pids, NEW gone
  PROVE  LET w == watch_process(p, gone)
         IN  /\ w.result \in {0, -ENOSPC, -ENOENT}
             /\ w.watchers \in [WatcherSlots -> Pids \cup {0}]
             /\ w.broadcast \/ w.watchers = watchers
<1> DEFINE free == {k \in WatcherSlots : watchers[k] = 0}
           same == [result |-> 0, watchers |-> watchers, broadcast |-> FALSE]
           w == watch_process(p, gone)
<1>1. CASE Watched(p)
  BY <1>1, Zenon DEF watch_process
<1>2. CASE ~Watched(p) /\ free = {}
  <2>1. w = [same EXCEPT !.result = -ENOSPC]
    BY <1>2, Zenon DEF watch_process
  <2> QED
    BY <2>1, Zenon
<1>3. CASE ~Watched(p) /\ free # {} /\ gone
  <2>1. w = [same EXCEPT !.result = -ENOENT]
    BY <1>3, Zenon DEF watch_process
  <2> QED
    BY <2>1, Zenon
<1>4. CASE ~Watched(p) /\ free # {} /\ ~gone
  <2>1. w = [same EXCEPT !.watchers[Smallest(free)] = p, !.broadcast = TRUE]
    BY <1>4, Zenon DEF watch_process
  <2>2. /\ w.result = 0 /\ w.broadcast = TRUE
        /\ w.watchers = [watchers EXCEPT ![Smallest(free)] = p]
    BY <2>1, Zenon
  <2> QED
    BY <2>2, ZenonT(60)
<1> QED
  BY <1>1, <1>2, <1>3, <1>4, Zenon

-----------------------------------------------------------------------------
(* The inductive invariant.                                                *)

\* A connection whose request is being served has a client process and a
\* request, and only a semop waits.
Asking ==
  \A c \in Conns :
    /\ state[c] # "closed" => peer[c] \in Pids
    /\ state[c] \in {"sent", "waiting"} => req[c] \in Requests
    /\ state[c] = "waiting" => is_semop(req[c])

BrokerInv == /\ StoreOK(store) /\ TypeOK /\ Asking
             /\ QueueIsWaiters /\ MonitorAwake

\* What the constants are known to be.
LEMMA Processes ==
  /\ Pids \subseteq Nat /\ 0 \notin Pids /\ MaxWatchers \in Nat
  /\ FirstAlive \subseteq SUBSET Pids /\ StoreOK(FirstStore)
BY BrokerAssumptions, Zenon

\* The broker starts with an empty queue and nobody to watch.
LEMMA BrokerInit == Init => BrokerInv
<1> SUFFICES ASSUME Init PROVE BrokerInv
  BY Zenon
<1>1. StoreOK(store)
  BY Processes, Zenon DEF Init
<1>2. queue = <<>> /\ <<>> \in Seq(Waiter)
  BY DEF Init
<1>3. TypeOK
  BY <1>2, Processes DEF Init, TypeOK
<1>4. Asking /\ MonitorAwake
  BY Zenon DEF Init, Asking, MonitorAwake
<1>5. QueueIsWaiters
  BY <1>2 DEF Init, QueueIsWaiters
<1> QED
  BY <1>1, <1>3, <1>4, <1>5, Zenon DEF BrokerInv

\* The waiter list stays exact while nobody starts or stops to wait.
LEMMA SameWaiters ==
  ASSUME QueueIsWaiters, queue \in Seq(Waiter), queue' = queue,
         \A c \in Conns : state'[c] = "waiting" <=> state[c] = "waiting",
         \A c \in Conns : state[c] = "waiting" => req'[c] = req[c]
  PROVE  QueueIsWaiters'
<1>1. \A k \in DOMAIN queue : queue[k].conn \in Conns
  <2>1. \A k \in DOMAIN queue : queue[k] \in Waiter
    OBVIOUS
  <2> QED
    BY <2>1, Zenon DEF Waiter
<1>2. \A k \in DOMAIN queue : req'[queue[k].conn] = req[queue[k].conn]
  BY <1>1, Zenon DEF QueueIsWaiters
<1> QED
  BY <1>2 DEF QueueIsWaiters

\* finish_waiter unlinks the caller's entry, and no other.
LEMMA Unlinks ==
  ASSUME QueueIsWaiters, queue \in Seq(Waiter),
         NEW c \in Conns, state[c] = "waiting"
  PROVE  LET k == Position(c)
             n == Len(queue)
         IN  /\ n \in Nat /\ k \in 1 .. n /\ queue[k].conn = c
             /\ Without(c) \in Seq(Waiter) /\ Len(Without(c)) = n - 1
             /\ \A i \in 1 .. n - 1 :
                  Without(c)[i] = IF i < k THEN queue[i] ELSE queue[i + 1]
<1> DEFINE k == Position(c)
           n == Len(queue)
<1>1. n \in Nat /\ DOMAIN queue = 1 .. n
  OBVIOUS
<1>2. k \in 1 .. n /\ queue[k].conn = c
  BY <1>1, Zenon DEF QueueIsWaiters, Position
<1> HIDE DEF k
<1>3. Without(c) = [i \in 1 .. n - 1 |-> IF i < k THEN queue[i] ELSE queue[i + 1]]
  BY Zenon DEF Without, Unlinked, k
<1>4. \A i \in 1 .. n - 1 :
        i \in 1 .. n /\ i + 1 \in 1 .. n /\ queue[i] \in Waiter /\ queue[i + 1] \in Waiter
  BY <1>1
<1>5. Without(c) \in [1 .. n - 1 -> Waiter] /\ n - 1 \in Nat
  BY <1>1, <1>2, <1>3, <1>4
<1>6. Without(c) \in Seq(Waiter) /\ Len(Without(c)) = n - 1
  BY <1>5
<1> QED
  BY <1>1, <1>2, <1>3, <1>6 DEF k

\* So the list stays exact when a waiter leaves it.
LEMMA LeavesQueue ==
  ASSUME QueueIsWaiters, queue \in Seq(Waiter),
         state \in [Conns -> {"closed", "idle", "sent", "waiting", "replied"}],
         NEW c \in Conns, state[c] = "waiting",
         queue' = Without(c), state' = [state EXCEPT ![c] = "replied"],
         req' = req
  PROVE  QueueIsWaiters' /\ queue' \in Seq(Waiter)
<1> DEFINE k == Position(c)
           n == Len(queue)
           at(i) == IF i < k THEN i ELSE i + 1
<1>1. /\ n \in Nat /\ k \in 1 .. n /\ queue[k].conn = c
      /\ queue' \in Seq(Waiter) /\ Len(queue') = n - 1
      /\ \A i \in 1 .. n - 1 : queue'[i] = queue[at(i)]
  <2>1. \A i \in 1 .. n - 1 :
          queue[at(i)] = IF i < k THEN queue[i] ELSE queue[i + 1]
    BY Zenon
  <2> HIDE DEF at
  <2> QED
    BY <2>1, Unlinks
<1> HIDE DEF k, n
<1>2. DOMAIN queue = 1 .. n /\ DOMAIN queue' = 1 .. n - 1
  BY <1>1 DEF n
<1>3. \A i \in 1 .. n - 1 : at(i) \in 1 .. n /\ at(i) # k
  BY <1>1
<1>4. \A i, j \in 1 .. n - 1 : at(i) = at(j) => i = j
  BY <1>1
<1>5. \A j \in 1 .. n : j # k => \E i \in 1 .. n - 1 : at(i) = j
  <2> TAKE j \in 1 .. n
  <2>1. CASE j < k
    <3>1. j \in 1 .. n - 1 /\ at(j) = j
      BY <2>1, <1>1
    <3> QED
      BY <3>1, Zenon
  <2>2. CASE j > k
    <3>1. j - 1 \in 1 .. n - 1 /\ at(j - 1) = j
      BY <2>2, <1>1
    <3> QED
      BY <3>1, Zenon
  <2> QED
    BY <2>1, <2>2, <1>1
<1> HIDE DEF at
<1>6. \A i, j \in 1 .. n : queue[i].conn = queue[j].conn => i = j
  BY <1>2, Zenon DEF QueueIsWaiters
<1>7. ASSUME NEW d \in Conns
      PROVE  state'[d] = "waiting" <=> \E i \in 1 .. n - 1 : queue'[i].conn = d
  <2>1. CASE d = c
    BY <2>1, <1>1, <1>3, <1>6, ZenonT(60)
  <2>2. CASE d # c
    <3>1. state'[d] = "waiting" <=> \E j \in 1 .. n : queue[j].conn = d
      BY <2>2, <1>2, Zenon DEF QueueIsWaiters
    <3>2. ASSUME NEW i \in 1 .. n - 1, queue'[i].conn = d
          PROVE  state'[d] = "waiting"
      <4>1. at(i) \in 1 .. n /\ queue[at(i)].conn = d
        BY <3>2, <1>1, <1>3, Zenon
      <4> QED
        BY <4>1, <3>1, Zenon
    <3>3. ASSUME state'[d] = "waiting"
          PROVE  \E i \in 1 .. n - 1 : queue'[i].conn = d
      <4>1. PICK j \in 1 .. n : queue[j].conn = d
        BY <3>3, <3>1, Zenon
      <4>2. PICK i \in 1 .. n - 1 : at(i) = j
        BY <4>1, <2>2, <1>1, <1>5
      <4>3. queue'[i].conn = d
        BY <4>1, <4>2, <1>1, Zenon
      <4> QED
        BY <4>3, Zenon
    <3> QED
      BY <3>2, <3>3, Zenon
  <2> QED
    BY <2>1, <2>2, Zenon
<1>8. \A i, j \in 1 .. n - 1 : queue'[i].conn = queue'[j].conn => i = j
  <2> TAKE i, j \in 1 .. n - 1
  <2>1. queue'[i] = queue[at(i)] /\ queue'[j] = queue[at(j)]
    BY <1>1, Zenon
  <2>2. queue[at(i)].conn = queue[at(j)].conn => at(i) = at(j)
    BY <1>3, <1>6, Zenon
  <2> QED
    BY <2>1, <2>2, <1>4
<1>9. \A i \in 1 .. n - 1 : queue'[i].semid = req'[queue'[i].conn].semid
  BY <1>1, <1>2, <1>3 DEF QueueIsWaiters
<1>10. \A d \in Conns : state'[d] = "waiting" <=>
         \E i \in 1 .. n - 1 : queue'[i].conn = d
  BY <1>7, Zenon
<1>11. QueueIsWaiters'
  BY <1>2, <1>8, <1>9, <1>10, ZenonT(40) DEF QueueIsWaiters
<1> QED
  BY <1>1, <1>11, Zenon

-----------------------------------------------------------------------------
(* The steps keep it.                                                      *)

\* What a client does leaves the broker's own state alone.
LEMMA ClientStep == ASSUME BrokerInv, Client PROVE BrokerInv'
<1>1. /\ StoreOK(store) /\ TypeOK /\ Asking /\ QueueIsWaiters /\ MonitorAwake
      /\ queue \in Seq(Waiter)
  BY Zenon DEF BrokerInv, TypeOK
<1>2. UNCHANGED bvars
  BY Zenon DEF Client, Connect, Close, Send, Receive, Fork, Exit
<1>3. StoreOK(store') /\ MonitorAwake'
  BY <1>1, <1>2, Zenon DEF bvars, MonitorAwake
<1>4. ASSUME NEW c \in Conns, NEW p \in Pids, Connect(c, p)
      PROVE  TypeOK' /\ Asking' /\ QueueIsWaiters'
  <2>1. TypeOK' /\ Asking'
    BY <1>1, <1>4, Zenon DEF TypeOK, Asking, Connect, bvars
  <2>2. QueueIsWaiters'
    BY <1>1, <1>4, SameWaiters, ZenonT(60) DEF TypeOK, Connect, bvars
  <2> QED
    BY <2>1, <2>2, Zenon
<1>5. ASSUME NEW c \in Conns, NEW p \in Pids, Close(c, p)
      PROVE  TypeOK' /\ Asking' /\ QueueIsWaiters'
  <2>1. TypeOK' /\ Asking'
    BY <1>1, <1>5 DEF TypeOK, Asking, Close, bvars
  <2>2. QueueIsWaiters'
    BY <1>1, <1>5, SameWaiters, ZenonT(60) DEF Close, bvars
  <2> QED
    BY <2>1, <2>2, ZenonT(60)
<1>6. ASSUME NEW c \in Conns, NEW r \in Requests, Send(c, r)
      PROVE  TypeOK' /\ Asking' /\ QueueIsWaiters'
  <2>1. TypeOK' /\ Asking'
    BY <1>1, <1>6, Zenon DEF TypeOK, Asking, Send, bvars
  <2>2. QueueIsWaiters'
    BY <1>1, <1>6, SameWaiters DEF TypeOK, Send, bvars
  <2> QED
    BY <2>1, <2>2, ZenonT(60)
<1>7. ASSUME NEW c \in Conns, Receive(c)
      PROVE  TypeOK' /\ Asking' /\ QueueIsWaiters'
  <2>1. TypeOK' /\ Asking'
    BY <1>1, <1>7, SmallNumbers, ZenonT(40) DEF TypeOK, Asking, Receive, bvars
  <2>2. QueueIsWaiters'
    BY <1>1, <1>7, SameWaiters DEF TypeOK, Receive, bvars
  <2> QED
    BY <2>1, <2>2, Zenon
<1>8. ASSUME NEW p \in Pids, NEW q \in Pids, Fork(p, q)
      PROVE  TypeOK' /\ Asking' /\ QueueIsWaiters'
  <2>1. TypeOK' /\ Asking'
    BY <1>1, <1>8, ZenonT(60) DEF TypeOK, Asking, Fork, bvars
  <2>2. QueueIsWaiters'
    BY <1>1, <1>8, SameWaiters DEF Fork, bvars
  <2> QED
    BY <2>1, <2>2, Zenon
<1>9. ASSUME NEW p \in Pids, Exit(p)
      PROVE  TypeOK' /\ Asking' /\ QueueIsWaiters'
  <2>1. TypeOK' /\ Asking'
    BY <1>1, <1>9, Zenon DEF TypeOK, Asking, Exit, bvars
  <2>2. QueueIsWaiters'
    BY <1>1, <1>9, SameWaiters DEF Exit, bvars
  <2> QED
    BY <2>1, <2>2, ZenonT(60)
<1>10. TypeOK' /\ Asking' /\ QueueIsWaiters'
  BY <1>4, <1>5, <1>6, <1>7, <1>8, <1>9 DEF Client
<1> QED
  BY <1>3, <1>10 DEF BrokerInv

\* The end of a connection touches no waiter.
LEMMA HangUpStep == ASSUME BrokerInv, NEW c \in Conns, HangUp(c) PROVE BrokerInv'
<1>1. /\ StoreOK(store) /\ TypeOK /\ Asking /\ QueueIsWaiters /\ MonitorAwake
      /\ queue \in Seq(Waiter)
  BY Zenon DEF BrokerInv, TypeOK
<1>2. StoreOK(store') /\ MonitorAwake'
  BY <1>1, Zenon DEF HangUp, bvars, MonitorAwake
<1>3. TypeOK' /\ Asking'
  BY <1>1 DEF TypeOK, Asking, HangUp, bvars
<1>4. QueueIsWaiters'
  BY <1>1, SameWaiters, Zenon DEF TypeOK, HangUp, bvars
<1> QED
  BY <1>2, <1>3, <1>4, Zenon DEF BrokerInv

\* dispatch_request: refused, served at once, queued, or abandoned.
LEMMA DispatchStep ==
  ASSUME BrokerInv, NEW c \in Conns, dispatch_request(c)
  PROVE  BrokerInv'
<1>1. /\ StoreOK(store) /\ TypeOK /\ Asking /\ QueueIsWaiters /\ MonitorAwake
      /\ queue \in Seq(Waiter) /\ watchers \in [WatcherSlots -> Pids \cup {0}]
      /\ state \in [Conns -> {"closed", "idle", "sent", "waiting", "replied"}]
  BY ZenonT(60) DEF BrokerInv, TypeOK
<1>2. /\ state[c] = "sent" /\ req[c] \in Requests /\ peer[c] \in Pids
      /\ peer[c] \in Nat
  BY <1>1, Processes, ZenonT(60) DEF dispatch_request, Asking
<1>3. PICK gone \in {FALSE, peer[c] \notin alive} :
        LET w == IF request_uses_undo(req[c]) THEN watch_process(peer[c], gone)
                 ELSE [result |-> 0, watchers |-> watchers, broadcast |-> FALSE]
        IN  \/ /\ w.result # 0
               /\ Answer(c, w.result)
               /\ UNCHANGED bvars
            \/ w.result = 0 /\ Serve(c, w)
            \/ w.result = 0 /\ Enqueue(c, w)
            \/ w.result = 0 /\ Abandon(c, w)
  BY Zenon DEF dispatch_request
<1> DEFINE w == IF request_uses_undo(req[c]) THEN watch_process(peer[c], gone)
                ELSE [result |-> 0, watchers |-> watchers, broadcast |-> FALSE]
           d == dispatch(store, req[c], peer[c])
<1>4. /\ w.result \in {0, -ENOSPC, -ENOENT}
      /\ w.watchers \in [WatcherSlots -> Pids \cup {0}]
      /\ w.broadcast \/ w.watchers = watchers
  <2>1. CASE request_uses_undo(req[c])
    BY <2>1, <1>1, <1>2, WatchOK, ZenonT(60)
  <2>2. CASE ~request_uses_undo(req[c])
    BY <2>2, <1>1, Zenon
  <2> QED
    BY <2>1, <2>2, ZenonT(60)
<1>5. StoreOK(d.store) /\ d.result \in Int
  BY <1>1, <1>2, DispatchOK, ZenonT(60)
<1>6. \/ w.result # 0 /\ Answer(c, w.result) /\ UNCHANGED bvars
      \/ w.result = 0 /\ Serve(c, w)
      \/ w.result = 0 /\ Enqueue(c, w)
      \/ w.result = 0 /\ Abandon(c, w)
  BY <1>3, ZenonT(60)
<1> HIDE DEF w, d
<1>7. w.result \in Int
  BY <1>4 DEF ENOSPC, ENOENT
<1>8. CASE w.result # 0 /\ Answer(c, w.result) /\ UNCHANGED bvars
  <2>1. TypeOK' /\ Asking'
    BY <1>1, <1>2, <1>7, <1>8, Zenon DEF TypeOK, Asking, Answer, bvars
  <2>2. QueueIsWaiters'
    BY <1>1, <1>2, <1>8, SameWaiters DEF Answer, bvars
  <2>3. StoreOK(store') /\ MonitorAwake'
    BY <1>1, <1>8, ZenonT(60) DEF bvars, MonitorAwake
  <2> QED
    BY <2>1, <2>2, <2>3, Zenon DEF BrokerInv
<1>9. CASE Serve(c, w)
  <2>1. /\ store' = d.store /\ Answer(c, d.result) /\ queue' = queue
        /\ watchers' = w.watchers
        /\ \E on \in BOOLEAN : Broadcast(on) /\ (w.broadcast => on)
    BY <1>9, ZenonT(60) DEF Serve, d, operation_changed_state
  <2>2. TypeOK' /\ Asking'
    BY <1>1, <1>2, <1>4, <1>5, <2>1 DEF TypeOK, Asking, Answer, Broadcast
  <2>3. QueueIsWaiters'
    BY <1>1, <1>2, <2>1, SameWaiters, ZenonT(60) DEF Answer
  <2>4. StoreOK(store') /\ MonitorAwake'
    BY <1>1, <1>4, <1>5, <2>1 DEF MonitorAwake, Broadcast
  <2> QED
    BY <2>2, <2>3, <2>4, ZenonT(60) DEF BrokerInv
<1>10. CASE Abandon(c, w)
  <2>1. /\ store' = store /\ Answer(c, TGC_SEM_OP_BLOCKED) /\ queue' = queue
        /\ watchers' = w.watchers /\ Broadcast(TRUE)
    BY <1>10, Zenon DEF Abandon
  <2>2. TypeOK' /\ Asking'
    <3>1. TGC_SEM_OP_BLOCKED \in Int
      BY Codes, Zenon
    <3>2. TypeOK'
      BY <1>1, <1>2, <1>4, <2>1, <3>1 DEF TypeOK, Answer, Broadcast
    <3>3. Asking'
      BY <1>1, <1>2, <2>1, Zenon DEF TypeOK, Asking, Answer
    <3> QED
      BY <3>2, <3>3, Zenon
  <2>3. QueueIsWaiters'
    BY <1>1, <1>2, <2>1, SameWaiters, Zenon DEF Answer
  <2>4. StoreOK(store') /\ MonitorAwake'
    BY <1>1, <2>1, Zenon DEF MonitorAwake, Broadcast
  <2> QED
    BY <2>2, <2>3, <2>4, ZenonT(60) DEF BrokerInv
<1>11. CASE Enqueue(c, w)
  <2> DEFINE why == wait_reason(store, req[c].semid, req[c].ops)
             new == [conn |-> c, semid |-> req[c].semid,
                     semnum |-> why.sem_num, zero |-> why.wait_for_zero]
  <2>1. /\ must_wait(req[c], d.result) /\ queue' = Append(queue, new)
        /\ store' = adjust_wait_count(store, req[c].semid, why.sem_num,
                                      why.wait_for_zero, 1).store
        /\ state' = [state EXCEPT ![c] = "waiting"] /\ watchers' = w.watchers
        /\ asleep' \subseteq asleep \cup {c}
        /\ monitor' = IF w.broadcast THEN "ready" ELSE monitor
        /\ UNCHANGED <<peer, holders, req, reply, alive>>
    BY <1>11, ZenonT(60) DEF Enqueue, d
  <2>2. why \in Reasons
    BY <2>1, <1>1, <1>2, WaitReason, ZenonT(60) DEF d
  <2>3. is_semop(req[c]) /\ req[c].semid \in Int
    BY <2>1, <1>2, SemopFields, ZenonT(60) DEF must_wait
  <2> HIDE DEF why
  <2>4. why.sem_num \in Sems /\ why.sem_num \in Nat /\ why.wait_for_zero \in BOOLEAN
    BY <2>2, ReasonFields, Zenon
  <2>5. StoreOK(store')
    <3> DEFINE id == req[c].semid
               n == why.sem_num
               zero == why.wait_for_zero
               after == adjust_wait_count(store, id, n, zero, 1).store
    <3>1. /\ StoreOK(store) /\ id \in Int /\ n \in Nat /\ zero \in BOOLEAN
          /\ 1 \in Int
      BY <1>1, <2>3, <2>4
    <3> HIDE DEF id, n, zero
    <3>2. StoreOK(after)
      BY <3>1, CountOnly, Zenon
    <3> USE DEF id, n, zero
    <3>3. store' = after
      BY <2>1, Zenon
    <3> HIDE DEF after
    <3> QED
      BY <3>2, <3>3, Zenon
  <2>6. new \in Waiter
    BY <2>3, <2>4, Zenon DEF Waiter
  <2>7. /\ queue' \in Seq(Waiter) /\ Len(queue) \in Nat
        /\ DOMAIN queue = 1 .. Len(queue)
        /\ DOMAIN queue' = 1 .. Len(queue) + 1
        /\ \A k \in 1 .. Len(queue) : queue'[k] = queue[k]
        /\ queue'[Len(queue) + 1] = new
        /\ Len(queue) + 1 \in DOMAIN queue' /\ DOMAIN queue \subseteq DOMAIN queue'
        /\ \A k \in DOMAIN queue' : k \in 1 .. Len(queue) \/ k = Len(queue) + 1
    <3> HIDE DEF new
    <3>1. queue' = Append(queue, new) /\ queue \in Seq(Waiter)
      BY <2>1, <1>1, Zenon DEF TypeOK
    <3>2. Append(queue, new) \in Seq(Waiter) /\ Grown(queue, Append(queue, new), new)
      BY <3>1, <2>6, AppendGrows, Zenon
    <3> QED
      BY <3>1, <3>2, Zenon DEF Grown
  <2>8. TypeOK' /\ Asking'
    <3>1. /\ queue' \in Seq(Waiter) /\ alive' \subseteq Pids
          /\ watchers' \in [WatcherSlots -> Pids \cup {0}]
          /\ monitor' \in {"ready", "timed", "untimed"}
      BY <1>1, <1>4, <2>1, <2>7, Zenon DEF TypeOK
    <3>2. /\ state' \in [Conns -> {"closed", "idle", "sent", "waiting", "replied"}]
          /\ asleep' \subseteq {x \in Conns : state'[x] = "waiting"}
      BY <1>1, <2>1 DEF TypeOK
    <3>3. /\ peer' \in [Conns -> Pids \cup {0}] /\ reply' \in [Conns -> Int]
          /\ holders' \in [Conns -> SUBSET alive']
          /\ req' \in [Conns -> Requests \cup {NoRequest}]
      BY <1>1, <2>1, Zenon DEF TypeOK
    <3>4. Asking'
      BY <1>1, <1>2, <2>1, <2>3, ZenonT(60) DEF TypeOK, Asking
    <3> QED
      BY <3>1, <3>2, <3>3, <3>4, ZenonT(60) DEF TypeOK
  <2>9. MonitorAwake'
    BY <1>1, <1>4, <2>1, Zenon DEF MonitorAwake
  <2>10. QueueIsWaiters'
    <3>1. new.conn = c /\ new.semid = req[c].semid
      BY Zenon
    <3> HIDE DEF new
    <3>2. \A k \in 1 .. Len(queue) : queue[k].conn # c
      BY <1>1, <1>2, <2>7, ZenonT(60) DEF QueueIsWaiters
    <3>3. \A x \in Conns : state'[x] = "waiting" <=> \E k \in DOMAIN queue' :
                                                       queue'[k].conn = x
      <4>1. ASSUME NEW x \in Conns
            PROVE  state'[x] = "waiting" <=> x = c \/ \E k \in 1 .. Len(queue) :
                                                         queue[k].conn = x
        <5>1. state'[x] = IF x = c THEN "waiting" ELSE state[x]
          BY <1>1, <2>1, Zenon DEF TypeOK
        <5>2. state[x] = "waiting" <=> \E k \in 1 .. Len(queue) : queue[k].conn = x
          BY <1>1, <2>7, Zenon DEF QueueIsWaiters
        <5> QED
          BY <5>1, <5>2, Zenon
      <4>2. ASSUME NEW x \in Conns
            PROVE  (\E k \in DOMAIN queue' : queue'[k].conn = x)
                     <=> x = c \/ \E k \in 1 .. Len(queue) : queue[k].conn = x
        BY <2>7, <3>1, ZenonT(40)
      <4> QED
        BY <4>1, <4>2, Zenon
    <3>4. \A j, k \in DOMAIN queue' : queue'[j].conn = queue'[k].conn => j = k
      <4> SUFFICES ASSUME NEW j \in DOMAIN queue', NEW k \in DOMAIN queue',
                          queue'[j].conn = queue'[k].conn
                   PROVE  j = k
        BY Zenon
      <4>1. CASE j \in 1 .. Len(queue) /\ k \in 1 .. Len(queue)
        <5>1. queue'[j] = queue[j] /\ queue'[k] = queue[k]
          BY <2>7, <4>1, Zenon
        <5>2. \A m, l \in 1 .. Len(queue) : queue[m].conn = queue[l].conn => m = l
          BY <1>1, <2>7, Zenon DEF QueueIsWaiters
        <5>3. queue[j].conn = queue[k].conn
          BY <5>1, Zenon
        <5> QED
          BY <4>1, <5>2, <5>3, Zenon
      <4>2. CASE j = Len(queue) + 1 \/ k = Len(queue) + 1
        <5>1. \A m \in 1 .. Len(queue) : queue'[m].conn # c
          BY <2>7, <3>2, Zenon
        <5>2. queue'[Len(queue) + 1].conn = c
          BY <2>7, <3>1, Zenon
        <5> QED
          BY <2>7, <4>2, <5>1, <5>2, Zenon
      <4> QED
        BY <2>7, <4>1, <4>2, Zenon
    <3>5. \A k \in DOMAIN queue' : queue'[k].semid = req'[queue'[k].conn].semid
      <4>1. \A k \in 1 .. Len(queue) : queue[k].semid = req[queue[k].conn].semid
        BY <1>1, <2>7, Zenon DEF QueueIsWaiters
      <4>2. req' = req
        BY <2>1, Zenon
      <4> QED
        BY <4>1, <4>2, <2>7, <3>1, ZenonT(40)
    <3> QED
      BY <3>3, <3>4, <3>5, Zenon DEF QueueIsWaiters
  <2> QED
    BY <2>5, <2>8, <2>9, <2>10, ZenonT(60) DEF BrokerInv
<1> QED
  BY <1>6, <1>8, <1>9, <1>10, <1>11, Zenon

\* What finish_waiter does to a well formed store: it counts a waiter out.
LEMMA FinishWaiter ==
  ASSUME QueueIsWaiters, queue \in Seq(Waiter),
         NEW c \in Conns, state[c] = "waiting", NEW st, StoreOK(st)
  PROVE  StoreOK(finish_waiter(st, c)) /\ SameButCounts(st, finish_waiter(st, c))
<1> DEFINE w == queue[Position(c)]
<1>1. Position(c) \in 1 .. Len(queue)
  BY Unlinks, Zenon
<1>2. w \in Waiter
  BY <1>1
<1>3. finish_waiter(st, c) = adjust_wait_count(st, w.semid, w.semnum, w.zero, -1).store
  BY Zenon DEF finish_waiter
<1> HIDE DEF w
<1>4. w.semid \in Int /\ w.semnum \in Nat /\ w.zero \in BOOLEAN /\ -1 \in Int
  BY <1>2, Bounds DEF Waiter, Sems
<1> QED
  BY <1>3, <1>4, CountOnly, ZenonT(60)

\* A waiter that leaves takes its entry and its count with it.
LEMMA LeaveStep ==
  ASSUME BrokerInv, NEW c \in Conns, state[c] = "waiting",
         NEW st, StoreOK(st), NEW result \in Int, Leave(c, st, result)
  PROVE  BrokerInv'
<1>1. /\ StoreOK(store) /\ TypeOK /\ Asking /\ QueueIsWaiters /\ MonitorAwake
      /\ queue \in Seq(Waiter)
      /\ state \in [Conns -> {"closed", "idle", "sent", "waiting", "replied"}]
  BY Zenon DEF BrokerInv, TypeOK
<1>2. /\ store' = finish_waiter(st, c) /\ queue' = Without(c)
      /\ Broadcast(TRUE) /\ Answer(c, result) /\ watchers' = watchers
      /\ state' = [state EXCEPT ![c] = "replied"] /\ req' = req
  BY Zenon DEF Leave, Answer
<1>3. StoreOK(store')
  BY <1>1, <1>2, FinishWaiter, Zenon
<1>4. QueueIsWaiters' /\ queue' \in Seq(Waiter)
  BY <1>1, <1>2, LeavesQueue, ZenonT(60)
<1>5. TypeOK' /\ Asking'
  BY <1>1, <1>2, <1>4, Zenon DEF TypeOK, Asking, Answer, Broadcast
<1>6. MonitorAwake'
  BY <1>2, Zenon DEF MonitorAwake, Broadcast
<1> QED
  BY <1>3, <1>4, <1>5, <1>6, Zenon DEF BrokerInv

\* One round of dispatch_request's loop.
LEMMA RetryStep ==
  ASSUME BrokerInv, NEW c \in Conns,
         \/ retry_peer_closed(c) \/ retry_first(c)
         \/ retry_sleeps(c) \/ operation_timed_out(c)
  PROVE  BrokerInv'
<1> DEFINE d == dispatch(store, req[c], peer[c])
<1>1. StoreOK(store) /\ TypeOK /\ Asking /\ QueueIsWaiters /\ MonitorAwake
  BY Zenon DEF BrokerInv
<1>2. state[c] = "waiting"
  BY ZenonT(60) DEF retry_peer_closed, retry_first, retry_sleeps, operation_timed_out
<1>3. req[c] \in Requests /\ peer[c] \in Nat
  BY <1>1, <1>2, Processes, ZenonT(60) DEF Asking
<1>4. StoreOK(d.store) /\ d.result \in Int
  BY <1>1, <1>3, DispatchOK, Zenon
<1>5. TGC_SEM_OP_BLOCKED \in Int /\ -EAGAIN \in Int
  BY DEF TGC_SEM_OP_BLOCKED, EAGAIN
<1>6. CASE retry_peer_closed(c)
  BY <1>1, <1>2, <1>5, <1>6, LeaveStep, Zenon DEF retry_peer_closed
<1>7. CASE retry_first(c)
  <2>1. Leave(c, d.store, d.result)
    BY <1>7, ZenonT(60) DEF retry_first
  <2> HIDE DEF d
  <2> QED
    BY <1>2, <1>4, <2>1, LeaveStep, ZenonT(60)
<1>8. CASE operation_timed_out(c)
  BY <1>1, <1>2, <1>5, <1>8, LeaveStep, Zenon DEF operation_timed_out
<1>9. CASE retry_sleeps(c)
  <2>1. /\ asleep' = asleep \cup {c}
        /\ UNCHANGED <<store, queue, watchers, monitor, cvars, alive>>
    BY <1>9, Zenon DEF retry_sleeps
  <2>2. TypeOK' /\ Asking' /\ MonitorAwake' /\ StoreOK(store')
    BY <1>1, <1>2, <2>1, ZenonT(60) DEF TypeOK, Asking, MonitorAwake, cvars
  <2>3. QueueIsWaiters'
    BY <1>1, <2>1, Zenon DEF QueueIsWaiters, cvars
  <2> QED
    BY <2>2, <2>3, ZenonT(60) DEF BrokerInv
<1> QED
  BY <1>6, <1>7, <1>8, <1>9

\* The monitor: it frees the slots of the processes that are gone, and sleeps
\* without a timeout only when none is left.
LEMMA MonitorStep == ASSUME BrokerInv, monitor_process_exits PROVE BrokerInv'
<1>1. /\ StoreOK(store) /\ TypeOK /\ Asking /\ QueueIsWaiters
      /\ watchers \in [WatcherSlots -> Pids \cup {0}]
  BY Zenon DEF BrokerInv, TypeOK
<1>2. /\ store' = after_exits(store, watchers, alive)
      /\ watchers' = [k \in WatcherSlots |->
                        IF watchers[k] \in alive THEN watchers[k] ELSE 0]
      /\ asleep' \subseteq asleep
      /\ monitor' = IF \E k \in WatcherSlots : watchers'[k] # 0
                    THEN "timed" ELSE "untimed"
      /\ UNCHANGED <<queue, cvars, alive>>
  BY Zenon DEF monitor_process_exits, scan, after_exits
<1>3. StoreOK(store')
  BY <1>1, <1>2, ExitsOK, Zenon
<1>4. TypeOK' /\ Asking'
  BY <1>1, <1>2, ZenonT(60) DEF TypeOK, Asking, cvars
<1>5. QueueIsWaiters'
  BY <1>1, <1>2, Zenon DEF QueueIsWaiters, cvars
<1>6. MonitorAwake'
  BY <1>2, Zenon DEF MonitorAwake
<1> QED
  BY <1>3, <1>4, <1>5, <1>6, Zenon DEF BrokerInv

\* The invariant holds in every reachable state of the broker.
THEOREM BrokerInvariant == Spec => []BrokerInv
<1>1. BrokerInv /\ UNCHANGED vars => BrokerInv'
  <2> SUFFICES ASSUME BrokerInv, UNCHANGED vars PROVE BrokerInv'
    BY Zenon
  <2>1. StoreOK(store') /\ TypeOK'
    BY Zenon DEF BrokerInv, TypeOK, vars, bvars, cvars
  <2>2. Asking' /\ MonitorAwake'
    BY Zenon DEF BrokerInv, Asking, MonitorAwake, vars, bvars, cvars
  <2>3. QueueIsWaiters'
    BY Zenon DEF BrokerInv, QueueIsWaiters, vars, bvars, cvars
  <2> QED
    BY <2>1, <2>2, <2>3, Zenon DEF BrokerInv
<1>2. BrokerInv /\ Next => BrokerInv'
  BY ClientStep, HangUpStep, DispatchStep, RetryStep, MonitorStep
  DEF Next, Worker
<1> QED
  BY BrokerInit, <1>1, <1>2, PTL DEF Spec

\* The waiter list is exact for any number of connections and sets: no entry
\* outlives the stack frame of dispatch_request that holds it.
THEOREM QueueStaysExact == Spec => []QueueIsWaiters
<1>1. BrokerInv => QueueIsWaiters
  BY Zenon DEF BrokerInv
<1> QED
  BY BrokerInvariant, <1>1, PTL

\* However many watcher slots there are, the monitor never sleeps for good
\* while one is in use.
THEOREM MonitorStaysAwake == Spec => []MonitorAwake
<1>1. BrokerInv => MonitorAwake
  BY Zenon DEF BrokerInv
<1> QED
  BY BrokerInvariant, <1>1, PTL

-----------------------------------------------------------------------------
(* Counting waiters.                                                       *)

\* A waiter that the given count counts.
Hits(w, id, s, z) == w.semid = id /\ w.semnum = s /\ w.zero = z

\* The entries of a waiter list that the given count counts.
Queued(q, id, s, z) == {k \in DOMAIN q : Hits(q[k], id, s, z)}

\* From list q to list r the given count changes by d if it counts w.
Moves(q, r, w, d, id, s, z) ==
  Cardinality(Queued(r, id, s, z))
    = Cardinality(Queued(q, id, s, z)) + (IF Hits(w, id, s, z) THEN d ELSE 0)

\* The counts of the sets that are there are those of the list, and its
\* entries wait for semaphores that their sets have.
Counted(st, q) ==
  /\ \A i \in Slots, s \in Sems, z \in BOOLEAN : st.sets[i].active =>
       counter(st.sets[i], z)[s]
         = Cardinality(Queued(q, make_id(i, st.sets[i].generation), s, z))
  /\ \A k \in DOMAIN q :
       found(st, q[k].semid) => has_sem(st, q[k].semid, q[k].semnum)

\* What is in the list is a waiter.
LEMMA WaiterFields ==
  ASSUME NEW q \in Seq(Waiter), NEW k \in DOMAIN q
  PROVE  q[k].semid \in Int /\ q[k].conn \in Conns
<1>1. q[k] \in Waiter
  OBVIOUS
<1> QED
  BY <1>1, Zenon DEF Waiter

\* An id is made of its two parts.
LEMMA IdOfParts ==
  ASSUME NEW id \in Int, decodes(id)
  PROVE  make_id(id_index(id), id_generation(id)) = id
BY SMT DEF decodes, make_id, id_index, id_generation, IdBase

\* The id of an active slot resolves to the slot, if it is one that decodes.
LEMMA SlotIdFound ==
  ASSUME NEW st, StoreOK(st), NEW i \in Slots, st.sets[i].active,
         decodes(make_id(i, st.sets[i].generation))
  PROVE  found(st, make_id(i, st.sets[i].generation))
<1> DEFINE g == st.sets[i].generation
<1>1. g \in Nat
  BY SmallNumbers, Zenon DEF StoreOK, StoreType, SemSet
<1>2. id_index(make_id(i, g)) = i /\ id_generation(make_id(i, g)) = g
  BY <1>1, IdRoundTrip
<1> QED
  BY <1>2, Zenon DEF found

\* Each waiter has a connection of its own, so a count is within its limit.
LEMMA QueuedFew ==
  ASSUME NEW q \in Seq(Waiter),
         \A j, k \in DOMAIN q : q[j].conn = q[k].conn => j = k,
         NEW id, NEW s, NEW z
  PROVE  /\ IsFiniteSet(Queued(q, id, s, z))
         /\ Cardinality(Queued(q, id, s, z)) \in 0 .. MaxWaitCount
<1> DEFINE S == Queued(q, id, s, z)
           f == [k \in S |-> q[k].conn]
<1>1. \A k \in S : k \in DOMAIN q
  BY Zenon DEF Queued
<1>2. \A k \in DOMAIN q : q[k].conn \in Conns
  BY WaiterFields, Zenon
<1> HIDE DEF S
<1>3. f \in [S -> Conns] /\ \A j, k \in S : f[j] = f[k] => j = k
  BY <1>1, <1>2, Zenon
<1> HIDE DEF f
<1>4. f \in Injection(S, Conns)
  BY <1>3 DEF Injection, IsInjective
<1>5. IsFiniteSet(Conns) /\ Cardinality(Conns) <= MaxWaitCount
  BY BrokerAssumptions, Zenon
<1>6. IsFiniteSet(S) /\ Cardinality(S) <= Cardinality(Conns)
  BY <1>4, <1>5, FS_Injection, Zenon
<1>7. Cardinality(S) \in Nat /\ Cardinality(Conns) \in Nat
  BY <1>5, <1>6, FS_CardinalityType, Zenon
<1>8. Cardinality(S) \in 0 .. MaxWaitCount
  BY <1>5, <1>6, <1>7, Bounds
<1> QED
  BY <1>6, <1>8, Zenon DEF S

\* A new waiter adds one to what counts it.
LEMMA AppendCounts ==
  ASSUME NEW q \in Seq(Waiter), NEW w \in Waiter, NEW id, NEW s, NEW z,
         IsFiniteSet(Queued(q, id, s, z))
  PROVE  Moves(q, Append(q, w), w, 1, id, s, z)
<1> DEFINE r == Append(q, w)
           n == Len(q)
<1>1. /\ n \in Nat /\ DOMAIN q = 1 .. n /\ DOMAIN r = 1 .. n + 1
      /\ r[n + 1] = w /\ \A k \in 1 .. n : r[k] = q[k]
  OBVIOUS
<1> HIDE DEF r, n
<1>2. /\ n + 1 \notin DOMAIN q /\ n + 1 \in DOMAIN r
      /\ \A k : k \in DOMAIN r <=> k \in DOMAIN q \/ k = n + 1
      /\ \A k \in DOMAIN q : r[k] = q[k]
  BY <1>1
<1>3. Cardinality(Queued(q, id, s, z)) \in Nat
  BY FS_CardinalityType, Zenon
<1>4. CASE Hits(w, id, s, z)
  <2>1. Queued(r, id, s, z) = Queued(q, id, s, z) \cup {n + 1}
    BY <1>1, <1>2, <1>4, Zenon DEF Queued
  <2>2. n + 1 \notin Queued(q, id, s, z)
    BY <1>2, Zenon DEF Queued
  <2>3. Cardinality(Queued(r, id, s, z)) = Cardinality(Queued(q, id, s, z)) + 1
    BY <2>1, <2>2, FS_AddElement, Zenon
  <2> QED
    BY <1>4, <2>3 DEF r, Moves
<1>5. CASE ~Hits(w, id, s, z)
  <2>1. Queued(r, id, s, z) = Queued(q, id, s, z)
    BY <1>1, <1>2, <1>5, Zenon DEF Queued
  <2> QED
    BY <1>3, <1>5, <2>1 DEF r, Moves
<1> QED
  BY <1>4, <1>5, Zenon

\* A waiter that leaves takes one from what counts it.
LEMMA UnlinkCounts ==
  ASSUME QueueIsWaiters, queue \in Seq(Waiter),
         NEW c \in Conns, state[c] = "waiting", NEW id, NEW s, NEW z,
         IsFiniteSet(Queued(queue, id, s, z))
  PROVE  Moves(queue, Without(c), queue[Position(c)], -1, id, s, z)
<1> DEFINE p == Position(c)
           n == Len(queue)
           r == Without(c)
           at(i) == IF i < p THEN i ELSE i + 1
           S == Queued(r, id, s, z)
           T == Queued(queue, id, s, z) \ {p}
           f == [i \in S |-> at(i)]
<1>1. /\ n \in Nat /\ p \in 1 .. n /\ r \in Seq(Waiter) /\ Len(r) = n - 1
      /\ \A i \in 1 .. n - 1 : r[i] = queue[at(i)]
  <2>1. \A i \in 1 .. n - 1 :
          queue[at(i)] = IF i < p THEN queue[i] ELSE queue[i + 1]
    BY Zenon
  <2> HIDE DEF at
  <2> QED
    BY <2>1, Unlinks
<1>2. DOMAIN queue = 1 .. n /\ DOMAIN r = 1 .. n - 1
  <2> HIDE DEF r, p
  <2> QED
    BY <1>1
<1> HIDE DEF p, n, r
<1>3. \A i \in 1 .. n - 1 : at(i) \in 1 .. n /\ at(i) # p
  BY <1>1
<1>4. \A i, j \in 1 .. n - 1 : at(i) = at(j) => i = j
  BY <1>1
<1>5. \A j \in 1 .. n : j # p => \E i \in 1 .. n - 1 : at(i) = j
  <2> TAKE j \in 1 .. n
  <2>1. CASE j < p
    <3>1. j \in 1 .. n - 1 /\ at(j) = j
      BY <1>1, <2>1
    <3> QED
      BY <3>1, Zenon
  <2>2. CASE j > p
    <3>1. j - 1 \in 1 .. n - 1 /\ at(j - 1) = j
      BY <1>1, <2>2
    <3> QED
      BY <3>1, Zenon
  <2> QED
    BY <1>1, <2>1, <2>2
<1> HIDE DEF at
<1>6. \A i \in 1 .. n - 1 : i \in S <=> at(i) \in T
  BY <1>1, <1>2, <1>3, Zenon DEF Queued
<1>7. \A i \in S : i \in 1 .. n - 1
  BY <1>2, Zenon DEF Queued
<1>8. \A j \in T : j \in 1 .. n /\ j # p
  BY <1>2, Zenon DEF Queued
<1> HIDE DEF S, T
<1>9. /\ f \in [S -> T]
      /\ \A i, j \in S : f[i] = f[j] => i = j
      /\ \A j \in T : \E i \in S : f[i] = j
  <2>1. \A i \in S : f[i] = at(i)
    BY Zenon
  <2>2. f \in [S -> T]
    BY <1>6, <1>7, Zenon
  <2> HIDE DEF f
  <2>3. \A i, j \in S : f[i] = f[j] => i = j
    BY <1>4, <1>7, <2>1, Zenon
  <2>4. \A j \in T : \E i \in S : f[i] = j
    BY <1>5, <1>6, <1>8, <2>1, Zenon
  <2> QED
    BY <2>2, <2>3, <2>4
<1> HIDE DEF f
<1>10. f \in Injection(S, T) /\ f \in Surjection(S, T)
  BY <1>9 DEF Injection, IsInjective, Surjection
<1>11. IsFiniteSet(T)
       /\ Cardinality(T) = IF p \in Queued(queue, id, s, z)
                           THEN Cardinality(Queued(queue, id, s, z)) - 1
                           ELSE Cardinality(Queued(queue, id, s, z))
  BY FS_RemoveElement, Zenon DEF T
<1>12. Cardinality(S) = Cardinality(T)
  BY <1>10, <1>11, FS_Injection, Zenon
<1>13. p \in Queued(queue, id, s, z) <=> Hits(queue[p], id, s, z)
  BY <1>1, <1>2, Zenon DEF Queued
<1>14. Cardinality(Queued(queue, id, s, z)) \in Nat
  BY FS_CardinalityType, Zenon
<1>15. Moves(queue, r, queue[p], -1, id, s, z)
  BY <1>11, <1>12, <1>13, <1>14 DEF S, Moves
<1> QED
  BY <1>15, Zenon DEF p, r

\* List r is q with waiter w more or less (d), and no count leaves its range.
Recounts(q, r, w, d) ==
  /\ \A id, s, z :
       /\ Cardinality(Queued(q, id, s, z)) \in 0 .. MaxWaitCount
       /\ Cardinality(Queued(r, id, s, z)) \in 0 .. MaxWaitCount
       /\ Moves(q, r, w, d, id, s, z)
  /\ \A k \in DOMAIN r : r[k] = w \/ \E j \in DOMAIN q : r[k] = q[j]

\* Counting waiter w in or out (d) makes the counts those of a list r that has
\* it more or less than q.
LEMMA Recount ==
  ASSUME NEW st, StoreOK(st), NEW q, Counted(st, q), NEW r,
         NEW w \in Waiter, decodes(w.semid),
         found(st, w.semid) => has_sem(st, w.semid, w.semnum),
         NEW d \in Int, Recounts(q, r, w, d)
  PROVE  Counted(adjust_wait_count(st, w.semid, w.semnum, w.zero, d).store, r)
<1> DEFINE new == adjust_wait_count(st, w.semid, w.semnum, w.zero, d).store
           i0 == id_index(w.semid)
           count == counter(set_of(st, w.semid), w.zero)[w.semnum] + d
           set == with_count(set_of(st, w.semid), w.zero, w.semnum, count)
           Shape == \A i \in Slots :
             /\ new.sets[i].active = st.sets[i].active
             /\ new.sets[i].generation = st.sets[i].generation
             /\ new.sets[i].nsems = st.sets[i].nsems
<1>1. /\ st.sets \in [Slots -> SemSet] /\ w.semid \in Int /\ w.semnum \in Sems
      /\ w.zero \in BOOLEAN
  BY Zenon DEF StoreOK, StoreType, Waiter
<1>2. ASSUME NEW id, NEW s, NEW z
      PROVE  /\ Cardinality(Queued(r, id, s, z)) \in 0 .. MaxWaitCount
             /\ Hits(w, id, s, z) => Cardinality(Queued(r, id, s, z))
                                       = Cardinality(Queued(q, id, s, z)) + d
             /\ ~Hits(w, id, s, z) => Cardinality(Queued(r, id, s, z))
                                        = Cardinality(Queued(q, id, s, z))
  <2>1. /\ Cardinality(Queued(q, id, s, z)) \in Int
        /\ Cardinality(Queued(r, id, s, z)) \in 0 .. MaxWaitCount
        /\ Moves(q, r, w, d, id, s, z)
    <3>1. /\ Cardinality(Queued(q, id, s, z)) \in 0 .. MaxWaitCount
          /\ Cardinality(Queued(r, id, s, z)) \in 0 .. MaxWaitCount
          /\ Moves(q, r, w, d, id, s, z)
      BY Zenon DEF Recounts
    <3> QED
      BY <3>1, SmallNumbers, Zenon
  <2> QED
    BY <2>1 DEF Moves
<1>3. ASSUME NEW i \in Slots, NEW s \in Sems, NEW z \in BOOLEAN, st.sets[i].active
      PROVE  counter(st.sets[i], z)[s]
               = Cardinality(Queued(q, make_id(i, st.sets[i].generation), s, z))
  BY <1>3, Zenon DEF Counted
<1>4. ASSUME Shape PROVE \A k \in DOMAIN r :
        found(new, r[k].semid) => has_sem(new, r[k].semid, r[k].semnum)
  <2> HIDE DEF new
  <2>1. \A id, n : /\ found(new, id) <=> found(st, id)
                   /\ has_sem(new, id, n) <=> has_sem(st, id, n)
    BY <1>4, Zenon DEF found, has_sem, set_of, decodes
  <2>2. \A k \in DOMAIN r :
          found(st, r[k].semid) => has_sem(st, r[k].semid, r[k].semnum)
    BY Zenon DEF Counted, Recounts
  <2> QED
    BY <2>1, <2>2, Zenon
<1>5. CASE ~found(st, w.semid)
  <2>1. new = st
    BY <1>5, Zenon DEF adjust_wait_count, has_sem, Returns
  <2> HIDE DEF new
  <2>2. Shape
    BY <2>1, Zenon
  <2>3. ASSUME NEW i \in Slots, NEW s \in Sems, NEW z \in BOOLEAN,
               st.sets[i].active
        PROVE  ~Hits(w, make_id(i, st.sets[i].generation), s, z)
    <3> SUFFICES ASSUME w.semid = make_id(i, st.sets[i].generation) PROVE FALSE
      BY Zenon DEF Hits
    <3> QED
      BY <1>5, <2>3, SlotIdFound, Zenon
  <2>4. ASSUME NEW i \in Slots, NEW s \in Sems, NEW z \in BOOLEAN,
               new.sets[i].active
        PROVE  counter(new.sets[i], z)[s]
                 = Cardinality(Queued(r, make_id(i, new.sets[i].generation), s, z))
    <3> DEFINE id == make_id(i, st.sets[i].generation)
    <3>1. st.sets[i].active
      BY <2>1, <2>4
    <3>2. counter(st.sets[i], z)[s] = Cardinality(Queued(q, id, s, z))
      BY <1>3, <3>1, Zenon
    <3>3. ~Hits(w, id, s, z)
      BY <2>3, <3>1, Zenon
    <3> HIDE DEF id
    <3>4. Cardinality(Queued(r, id, s, z)) = Cardinality(Queued(q, id, s, z))
      BY <1>2, <3>3, Zenon
    <3> QED
      BY <2>1, <3>2, <3>4, Zenon DEF id
  <2> QED
    BY <1>4, <2>2, <2>4, Zenon DEF Counted, new
<1>6. CASE found(st, w.semid)
  <2>1. /\ decodes(w.semid) /\ i0 \in Slots /\ st.sets[i0].active
        /\ st.sets[i0].generation = id_generation(w.semid)
    BY <1>6, Zenon DEF found, decodes
  <2>2. make_id(i0, st.sets[i0].generation) = w.semid
    BY <1>1, <2>1, IdOfParts, Zenon
  <2>3. count = Cardinality(Queued(r, w.semid, w.semnum, w.zero))
    <3>1. counter(st.sets[i0], w.zero)[w.semnum]
            = Cardinality(Queued(q, w.semid, w.semnum, w.zero))
      <4>1. counter(st.sets[i0], w.zero)[w.semnum]
              = Cardinality(Queued(q, make_id(i0, st.sets[i0].generation),
                                   w.semnum, w.zero))
        BY <1>1, <1>3, <2>1, Zenon
      <4> HIDE DEF i0
      <4> QED
        BY <2>2, <4>1
    <3>2. Hits(w, w.semid, w.semnum, w.zero)
      BY Zenon DEF Hits
    <3>3. count = counter(st.sets[i0], w.zero)[w.semnum] + d
      BY Zenon DEF set_of
    <3>4. Cardinality(Queued(r, w.semid, w.semnum, w.zero))
            = Cardinality(Queued(q, w.semid, w.semnum, w.zero)) + d
      BY <1>2, <3>2, Zenon
    <3> HIDE DEF count, i0
    <3> QED
      BY <3>1, <3>3, <3>4, ZenonT(40)
  <2>4. count \in 0 .. MaxWaitCount
    <3> HIDE DEF count
    <3> QED
      BY <1>2, <2>3
  <2>5. new = [st EXCEPT !.sets[i0] = set]
    BY <1>6, <2>4, Zenon DEF adjust_wait_count, Returns
  <2>6. set = with_count(st.sets[i0], w.zero, w.semnum, count)
    BY Zenon DEF set_of
  <2> HIDE DEF count
  <2>7. /\ set.active = st.sets[i0].active /\ set.nsems = st.sets[i0].nsems
        /\ set.generation = st.sets[i0].generation
        /\ counter(set, w.zero) = [counter(st.sets[i0], w.zero) EXCEPT
                                     ![w.semnum] = count]
        /\ counter(set, ~w.zero) = counter(st.sets[i0], ~w.zero)
        /\ counter(st.sets[i0], w.zero) \in [Sems -> 0 .. MaxWaitCount]
    <3> DEFINE old == st.sets[i0]
    <3>1. old \in SemSet
      BY <1>1, <2>1, Zenon
    <3> HIDE DEF old
    <3>2. CASE w.zero
      <4>1. set = [old EXCEPT !.zero_waiters[w.semnum] = count]
        BY <2>6, <3>2, Zenon DEF with_count, old
      <4> HIDE DEF set
      <4>2. /\ set.active = old.active /\ set.nsems = old.nsems
            /\ set.generation = old.generation
            /\ set.zero_waiters = [old.zero_waiters EXCEPT ![w.semnum] = count]
            /\ set.negative_waiters = old.negative_waiters
            /\ old.zero_waiters \in [Sems -> 0 .. MaxWaitCount]
        BY <3>1, <4>1 DEF SemSet
      <4> QED
        BY <3>2, <4>2, Zenon DEF counter, old
    <3>3. CASE ~w.zero
      <4>1. set = [old EXCEPT !.negative_waiters[w.semnum] = count]
        BY <2>6, <3>3, Zenon DEF with_count, old
      <4> HIDE DEF set
      <4>2. /\ set.active = old.active /\ set.nsems = old.nsems
            /\ set.generation = old.generation
            /\ set.negative_waiters
                 = [old.negative_waiters EXCEPT ![w.semnum] = count]
            /\ set.zero_waiters = old.zero_waiters
            /\ old.negative_waiters \in [Sems -> 0 .. MaxWaitCount]
        BY <3>1, <4>1 DEF SemSet
      <4> QED
        BY <3>3, <4>2, Zenon DEF counter, old
    <3> QED
      BY <3>2, <3>3, Zenon
  <2> HIDE DEF set, new
  <2>8. new.sets = [st.sets EXCEPT ![i0] = set]
    BY <2>5, Zenon DEF StoreOK, StoreType
  <2>9. new.sets[i0] = set /\ \A i \in Slots : i # i0 => new.sets[i] = st.sets[i]
    BY <1>1, <2>1, <2>8, Zenon
  <2> HIDE DEF i0
  <2>10. Shape
    BY <2>7, <2>9, Zenon
  <2>11. ASSUME NEW i \in Slots, NEW s \in Sems, NEW z \in BOOLEAN,
                new.sets[i].active
         PROVE  counter(new.sets[i], z)[s]
                  = Cardinality(Queued(r, make_id(i, new.sets[i].generation), s, z))
    <3>1. CASE i # i0
      <4>1. new.sets[i] = st.sets[i]
        BY <2>9, <3>1, ZenonT(40)
      <4>0. st.sets[i].generation \in Nat
        <5>1. st.sets[i].generation \in 0 .. MaxGeneration
          BY <1>1, Zenon DEF SemSet
        <5> QED
          BY <5>1, Bounds
      <4>2. id_index(make_id(i, st.sets[i].generation)) = i
        BY <4>0, IdRoundTrip
      <4>3. ~Hits(w, make_id(i, st.sets[i].generation), s, z)
        BY <3>1, <4>2, Zenon DEF Hits, i0
      <4> DEFINE id == make_id(i, st.sets[i].generation)
      <4>4. counter(st.sets[i], z)[s] = Cardinality(Queued(q, id, s, z))
        BY <1>3, <2>11, <4>1, Zenon
      <4>5. Cardinality(Queued(r, id, s, z)) = Cardinality(Queued(q, id, s, z))
        BY <1>2, <4>3, Zenon
      <4> HIDE DEF id
      <4> QED
        BY <4>1, <4>4, <4>5 DEF id
    <3>2. CASE i = i0 /\ Hits(w, w.semid, s, z)
      <4>1. s = w.semnum /\ z = w.zero
        BY <3>2, ZenonT(40) DEF Hits
      <4>2. counter(set, w.zero)[w.semnum] = count
        BY <1>1, <2>7
      <4>3. make_id(i, new.sets[i].generation) = w.semid
        BY <2>2, <2>7, <2>9, <3>2, Zenon
      <4> QED
        BY <2>3, <2>9, <3>2, <4>1, <4>2, <4>3, Zenon
    <3>3. CASE i = i0 /\ ~Hits(w, w.semid, s, z)
      <4>1. make_id(i, new.sets[i].generation) = w.semid
        BY <2>2, <2>7, <2>9, <3>3, Zenon
      <4>2. counter(set, z)[s] = counter(st.sets[i0], z)[s]
        <5>1. CASE z = w.zero
          <6>1. s # w.semnum
            BY <3>3, <5>1, Zenon DEF Hits
          <6> QED
            BY <2>7, <5>1, <6>1, Zenon
        <5>2. CASE z = ~w.zero
          BY <2>7, <5>2, Zenon
        <5>3. z = w.zero \/ z = ~w.zero
          BY <1>1, Zenon
        <5> QED
          BY <5>1, <5>2, <5>3, Zenon
      <4>3. counter(st.sets[i0], z)[s]
              = Cardinality(Queued(q, w.semid, s, z))
        <5>1. counter(st.sets[i0], z)[s]
                = Cardinality(Queued(q, make_id(i0, st.sets[i0].generation), s, z))
          BY <1>3, <2>1, Zenon
        <5> QED
          BY <2>2, <5>1
      <4>4. Cardinality(Queued(r, w.semid, s, z))
              = Cardinality(Queued(q, w.semid, s, z))
        BY <1>2, <3>3, Zenon
      <4> QED
        BY <2>9, <3>3, <4>1, <4>2, <4>3, <4>4, Zenon
    <3> QED
      BY <3>1, <3>2, <3>3, ZenonT(40)
  <2> QED
    BY <1>4, <2>10, <2>11, Zenon DEF Counted, new
<1> QED
  BY <1>5, <1>6, Zenon

\* A waiter that leaves is counted out.
LEMMA LeaveCounts ==
  ASSUME BrokerInv, BrokerInv', NEW c \in Conns, state[c] = "waiting",
         NEW st, StoreOK(st), Counted(st, queue), decodes(req[c].semid),
         NEW result, Leave(c, st, result)
  PROVE  Counted(store', queue')
<1> DEFINE p == Position(c)
           n == Len(queue)
           w == queue[p]
           out == -1
<1>1. /\ QueueIsWaiters /\ queue \in Seq(Waiter)
      /\ queue' \in Seq(Waiter)
      /\ \A j, k \in DOMAIN queue : queue[j].conn = queue[k].conn => j = k
      /\ \A j, k \in DOMAIN queue' : queue'[j].conn = queue'[k].conn => j = k
      /\ \A k \in DOMAIN queue : queue[k].semid = req[queue[k].conn].semid
  BY Zenon DEF BrokerInv, TypeOK, QueueIsWaiters
<1>2. /\ queue' = Without(c)
      /\ store' = adjust_wait_count(st, w.semid, w.semnum, w.zero, out).store
  BY ZenonT(40) DEF Leave, finish_waiter
<1>3. /\ n \in Nat /\ p \in 1 .. n /\ w.conn = c /\ Len(queue') = n - 1
      /\ \A i \in 1 .. n - 1 :
           queue'[i] = IF i < p THEN queue[i] ELSE queue[i + 1]
  BY <1>1, <1>2, Unlinks, ZenonT(40)
<1> HIDE DEF p, n, out
<1>4. DOMAIN queue = 1 .. n /\ DOMAIN queue' = 1 .. n - 1
  BY <1>1, <1>3 DEF n
<1>11. w \in Waiter
  BY <1>1, <1>3, <1>4
<1>5. w.semid = req[c].semid
  BY <1>1, <1>3, <1>4, Zenon
<1>6. found(st, w.semid) => has_sem(st, w.semid, w.semnum)
  BY <1>3, <1>4, Zenon DEF Counted
<1>7. \A id, s, z : /\ Cardinality(Queued(queue, id, s, z)) \in 0 .. MaxWaitCount
                    /\ Cardinality(Queued(queue', id, s, z)) \in 0 .. MaxWaitCount
                    /\ Moves(queue, queue', w, out, id, s, z)
  <2> TAKE id, s, z
  <2>1. /\ IsFiniteSet(Queued(queue, id, s, z))
        /\ Cardinality(Queued(queue, id, s, z)) \in 0 .. MaxWaitCount
        /\ Cardinality(Queued(queue', id, s, z)) \in 0 .. MaxWaitCount
    BY <1>1, QueuedFew, Zenon
  <2>2. Moves(queue, Without(c), queue[Position(c)], -1, id, s, z)
    BY <1>1, <2>1, UnlinkCounts, Zenon
  <2> QED
    BY <1>2, <2>1, <2>2, Zenon DEF p, out
<1>8. \A k \in DOMAIN queue' :
        queue'[k] = w \/ \E j \in DOMAIN queue : queue'[k] = queue[j]
  <2> TAKE k \in DOMAIN queue'
  <2>1. k \in 1 .. n /\ k + 1 \in 1 .. n
    <3>1. n \in Nat /\ k \in 1 .. n - 1
      BY <1>3, <1>4, Zenon
    <3> QED
      BY <3>1
  <2> QED
    BY <1>3, <1>4, <2>1, Zenon
<1>9. decodes(w.semid) /\ out \in Int
  BY <1>5 DEF out
<1> HIDE DEF w
<1>12. Recounts(queue, queue', w, out)
  BY <1>7, <1>8, Zenon DEF Recounts
<1>10. Counted(adjust_wait_count(st, w.semid, w.semnum, w.zero, out).store, queue')
  BY <1>6, <1>9, <1>11, <1>12, Recount, Zenon
<1> QED
  BY <1>2, <1>10, Zenon DEF w

\* A waiter that is queued is counted in, for a semaphore of its set.
LEMMA EnqueueCounts ==
  ASSUME BrokerInv, BrokerInv', NEW c \in Conns, state[c] = "sent",
         Counted(store, queue), NEW x, Enqueue(c, x)
  PROVE  Counted(store', queue')
<1> DEFINE why == wait_reason(store, req[c].semid, req[c].ops)
           w == [conn |-> c, semid |-> req[c].semid, semnum |-> why.sem_num,
                 zero |-> why.wait_for_zero]
           n == Len(queue)
<1>1. /\ StoreOK(store) /\ queue \in Seq(Waiter) /\ queue' \in Seq(Waiter)
      /\ \A j, k \in DOMAIN queue : queue[j].conn = queue[k].conn => j = k
      /\ \A j, k \in DOMAIN queue' : queue'[j].conn = queue'[k].conn => j = k
  BY Zenon DEF BrokerInv, TypeOK, QueueIsWaiters
<1>2. req[c] \in Requests /\ peer[c] \in Nat
  BY Processes, Zenon DEF BrokerInv, Asking
<1>3. /\ must_wait(req[c], dispatch(store, req[c], peer[c]).result)
      /\ queue' = Append(queue, w)
      /\ store' = adjust_wait_count(store, req[c].semid, why.sem_num,
                                    why.wait_for_zero, 1).store
  BY Zenon DEF Enqueue
<1>4. why \in Reasons /\ has_sem(store, req[c].semid, why.sem_num)
  BY <1>1, <1>2, <1>3, WaitReason, Zenon
<1>5. req[c].semid \in Int
  BY <1>2, <1>3, SemopFields, Zenon DEF must_wait
<1> HIDE DEF why
<1>6. why.sem_num \in Sems /\ why.wait_for_zero \in BOOLEAN
  BY <1>4, ReasonFields, Zenon
<1>7. /\ w \in Waiter /\ w.semid = req[c].semid /\ w.semnum = why.sem_num
      /\ w.zero = why.wait_for_zero
  BY <1>5, <1>6, Zenon DEF Waiter
<1> HIDE DEF w
<1>8. decodes(w.semid) /\ has_sem(store, w.semid, w.semnum)
  BY <1>4, <1>7, Zenon DEF has_sem, found
<1>9. \A id, s, z : /\ Cardinality(Queued(queue, id, s, z)) \in 0 .. MaxWaitCount
                    /\ Cardinality(Queued(queue', id, s, z)) \in 0 .. MaxWaitCount
                    /\ Moves(queue, queue', w, 1, id, s, z)
  <2> TAKE id, s, z
  <2>1. /\ IsFiniteSet(Queued(queue, id, s, z))
        /\ Cardinality(Queued(queue, id, s, z)) \in 0 .. MaxWaitCount
        /\ Cardinality(Queued(queue', id, s, z)) \in 0 .. MaxWaitCount
    BY <1>1, QueuedFew, Zenon
  <2>2. Moves(queue, Append(queue, w), w, 1, id, s, z)
    BY <1>1, <1>7, <2>1, AppendCounts, Zenon
  <2> QED
    BY <1>3, <2>1, <2>2, Zenon
<1>10. \A k \in DOMAIN queue' :
         queue'[k] = w \/ \E j \in DOMAIN queue : queue'[k] = queue[j]
  <2>1. /\ n \in Nat /\ DOMAIN queue = 1 .. n /\ DOMAIN queue' = 1 .. n + 1
        /\ queue'[n + 1] = w /\ \A k \in 1 .. n : queue'[k] = queue[k]
    BY <1>1, <1>3
  <2> HIDE DEF n
  <2> TAKE k \in DOMAIN queue'
  <2>2. k \in 1 .. n \/ k = n + 1
    BY <2>1
  <2> QED
    BY <2>1, <2>2, ZenonT(40)
<1>11. 1 \in Int
  OBVIOUS
<1>13. Recounts(queue, queue', w, 1)
  BY <1>9, <1>10, Zenon DEF Recounts
<1>12. Counted(adjust_wait_count(store, w.semid, w.semnum, w.zero, 1).store, queue')
  BY <1>1, <1>7, <1>8, <1>11, <1>13, Recount, Zenon
<1> QED
  BY <1>3, <1>7, <1>12, Zenon

=============================================================================
