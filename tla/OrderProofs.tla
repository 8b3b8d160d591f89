---------------------------- MODULE OrderProofs ----------------------------
(***************************************************************************)
(* What the broker's queue and its records do over time: waiters are       *)
(* served in order and counted exactly, those of a removed set and of a    *)
(* client that is gone take nothing, and every adjustment is watched; for  *)
(* any number of workers, processes, sets and requests.                    *)
(***************************************************************************)
EXTENDS BrokerProofs

\* A wait starts in dispatch_request, keeps its request, and ends with an
\* answer at one of the three exits of dispatch_request's loop.
LEMMA Waits ==
  ASSUME BrokerInv, [Next]_vars, NEW c \in Conns
  PROVE  /\ state[c] = "waiting" => req'[c] = req[c] /\ peer'[c] = peer[c]
         /\ state[c] = "waiting" /\ state'[c] # "waiting" =>
              /\ state'[c] = "replied"
              /\ retry_peer_closed(c) \/ retry_first(c) \/ operation_timed_out(c)
         /\ state[c] # "waiting" /\ state'[c] = "waiting" =>
              /\ dispatch_request(c) /\ req' = req /\ peer' = peer
              /\ \E w : Enqueue(c, w)
<1>1. /\ state \in [Conns -> {"closed", "idle", "sent", "waiting", "replied"}]
      /\ peer \in [Conns -> Pids \cup {0}]
      /\ req \in [Conns -> Requests \cup {NoRequest}]
  BY Zenon DEF BrokerInv, TypeOK
<1>2. CASE Client
  <2>1. state[c] = "waiting" => req'[c] = req[c] /\ peer'[c] = peer[c]
    BY <1>1, <1>2 DEF Client, Connect, Close, Send, Receive, Fork, Exit
  <2>2. state'[c] = "waiting" <=> state[c] = "waiting"
    BY <1>1, <1>2 DEF Client, Connect, Close, Send, Receive, Fork, Exit
  <2> QED
    BY <2>1, <2>2, Zenon
<1>3. CASE monitor_process_exits \/ UNCHANGED vars
  BY <1>3, Zenon DEF monitor_process_exits, vars, cvars
<1>4. CASE Worker(c)
  <2>1. CASE dispatch_request(c)
    <3>1. state[c] = "sent"
      BY <2>1, Zenon DEF dispatch_request
    <3>2. PICK w : \/ Answer(c, w.result) /\ UNCHANGED bvars
                   \/ Serve(c, w) \/ Enqueue(c, w) \/ Abandon(c, w)
      BY <2>1, Zenon DEF dispatch_request
    <3>3. CASE \/ Answer(c, w.result) /\ UNCHANGED bvars
               \/ Serve(c, w) \/ Abandon(c, w)
      <4>1. state' = [state EXCEPT ![c] = "replied"]
        BY <3>3, Zenon DEF Answer, Serve, Abandon
      <4>2. state'[c] = "replied"
        BY <1>1, <4>1, Zenon
      <4> QED
        BY <3>1, <4>2
    <3>4. CASE Enqueue(c, w)
      <4>1. req' = req /\ peer' = peer
        BY <3>4, Zenon DEF Enqueue
      <4> QED
        BY <2>1, <3>1, <3>4, <4>1
    <3> QED
      BY <3>2, <3>3, <3>4, Zenon
  <2>2. CASE retry_sleeps(c)
    BY <2>2, Zenon DEF retry_sleeps, cvars
  <2>3. CASE HangUp(c)
    BY <1>1, <2>3 DEF HangUp
  <2>4. CASE retry_peer_closed(c) \/ retry_first(c) \/ operation_timed_out(c)
    <3>1. /\ state[c] = "waiting" /\ req' = req /\ peer' = peer
          /\ state' = [state EXCEPT ![c] = "replied"]
      BY <2>4, Zenon DEF retry_peer_closed, retry_first, operation_timed_out,
                         Leave, Answer
    <3>2. state'[c] = "replied"
      BY <1>1, <3>1, Zenon
    <3> QED
      BY <2>4, <3>1, <3>2
  <2> QED
    BY <1>4, <2>1, <2>2, <2>3, <2>4, Zenon DEF Worker
<1>5. ASSUME NEW d \in Conns, d # c, Worker(d)
      PROVE  state'[c] = state[c] /\ req'[c] = req[c] /\ peer'[c] = peer[c]
  <2>1. CASE HangUp(d)
    BY <1>1, <1>5, <2>1 DEF HangUp
  <2>2. CASE retry_sleeps(d)
    BY <2>2, Zenon DEF retry_sleeps, cvars
  <2>3. CASE \/ dispatch_request(d) \/ retry_peer_closed(d) \/ retry_first(d)
             \/ operation_timed_out(d)
    <3>1. /\ req' = req /\ peer' = peer
          /\ \/ state' = [state EXCEPT ![d] = "waiting"]
             \/ state' = [state EXCEPT ![d] = "replied"]
      BY <2>3, Zenon DEF dispatch_request, Answer, Serve, Abandon, Enqueue,
                         retry_peer_closed, retry_first, operation_timed_out, Leave
    <3> QED
      BY <1>1, <1>5, <3>1
  <2> QED
    BY <1>5, <2>1, <2>2, <2>3, Zenon DEF Worker
<1> QED
  BY <1>2, <1>3, <1>4, <1>5, Zenon DEF Next

\* Requests of one set are served in the order they were queued, whoever wakes
\* first: only the head of a set's queue takes its operation.
THEOREM WaitersKeepOrder == Spec => ServedInOrder
<1> DEFINE Ordered ==
      \A c \in Conns :
        state[c] = "waiting" /\ state'[c] = "replied" /\ reply'[c] = 0
        => \A k \in DOMAIN queue :
             queue[k].semid = req[c].semid /\ queue[k].conn # c
             => \E j \in DOMAIN queue : j < k /\ queue[j].conn = c
<1>1. ASSUME BrokerInv, Next PROVE Ordered
  <2> SUFFICES ASSUME NEW c \in Conns, state[c] = "waiting",
                      state'[c] = "replied", reply'[c] = 0,
                      NEW k \in DOMAIN queue, queue[k].semid = req[c].semid,
                      queue[k].conn # c
               PROVE  \E j \in DOMAIN queue : j < k /\ queue[j].conn = c
    BY Zenon
  <2>1. /\ QueueIsWaiters /\ queue \in Seq(Waiter)
        /\ reply \in [Conns -> Int]
    BY <1>1, Zenon DEF BrokerInv, TypeOK
  <2>2. retry_peer_closed(c) \/ retry_first(c) \/ operation_timed_out(c)
    BY <1>1, Waits, Zenon
  <2>3. retry_first(c)
    <3>1. ASSUME NEW st, NEW r, Leave(c, st, r) PROVE r = 0
      BY <2>1, <3>1, Zenon DEF Leave, Answer
    <3>2. ~retry_peer_closed(c)
      BY <3>1 DEF retry_peer_closed, TGC_SEM_OP_BLOCKED
    <3>3. ~operation_timed_out(c)
      BY <3>1 DEF operation_timed_out, EAGAIN
    <3> QED
      BY <2>2, <3>2, <3>3, Zenon
  <2> DEFINE p == Position(c)
  <2>4. p \in 1 .. Len(queue) /\ queue[p].conn = c /\ Len(queue) \in Nat
    BY <2>1, Unlinks, Zenon
  <2>5. \A i \in 1 .. p - 1 : queue[i].semid # queue[p].semid
    BY <2>3, Zenon DEF retry_first, waiter_is_first_for_set
  <2> HIDE DEF p
  <2>6. queue[p].semid = req[c].semid /\ DOMAIN queue = 1 .. Len(queue)
    BY <2>1, <2>4 DEF QueueIsWaiters
  <2>7. p < k
    BY <2>4, <2>5, <2>6
  <2> QED
    BY <2>4, <2>6, <2>7, Zenon
<1>2. UNCHANGED vars => Ordered
  BY Zenon DEF vars, cvars
<1>3. BrokerInv /\ [Next]_vars => [Ordered]_vars
  BY <1>1, Zenon
<1> QED
  BY <1>3, BrokerInvariant, PTL DEF Spec, ServedInOrder

\* A client that is gone takes nothing: its queued request leaves the counts
\* and neither a value nor an adjustment changes.
THEOREM TheGoneTakeNothing == Spec => AbandonedTakesNothing
<1> DEFINE Nothing ==
      \A c \in Conns :
        state[c] = "waiting" /\ state'[c] # "waiting" /\ holders[c] = {}
        => \A i \in Slots : /\ store'.sets[i].values = store.sets[i].values
                            /\ store'.undo = store.undo
<1>1. ASSUME BrokerInv, BrokerInv', Next PROVE Nothing
  <2> SUFFICES ASSUME NEW c \in Conns, state[c] = "waiting",
                      state'[c] # "waiting", holders[c] = {}, NEW i \in Slots
               PROVE  /\ store'.sets[i].values = store.sets[i].values
                      /\ store'.undo = store.undo
    BY Zenon
  <2>1. /\ QueueIsWaiters /\ queue \in Seq(Waiter) /\ StoreOK(store)
        /\ StoreOK(store')
    BY <1>1, Zenon DEF BrokerInv, TypeOK
  <2>2. retry_peer_closed(c) \/ retry_first(c) \/ operation_timed_out(c)
    BY <1>1, Waits
  <2>3. store' = finish_waiter(store, c)
    BY <2>2, Zenon DEF retry_peer_closed, retry_first, operation_timed_out, Leave
  <2>4. SameButCounts(store, store')
    BY <2>1, <2>3, FinishWaiter
  <2>5. store.sets[i] \in SemSet /\ store'.sets[i] \in SemSet
    BY <2>1 DEF StoreOK, StoreType
  <2>6. Uncounted(store.sets[i]) = Uncounted(store'.sets[i])
    BY <2>4 DEF SameButCounts
  <2>7. \A set \in SemSet : Uncounted(set).values = set.values
    BY DEF Uncounted, SemSet
  <2> QED
    BY <2>4, <2>5, <2>6, <2>7 DEF SameButCounts
<1>2. BrokerInv /\ BrokerInv' /\ [Next]_vars => [Nothing]_vars
  BY <1>1, Zenon
<1> QED
  BY <1>2, BrokerInvariant, PTL DEF Spec, AbandonedTakesNothing
-----------------------------------------------------------------------------
(* Ids and adjustments over time.                                          *)

\* Time passes for a slot: its generation never falls, and a set that is no
\* longer there has left an older generation behind.
Ages(st, new) ==
  \A i \in Slots :
    /\ new.sets[i].generation >= st.sets[i].generation
    /\ st.sets[i].active =>
         \/ /\ new.sets[i].active
            /\ new.sets[i].generation = st.sets[i].generation
         \/ new.sets[i].generation > st.sets[i].generation

\* An id that was once given out: its set is there, or its slot has moved on.
GivenOut(st, semid) ==
  /\ decodes(semid)
  /\ \/ found(st, semid)
     \/ id_generation(semid) < st.sets[id_index(semid)].generation

\* An id that was given out stays so, and one that is stale stays stale.
LEMMA StaleForGood ==
  ASSUME NEW st, StoreOK(st), NEW new, StoreOK(new), Ages(st, new),
         NEW semid \in Int, GivenOut(st, semid)
  PROVE  /\ GivenOut(new, semid)
         /\ ~found(st, semid) => ~found(new, semid)
<1> DEFINE i == id_index(semid)
           g == id_generation(semid)
<1>1. i \in Slots /\ decodes(semid)
  BY Zenon DEF GivenOut, decodes
<1>2. st.sets[i] \in SemSet /\ new.sets[i] \in SemSet
  BY <1>1, Zenon DEF StoreOK, StoreType
<1>3. st.sets[i].generation \in Int /\ new.sets[i].generation \in Int
  BY <1>2, Bounds DEF SemSet
<1>4. g \in Int
  BY DEF id_generation, IdBase
<1>5. /\ new.sets[i].generation >= st.sets[i].generation
      /\ st.sets[i].active =>
           \/ /\ new.sets[i].active
              /\ new.sets[i].generation = st.sets[i].generation
           \/ new.sets[i].generation > st.sets[i].generation
  BY <1>1, Zenon DEF Ages
<1>6. /\ found(st, semid) <=> st.sets[i].active /\ st.sets[i].generation = g
      /\ found(new, semid) <=> new.sets[i].active /\ new.sets[i].generation = g
  BY <1>1, Zenon DEF found
<1>7. found(st, semid) \/ g < st.sets[i].generation
  BY Zenon DEF GivenOut
<1> HIDE DEF i, g
<1>8. found(new, semid) \/ g < new.sets[i].generation
  BY <1>3, <1>4, <1>5, <1>6, <1>7
<1>9. ~found(st, semid) => ~found(new, semid)
  BY <1>3, <1>4, <1>5, <1>6, <1>7
<1> QED
  BY <1>1, <1>8, <1>9, Zenon DEF GivenOut, i, g

\* The same sets in the same slots have not aged.
LEMMA SameAge ==
  ASSUME NEW st, StoreOK(st), NEW new, SameSlots(st, new)
  PROVE  Ages(st, new)
<1>1. \A i \in Slots : st.sets[i].generation \in Nat
  BY SmallNumbers, Zenon DEF StoreOK, StoreType, SemSet
<1> QED
  BY <1>1, NatOrder, Zenon DEF SameSlots, Ages

\* Counting a waiter creates and removes nothing.
LEMMA CountSameSlots ==
  ASSUME NEW st, NEW new, StoreOK(st), StoreOK(new), SameButCounts(st, new)
  PROVE  SameSlots(st, new)
<1> SUFFICES ASSUME NEW i \in Slots
             PROVE  /\ new.sets[i].active = st.sets[i].active
                    /\ new.sets[i].generation = st.sets[i].generation
  BY Zenon DEF SameSlots
<1>1. st.sets[i] \in SemSet /\ new.sets[i] \in SemSet
  BY Zenon DEF StoreOK, StoreType
<1>2. Uncounted(st.sets[i]) = Uncounted(new.sets[i])
  BY Zenon DEF SameButCounts
<1>3. ASSUME NEW s \in SemSet
      PROVE  /\ Uncounted(s).active = s.active
             /\ Uncounted(s).generation = s.generation
  BY Zenon DEF Uncounted, SemSet
<1> QED
  BY <1>1, <1>2, <1>3, Zenon

\* What recorded adjustments there may be after a call of pid: those there
\* were, and its own if it asked for that.
Records(st, new, pid, asked) ==
  \A e \in new.undo : e \in st.undo \/ (e.pid = pid /\ asked)

\* A set that is there after a call was there before with the same waiters,
\* or it is new and has none.
KeepsCounts(st, new) ==
  \A i \in Slots : new.sets[i].active =>
    \/ /\ st.sets[i].active
       /\ new.sets[i].generation = st.sets[i].generation
       /\ new.sets[i].nsems = st.sets[i].nsems
       /\ new.sets[i].negative_waiters = st.sets[i].negative_waiters
       /\ new.sets[i].zero_waiters = st.sets[i].zero_waiters
    \/ /\ ~st.sets[i].active
       /\ new.sets[i].negative_waiters = Zeros
       /\ new.sets[i].zero_waiters = Zeros

\* The same sets with the same waiters have not aged.
LEMMA SameKeeps ==
  ASSUME NEW st, StoreOK(st), NEW new, SameCounts(st, new)
  PROVE  Ages(st, new) /\ KeepsCounts(st, new)
<1>1. SameSlots(st, new) /\ KeepsCounts(st, new)
  BY Zenon DEF SameCounts, SameSlots, KeepsCounts
<1> QED
  BY <1>1, SameAge, Zenon

\* semget creates at most one set, in a free slot, and keeps its generation
\* unless the slot was never used.
LEMMA GetAges ==
  ASSUME NEW st, StoreOK(st), NEW key, NEW nsems, NEW flags, NEW who,
         NEW pid, NEW asked
  PROVE  LET new == get_as(st, key, nsems, flags, who, FALSE).store
         IN  /\ Ages(st, new) /\ KeepsCounts(st, new)
             /\ Records(st, new, pid, asked)
<1> DEFINE a == get_as(st, key, nsems, flags, who, FALSE)
           free == free_slots(st)
           i == Smallest(free)
           set == new_set(st.sets[i], key, nsems, flags, who)
<1>0. st.sets \in [Slots -> SemSet]
  BY Zenon DEF StoreOK, StoreType
<1>1. CASE a.store = st
  BY <1>1, SameKeeps, Zenon DEF SameCounts, Records
<1>2. CASE free # {} /\ a = get_new(st, i, key, nsems, flags, who)
  <2>1. free \in SUBSET Slots
    BY DEF free_slots
  <2> HIDE DEF free
  <2>2. i \in free
    BY <1>2, <2>1, SmallestIn, Zenon
  <2>3. i \in Slots /\ ~st.sets[i].active
    BY <2>2 DEF free, free_slots
  <2>4. a.store = [st EXCEPT !.sets[i] = set]
    <3>1. get_new(st, i, key, nsems, flags, who).store = [st EXCEPT !.sets[i] = set]
      BY Zenon DEF get_new, Returns
    <3> HIDE DEF a, i, set
    <3> QED
      BY <1>2, <3>1
  <2>5. set.generation >= st.sets[i].generation
    <3>1. st.sets[i].generation \in Nat
      BY <1>0, <2>3, Bounds DEF SemSet
    <3>2. set.generation = IF st.sets[i].generation = 0 THEN 1
                           ELSE st.sets[i].generation
      <4> HIDE DEF i
      <4> QED
        BY Zenon DEF new_set, FreeSet
    <3> QED
      <4> HIDE DEF set, i
      <4> QED
        BY <3>1, <3>2
  <2>10. set.negative_waiters = Zeros /\ set.zero_waiters = Zeros
    <3> HIDE DEF i
    <3> QED
      BY Zenon DEF new_set, FreeSet
  <2> HIDE DEF set, a, i
  <2>6. a.store.undo = st.undo /\ a.store.sets = [st.sets EXCEPT ![i] = set]
    BY <2>4, Zenon DEF StoreOK, StoreType
  <2>7. \A j \in Slots : st.sets[j].generation \in Nat
    BY <1>0, Bounds DEF SemSet
  <2>8. \A j \in Slots : \/ a.store.sets[j] = st.sets[j]
                         \/ j = i /\ a.store.sets[j] = set
    BY <1>0, <2>3, <2>6, Zenon
  <2>9. Ages(st, a.store)
    BY <2>3, <2>5, <2>7, <2>8 DEF Ages
  <2>11. KeepsCounts(st, a.store)
    BY <2>3, <2>8, <2>10, Zenon DEF KeepsCounts
  <2> QED
    BY <2>6, <2>9, <2>11, Zenon DEF a, Records
<1>3. \/ a.store = st
      \/ free # {} /\ a = get_new(st, i, key, nsems, flags, who)
  <2>1. \A k : get_existing(st, k, nsems, flags).store = st
    BY Zenon DEF get_existing, Returns
  <2>2. \A e : Returns(st, e).store = st
    BY Zenon DEF Returns
  <2>3. \/ \E k : a = get_existing(st, k, nsems, flags)
        \/ \E e : a = Returns(st, e)
        \/ free # {} /\ a = get_new(st, i, key, nsems, flags, who)
    BY Zenon DEF get_as
  <2>4. ASSUME NEW k, a = get_existing(st, k, nsems, flags) PROVE a.store = st
    BY <2>1, <2>4, Zenon
  <2>5. ASSUME NEW e, a = Returns(st, e) PROVE a.store = st
    BY <2>2, <2>5, Zenon
  <2> HIDE DEF a, free, i
  <2> QED
    BY <2>3, <2>4, <2>5, Zenon
<1> QED
  BY <1>1, <1>2, <1>3, Zenon

\* A request ages the slots, counts no waiter, and records for its caller only.
LEMMA DispatchAges ==
  ASSUME NEW st, StoreOK(st), NEW r \in Requests, NEW pid \in Nat
  PROVE  LET new == dispatch(st, r, pid).store
         IN  /\ Ages(st, new) /\ KeepsCounts(st, new)
             /\ Records(st, new, pid, request_uses_undo(r))
<1> DEFINE d == dispatch(st, r, pid)
<1>0. /\ st.sets \in [Slots -> SemSet]
      /\ \A e, x : Returns(x, e).store = x
      /\ Ages(st, st) /\ KeepsCounts(st, st)
      /\ Records(st, st, pid, request_uses_undo(r))
  BY SameKeeps DEF StoreOK, StoreType, Returns, SameCounts, Records
<1>1. CASE is_semop(r)
  <2>1. r.semid \in Int /\ r.ops \in Seq(OpRec)
    BY <1>1, SemopFields, Zenon
  <2>2. d = tryop(st, r.semid, r.ops, pid)
    BY <1>1, Zenon DEF dispatch, is_semop
  <2>3. LET x == tryop(st, r.semid, r.ops, pid).store
        IN  SameCounts(st, x) /\ RecordsOwn(st, x, r.ops, pid)
    BY <2>1, TryopOK, Zenon
  <2>4. (\E k \in 1 .. Len(r.ops) : r.ops[k].undo) => request_uses_undo(r)
    BY <1>1, <2>1 DEF request_uses_undo
  <2> HIDE DEF d
  <2>5. SameCounts(st, d.store)
    BY <2>2, <2>3, Zenon
  <2>6. Records(st, d.store, pid, request_uses_undo(r))
    BY <2>2, <2>3, <2>4, Zenon DEF Records, RecordsOwn
  <2>7. Ages(st, d.store) /\ KeepsCounts(st, d.store)
    BY <2>5, SameKeeps, Zenon
  <2> QED
    BY <2>6, <2>7, Zenon DEF d
<1>2. CASE r.opcode = "SETVAL"
  <2>1. d = setval(st, r.semid, r.semnum, r.value, pid)
    BY <1>2, Zenon DEF dispatch, is_semop
  <2>2. CASE \E e : d = Returns(st, e)
    BY <1>0, <2>2, Zenon
  <2>3. CASE ~\E e : d = Returns(st, e)
    <3> DEFINE sets == [st.sets EXCEPT
                  ![id_index(r.semid)].values[r.semnum] = r.value,
                  ![id_index(r.semid)].last_pids[r.semnum] = pid]
               undo == clear_undo_entries(st.undo, r.semid, {r.semnum})
    <3>0. d = Returns([sets |-> sets, undo |-> undo], 0)
      BY <2>1, <2>3, Zenon DEF setval
    <3>1. d.store.undo = undo /\ d.store.sets = sets
      <4> HIDE DEF d, sets, undo
      <4> QED
        BY <3>0, Zenon DEF Returns
    <3> HIDE DEF d
    <3>2. SameCounts(st, d.store)
      <4>1. ASSUME NEW j \in Slots
            PROVE  /\ sets[j].active = st.sets[j].active
                   /\ sets[j].generation = st.sets[j].generation
                   /\ sets[j].nsems = st.sets[j].nsems
                   /\ sets[j].negative_waiters = st.sets[j].negative_waiters
                   /\ sets[j].zero_waiters = st.sets[j].zero_waiters
        <5>1. st.sets[j] \in SemSet
          BY <1>0, Zenon
        <5> QED
          BY <1>0, <5>1 DEF SemSet
      <4> HIDE DEF sets
      <4> QED
        BY <3>1, <4>1, Zenon DEF SameCounts
    <3>3. Records(st, d.store, pid, request_uses_undo(r))
      BY <3>1, Zenon DEF Records, clear_undo_entries
    <3>4. Ages(st, d.store) /\ KeepsCounts(st, d.store)
      BY <3>2, SameKeeps, Zenon
    <3> QED
      BY <3>3, <3>4 DEF d
  <2> QED
    BY <2>2, <2>3, Zenon
<1>3. CASE r.opcode = "SETALL"
  <2> DEFINE V == [s \in Sems |-> IF s < Len(r.values) THEN r.values[s + 1]
                                  ELSE 0]
             P == [s \in Sems |-> IF s < Len(r.values) THEN pid ELSE 0]
  <2>1. d = setall(st, r.semid, r.values, pid)
    BY <1>3, Zenon DEF dispatch, is_semop
  <2>2. CASE \E e : d = Returns(st, e)
    BY <1>0, <2>2
  <2>3. CASE ~\E e : d = Returns(st, e)
    <3> DEFINE sets == [st.sets EXCEPT ![id_index(r.semid)].values = V,
                                       ![id_index(r.semid)].last_pids = P]
               undo == clear_undo_entries(st.undo, r.semid, Sems)
    <3>0. d = Returns([sets |-> sets, undo |-> undo], 0)
      BY <2>1, <2>3, Zenon DEF setall
    <3>1. d.store.undo = undo /\ d.store.sets = sets
      <4> HIDE DEF d, sets, undo
      <4> QED
        BY <3>0, Zenon DEF Returns
    <3> HIDE DEF d, V, P
    <3>2. SameCounts(st, d.store)
      <4>1. ASSUME NEW j \in Slots
            PROVE  /\ sets[j].active = st.sets[j].active
                   /\ sets[j].generation = st.sets[j].generation
                   /\ sets[j].nsems = st.sets[j].nsems
                   /\ sets[j].negative_waiters = st.sets[j].negative_waiters
                   /\ sets[j].zero_waiters = st.sets[j].zero_waiters
        <5>1. st.sets[j] \in SemSet
          BY <1>0, Zenon
        <5> QED
          BY <1>0, <5>1 DEF SemSet
      <4> HIDE DEF sets
      <4> QED
        BY <3>1, <4>1, Zenon DEF SameCounts
    <3>3. Records(st, d.store, pid, request_uses_undo(r))
      BY <3>1, Zenon DEF Records, clear_undo_entries
    <3>4. Ages(st, d.store) /\ KeepsCounts(st, d.store)
      BY <3>2, SameKeeps
    <3> QED
      BY <3>3, <3>4 DEF d
  <2> QED
    BY <2>2, <2>3
<1>4. CASE r.opcode = "REMOVE"
  <2> DEFINE i == id_index(r.semid)
             g == st.sets[i].generation
  <2>1. d = remove(st, r.semid) /\ r.semid \in Int
    BY <1>4, BrokerAssumptions, Zenon DEF dispatch, is_semop
  <2>2. CASE ~found(st, r.semid)
    BY <1>0, <2>1, <2>2, Zenon DEF remove
  <2>3. CASE found(st, r.semid)
    <3>1. /\ d.store.undo = clear_undo_entries(st.undo, r.semid, Sems)
          /\ d.store.sets = [st.sets EXCEPT
                               ![i] = FreeSet(next_generation(g))]
          /\ i \in Slots
      BY <2>1, <2>3 DEF remove, Returns, found, decodes
    <3>2. g \in Nat /\ next_generation(g) = g + 1
      <4>1. g = id_generation(r.semid) /\ g < MaxGeneration
        <5>1. g = id_generation(r.semid)
          BY <2>3, Zenon DEF found
        <5>2. id_generation(r.semid) < MaxGeneration
          BY <1>4, BrokerAssumptions, Zenon
        <5> QED
          BY <5>1, <5>2, Zenon
      <4>2. g \in Nat
        BY <1>0, <3>1, SmallNumbers, Zenon DEF SemSet
      <4> HIDE DEF g
      <4> QED
        BY <4>1, <4>2, GenerationGrows, Zenon
    <3>3. FreeSet(next_generation(g)).generation = g + 1
      BY <3>2, Zenon DEF FreeSet
    <3>4. \A j \in Slots : st.sets[j].generation \in Nat
      BY <1>0, SmallNumbers, Zenon DEF SemSet
    <3> HIDE DEF d, i
    <3>5. Ages(st, d.store)
      BY <1>0, <3>1, <3>2, <3>3, <3>4 DEF Ages
    <3>6. Records(st, d.store, pid, request_uses_undo(r))
      BY <3>1, Zenon DEF Records, clear_undo_entries
    <3>7. ~FreeSet(next_generation(g)).active
      BY ZenonT(40) DEF FreeSet
    <3>8. KeepsCounts(st, d.store)
      BY <1>0, <3>1, <3>7 DEF KeepsCounts
    <3> QED
      BY <3>5, <3>6, <3>8, ZenonT(40) DEF d
  <2> QED
    BY <2>2, <2>3, Zenon
<1>5. CASE r.opcode = "SEMGET"
  <2>1. d = get_as(st, r.key, r.nsems, r.flags, r.who, FALSE)
    BY <1>5, Zenon DEF dispatch, is_semop
  <2>2. /\ Ages(st, d.store) /\ KeepsCounts(st, d.store)
        /\ Records(st, d.store, pid, request_uses_undo(r))
    BY <2>1, GetAges, Zenon
  <2> QED
    BY <2>2, Zenon
<1>6. CASE r.opcode = "SETMETA"
  <2>1. d = set_metadata(st, r.semid, r.uid, r.gid, r.mode, r.who)
    BY <1>6 DEF dispatch, is_semop
  <2>2. CASE \E e : d = Returns(st, e)
    BY <1>0, <2>2
  <2>3. CASE ~\E e : d = Returns(st, e)
    <3> DEFINE new == [st EXCEPT !.sets[id_index(r.semid)] =
                 [set_of(st, r.semid) EXCEPT !.gid = r.gid, !.mode = r.mode]]
    <3>0. d = Returns(new, 0) /\ found(st, r.semid)
      BY <2>1, <2>3, Zenon DEF set_metadata
    <3>1. d.store = new /\ id_index(r.semid) \in Slots
      <4> HIDE DEF d, new
      <4> QED
        BY <3>0, Zenon DEF Returns, found, decodes
    <3>2. /\ d.store.undo = st.undo
          /\ d.store.sets = [st.sets EXCEPT ![id_index(r.semid)] =
               [st.sets[id_index(r.semid)] EXCEPT !.gid = r.gid,
                                                  !.mode = r.mode]]
      BY <3>1, Zenon DEF set_of, StoreOK, StoreType
    <3> HIDE DEF d
    <3>3. SameCounts(st, d.store)
      <4> DEFINE i == id_index(r.semid)
                 old == st.sets[i]
                 set == [old EXCEPT !.gid = r.gid, !.mode = r.mode]
      <4>1. old \in SemSet /\ i \in Slots
        BY <1>0, <3>1
      <4>2. /\ set.active = old.active /\ set.generation = old.generation
            /\ set.nsems = old.nsems /\ set.zero_waiters = old.zero_waiters
            /\ set.negative_waiters = old.negative_waiters
        BY <4>1, Zenon DEF SemSet
      <4>3. d.store.sets = [st.sets EXCEPT ![i] = set]
        BY <3>2, Zenon
      <4> HIDE DEF set, i
      <4> QED
        BY <1>0, <4>1, <4>2, <4>3 DEF SameCounts
    <3>4. /\ Ages(st, d.store) /\ KeepsCounts(st, d.store)
          /\ Records(st, d.store, pid, request_uses_undo(r))
      BY <3>2, <3>3, SameKeeps, Zenon DEF Records
    <3> QED
      BY <3>4 DEF d
  <2> QED
    BY <2>2, <2>3
<1>7. CASE r.opcode \in {"GETVAL", "GETPID", "GETNCNT", "GETZCNT"}
  <2>1. d = Returns(st, Reads(st, r))
    BY <1>7, Zenon DEF dispatch, is_semop
  <2> QED
    BY <1>0, <2>1
<1>8. is_semop(r) \/ r.opcode \in {"SETVAL", "SETALL", "REMOVE", "SEMGET",
        "SETMETA", "GETVAL", "GETPID", "GETNCNT", "GETZCNT"}
  BY BrokerAssumptions, Zenon DEF is_semop
<1> QED
  BY <1>1, <1>2, <1>3, <1>4, <1>5, <1>6, <1>7, <1>8

\* Ages add up.
LEMMA AgesAdd ==
  ASSUME NEW a, NEW b, NEW c, StoreOK(a), StoreOK(b), StoreOK(c),
         Ages(a, b), Ages(b, c)
  PROVE  Ages(a, c)
<1>1. \A i \in Slots : /\ a.sets[i].generation \in Nat
                       /\ b.sets[i].generation \in Nat
                       /\ c.sets[i].generation \in Nat
  BY SmallNumbers, Zenon DEF StoreOK, StoreType, SemSet
<1> QED
  <2> SUFFICES ASSUME NEW i \in Slots
               PROVE  /\ c.sets[i].generation >= a.sets[i].generation
                      /\ a.sets[i].active =>
                           \/ /\ c.sets[i].active
                              /\ c.sets[i].generation = a.sets[i].generation
                           \/ c.sets[i].generation > a.sets[i].generation
    BY Zenon DEF Ages
  <2> DEFINE x == a.sets[i]
             y == b.sets[i]
             z == c.sets[i]
  <2>1. /\ y.generation >= x.generation
        /\ x.active => \/ y.active /\ y.generation = x.generation
                       \/ y.generation > x.generation
        /\ z.generation >= y.generation
        /\ y.active => \/ z.active /\ z.generation = y.generation
                       \/ z.generation > y.generation
    BY Zenon DEF Ages
  <2>2. /\ x.generation \in Nat /\ y.generation \in Nat /\ z.generation \in Nat
    BY <1>1, Zenon
  <2> HIDE DEF x, y, z
  <2>3. /\ z.generation >= x.generation
        /\ x.active => \/ z.active /\ z.generation = x.generation
                       \/ z.generation > x.generation
    BY <2>1, <2>2
  <2> QED
    BY <2>3, Zenon DEF x, z

\* The monitor's scan ages nothing, counts no waiter, and forgets exactly what belongs to the
\* watched processes that are gone.
LEMMA ScanAges ==
  ASSUME BrokerInv
  PROVE  /\ Ages(store, scan.store) /\ StoreOK(scan.store)
         /\ KeepsCounts(store, scan.store)
         /\ scan.store.undo \subseteq store.undo
         /\ \A e \in scan.store.undo, k \in WatcherSlots :
              watchers[k] # 0 /\ watchers[k] \notin alive => e.pid # watchers[k]
<1> DEFINE m == MaxWatchers
           x == exits(store, watchers, alive)
           Gone(k) == watchers[k] # 0 /\ watchers[k] \notin alive
           Left(st, k) ==
             /\ SameCounts(store, st) /\ st.undo \subseteq store.undo
             /\ \A e \in st.undo : \A j \in 1 .. k : Gone(j) => e.pid # watchers[j]
           D == [k \in 0 .. m |-> {st \in Stores : Left(st, k)}]
<1>1. /\ StoreOK(store) /\ watchers \in [WatcherSlots -> Pids \cup {0}]
      /\ m \in Nat
  BY Processes, Zenon DEF BrokerInv, TypeOK
<1>2. /\ x[0] = store
      /\ \A k \in 1 .. m :
           /\ StoreOK(x[k - 1]) /\ StoreOK(x[k])
           /\ x[k] = IF watchers[k] = 0 \/ watchers[k] \in alive THEN x[k - 1]
                     ELSE process_exit(x[k - 1], watchers[k]).store
      /\ StoreOK(x[m])
  BY <1>1, ExitRounds
<1>3. scan.store = x[m] /\ WatcherSlots = 1 .. m
  BY Zenon DEF scan, WatcherSlots
<1> HIDE DEF x, m
<1>4. \A st : StoreOK(st) => st \in Stores
  BY ZenonT(40) DEF Stores, StoreOK, StoreType
<1>5. ASSUME NEW st, StoreOK(st), NEW p
      PROVE  /\ SameCounts(st, process_exit(st, p).store)
             /\ process_exit(st, p).store.undo = {e \in st.undo : e.pid # p}
  <2> DEFINE V(i) == [s \in Sems |-> exit_value(st, p, i, s)]
             P(i) == [s \in Sems |-> IF exit_entries(st, p, i, s) = {}
                                     THEN st.sets[i].last_pids[s] ELSE p]
             new == process_exit(st, p).store
  <2>1. st.sets \in [Slots -> SemSet]
    BY <1>5, Zenon DEF StoreOK, StoreType
  <2>2. /\ new.undo = {e \in st.undo : e.pid # p}
        /\ new.sets = [i \in Slots |->
             [st.sets[i] EXCEPT !.values = V(i), !.last_pids = P(i)]]
    BY Zenon DEF process_exit, Returns
  <2> HIDE DEF new, V, P
  <2>3. ASSUME NEW i \in Slots
        PROVE  /\ new.sets[i].active = st.sets[i].active
               /\ new.sets[i].generation = st.sets[i].generation
               /\ new.sets[i].nsems = st.sets[i].nsems
               /\ new.sets[i].negative_waiters = st.sets[i].negative_waiters
               /\ new.sets[i].zero_waiters = st.sets[i].zero_waiters
    <3>1. /\ st.sets[i] \in SemSet
          /\ new.sets[i] = [st.sets[i] EXCEPT !.values = V(i), !.last_pids = P(i)]
      BY <2>1, <2>2, Zenon
    <3> QED
      BY <3>1, Zenon DEF SemSet
  <2>4. SameCounts(st, new)
    BY <2>3, Zenon DEF SameCounts
  <2> QED
    BY <2>2, <2>4, Zenon DEF new
<1>6. ASSUME NEW k \in 1 .. m, Left(x[k - 1], k - 1) PROVE Left(x[k], k)
  <2>1. \A j \in 1 .. k : j \in 1 .. k - 1 \/ j = k
    BY <1>1
  <2>2. StoreOK(x[k - 1]) /\ StoreOK(x[k])
    BY <1>2, Zenon
  <2>3. CASE ~Gone(k)
    <3>1. x[k] = x[k - 1]
      BY <1>2, <2>3, Zenon
    <3> QED
      BY <1>6, <2>1, <2>3, <3>1, Zenon
  <2>4. CASE Gone(k)
    <3>1. x[k] = process_exit(x[k - 1], watchers[k]).store
      BY <1>2, <2>4, Zenon
    <3>2. /\ SameCounts(x[k - 1], x[k])
          /\ x[k].undo = {e \in x[k - 1].undo : e.pid # watchers[k]}
      BY <1>5, <2>2, <3>1
    <3>3. SameCounts(store, x[k])
      BY <1>6, <3>2, ZenonT(40) DEF SameCounts
    <3> QED
      BY <1>6, <2>1, <3>2, <3>3, Zenon
  <2> QED
    BY <2>3, <2>4
<1>7. x[0] \in D[0]
  <2>1. SameCounts(store, store)
    BY Zenon DEF SameCounts
  <2> QED
    BY <1>1, <1>2, <1>4, <2>1
<1> HIDE DEF Left
<1>8. \A k \in 1 .. m : x[k - 1] \in D[k - 1] => x[k] \in D[k]
  <2> SUFFICES ASSUME NEW k \in 1 .. m
               PROVE  x[k - 1] \in D[k - 1] => x[k] \in D[k]
    BY Zenon
  <2>1. k - 1 \in 0 .. m /\ k \in 0 .. m
    BY <1>1
  <2> QED
    BY <1>2, <1>4, <1>6, <2>1, Zenon
<1>9. x[m] \in D[m]
  <2> HIDE DEF D
  <2> QED
    BY <1>1, <1>7, <1>8, LoopInvariant, Zenon
<1>10. Left(x[m], m)
  BY <1>1, <1>9
<1>11. Ages(store, x[m]) /\ KeepsCounts(store, x[m])
  BY <1>1, <1>10, SameKeeps, Zenon DEF Left
<1> QED
  BY <1>2, <1>3, <1>10, <1>11, Zenon DEF Left

\* A waiter that leaves takes the store from st to store' by its counts only.
LEMMA LeaveAges ==
  ASSUME BrokerInv, NEW c \in Conns, state[c] = "waiting",
         NEW st, StoreOK(st), NEW result, Leave(c, st, result)
  PROVE  Ages(st, store') /\ store'.undo = st.undo /\ StoreOK(store')
<1>1. QueueIsWaiters /\ queue \in Seq(Waiter) /\ store' = finish_waiter(st, c)
  BY Zenon DEF BrokerInv, TypeOK, Leave
<1>2. StoreOK(store') /\ SameButCounts(st, store')
  BY <1>1, FinishWaiter, Zenon
<1>3. SameSlots(st, store')
  BY <1>2, CountSameSlots, ZenonT(40)
<1> QED
  BY <1>2, <1>3, SameAge DEF SameButCounts

\* Every step of a worker ages the slots, and records for its own client only.
LEMMA WorkerAges ==
  ASSUME BrokerInv, BrokerInv', NEW c \in Conns, Worker(c)
  PROVE  /\ Ages(store, store')
         /\ \A e \in store'.undo :
              \/ e \in store.undo
              \/ /\ e.pid = peer[c] /\ request_uses_undo(req[c])
                 /\ dispatch_request(c) \/ retry_first(c)
<1> DEFINE d == dispatch(store, req[c], peer[c])
<1>1. StoreOK(store) /\ Ages(store, store)
  BY SameAge, Zenon DEF BrokerInv, SameSlots
<1>2. CASE store' = store
  BY <1>1, <1>2, Zenon
<1>3. ASSUME state[c] \in {"sent", "waiting"}
      PROVE  /\ req[c] \in Requests /\ peer[c] \in Nat
             /\ StoreOK(d.store) /\ Ages(store, d.store)
             /\ Records(store, d.store, peer[c], request_uses_undo(req[c]))
  <2>1. req[c] \in Requests /\ peer[c] \in Nat
    BY <1>3, Processes, ZenonT(40) DEF BrokerInv, Asking
  <2> QED
    BY <1>1, <2>1, DispatchOK, DispatchAges
<1>4. CASE dispatch_request(c)
  <2>1. PICK w : \/ Answer(c, w.result) /\ UNCHANGED bvars
                 \/ Serve(c, w) \/ Enqueue(c, w) \/ Abandon(c, w)
    BY <1>4, Zenon DEF dispatch_request
  <2>2. state[c] = "sent"
    BY <1>4, ZenonT(40) DEF dispatch_request
  <2>3. CASE UNCHANGED bvars \/ Abandon(c, w)
    BY <1>2, <2>3, ZenonT(40) DEF bvars, Abandon
  <2>4. CASE Serve(c, w)
    <3>1. store' = d.store
      BY <2>4, Zenon DEF Serve
    <3> HIDE DEF d
    <3> QED
      BY <1>3, <1>4, <2>2, <3>1, Zenon DEF Records
  <2>5. CASE Enqueue(c, w)
    <3> DEFINE why == wait_reason(store, req[c].semid, req[c].ops)
    <3>1. /\ must_wait(req[c], d.result)
          /\ store' = adjust_wait_count(store, req[c].semid, why.sem_num,
                                        why.wait_for_zero, 1).store
      BY <2>5, ZenonT(40) DEF Enqueue
    <3>2. req[c].semid \in Int
      BY <1>3, <2>2, <3>1, SemopFields, Zenon DEF must_wait
    <3>3. why.sem_num \in Nat /\ why.wait_for_zero \in BOOLEAN
      <4>1. why \in Reasons
        BY <1>1, <1>3, <2>2, <3>1, WaitReason, ZenonT(40)
      <4> HIDE DEF why
      <4> QED
        BY <4>1, ReasonFields
    <3>0. store' = adjust_wait_count(store, req[c].semid, why.sem_num,
                                     why.wait_for_zero, 1).store
      BY <3>1, Zenon
    <3> HIDE DEF why, d
    <3>4. SameButCounts(store, store') /\ StoreOK(store')
      <4>1. 1 \in Int
        BY SmallNumbers, Zenon
      <4> QED
        BY <1>1, <3>0, <3>2, <3>3, <4>1, CountOnly, Zenon
    <3>5. SameSlots(store, store')
      BY <1>1, <3>4, CountSameSlots, Zenon
    <3> QED
      BY <1>1, <3>4, <3>5, SameAge DEF SameButCounts
  <2> QED
    BY <2>1, <2>3, <2>4, <2>5
<1>5. CASE retry_first(c)
  <2>1. state[c] = "waiting" /\ Leave(c, d.store, d.result)
    BY <1>5, ZenonT(40) DEF retry_first
  <2>2. /\ StoreOK(d.store) /\ Ages(store, d.store)
        /\ Records(store, d.store, peer[c], request_uses_undo(req[c]))
    BY <1>3, <2>1, Zenon
  <2> HIDE DEF d
  <2>3. Ages(d.store, store') /\ store'.undo = d.store.undo /\ StoreOK(store')
    BY <2>1, <2>2, LeaveAges, Zenon
  <2>4. Ages(store, store')
    BY <1>1, <2>2, <2>3, AgesAdd, Zenon
  <2> QED
    BY <1>5, <2>2, <2>3, <2>4 DEF Records
<1>6. CASE retry_peer_closed(c) \/ operation_timed_out(c)
  <2>1. PICK r : state[c] = "waiting" /\ Leave(c, store, r)
    BY <1>6, Zenon DEF retry_peer_closed, operation_timed_out
  <2>2. Ages(store, store') /\ store'.undo = store.undo
    BY <1>1, <2>1, LeaveAges, Zenon
  <2> QED
    BY <2>2
<1>7. CASE retry_sleeps(c) \/ HangUp(c)
  BY <1>2, <1>7, Zenon DEF retry_sleeps, HangUp, bvars
<1> QED
  BY <1>4, <1>5, <1>6, <1>7 DEF Worker

\* Every step ages the slots.
LEMMA StepAges ==
  ASSUME BrokerInv, BrokerInv', [Next]_vars
  PROVE  Ages(store, store')
<1>1. StoreOK(store) /\ Ages(store, store)
  BY SameAge, Zenon DEF BrokerInv, SameSlots
<1>2. CASE Client \/ UNCHANGED vars
  <2>1. store' = store
    BY <1>2, ZenonT(40) DEF Client, Connect, Close, Send, Receive, Fork, Exit, vars, bvars
  <2> QED
    BY <1>1, <2>1
<1>3. CASE monitor_process_exits
  BY <1>3, ScanAges, Zenon DEF monitor_process_exits
<1> QED
  BY <1>2, <1>3, WorkerAges DEF Next

-----------------------------------------------------------------------------
(* A removed set.                                                          *)

\* A semop on an id whose set is gone fails with EINVAL.
LEMMA GoneIsInvalid ==
  ASSUME NEW st, NEW r, is_semop(r), ~found(st, r.semid), NEW pid
  PROVE  dispatch(st, r, pid).result = -EINVAL
<1>1. dispatch(st, r, pid) = tryop(st, r.semid, r.ops, pid)
  BY ZenonT(40) DEF dispatch, is_semop
<1>2. tryop(st, r.semid, r.ops, pid) = Returns(st, -EINVAL)
  BY Zenon DEF tryop
<1> QED
  BY <1>1, <1>2 DEF Returns

\* Every waiter's id was given out.
WaitersKnown ==
  \A c \in Conns : state[c] = "waiting" => GivenOut(store, req[c].semid)

\* A set is there when a request starts to wait for it, and time only passes.
LEMMA KnownStep ==
  ASSUME BrokerInv, BrokerInv', WaitersKnown, [Next]_vars
  PROVE  WaitersKnown'
<1> SUFFICES ASSUME NEW c \in Conns, state'[c] = "waiting"
             PROVE  GivenOut(store', req'[c].semid)
  BY Zenon DEF WaitersKnown
<1>1. StoreOK(store) /\ StoreOK(store') /\ Ages(store, store')
  BY StepAges, Zenon DEF BrokerInv
<1>2. req'[c] \in Requests /\ is_semop(req'[c])
  BY Zenon DEF BrokerInv, Asking
<1>3. req'[c].semid \in Int
  BY <1>2, SemopFields, Zenon
<1>4. CASE state[c] = "waiting"
  <2>1. req'[c] = req[c] /\ GivenOut(store, req[c].semid)
    BY <1>4, Waits, ZenonT(40) DEF WaitersKnown
  <2> QED
    BY <1>1, <1>3, <2>1, StaleForGood
<1>5. CASE state[c] # "waiting"
  <2>1. PICK w : req' = req /\ Enqueue(c, w)
    BY <1>5, Waits
  <2>2. dispatch(store, req[c], peer[c]).result = 1 /\ is_semop(req[c])
    BY <2>1, Zenon DEF Enqueue, must_wait, TGC_SEM_OP_BLOCKED
  <2>3. found(store, req[c].semid)
    <3> SUFFICES ASSUME ~found(store, req[c].semid) PROVE FALSE
      BY Zenon
    <3>1. dispatch(store, req[c], peer[c]).result = -EINVAL
      BY <2>2, GoneIsInvalid, Zenon
    <3> QED
      BY <2>2, <3>1 DEF EINVAL
  <2>4. GivenOut(store, req[c].semid)
    BY <2>3, Zenon DEF GivenOut, found
  <2> QED
    BY <1>1, <1>3, <2>1, <2>4, StaleForGood, ZenonT(40)
<1> QED
  BY <1>4, <1>5, Zenon

\* A waiter of a removed set is never let through: its id stays stale however
\* often its slot is used again, and only an error ends its wait.
THEOREM RemovedServesNobody == Spec => RemovedSetServesNobody
<1> DEFINE Refused ==
      \A c \in Conns :
        state[c] = "waiting" /\ ~found(store, req[c].semid)
        => \/ state'[c] = "waiting" /\ ~found(store', req[c].semid)
           \/ state'[c] = "replied" /\ reply'[c] # 0
<1>1. Init => WaitersKnown
  BY Zenon DEF Init, WaitersKnown
<1>2. BrokerInv /\ BrokerInv' /\ WaitersKnown /\ [Next]_vars => WaitersKnown'
  BY KnownStep, ZenonT(40)
<1>3. ASSUME BrokerInv, BrokerInv', WaitersKnown, Next PROVE Refused
  <2> SUFFICES ASSUME NEW c \in Conns, state[c] = "waiting",
                      ~found(store, req[c].semid)
               PROVE  \/ state'[c] = "waiting" /\ ~found(store', req[c].semid)
                      \/ state'[c] = "replied" /\ reply'[c] # 0
    BY ZenonT(40)
  <2>1. /\ StoreOK(store) /\ StoreOK(store') /\ Ages(store, store')
        /\ req[c] \in Requests /\ is_semop(req[c])
        /\ reply \in [Conns -> Int]
    BY <1>3, StepAges, ZenonT(40) DEF BrokerInv, Asking, TypeOK
  <2>2. ~found(store', req[c].semid)
    <3>1. req[c].semid \in Int /\ GivenOut(store, req[c].semid)
      BY <1>3, <2>1, SemopFields, Zenon DEF WaitersKnown
    <3> QED
      BY <2>1, <3>1, StaleForGood, ZenonT(40)
  <2>3. CASE state'[c] # "waiting"
    <3>1. state'[c] = "replied"
      BY <1>3, <2>3, Waits, Zenon
    <3>2. retry_peer_closed(c) \/ retry_first(c) \/ operation_timed_out(c)
      BY <1>3, <2>3, Waits, Zenon
    <3>3. ASSUME NEW st, NEW r, Leave(c, st, r) PROVE reply'[c] = r
      BY <2>1, <3>3, Zenon DEF Leave, Answer
    <3>4. CASE retry_peer_closed(c)
      BY <3>1, <3>3, <3>4, Codes, Zenon DEF retry_peer_closed
    <3>5. CASE operation_timed_out(c)
      BY <3>1, <3>3, <3>5, Codes, Zenon DEF operation_timed_out
    <3>6. CASE retry_first(c)
      <4>1. reply'[c] = dispatch(store, req[c], peer[c]).result
        BY <3>3, <3>6, ZenonT(40) DEF retry_first
      <4>2. dispatch(store, req[c], peer[c]).result = -EINVAL
        BY <2>1, GoneIsInvalid
      <4> QED
        BY <3>1, <4>1, <4>2, Codes, Zenon
    <3> QED
      BY <3>2, <3>4, <3>5, <3>6, Zenon
  <2> QED
    BY <2>2, <2>3
<1>4. BrokerInv /\ BrokerInv' /\ WaitersKnown /\ [Next]_vars => [Refused]_vars
  BY <1>3, ZenonT(40)
<1> QED
  BY <1>1, <1>2, <1>4, BrokerInvariant, PTL DEF Spec, RemovedSetServesNobody
-----------------------------------------------------------------------------
(* Every adjustment is watched.                                            *)

\* A watcher list with p in it.
Watching(list, p) == \E k \in WatcherSlots : list[k] = p

\* What a run without forks keeps true: a connection has no holder but the
\* process that opened it, adjustments belong to watched processes, and so
\* do the waiting requests that will record one.
UndoInv ==
  /\ \A c \in Conns : holders[c] \subseteq {peer[c]}
  /\ \A e \in store.undo : e.pid \in Pids /\ Watching(watchers, e.pid)
  /\ \A c \in Conns :
       /\ state[c] = "waiting" /\ request_uses_undo(req[c])
       /\ peer[c] \in alive
       => Watching(watchers, peer[c])

\* watch_process unwatches nobody, and when it succeeds its process is watched.
LEMMA WatchKeeps ==
  ASSUME watchers \in [WatcherSlots -> Pids \cup {0}], NEW p \in Pids, NEW gone
  PROVE  LET w == watch_process(p, gone)
         IN  /\ \A q \in Pids : Watching(watchers, q) => Watching(w.watchers, q)
             /\ w.result = 0 => Watching(w.watchers, p)
<1> DEFINE free == {k \in WatcherSlots : watchers[k] = 0}
           same == [result |-> 0, watchers |-> watchers, broadcast |-> FALSE]
           w == watch_process(p, gone)
<1>1. CASE Watched(p)
  <2>1. w = same
    BY <1>1, Zenon DEF watch_process
  <2> QED
    BY <1>1, <2>1 DEF Watched, Watching
<1>2. CASE ~Watched(p) /\ (free = {} \/ gone)
  <2>1. \/ w = [same EXCEPT !.result = -ENOSPC]
        \/ w = [same EXCEPT !.result = -ENOENT]
    BY <1>2 DEF watch_process
  <2>2. w.watchers = watchers /\ w.result # 0
    BY <2>1 DEF ENOSPC, ENOENT
  <2> QED
    BY <2>2, Zenon
<1>3. CASE ~Watched(p) /\ free # {} /\ ~gone
  <2> DEFINE k == Smallest(free)
  <2>1. w = [same EXCEPT !.watchers[k] = p, !.broadcast = TRUE]
    BY <1>3, Zenon DEF watch_process
  <2>2. w.watchers = [watchers EXCEPT ![k] = p]
    BY <2>1, Zenon
  <2>3. k \in free
    <3>1. free \in SUBSET Nat
      BY DEF WatcherSlots
    <3> HIDE DEF free
    <3> QED
      BY <1>3, <3>1, LeastElement, Zenon DEF Smallest
  <2>4. k \in WatcherSlots /\ watchers[k] = 0 /\ 0 \notin Pids
    BY <2>3, Processes, Zenon
  <2> HIDE DEF k, w
  <2>5. w.watchers[k] = p
    BY <2>2, <2>4, Zenon
  <2>6. \A q \in Pids, j \in WatcherSlots :
          watchers[j] = q => w.watchers[j] = q
    BY <2>2, <2>4
  <2> QED
    BY <2>4, <2>5, <2>6, Zenon DEF Watching, w
<1> QED
  BY <1>1, <1>2, <1>3, Zenon

\* dispatch_request unwatches nobody, and a request it serves or queues that
\* uses SEM_UNDO has its process watched.
LEMMA DispatchWatches ==
  ASSUME BrokerInv, NEW c \in Conns, dispatch_request(c)
  PROVE  /\ \A q \in Pids : Watching(watchers, q) => Watching(watchers', q)
         /\ request_uses_undo(req[c]) =>
              \/ Watching(watchers', peer[c])
              \/ UNCHANGED store /\ state'[c] = "replied"
<1>1. /\ watchers \in [WatcherSlots -> Pids \cup {0}] /\ peer[c] \in Pids
      /\ state \in [Conns -> {"closed", "idle", "sent", "waiting", "replied"}]
  BY Zenon DEF BrokerInv, TypeOK, Asking, dispatch_request
<1> DEFINE W(gone) ==
      IF request_uses_undo(req[c]) THEN watch_process(peer[c], gone)
      ELSE [result |-> 0, watchers |-> watchers, broadcast |-> FALSE]
<1>2. PICK gone \in {FALSE, peer[c] \notin alive} :
        \/ W(gone).result # 0 /\ Answer(c, W(gone).result) /\ UNCHANGED bvars
        \/ W(gone).result = 0 /\ watchers' = W(gone).watchers
  BY Zenon DEF dispatch_request, Serve, Enqueue, Abandon
<1>3. CASE W(gone).result # 0 /\ Answer(c, W(gone).result) /\ UNCHANGED bvars
  <2>1. state' = [state EXCEPT ![c] = "replied"]
    BY <1>3, ZenonT(40) DEF Answer
  <2>2. store' = store /\ watchers' = watchers
    BY <1>3, ZenonT(40) DEF bvars
  <2> QED
    BY <1>1, <2>1, <2>2, Zenon DEF Watching
<1>4. CASE W(gone).result = 0 /\ watchers' = W(gone).watchers
  <2>1. CASE request_uses_undo(req[c])
    <3>1. W(gone) = watch_process(peer[c], gone)
      BY <2>1, Zenon
    <3> HIDE DEF W
    <3>2. /\ \A q \in Pids : Watching(watchers, q) => Watching(W(gone).watchers, q)
          /\ W(gone).result = 0 => Watching(W(gone).watchers, peer[c])
      BY <1>1, <3>1, WatchKeeps, Zenon
    <3> QED
      BY <1>4, <3>2
  <2>2. CASE ~request_uses_undo(req[c])
    <3>1. watchers' = watchers
      BY <1>4, <2>2, Zenon
    <3> QED
      BY <2>2, <3>1, Zenon DEF Watching
  <2> QED
    BY <2>1, <2>2, ZenonT(40)
<1> QED
  BY <1>2, <1>3, <1>4, Zenon

\* Clients open and close connections, and die; without forks none gets a
\* second holder.
LEMMA ClientWatched ==
  ASSUME ~CanFork, BrokerInv, UndoInv, Client
  PROVE  UndoInv'
<1>1. /\ state \in [Conns -> {"closed", "idle", "sent", "waiting", "replied"}]
      /\ peer \in [Conns -> Pids \cup {0}]
      /\ holders \in [Conns -> SUBSET alive]
      /\ req \in [Conns -> Requests \cup {NoRequest}]
  BY Zenon DEF BrokerInv, TypeOK
<1>2. UNCHANGED bvars
  BY ZenonT(40) DEF Client, Connect, Close, Send, Receive, Fork, Exit
<1>3. alive' \subseteq alive
  BY ZenonT(40) DEF Client, Connect, Close, Send, Receive, Fork, Exit
<1>4. \A c \in Conns : state'[c] = "waiting" =>
        state[c] = "waiting" /\ req'[c] = req[c] /\ peer'[c] = peer[c]
  BY <1>1, ZenonT(40) DEF Client, Connect, Close, Send, Receive, Fork, Exit
<1>5. \A c \in Conns : holders[c] \subseteq {peer[c]}
  BY Zenon DEF UndoInv
<1>6. \A c \in Conns : holders'[c] \subseteq {peer'[c]}
  <2>1. ASSUME NEW b \in Conns, NEW p \in Pids, Connect(b, p)
        PROVE  \A c \in Conns : holders'[c] \subseteq {peer'[c]}
    BY <1>1, <1>5, <2>1, Zenon DEF Connect
  <2>2. ASSUME NEW b \in Conns, NEW p \in Pids, Close(b, p)
        PROVE  \A c \in Conns : holders'[c] \subseteq {peer'[c]}
    BY <1>1, <1>5, <2>2, Zenon DEF Close
  <2>3. ASSUME NEW p \in Pids, Exit(p)
        PROVE  \A c \in Conns : holders'[c] \subseteq {peer'[c]}
    BY <1>1, <1>5, <2>3, Zenon DEF Exit
  <2>4. CASE UNCHANGED <<holders, peer>>
    BY <1>5, <2>4
  <2>5. \/ UNCHANGED <<holders, peer>>
        \/ \E b \in Conns, p \in Pids : Connect(b, p) \/ Close(b, p)
        \/ \E p \in Pids : Exit(p)
    BY Zenon DEF Client, Send, Receive, Fork
  <2> QED
    BY <2>1, <2>2, <2>3, <2>4, <2>5, ZenonT(40)
<1>7. store' = store /\ watchers' = watchers
  BY <1>2, Zenon DEF bvars
<1> QED
  BY <1>3, <1>4, <1>6, <1>7 DEF UndoInv, Watching

\* A worker records an adjustment only for a process that is watched.
LEMMA WorkerWatched ==
  ASSUME BrokerInv, BrokerInv', UndoInv, NEW c \in Conns, Worker(c)
  PROVE  UndoInv'
<1>1. /\ state \in [Conns -> {"closed", "idle", "sent", "waiting", "replied"}]
      /\ holders \in [Conns -> SUBSET alive]
      /\ peer \in [Conns -> Pids \cup {0}] /\ alive \subseteq Pids
  BY Zenon DEF BrokerInv, TypeOK
<1>2. /\ \A b \in Conns : holders[b] \subseteq {peer[b]}
      /\ \A e \in store.undo : e.pid \in Pids /\ Watching(watchers, e.pid)
      /\ \A b \in Conns :
           /\ state[b] = "waiting" /\ request_uses_undo(req[b])
           /\ peer[b] \in alive
           => Watching(watchers, peer[b])
  BY ZenonT(40) DEF UndoInv
<1>3. /\ holders' = holders /\ alive' = alive
      /\ peer' = peer \/ (HangUp(c) /\ peer' = [peer EXCEPT ![c] = 0])
  BY ZenonT(40) DEF Worker, dispatch_request, retry_peer_closed, retry_first,
         retry_sleeps, operation_timed_out, HangUp, Leave, Answer, Serve,
         Enqueue, Abandon, cvars
<1>4. \A b \in Conns : holders'[b] \subseteq {peer'[b]}
  BY <1>1, <1>2, <1>3, Zenon DEF HangUp
<1>5. \A q \in Pids : Watching(watchers, q) => Watching(watchers', q)
  <2>1. CASE dispatch_request(c)
    BY <2>1, DispatchWatches, Zenon
  <2>2. CASE ~dispatch_request(c)
    <3>1. watchers' = watchers
      BY <2>2, ZenonT(40) DEF Worker, retry_peer_closed, retry_first, retry_sleeps,
                  operation_timed_out, HangUp, Leave, bvars
    <3> QED
      BY <3>1 DEF Watching
  <2> QED
    BY <2>1, <2>2, Zenon
<1>6. ASSUME NEW e \in store'.undo PROVE e.pid \in Pids /\ Watching(watchers', e.pid)
  <2>1. \/ e \in store.undo
        \/ /\ e.pid = peer[c] /\ request_uses_undo(req[c])
           /\ dispatch_request(c) \/ retry_first(c)
    BY WorkerAges, Zenon
  <2>2. CASE e \in store.undo
    BY <1>2, <1>5, <2>2, Zenon
  <2>3. CASE /\ e.pid = peer[c] /\ request_uses_undo(req[c])
             /\ retry_first(c)
    <3>1. state[c] = "waiting" /\ holders[c] # {}
      BY <2>3, ZenonT(40) DEF retry_first
    <3>2. peer[c] \in alive
      BY <1>1, <1>2, <3>1, Zenon
    <3> QED
      BY <1>1, <1>2, <1>5, <2>3, <3>1, <3>2
  <2>4. CASE /\ e.pid = peer[c] /\ request_uses_undo(req[c])
             /\ dispatch_request(c) /\ e \notin store.undo
    <3>1. Watching(watchers', peer[c])
      BY <2>4, DispatchWatches
    <3>2. peer[c] \in Pids
      BY <2>4, ZenonT(40) DEF BrokerInv, Asking, dispatch_request
    <3>3. Watching(watchers', e.pid)
      BY <2>4, <3>1 DEF Watching
    <3> QED
      BY <2>4, <3>2, <3>3, Zenon
  <2> QED
    BY <2>1, <2>2, <2>3, <2>4, Zenon
<1>7. ASSUME NEW b \in Conns, state'[b] = "waiting",
             request_uses_undo(req'[b]), peer'[b] \in alive'
      PROVE  Watching(watchers', peer'[b])
  <2>0. [Next]_vars
    BY ZenonT(40) DEF Next
  <2>1. CASE state[b] = "waiting"
    <3>1. req'[b] = req[b] /\ peer'[b] = peer[b]
      BY <2>0, <2>1, Waits, ZenonT(40)
    <3>2. Watching(watchers, peer[b]) /\ peer[b] \in Pids
      BY <1>1, <1>2, <1>3, <1>7, <2>1, <3>1, Zenon
    <3> QED
      BY <1>5, <3>1, <3>2
  <2>2. CASE state[b] # "waiting"
    <3>1. dispatch_request(b) /\ req' = req /\ peer' = peer
      BY <1>7, <2>0, <2>2, Waits, Zenon
    <3>2. Watching(watchers', peer[b])
      BY <1>7, <3>1, DispatchWatches, Zenon
    <3> QED
      BY <3>1, <3>2, Zenon
  <2> QED
    BY <2>1, <2>2
<1> QED
  BY <1>4, <1>6, <1>7 DEF UndoInv

\* The monitor drops a watcher only together with what its process recorded.
LEMMA MonitorWatched ==
  ASSUME BrokerInv, UndoInv, monitor_process_exits
  PROVE  UndoInv'
<1>1. /\ store' = scan.store
      /\ watchers' = [k \in WatcherSlots |->
                        IF watchers[k] \in alive THEN watchers[k] ELSE 0]
      /\ UNCHANGED <<cvars, alive>>
  BY Zenon DEF monitor_process_exits, scan
<1>2. /\ state' = state /\ peer' = peer /\ holders' = holders /\ req' = req
      /\ alive' = alive
  BY <1>1, Zenon DEF cvars
<1>3. /\ scan.store.undo \subseteq store.undo
      /\ \A e \in scan.store.undo, k \in WatcherSlots :
           watchers[k] # 0 /\ watchers[k] \notin alive => e.pid # watchers[k]
  BY ScanAges, Zenon
<1>4. \A q \in alive : Watching(watchers, q) => Watching(watchers', q)
  BY <1>1, Zenon DEF Watching
<1>5. ASSUME NEW e \in store'.undo PROVE e.pid \in Pids /\ Watching(watchers', e.pid)
  <2>1. e.pid \in Pids /\ Watching(watchers, e.pid)
    BY <1>1, <1>3 DEF UndoInv
  <2>2. PICK k \in WatcherSlots : watchers[k] = e.pid
    BY <2>1, Zenon DEF Watching
  <2>3. e.pid # 0
    BY <2>1, Processes, Zenon
  <2>4. e.pid \in alive
    BY <1>1, <1>3, <2>2, <2>3
  <2> QED
    BY <1>4, <2>1, <2>4, Zenon
<1> QED
  BY <1>2, <1>4, <1>5 DEF UndoInv

\* In a run without forks every pending adjustment has a watcher that will see
\* its process exit, for any number of processes and watcher slots.  (A forked
\* child can keep its parent's connection open: BrokerOrphan.)
THEOREM AdjustmentsAreWatched ==
  ASSUME ~CanFork PROVE Spec => []UndoWatched
<1>1. Init => UndoInv
  BY BrokerAssumptions, Zenon DEF Init, UndoInv
<1>2. BrokerInv /\ BrokerInv' /\ UndoInv /\ [Next]_vars => UndoInv'
  <2>1. ASSUME UndoInv, UNCHANGED vars PROVE UndoInv'
    BY <2>1, ZenonT(40) DEF UndoInv, Watching, vars, bvars, cvars
  <2> QED
    BY <2>1, ClientWatched, WorkerWatched, MonitorWatched DEF Next
<1>3. UndoInv => UndoWatched
  BY DEF UndoInv, UndoWatched, Watched, Watching
<1> QED
  BY <1>1, <1>2, <1>3, BrokerInvariant, PTL DEF Spec
-----------------------------------------------------------------------------
(* The wait counts.                                                        *)

\* A call that keeps the counts of the sets keeps them exact: the id of a new
\* set is none that a waiter could hold.
LEMMA KeptCounts ==
  ASSUME NEW st, StoreOK(st), NEW new, StoreOK(new),
         Ages(st, new), KeepsCounts(st, new), NEW q \in Seq(Waiter),
         \A k \in DOMAIN q : GivenOut(st, q[k].semid), Counted(st, q)
  PROVE  Counted(new, q)
<1>1. ASSUME NEW i \in Slots, new.sets[i].active, ~st.sets[i].active,
             NEW k \in DOMAIN q
      PROVE  q[k].semid # make_id(i, new.sets[i].generation)
  <2> DEFINE g == new.sets[i].generation
  <2>1. g \in Nat /\ st.sets[i].generation \in Nat
    <3>1. st.sets[i] \in SemSet /\ new.sets[i] \in SemSet
      BY Zenon DEF StoreOK, StoreType
    <3>2. /\ st.sets[i].generation \in 0 .. MaxGeneration
          /\ g \in 0 .. MaxGeneration
      BY <3>1, Zenon DEF SemSet
    <3> HIDE DEF g
    <3> QED
      BY <3>2, SmallNumbers, Zenon
  <2>2. g >= st.sets[i].generation
    BY Zenon DEF Ages
  <2>3. id_index(make_id(i, g)) = i /\ id_generation(make_id(i, g)) = g
    BY <2>1, IdRoundTrip, Zenon
  <2> HIDE DEF g
  <2> SUFFICES ASSUME q[k].semid = make_id(i, g) PROVE FALSE
    BY DEF g
  <2>4. GivenOut(st, make_id(i, g))
    BY Zenon
  <2>5. g < st.sets[i].generation
    BY <1>1, <2>3, <2>4, Zenon DEF GivenOut, found
  <2> QED
    BY <2>1, <2>2, <2>5, NatOrder, Zenon
<1>2. ASSUME NEW i \in Slots, NEW s \in Sems, NEW z \in BOOLEAN,
             new.sets[i].active
      PROVE  counter(new.sets[i], z)[s]
               = Cardinality(Queued(q, make_id(i, new.sets[i].generation), s, z))
  <2>1. CASE /\ st.sets[i].active
             /\ new.sets[i].generation = st.sets[i].generation
             /\ new.sets[i].negative_waiters = st.sets[i].negative_waiters
             /\ new.sets[i].zero_waiters = st.sets[i].zero_waiters
    <3>1. counter(new.sets[i], z) = counter(st.sets[i], z)
      BY <2>1, Zenon DEF counter
    <3> QED
      BY <2>1, <3>1, ZenonT(40) DEF Counted
  <2>2. CASE /\ ~st.sets[i].active
             /\ new.sets[i].negative_waiters = Zeros
             /\ new.sets[i].zero_waiters = Zeros
    <3>1. counter(new.sets[i], z)[s] = 0
      BY <2>2, ZenonT(40) DEF counter, Zeros
    <3>2. Queued(q, make_id(i, new.sets[i].generation), s, z) = {}
      BY <1>1, <1>2, <2>2, ZenonT(40) DEF Queued, Hits
    <3> QED
      BY <3>1, <3>2, FS_EmptySet, Zenon
  <2> QED
    BY <1>2, <2>1, <2>2, Zenon DEF KeepsCounts
<1>3. ASSUME NEW k \in DOMAIN q, found(new, q[k].semid)
      PROVE  has_sem(new, q[k].semid, q[k].semnum)
  <2> DEFINE id == q[k].semid
             i == id_index(id)
  <2>1. id \in Int
    BY WaiterFields, Zenon
  <2>2. /\ decodes(id) /\ i \in Slots /\ new.sets[i].active
        /\ new.sets[i].generation = id_generation(id)
    BY <1>3, Zenon DEF found, decodes
  <2>3. make_id(i, new.sets[i].generation) = id
    BY <2>1, <2>2, IdOfParts, ZenonT(40)
  <2> HIDE DEF i
  <2>4. st.sets[i].active
    BY <1>1, <2>2, <2>3
  <2>5. /\ new.sets[i].generation = st.sets[i].generation
        /\ new.sets[i].nsems = st.sets[i].nsems
    BY <2>2, <2>4, Zenon DEF KeepsCounts
  <2>6. found(st, id)
    BY <2>2, <2>4, <2>5, Zenon DEF found, i
  <2>7. has_sem(st, id, q[k].semnum)
    BY <2>6, ZenonT(40) DEF Counted
  <2> QED
    BY <1>3, <2>5, <2>7, Zenon DEF has_sem, set_of, i
<1> QED
  BY <1>2, <1>3, Zenon DEF Counted

\* The counts stay exact: whoever is queued is counted in, whoever leaves is
\* counted out of the same set if it is still there, and no other call counts.
LEMMA CountStep ==
  ASSUME BrokerInv, BrokerInv', WaitersKnown, Counted(store, queue), [Next]_vars
  PROVE  Counted(store', queue')
<1>1. /\ StoreOK(store) /\ queue \in Seq(Waiter) /\ QueueIsWaiters
  BY Zenon DEF BrokerInv, TypeOK
<1>2. \A k \in DOMAIN queue :
        queue[k].semid \in Int /\ GivenOut(store, queue[k].semid)
  <2> TAKE k \in DOMAIN queue
  <2>1. queue[k].semid \in Int /\ queue[k].conn \in Conns
    BY <1>1, WaiterFields, Zenon
  <2>2. /\ state[queue[k].conn] = "waiting"
        /\ queue[k].semid = req[queue[k].conn].semid
    BY <1>1, <2>1, Zenon DEF QueueIsWaiters
  <2> QED
    BY <2>1, <2>2, ZenonT(40) DEF WaitersKnown
<1>3. ASSUME NEW st, StoreOK(st), Ages(store, st), KeepsCounts(store, st)
      PROVE  Counted(st, queue)
  BY <1>1, <1>2, <1>3, KeptCounts, Zenon
<1>4. CASE store' = store /\ queue' = queue
  BY <1>4, Zenon
<1>5. CASE Client \/ UNCHANGED vars
  BY <1>4, <1>5, Zenon DEF Client, Connect, Close, Send, Receive, Fork, Exit,
                           vars, bvars
<1>6. CASE monitor_process_exits
  <2>1. store' = scan.store /\ queue' = queue
    BY <1>6, ZenonT(40) DEF monitor_process_exits
  <2>2. Counted(scan.store, queue)
    BY <1>3, ScanAges, Zenon
  <2> QED
    BY <2>1, <2>2
<1>7. ASSUME NEW c \in Conns, Worker(c) PROVE Counted(store', queue')
  <2> DEFINE d == dispatch(store, req[c], peer[c])
  <2>1. ASSUME state[c] \in {"sent", "waiting"}
        PROVE  StoreOK(d.store) /\ Ages(store, d.store) /\ Counted(d.store, queue)
    <3>1. req[c] \in Requests /\ peer[c] \in Nat
      BY <2>1, Processes, Zenon DEF BrokerInv, Asking
    <3>2. StoreOK(d.store) /\ Ages(store, d.store) /\ KeepsCounts(store, d.store)
      BY <1>1, <3>1, DispatchOK, DispatchAges, Zenon
    <3> HIDE DEF d
    <3> QED
      BY <1>3, <3>2, Zenon
  <2>2. CASE dispatch_request(c)
    <3>1. state[c] = "sent"
      BY <2>2, ZenonT(40) DEF dispatch_request
    <3>2. PICK x : \/ Answer(c, x.result) /\ UNCHANGED bvars
                   \/ Serve(c, x) \/ Enqueue(c, x) \/ Abandon(c, x)
      BY <2>2, Zenon DEF dispatch_request
    <3>3. CASE UNCHANGED bvars \/ Abandon(c, x)
      BY <1>4, <3>3, ZenonT(40) DEF bvars, Abandon
    <3>4. CASE Serve(c, x)
      <4>1. store' = d.store /\ queue' = queue
        BY <3>4, Zenon DEF Serve
      <4> HIDE DEF d
      <4> QED
        BY <2>1, <3>1, <4>1
    <3>5. CASE Enqueue(c, x)
      BY <3>1, <3>5, EnqueueCounts
    <3> QED
      BY <3>2, <3>3, <3>4, <3>5, Zenon
  <2>3. ASSUME state[c] = "waiting"
        PROVE  decodes(req[c].semid)
    BY <2>3, ZenonT(40) DEF WaitersKnown, GivenOut
  <2>4. CASE retry_first(c)
    <3>1. state[c] = "waiting" /\ Leave(c, d.store, d.result)
      BY <2>4, ZenonT(40) DEF retry_first
    <3> HIDE DEF d
    <3>2. StoreOK(d.store) /\ Ages(store, d.store) /\ Counted(d.store, queue)
      BY <2>1, <3>1, Zenon
    <3> QED
      BY <2>3, <3>1, <3>2, LeaveCounts
  <2>5. CASE retry_peer_closed(c) \/ operation_timed_out(c)
    <3>1. PICK r : state[c] = "waiting" /\ Leave(c, store, r)
      BY <2>5, Zenon DEF retry_peer_closed, operation_timed_out
    <3> QED
      BY <1>1, <2>3, <3>1, LeaveCounts
  <2>6. CASE retry_sleeps(c) \/ HangUp(c)
    BY <1>4, <2>6, Zenon DEF retry_sleeps, HangUp, bvars
  <2> QED
    BY <1>7, <2>2, <2>4, <2>5, <2>6, ZenonT(40) DEF Worker
<1> QED
  BY <1>5, <1>6, <1>7, Zenon DEF Next

\* GETNCNT and GETZCNT are exact on every live set, through wakeups, timeouts,
\* disconnects, removal and re-creation, for any number of workers and sets.
THEOREM CountsStayExact == Spec => []WaitCounts
<1>1. Init => WaitersKnown /\ Counted(store, queue)
  <2> SUFFICES ASSUME Init PROVE WaitersKnown /\ Counted(store, queue)
    BY Zenon
  <2>1. WaitersKnown
    BY Zenon DEF Init, WaitersKnown
  <2>2. DOMAIN queue = {}
    BY DEF Init
  <2>3. \A id, s, z : Cardinality(Queued(queue, id, s, z)) = 0
    <3> TAKE id, s, z
    <3>1. Queued(queue, id, s, z) = {}
      BY <2>2, Zenon DEF Queued
    <3> QED
      BY <3>1, FS_EmptySet, Zenon
  <2>4. \A i \in Slots, z \in BOOLEAN : counter(store.sets[i], z) = Zeros
    BY BrokerAssumptions, Zenon DEF Init, counter
  <2>5. \A s \in Sems : Zeros[s] = 0
    BY Zenon DEF Zeros
  <2>6. Counted(store, queue)
    BY <2>2, <2>3, <2>4, <2>5, Zenon DEF Counted
  <2> QED
    BY <2>1, <2>6, Zenon
<1>2. BrokerInv /\ BrokerInv' /\ WaitersKnown /\ [Next]_vars => WaitersKnown'
  BY KnownStep, Zenon
<1>3. /\ BrokerInv /\ BrokerInv' /\ WaitersKnown /\ Counted(store, queue)
      /\ [Next]_vars
      => Counted(store, queue)'
  BY CountStep, Zenon
<1>4. Counted(store, queue) => WaitCounts
  <2> SUFFICES ASSUME Counted(store, queue),
                      NEW i \in Slots, NEW s \in Sems, store.sets[i].active
               PROVE  LET set == store.sets[i]
                          id == make_id(i, set.generation)
                          queued(z) == {k \in DOMAIN queue :
                                          /\ queue[k].semid = id
                                          /\ queue[k].semnum = s
                                          /\ queue[k].zero = z}
                      IN  /\ set.negative_waiters[s] = Cardinality(queued(FALSE))
                          /\ set.zero_waiters[s] = Cardinality(queued(TRUE))
    BY Zenon DEF WaitCounts
  <2> DEFINE set == store.sets[i]
             id == make_id(i, set.generation)
             queued(z) == {k \in DOMAIN queue : /\ queue[k].semid = id
                                               /\ queue[k].semnum = s
                                               /\ queue[k].zero = z}
  <2>1. \A z : queued(z) = Queued(queue, id, s, z)
    BY Zenon DEF Queued, Hits
  <2>2. \A z \in BOOLEAN : counter(set, z)[s] = Cardinality(Queued(queue, id, s, z))
    BY Zenon DEF Counted
  <2>3. /\ counter(set, FALSE) = set.negative_waiters
        /\ counter(set, TRUE) = set.zero_waiters
    BY Zenon DEF counter
  <2> HIDE DEF queued, id, set
  <2>4. /\ set.negative_waiters[s] = Cardinality(queued(FALSE))
        /\ set.zero_waiters[s] = Cardinality(queued(TRUE))
    BY <2>1, <2>2, <2>3, Zenon
  <2> QED
    BY <2>4, Zenon DEF queued, id, set
<1> QED
  BY <1>1, <1>2, <1>3, <1>4, BrokerInvariant, PTL DEF Spec
=============================================================================
