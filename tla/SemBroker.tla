------------------------------ MODULE SemBroker ------------------------------
(***************************************************************************)
(* The broker of src/broker_server.c: one worker thread per connection and *)
(* one monitor thread, all under one mutex and one condition variable,     *)
(* around the store of SemStoreOps; and the client processes around it:    *)
(* they connect, send one request at a time, fork, close and exit.         *)
(*                                                                         *)
(* An action is one critical section: what a thread does from locking the  *)
(* mutex (or from waking inside pthread_cond_timedwait) to unlocking it    *)
(* (or to going back to sleep).  A broadcast empties "asleep"; a timed     *)
(* wait also ends by itself, so a sleeping worker may always take a step,  *)
(* while the monitor without watchers waits for a broadcast alone.         *)
(***************************************************************************)
EXTENDS SemStoreOps

CONSTANTS Conns,        \* connections, each with its worker thread
          Pids,         \* process ids
          MaxWatchers,  \* TGC_MAX_UNDO_PROCESSES
          Requests,     \* what clients send
          FirstStore,   \* the store the behaviour starts with
          FirstAlive,   \* the sets of processes that may run at the start
          CanFork       \* whether a process forks while it has connections

ASSUME BrokerAssumptions ==
  /\ Pids \subseteq Nat \ {0}
  /\ MaxWatchers \in Nat
  /\ FirstAlive \subseteq SUBSET Pids
  /\ CanFork \in BOOLEAN
  \* 64 workers never bring a 32-bit wait count to its limit.
  /\ IsFiniteSet(Conns) /\ Cardinality(Conns) <= MaxWaitCount
  \* Nothing to give back yet, and nobody waits.
  /\ StoreOK(FirstStore) /\ FirstStore.undo = {}
  /\ \A i \in Slots : /\ FirstStore.sets[i].negative_waiters = Zeros
                      /\ FirstStore.sets[i].zero_waiters = Zeros
  \* The dispatcher decodes fields of fixed width.
  /\ \A r \in Requests :
       \/ r \in [opcode : {"SEMOP", "SEMTIMEDOP"}, semid : Int,
                 ops : Seq([sem_num : Nat, sem_op : Int, nowait : BOOLEAN,
                            undo : BOOLEAN])]
       \/ r \in [opcode : {"SETVAL"}, semid : Int, semnum : Nat, value : Nat]
       \/ r \in [opcode : {"SETALL"}, semid : Int, values : Seq(Nat)]
       \/ r \in [opcode : {"REMOVE"}, semid : Int]
       \/ r \in [opcode : {"SEMGET"}, key : Int, nsems : Int,
                 flags : [creat : BOOLEAN, excl : BOOLEAN, mode : 0 .. MaxMode],
                 who : [uid : Nat, gid : Nat]]
       \/ r \in [opcode : {"SETMETA"}, semid : Int, uid : Nat, gid : Nat,
                 mode : Nat, who : [uid : Nat, gid : Nat]]
       \/ r \in [opcode : {"GETVAL", "GETPID", "GETNCNT", "GETZCNT"},
                 semid : Int, semnum : Nat]
  \* Bound: the last generation of a slot is never removed, so none wraps.
  /\ \A r \in Requests :
       r.opcode = "REMOVE" => id_generation(r.semid) < MaxGeneration

VARIABLES
  store,     \* broker->store
  queue,     \* the waiter list: [conn, semid, semnum, zero], oldest first
  watchers,  \* the watcher slots: a pid, or 0 for a free slot
  asleep,    \* workers in pthread_cond_timedwait that no broadcast has woken
  monitor,   \* the monitor thread: "ready", "timed" or "untimed" (waiting)
  state,     \* of a connection: closed, idle, sent, waiting or replied
  peer,      \* of a connection: the pid SO_PEERCRED reports
  holders,   \* of a connection: the processes that hold its client end
  req,       \* of a connection: the request being served
  reply,     \* of a connection: the result of the response
  alive      \* the processes that run

bvars == <<store, queue, watchers, asleep, monitor>>
cvars == <<state, peer, holders, req, reply>>
vars == <<bvars, cvars, alive>>

WatcherSlots == 1 .. MaxWatchers
NoRequest == [opcode |-> "NONE"]

Init == /\ store = FirstStore
        /\ queue = <<>>
        /\ watchers = [k \in WatcherSlots |-> 0]
        /\ asleep = {}
        /\ monitor = "ready"
        /\ state = [c \in Conns |-> "closed"]
        /\ peer = [c \in Conns |-> 0]
        /\ holders = [c \in Conns |-> {}]
        /\ req = [c \in Conns |-> NoRequest]
        /\ reply = [c \in Conns |-> 0]
        /\ alive \in FirstAlive

-----------------------------------------------------------------------------
(* The client processes.                                                   *)

\* A process connects: the worker reads its credentials.
Connect(c, p) ==
  /\ state[c] = "closed" /\ p \in alive
  /\ state' = [state EXCEPT ![c] = "idle"]
  /\ peer' = [peer EXCEPT ![c] = p]
  /\ holders' = [holders EXCEPT ![c] = {p}]
  /\ UNCHANGED <<bvars, req, reply, alive>>

\* The process that opened the connection sends a request and waits.
Send(c, r) ==
  /\ state[c] = "idle" /\ peer[c] \in holders[c]
  /\ state' = [state EXCEPT ![c] = "sent"]
  /\ req' = [req EXCEPT ![c] = r]
  /\ UNCHANGED <<bvars, peer, holders, reply, alive>>

\* It reads the response.
Receive(c) ==
  /\ state[c] = "replied" /\ peer[c] \in holders[c]
  /\ state' = [state EXCEPT ![c] = "idle"]
  /\ req' = [req EXCEPT ![c] = NoRequest]
  /\ reply' = [reply EXCEPT ![c] = 0]
  /\ UNCHANGED <<bvars, peer, holders, alive>>

\* A process closes its end: a thread ended, a signal interrupted the call, or
\* a forked child dropped the inherited descriptor.
Close(c, p) ==
  /\ p \in holders[c]
  /\ holders' = [holders EXCEPT ![c] = @ \ {p}]
  /\ UNCHANGED <<bvars, state, peer, req, reply, alive>>

\* A child inherits the open descriptors of its parent.
Fork(p, q) ==
  /\ CanFork /\ p \in alive /\ q \in Pids \ alive
  /\ \A k \in WatcherSlots : watchers[k] # q    \* a fresh pid
  /\ \A c \in Conns : peer[c] # q
  /\ \A e \in store.undo : e.pid # q
  /\ alive' = alive \cup {q}
  /\ holders' = [c \in Conns |->
       IF p \in holders[c] THEN holders[c] \cup {q} ELSE holders[c]]
  /\ UNCHANGED <<bvars, state, peer, req, reply>>

\* The kernel closes a process's descriptors before its exit can be seen.
Exit(p) ==
  /\ p \in alive
  /\ alive' = alive \ {p}
  /\ holders' = [c \in Conns |-> holders[c] \ {p}]
  /\ UNCHANGED <<bvars, state, peer, req, reply>>

\* The worker sees end of file, or fails to send, and the connection ends.
HangUp(c) ==
  /\ state[c] \in {"idle", "replied"} /\ holders[c] = {}
  /\ state' = [state EXCEPT ![c] = "closed"]
  /\ peer' = [peer EXCEPT ![c] = 0]
  /\ req' = [req EXCEPT ![c] = NoRequest]
  /\ reply' = [reply EXCEPT ![c] = 0]
  /\ UNCHANGED <<bvars, holders, alive>>

-----------------------------------------------------------------------------
(* The wire dispatcher: which store call a request becomes.                *)

is_semop(r) == r.opcode \in {"SEMOP", "SEMTIMEDOP"}

\* Only a semop is put to sleep; a read may well return the same number.
must_wait(r, result) == is_semop(r) /\ result = TGC_SEM_OP_BLOCKED

Reads(st, r) ==
  IF ~has_sem(st, r.semid, r.semnum) THEN -EINVAL
  ELSE LET set == set_of(st, r.semid) IN
       CASE r.opcode = "GETVAL" -> set.values[r.semnum]
         [] r.opcode = "GETPID" -> set.last_pids[r.semnum]
         [] r.opcode = "GETNCNT" -> set.negative_waiters[r.semnum]
         [] r.opcode = "GETZCNT" -> set.zero_waiters[r.semnum]

dispatch(st, r, pid) ==
  CASE is_semop(r) -> tryop(st, r.semid, r.ops, pid)
    [] r.opcode = "SETVAL" -> setval(st, r.semid, r.semnum, r.value, pid)
    [] r.opcode = "SETALL" -> setall(st, r.semid, r.values, pid)
    [] r.opcode = "REMOVE" -> remove(st, r.semid)
    [] r.opcode = "SEMGET" -> get_as(st, r.key, r.nsems, r.flags, r.who, FALSE)
    [] r.opcode = "SETMETA" ->
         set_metadata(st, r.semid, r.uid, r.gid, r.mode, r.who)
    [] OTHER -> Returns(st, Reads(st, r))

\* Mutant of operation_changed_state: removal wakes nobody.
operation_changed_value(r, result) ==
  result = 0 /\ (is_semop(r) \/ r.opcode \in {"SETVAL", "SETALL"})

operation_changed_state(r, result) ==
  result = 0 /\ (is_semop(r) \/ r.opcode \in {"SETVAL", "SETALL", "REMOVE"})

-----------------------------------------------------------------------------
(* The waiter list.                                                        *)

Position(c) == CHOOSE k \in DOMAIN queue : queue[k].conn = c

\* Mutant of waiter_is_first_for_set: every waiter may retry.
any_waiter(c) == TRUE

waiter_is_first_for_set(c) ==
  \A k \in 1 .. Position(c) - 1 : queue[k].semid # queue[Position(c)].semid

\* The waiter list without the entry at k.
Unlinked(k) == [i \in 1 .. Len(queue) - 1 |->
                  IF i < k THEN queue[i] ELSE queue[i + 1]]

\* Mutant of Without: the oldest waiter is unlinked in place of the caller's.
WithoutFirst(c) == Unlinked(1)

Without(c) == Unlinked(Position(c))

\* Mutant of finish_waiter: the count is not taken back.
finish_waiter_counted(st, c) == st

\* The decrement's result is ignored: the set may be gone.
finish_waiter(st, c) ==
  LET w == queue[Position(c)]
  IN  adjust_wait_count(st, w.semid, w.semnum, w.zero, -1).store

-----------------------------------------------------------------------------
(* Watching the processes that use SEM_UNDO.                               *)

request_uses_undo(r) ==
  is_semop(r) /\ \E k \in DOMAIN r.ops : r.ops[k].undo

Watched(p) == \E k \in WatcherSlots : watchers[k] = p

\* Mutant of watch_process: a full table is ignored.
watch_if_room(p, gone) ==
  LET free == {k \in WatcherSlots : watchers[k] = 0}
      same == [result |-> 0, watchers |-> watchers, broadcast |-> FALSE]
  IN  IF Watched(p) \/ free = {} THEN same
      ELSE IF gone THEN [same EXCEPT !.result = -ENOENT]
      ELSE [same EXCEPT !.watchers[Smallest(free)] = p, !.broadcast = TRUE]

\* Mutant of watch_process: the monitor is not woken for a new watcher.
watch_silently(p, gone) ==
  LET free == {k \in WatcherSlots : watchers[k] = 0}
      same == [result |-> 0, watchers |-> watchers, broadcast |-> FALSE]
  IN  IF Watched(p) THEN same
      ELSE IF free = {} THEN [same EXCEPT !.result = -ENOSPC]
      ELSE IF gone THEN [same EXCEPT !.result = -ENOENT]
      ELSE [same EXCEPT !.watchers[Smallest(free)] = p]

\* gone: the process has exited and has been reaped.
watch_process(p, gone) ==
  LET free == {k \in WatcherSlots : watchers[k] = 0}
      same == [result |-> 0, watchers |-> watchers, broadcast |-> FALSE]
  IN  IF Watched(p) THEN same
      ELSE IF free = {} THEN [same EXCEPT !.result = -ENOSPC]
      ELSE IF gone THEN [same EXCEPT !.result = -ENOENT]
      ELSE [same EXCEPT !.watchers[Smallest(free)] = p, !.broadcast = TRUE]

-----------------------------------------------------------------------------
(* The workers.                                                            *)

Answer(c, result) == /\ state' = [state EXCEPT ![c] = "replied"]
                     /\ reply' = [reply EXCEPT ![c] = result]
                     /\ UNCHANGED <<peer, holders, req, alive>>

\* pthread_cond_broadcast, when "on" holds.
Broadcast(on) == /\ asleep' = IF on THEN {} ELSE asleep
                 /\ monitor' = IF on THEN "ready" ELSE monitor

\* The call does not block: one critical section answers it.
Serve(c, w) ==
  LET r == dispatch(store, req[c], peer[c]) IN
  /\ ~must_wait(req[c], r.result)
  /\ store' = r.store
  /\ Broadcast(w.broadcast \/ operation_changed_state(req[c], r.result))
  /\ Answer(c, r.result)
  /\ watchers' = w.watchers
  /\ UNCHANGED queue

\* The call blocks: it is counted and queued, and the worker goes to sleep.
Enqueue(c, w) ==
  LET why == wait_reason(store, req[c].semid, req[c].ops) IN
  /\ must_wait(req[c], dispatch(store, req[c], peer[c]).result)
  /\ holders[c] # {}
  /\ store' = adjust_wait_count(store, req[c].semid, why.sem_num,
                                why.wait_for_zero, 1).store
  /\ queue' = Append(queue, [conn |-> c, semid |-> req[c].semid,
                             semnum |-> why.sem_num,
                             zero |-> why.wait_for_zero])
  /\ asleep' = (IF w.broadcast THEN {} ELSE asleep) \cup {c}
  /\ monitor' = IF w.broadcast THEN "ready" ELSE monitor
  /\ state' = [state EXCEPT ![c] = "waiting"]
  /\ watchers' = w.watchers
  /\ UNCHANGED <<peer, holders, req, reply, alive>>

\* It would block, but the client is gone: counted, queued, and taken out
\* again at once, with the broadcast of every exit from the queue.
Abandon(c, w) ==
  /\ must_wait(req[c], dispatch(store, req[c], peer[c]).result)
  /\ holders[c] = {}
  /\ Broadcast(TRUE)
  /\ Answer(c, TGC_SEM_OP_BLOCKED)
  /\ watchers' = w.watchers
  /\ UNCHANGED <<store, queue>>

\* The first critical section of dispatch_request.
dispatch_request(c) ==
  /\ state[c] = "sent"
  /\ \E gone \in {FALSE, peer[c] \notin alive} :
       LET w == IF request_uses_undo(req[c]) THEN watch_process(peer[c], gone)
                ELSE [result |-> 0, watchers |-> watchers, broadcast |-> FALSE]
       IN  \/ /\ w.result # 0
              /\ Answer(c, w.result)
              /\ UNCHANGED bvars
           \/ w.result = 0 /\ Serve(c, w)
           \/ w.result = 0 /\ Enqueue(c, w)
           \/ w.result = 0 /\ Abandon(c, w)

\* A waiter leaves the queue with an answer, and everyone is woken.
Leave(c, st, result) ==
  /\ store' = finish_waiter(st, c)
  /\ queue' = Without(c)
  /\ Broadcast(TRUE)
  /\ Answer(c, result)
  /\ UNCHANGED watchers

\* Mutant of retry_peer_closed: only the head of a queue looks at its peer.
retry_head_peer_closed(c) ==
  /\ state[c] = "waiting" /\ holders[c] = {}
  /\ waiter_is_first_for_set(c)
  /\ Leave(c, store, TGC_SEM_OP_BLOCKED)

\* Mutant of retry_peer_closed: the operation is tried before the peer check.
retry_then_peer_closed(c) ==
  /\ state[c] = "waiting" /\ holders[c] = {}
  /\ Leave(c, dispatch(store, req[c], peer[c]).store, TGC_SEM_OP_BLOCKED)

\* The worker wakes, its deadline has not passed, and one round of the loop
\* runs up to the next sleep.
retry_peer_closed(c) ==
  /\ state[c] = "waiting" /\ holders[c] = {}
  /\ Leave(c, store, TGC_SEM_OP_BLOCKED)

\* Mutant of retry_first: a retry that fails goes back to sleep.
retry_until_success(c) ==
  LET r == dispatch(store, req[c], peer[c]) IN
  /\ state[c] = "waiting" /\ holders[c] # {}
  /\ waiter_is_first_for_set(c)
  /\ r.result = 0
  /\ Leave(c, r.store, r.result)

retry_first(c) ==
  LET r == dispatch(store, req[c], peer[c]) IN
  /\ state[c] = "waiting" /\ holders[c] # {}
  /\ waiter_is_first_for_set(c)
  /\ r.result # TGC_SEM_OP_BLOCKED
  /\ Leave(c, r.store, r.result)

retry_sleeps(c) ==
  /\ state[c] = "waiting" /\ holders[c] # {}
  /\ \/ ~waiter_is_first_for_set(c)
     \/ dispatch(store, req[c], peer[c]).result = TGC_SEM_OP_BLOCKED
  /\ asleep' = asleep \cup {c}
  /\ UNCHANGED <<store, queue, watchers, monitor, cvars, alive>>

\* The worker wakes and finds its deadline passed, whatever else has happened.
operation_timed_out(c) ==
  /\ state[c] = "waiting" /\ req[c].opcode = "SEMTIMEDOP"
  /\ Leave(c, store, -EAGAIN)

-----------------------------------------------------------------------------
(* The monitor: one scan of the watcher slots.                             *)

\* The store after the first k slots of a list were looked at.
exits(st, list, up) ==
  LET x[k \in 0 .. MaxWatchers] ==
        IF k = 0 THEN st
        ELSE IF list[k] = 0 \/ list[k] \in up THEN x[k - 1]
        ELSE process_exit(x[k - 1], list[k]).store
  IN  x

scan ==
  LET x == exits(store, watchers, alive) IN
  [store |-> x[MaxWatchers],
   watchers |-> [k \in WatcherSlots |->
                   IF watchers[k] \in alive THEN watchers[k] ELSE 0],
   broadcast |-> \E k \in WatcherSlots :
                   /\ watchers[k] # 0 /\ watchers[k] \notin alive
                   /\ process_exit(x[k - 1], watchers[k]).result > 0]

monitor_process_exits ==
  /\ monitor # "untimed"
  /\ store' = scan.store
  /\ watchers' = scan.watchers
  /\ asleep' = IF scan.broadcast THEN {} ELSE asleep
  /\ monitor' = IF \E k \in WatcherSlots : watchers'[k] # 0
                THEN "timed" ELSE "untimed"
  /\ UNCHANGED <<queue, cvars, alive>>

-----------------------------------------------------------------------------
Client == \/ \E c \in Conns, p \in Pids : Connect(c, p) \/ Close(c, p)
          \/ \E c \in Conns, r \in Requests : Send(c, r)
          \/ \E c \in Conns : Receive(c)
          \/ \E p, q \in Pids : Fork(p, q)
          \/ \E p \in Pids : Exit(p)

Worker(c) == \/ dispatch_request(c)
             \/ retry_peer_closed(c)
             \/ retry_first(c)
             \/ retry_sleeps(c)
             \/ operation_timed_out(c)
             \/ HangUp(c)

Next == Client \/ (\E c \in Conns : Worker(c)) \/ monitor_process_exits

Spec == Init /\ [][Next]_vars

\* The threads run, a timed wait ends, a deadline passes: the operating system
\* schedules every worker, pthread_cond_timedwait returns after 250 ms at the
\* latest, and CLOCK_MONOTONIC advances.  Clients promise nothing.
Fairness ==
  /\ \A c \in Conns :
       /\ WF_vars(dispatch_request(c))
       /\ WF_vars(retry_peer_closed(c))
       /\ WF_vars(retry_first(c))
       /\ WF_vars(operation_timed_out(c))
       /\ WF_vars(HangUp(c))
  /\ WF_vars(monitor_process_exits)

FairSpec == Spec /\ Fairness

\* The monitor's timed wait ends after 250 ms (PROCESS_CHECK_INTERVAL_NS).
MonitorFairSpec == Spec /\ WF_vars(monitor_process_exits)

-----------------------------------------------------------------------------
(* Safety.                                                                 *)

Waiter == [conn : Conns, semid : Int, semnum : Sems, zero : BOOLEAN]

TypeOK ==
  /\ queue \in Seq(Waiter)
  /\ watchers \in [WatcherSlots -> Pids \cup {0}]
  /\ asleep \subseteq {c \in Conns : state[c] = "waiting"}
  /\ monitor \in {"ready", "timed", "untimed"}
  /\ state \in [Conns -> {"closed", "idle", "sent", "waiting", "replied"}]
  /\ peer \in [Conns -> Pids \cup {0}]
  /\ holders \in [Conns -> SUBSET alive]
  /\ req \in [Conns -> Requests \cup {NoRequest}]
  /\ reply \in [Conns -> Int]
  /\ alive \subseteq Pids

\* The waiter list holds exactly the workers inside dispatch_request's loop,
\* each once and for the set its request names.  A waiter lives on its
\* worker's stack, so an entry that stayed behind would dangle.
QueueIsWaiters ==
  /\ \A c \in Conns : state[c] = "waiting" <=> \E k \in DOMAIN queue :
                                                 queue[k].conn = c
  /\ \A j, k \in DOMAIN queue : queue[j].conn = queue[k].conn => j = k
  /\ \A k \in DOMAIN queue : queue[k].semid = req[queue[k].conn].semid

\* GETNCNT and GETZCNT are exact: on a live set each counter is the number of
\* queued waiters that recorded it, through wakeups, timeouts, disconnects,
\* and the removal and re-creation of the set under them.
WaitCounts ==
  \A i \in Slots, s \in Sems : store.sets[i].active =>
    LET set == store.sets[i]
        id == make_id(i, set.generation)
        queued(z) == {k \in DOMAIN queue : /\ queue[k].semid = id
                                           /\ queue[k].semnum = s
                                           /\ queue[k].zero = z}
    IN  /\ set.negative_waiters[s] = Cardinality(queued(FALSE))
        /\ set.zero_waiters[s] = Cardinality(queued(TRUE))

\* No lost wakeup: a worker sleeps through no change that lets it finish.  If
\* it heads its set's queue and no broadcast reached it since it went to
\* sleep, its operation still blocks.
NoLostWakeup ==
  \A c \in asleep : waiter_is_first_for_set(c) =>
    dispatch(store, req[c], peer[c]).result = TGC_SEM_OP_BLOCKED

\* The monitor sleeps without a timeout only when it has nobody to watch; a
\* new watcher always wakes it, or exits would go unnoticed for good.
MonitorAwake ==
  monitor = "untimed" => \A k \in WatcherSlots : watchers[k] = 0

\* Every pending adjustment has a watcher that will see its process exit.
UndoWatched == \A e \in store.undo : Watched(e.pid)

\* The broker's rule for blocked requests: one that leaves the queue by
\* success leaves no earlier waiter of the same set behind it.
ServedInOrder ==
  [][\A c \in Conns :
       state[c] = "waiting" /\ state'[c] = "replied" /\ reply'[c] = 0
       => \A k \in DOMAIN queue :
            queue[k].semid = req[c].semid /\ queue[k].conn # c
            => \E j \in DOMAIN queue : j < k /\ queue[j].conn = c]_vars

\* A client that gave up never takes: once its connection is closed, a queued
\* request changes no value and no adjustment, it only leaves the counts.
AbandonedTakesNothing ==
  [][\A c \in Conns :
       state[c] = "waiting" /\ state'[c] # "waiting" /\ holders[c] = {}
       => \A i \in Slots : /\ store'.sets[i].values = store.sets[i].values
                           /\ store'.undo = store.undo]_vars

\* A waiter of a removed set is never let through, even when a new set with
\* the same key takes its slot while it sleeps: its id stays invalid, and only
\* an error ends its wait.
RemovedSetServesNobody ==
  [][\A c \in Conns :
       state[c] = "waiting" /\ ~found(store, req[c].semid)
       => \/ state'[c] = "waiting" /\ ~found(store', req[c].semid)
          \/ state'[c] = "replied" /\ reply'[c] # 0]_vars

-----------------------------------------------------------------------------
(* The broker implements AtomicService.                                    *)

Uncounted(set) == [set EXCEPT !.negative_waiters = Zeros, !.zero_waiters = Zeros]

SameButCounts(a, b) ==
  /\ a.undo = b.undo
  /\ \A i \in Slots : Uncounted(a.sets[i]) = Uncounted(b.sets[i])

\* A request fails without effect when the watcher table is full or the
\* process is gone, when its time is up, and when nobody waits for it.
Excuses(r, here) ==
  (IF request_uses_undo(r) THEN {-ENOSPC, -ENOENT} ELSE {})
    \cup (IF r.opcode = "SEMTIMEDOP" THEN {-EAGAIN} ELSE {})
    \cup (IF here THEN {} ELSE {TGC_SEM_OP_BLOCKED})

Phase(s) == IF s \in {"closed", "idle"} THEN "idle"
            ELSE IF s = "replied" THEN "done" ELSE "pending"

after_exits(st, list, up) == exits(st, list, up)[MaxWatchers]

Service == INSTANCE AtomicService WITH
  MustWait <- must_wait, Effect <- dispatch, Exits <- after_exits,
  ExitLists <- [WatcherSlots -> Pids \cup {0}],
  phase <- [c \in Conns |-> Phase(state[c])],
  attached <- [c \in Conns |-> holders[c] # {}],
  owner <- peer, request <- req, result <- reply

\* Through queues, broadcasts, timeouts, disconnects and exits, every request
\* that is answered took effect exactly once, at one point between the two
\* messages, by the rules of the store; or it changed nothing.
AtomicSemaphores == Service!ServiceSpec

-----------------------------------------------------------------------------
(* Liveness, under Fairness.                                               *)

\* A wait that has no reason to go on ends: removing a set answers everyone
\* who waits for it, one after the other; a timed operation always ends; and a
\* waiter whose client is gone leaves.
WaitersEnd ==
  \A c \in Conns :
    (/\ state[c] = "waiting"
     /\ \/ ~found(store, req[c].semid)
        \/ req[c].opcode = "SEMTIMEDOP"
        \/ holders[c] = {})
      ~> state[c] # "waiting"

\* An operation at the head of its set's queue that can finish, and stays able
\* to, is answered.
HeadProgresses ==
  \A c \in Conns :
    ~<>[](/\ state[c] = "waiting" /\ waiter_is_first_for_set(c)
          /\ dispatch(store, req[c], peer[c]).result # TGC_SEM_OP_BLOCKED)

\* As on Linux, an operation that can finish and stays able to is answered,
\* whatever else waits for the same set.
AnyWaiterProgresses ==
  \A c \in Conns :
    ~<>[](/\ state[c] = "waiting" /\ holders[c] # {}
          /\ dispatch(store, req[c], peer[c]).result # TGC_SEM_OP_BLOCKED)

\* What a process has to give back is given back after it exits.
ExitRestores ==
  \A p \in Pids : p \notin alive ~> \A e \in store.undo : e.pid # p
=============================================================================
