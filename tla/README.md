# A formal model of the semaphore broker, the launch shims and the Steam bridge

The repository runs Steam for Linux under Termux on Android. Three parts of it
have behaviour that depends on the order of events or on arithmetic at a limit,
and are modelled here:

- `reference-termux-glibc-compat` gives glibc programs System V semaphores,
  which Android's kernel lacks. Its daemon `tgcompatd` keeps the semaphore sets;
  programs reach it over a Unix socket, and a shell script starts and stops it.
- Preloaded shims start guest programs through a loader (`exec_shim.c`), show
  them another `/proc` (`android_root_shim.c`), make memory executable that the
  kernel refuses (`mprotect_shim.c`), and give the threads of the Steam client,
  or of the bridge's server, semaphores of their own (`steam-sysv-shim.c`).
- `steam-bridge` lets Windows games inside Wine call the native Steam client:
  one server process that holds the client library, and clients that send it one
  request per connection.

The directory has TLA+ modules, TLC configurations that check them on small
instances, and TLAPS proofs.

## The system's parts

| Part | Source | Module | State |
|---|---|---|---|
| Semaphore state core | `src/sem_store.c` | `SemStoreOps`, `SemStore` | modelled, proved |
| Broker threads (workers, waiters, monitor) | `src/broker_server.c` | `SemBroker`, `AtomicService` | modelled, checked; safety proved |
| Wire dispatch | `src/broker_dispatch.c` | `SemBroker!dispatch` | which call an opcode becomes |
| Client library, transport | `src/client.c`, `transport.c` | `Session` | connections, fork, interrupts, request numbers; safety proved |
| Daemon | `src/tgcompatd.c` | `Session` | accept loop, slots, shutdown; safety proved |
| Session script | `scripts/tgcompat-session.sh` | `SessionScript` | start and stop; proved |
| glibc overlay | `integration/termux-glibc/overlay/tgcompat-glibc.c` | `Session!close_thread_client` | the per-thread client alone |
| Exec shim | `src/exec_shim.c` | `ExecShim`, `ElfInterpreter` | checked; the reading of ELF files proved |
| `/proc/self/exe` shim | `/steam-proc-self-shim.c` | `ExecShim` | what `readlink` gives |
| Android root shim | `src/android_root_shim.c` | `AndroidRoot` | proved |
| mprotect shim | `src/mprotect_shim.c` | `MprotectShim` | proved |
| Single-process semaphores | `/steam-sysv-shim.c` | `SysvShim` | checked; sleeping and keys proved |
| Steam bridge server | `/steam-bridge/server.cpp`, `protocol.h` | `SteamBridge`, `BridgeProtocol`, `AppTicket` | safety proved |
| Steam bridge client | `/steam-bridge/client.c` | `BridgeProtocol`, `SteamBridge` | its exchanges; safety proved |
| Proxy inside Wine | `/public-source/lsteamclient/patches/0001-termux-arm64-bridge.patch` | `BridgeProtocol`, `SteamBridge` | its exchanges; safety proved |
| Everything else | | | see "Not modelled" |

Paths that begin with `/` start at the repository's root, the others at
`reference-termux-glibc-compat/`.

How they interact. A program's `semop` ends in a client (one per thread) that
sends one request at a time and waits for the answer. The daemon accepts
connections and gives each to a worker thread, which runs
`tgc_broker_serve_connection`. All workers share one broker: a mutex, a
condition variable, the semaphore store, a list of blocked requests, and a
table of processes to watch because they used `SEM_UNDO`. One more thread, the
monitor, looks for watched processes that have exited and applies their
adjustments. The programs themselves are started by other programs that have the
exec shim preloaded, and so on through several launches. The bridge is
independent of the broker; its server is one thread that polls, accepts, reads a
request, calls the native library and answers.

## Modules

**`SemStoreOps`** has the calls of `sem_store.c` as operators on a store value
`[sets, undo]`. A call returns `[store, result]`. The arrays have the full
width `MaxPerSet`, with zeros behind `nsems`; the C code allocates `nsems`
entries. Ids are `(generation * 65536) + index + 1`, as in `make_id`. The loops
of `tryop` are recursive functions over the number of rounds, so that the
intermediate states, and the error return in the middle of the last loop, are
the ones of the code. Time stamps are left out: nothing reads them but STAT.

**`SemStore`** is the state core alone: every call, with good and bad
arguments, in every order, one at a time (the broker's mutex).
**`SemStoreHistory`** adds the history variable `recent`, the ids of the sets
that were removed from each slot.

**`SemBroker`** is the broker and the processes around it. One action is one
critical section: from locking the mutex, or waking inside
`pthread_cond_timedwait`, to unlocking it or going to sleep.

| Action | Code |
|---|---|
| `dispatch_request` | the first critical section of `dispatch_request`: watch the process, dispatch, answer (`Serve`), or count, queue and sleep (`Enqueue`), or leave at once because the client is gone (`Abandon`) |
| `retry_peer_closed`, `retry_first`, `retry_sleeps`, `operation_timed_out` | one round of its loop, by how it ends |
| `monitor_process_exits` | one scan of the watcher slots, up to the next wait |
| `HangUp` | end of file or a failed send in `tgc_broker_serve_connection` |
| `Connect`, `Send`, `Receive`, `Close`, `Fork`, `Exit` | client processes |

`asleep` holds the workers in `pthread_cond_timedwait` that no broadcast has
woken. A worker in it may still wake, because the wait is timed. `monitor` tells
a timed from an untimed wait, because the untimed one ends by a broadcast only.
`holders` has, for each connection, the processes with its client end open: a
forked child inherits it, and the peer looks alive until the last one closes.

**`Session`** is what surrounds the broker. A process has one client
(`[fd, pid, next]`, the fields of `struct tgc_client`); a connection has two
queues, the processes that hold its client end, and the state of its server end;
a worker slot has a connection and a phase. What the broker does is left open:
it performs a request, or a `semop` blocks first. One action is one system call
that others can observe: `ensure_connection`, `send_request`,
`receive_response`, `receive_eof` and `receive_interrupted` for a client;
`serve_request` to `serve_done` for a worker; `poll`, `accept_client`,
`stop_workers`, `join_workers` and `exit_main` for the daemon's main thread.
`Kill` and `accept_fails` are the failures. `performed` records what was done
for the current call of each process.

**`SessionScript`** has the shells that run `tgcompat-session.sh`, the pid file,
the socket file and the daemons. One action is one test or command of the
script. `bind` and `listen` are two steps of a daemon, because the script looks
at the file that `bind` creates.

**`AtomicService`** is what a semaphore service promises, without threads,
queues and wakeups: a request takes effect in one step between being asked and
being answered, as the sequential rules say and in the name of the process that
asked, or fails for a listed reason and leaves nothing. `SemBroker` implements
it (`AtomicSemaphores`, an `INSTANCE ... WITH`): a sent or waiting request is
pending, the store's wait counts are bookkeeping that the service does not see,
and the sequential rules are `dispatch` on the store.

**`ExecShim`** has launches in a row. The state is the running process (its
program, the file that was executed, its environment) and the last launch. One
action, `Launch`, is one call of an entry point with the environment the caller
edited: redirection, the decision to load, the vectors for the loader, the
environment of a final program, and the search through `PATH`. Environments are
sequences of assignments, because the shim counts and copies them in order. What
the loader and the kernel do with the vectors is external (`program_at`).

**`ElfInterpreter`** is `read_elf_interpreter` with `pread` calls that return
less than asked, are interrupted, or find the file cut short. Offsets are words
that wrap, `off_t` is the half of them that is not negative.

**`AndroidRoot`** has the replacement of paths below `/proc/net` and of
`/proc/stat`, for each function that does it, and `openat`'s second attempt.
A path is where it leads and how long the rest of it is.

**`SysvShim`** has the threads that share the table of `steam-sysv-shim.c`. One
action is one critical section: `semget`, `semctl`, `semop` up to its end or its
wait, `wakes` from there. `asleep` holds the threads in `pthread_cond_wait` that
no broadcast has woken; they may still wake, for no reason. It is not a
refinement of the broker's store: ids are used again at once, a list is judged
by the values before the call, and values wrap.

**`MprotectShim`** has the steps by which a range is copied, replaced and copied
back. Each system call may fail, and other threads store to the range whenever
it is writable.

**`BridgeProtocol`** has the opcodes, which structures each end sends and
expects for them, and what the two programs at the other end make of an answer:
`tool_report` has the checks of `client.c` and `proxy_report` those of the proxy
(the patch to `lsteamclient`), the sizes they accept included. A message is its
structure, header, status and the size it gives for its payload.
**`AppTicket`** has the checks on a ticket the native client reports, with
differences that wrap. **`SteamBridge`** puts them together: clients that
connect, send one or two messages, read and leave or are killed; the server's
loop, one action per blocking call and one per opcode; callbacks on two native
pipes; the socket's path; and the native handles to give back. A call is made by
one of the two programs, with the numbers of its caller (the size of a buffer,
an application). A callback has a mark: `new`, `sent`, or `unread` when it went
into an answer to a client that was dead by then (the server does not look
whether `send` failed). A `job` in the initial state says what the clients ask,
which of them may be killed, which callbacks come and which native interfaces
exist, so that several small scenarios are one run.

External is what the native client does. Two of its rules matter. It may report
any size with a ticket, a blob or a name, and the server passes some of them on
as they are. And it hands out the oldest callback of a pipe until
`Steam_FreeLastCallback` frees it; the repository's `callback-smoke-mock.cpp`
keeps another rule (each callback is handed out once and freeing does nothing),
and `NothingLost` says nothing about a library that does so.

**`MCSemStore`, `MCSemBroker`, `MCBrokerQueue`, `MCSession`, `MCLaunch`,
`MCSteamBridge`** give the instances. `MCSemStore` adds the sums that the undo
properties speak of. `MCBrokerQueue` has three scenarios, by the process that
runs at the start; the state constraint `Scenarios` bounds what each one sends
and how many connections it opens. `MCLaunch` chooses one component in the
initial state; the components share no state.

Operators whose comment says "Mutant of" are deliberate faults. They are used
nowhere in the specifications; each replaces one definition to show that a
property notices the fault.

## Runs

| Run | Checks |
|---|---|
| `SemStoreUndo` | `UndoSound`, `UndoBalance`, `AllOrNothing`, `ExitSettles`: the undo table stays sound, `SEM_UNDO` is exact, and a call that fails changes nothing |
| `SemStoreIds` | `UniqueKeys`, `StaleIdsRejected`: keys are unique and removed ids stay invalid |
| `BrokerQueue` | `QueueIsWaiters`, `WaitCounts`, `NoLostWakeup`, `ServedInOrder`, `RemovedSetServesNobody`; with three waiters, with removal and re-creation, and with fork |
| `BrokerUndo` | `MonitorAwake`, `UndoWatched`, `ExitRestores` (no fork), and the refinement `AtomicSemaphores` |
| `BrokerLive` | `WaitersEnd`, `HeadProgresses`: removed, timed and abandoned waits end, the head of a queue progresses |
| `BrokerHeadOfLine` | violated: a waiter that could finish is stuck behind another |
| `BrokerOrphan` | violated: with fork, an adjustment of a dead process is never applied |
| `SessionClient` | `AnswerIsMine`, `ServedAsCaller`, `RefusedOnlyWhenFull` |
| `SessionStop` | `WorkerOwnsConnection`, `SignalStops`, `ScalarCallsReturn` |
| `SessionInterrupt` | violated: a `semop` that returned `EINTR` is performed |
| `Launch` | one component per initial state: `OneService` (the session script), `ProgramIsItself`, `RightFileRuns`, `PreloadsArrive`, `VectorsFit` (the exec shim), `ReadsInside` (ELF files), `RewrittenPathFits`, `OneViewOfProc` (`/proc`), `SleepersBlocked`, `TakesWhatIsThere` (the single-process semaphores), `MemoryStaysWhole` (mprotect) |
| `Bridge` | `ExchangeAgrees`, `HtmlNeverDelivered`, `NothingLost`, `TicketsAreSafe`, `HandlesReleased`, `ClientsReturn` |

What the deeper properties say:

- `AllOrNothing`. `tryop` can return `-ENOSPC` after it has written the values
  (`sem_store.c:613`). The count of free entries taken before makes that
  unreachable.
- `UndoBalance`. Call *settled* the value a semaphore would have once every
  process has exited. A successful `semop` moves it by its operations without
  `SEM_UNDO` alone, however it repeats a semaphore and whatever was recorded.
- `NoLostWakeup`. A worker that heads its set's queue and was not woken since it
  went to sleep still has an operation that blocks.
- `WaitCounts`. GETNCNT and GETZCNT equal the number of queued waiters, through
  timeouts, hang-ups, removal and re-creation.
- `AtomicSemaphores`. A request that is answered with success was performed
  once, one that was given up (timed out, abandoned, refused) not at all, though
  it may have been tried many times by then. The run has no timed requests; the
  proof does.
- `AnswerIsMine`. A client that was interrupted closes its connection, and a
  forked child does not use the inherited one. Together they keep a late answer,
  or the parent's, away from a later call. Without the first the number check of
  `exchange` catches it (`EPROTO`, which the property excludes too); without the
  second it does not, because parent and child number their requests alike.
- `WorkerOwnsConnection`. A slot is reaped and used again while other workers
  run; no accepted descriptor is left to nobody, none to two.
- `SignalStops`. The workers that `stop_and_join_workers` joins may be blocked in
  a `semop` whose client never hangs up; shutting the socket down makes their
  timed peer check end them.
- `ProgramIsItself`. Over several launches, each with an environment the caller
  edited, a loaded program finds its own file at `/proc/self/exe`, not that of
  the program that launched it, and the arguments of the call.
- `RightFileRuns`. The two halves of a redirection are never taken from
  different environments, and a guest program is never left to a kernel that has
  no interpreter for it.
- `PreloadsArrive`. A program keeps the shim though its caller cleared the
  child's environment, and a final program gets its own preload alone.
- `VectorsFit`. The counts taken before the allocation cover what is written.
- `SleepersBlocked`, `TakesWhatIsThere`. All sets share one condition variable. A
  thread that was not woken has a set and still has to wait, through removals and
  reuse of its slot; one that wakes takes only what is there by then.
- `OneViewOfProc`. Six functions map a path, each in its own code. Two calls in
  a row that only look at one path reach one file: what `stat` and `access` say
  of it is true of what `open` gives. Which calls only look is said by what they
  do to the file, not by the shim's own test.
- `MemoryStaysWhole`. No thread can execute the blank replacement, and no failure
  on the way loses the bytes or the scratch mapping. It excludes a store between
  the two copies, which is lost, and a kernel that drops the range when it
  cannot replace it.
- `OneService`. A daemon that listens is the one the socket file and the pid file
  name, through daemons that crash, lose the bind or ignore a signal.
- `NothingLost`. `callback_pipe` is one variable for all clients. No
  interleaving of their GET_CALLBACK and FREE_CALLBACK frees a callback that was
  not sent to a client alive to read it, but for HTML's and those no message can
  carry. Where a client can be killed in the middle of its request, a callback
  that only the dead were answered with may be freed too, by anybody.
- `HandlesReleased`. A server that leaves its loop gives back its session, HTML's
  surface and both handles of the game server, also if the game server's
  interface was not found. What may stay is the lone half of a game server that
  was only half created. A start that fails is not covered: it leaves its session
  to the end of the process.
- `ExchangeAgrees`. A live client of the server's user and version gets the
  answer to its own request unless the server has ended. `client.c` and the proxy
  take it exactly when the server calls it a success; the one exception is a size
  that the server passes on unchecked and that does not fit. Nothing is taken
  that does not fit the message and the caller's buffer.

Some things do not hold. With `OneAtATime = FALSE` `SessionScript` loses the
socket of a live daemon (a hazard). In the same script "ready" may be printed
between `bind` and `listen`. A waiter stays counted on the semaphore that blocked
it first, which `WaitCounts` takes as it is. And `open` with
`O_RDONLY | O_TRUNC` passes `read_only_open` (`android_root_shim.c:226`), so it
is redirected like an open that only reads, though the compat library's
`README.md:205-206` says "Mutation requests are never redirected"; the model has
such a call, and `OneViewOfProc` does not count it among those that only look.

The violated properties state what the documentation says; the findings in
`PROJECT.json` quote the lines.

### Bounds

One set (two in `SemStoreIds`), one or two semaphores, values 0..1, two
processes, two or three connections, generations up to 1, 2 or 3, an undo table
of one or two entries, one watcher slot. The limits of the code are constants,
so small instances reach them: a full undo table, a full watcher table, a value
at its maximum, an adjustment out of range, a generation that wraps. Two
semaphores are needed for a call that blocks on its second operation; three
connections for a waiter between two others. `SemBroker` never removes a set of
the last generation, so that ids do not repeat (32767 removals of one slot in
the code).

`Session` has two processes (the second is forked from the first), two
connections, one or two worker slots and one or two calls per process, so that a
slot is refused, a connection is used again, and the request number (limit 2)
wraps. `SessionScript` has two shells and three daemons, none of whose pids is
used again; the race needs the third.

`ExecShim` has up to three launches, four initial environments and eight ways to
edit them, seven files and two argument vectors; the third launch is needed
for a program that inherits what a loaded one was given. `ElfInterpreter` has
words of 4 bits, so that every sum that could wrap does. `AndroidRoot` has a
path limit of 6 and rests on both sides of it. `SysvShim` has two threads, two
sets of up to two semaphores, values below 3 and seven lists of operations, so
that slots are used again and values wrap; `MprotectShim` has one range with
three possible contents. `SteamBridge` has three clients,
one connection in the backlog and two attempts in place of 32. The sizes are the
code's, but 2^29 stands for 2^32, because TLC's integers end at 2^31. Up to two
callbacks are queued at a time, of five kinds: the first and the last of HTML's
ids, one of the largest size just below that range, one that is too large and
one with a size and no data just above it. Callers have no buffer, a small one
or one larger than a message; the native client reports nothing, as much as a
message holds, or one byte more. Seven jobs have two clients each, and say which
of them may be killed.

`CHECK_DEADLOCK FALSE` in the runs of `SemBroker`, `Session`, `MCLaunch` and
`SteamBridge`: clients end, pids and launches run out, the server ends, and then
nothing is left to do.

### Fairness

`FairSpec`: each worker's step and the monitor are weakly fair. The operating
system schedules every thread, `pthread_cond_timedwait` returns after 250 ms at
the latest, and the clock advances past a deadline. Weak fairness on
`retry_first` is enough because a worker re-checks on every wakeup.
`retry_sleeps` needs none. Clients promise nothing. In `Session` the daemon's
threads and a client inside a call are weakly fair; `serve_unblocks` is not,
since nobody has to let a blocked `semop` through. `MonitorFairSpec` has the
monitor alone. In `SteamBridge` the server's thread is weakly fair, and so is a
client that has connected: it sends what it has to send, reads its answer, or
dies. That second assumption is the clients', not the server's: the server
receives without a timeout, and a client that stays connected and silent would
hold up everyone (a hazard that `ClientsReturn` cannot catch).

## Proofs

| Module | Theorems |
|---|---|
| `SemStoreOpsProofs` | lemmas: recursive functions as loops, each call keeps a store well formed, `TryopOK` |
| `SemStoreProofs` | `TypeCorrect`, `KeysStayUnique`, `UndoStaysSound`, `SemsStayOwn`, `CallsAreAllOrNothing`, `RemovedIdsStayInvalid` |
| `BrokerProofs` | `BrokerInvariant`, `QueueStaysExact`, `MonitorStaysAwake` |
| `WakeupProofs` | `NoWakeupIsLost`, `BrokerIsAtomic` |
| `OrderProofs` | `WaitersKeepOrder`, `TheGoneTakeNothing`, `RemovedServesNobody`, `AdjustmentsAreWatched`, `CountsStayExact` |
| `SessionProofs` | `SessionInvariant`, `AnswersAreMine`, `CallersAreServed`, `ConnectionsAreOwned`, `SlotsDoNotLeak` |
| `LaunchProofs` | `OneDaemonServes`, `ElfReadsInside`, `CopyIsWhole`, `PathsFit`, `RetriesAskForLess`, `ProcIsOne`, `SleepersStayBlocked`, `ShimKeysStayUnique` |
| `BridgeProofs` | `AnswersAreSafe`, `TicketsStaySafe`, `ExchangesAgree`, `HtmlStaysBehind`, `NothingIsLost`, `HandlesAreReleased`, `UnsafePathsAreKept` |

All are for every value of the constants that the named assumptions of the
modules allow. `PROJECT.json` says which property each one states.

**The store.** Proved for every size of the tables, every limit, and every set
of callers and arguments (assumptions `StoreBounds`, `CallerAssumptions`). The
inductive invariant is `StoreOK`, all of the store's invariants at once. They
need one another: an undo entry stays live through a removal because two ids of
one slot are equal (`FoundIdsDiffer`); `semop` writes in range because the
working copy is, and behind `nsems` nothing because its operations are checked;
the table never overflows because entries are unique.

The core is `CommitRoundOK`, the invariant of `tryop`'s last loop. After `k`
rounds no error has occurred, the entries of semaphores `k` and up are the ones
the third loop saw, and the free entries still suffice for those of them that
need one:
`|table| + |{s >= k : s needs a new entry}| <= MaxUndoEntries`. The third loop's
check establishes it for `k = 0`, and it makes the error branch at line 613
unreachable.

`RemovedIdsStayInvalid` is about `SemStoreHistory`. The ids remembered of a slot
are those of the generations before its present one (`HInv`); a call turns a
slot as a creation or a removal does, or not at all (`Turns`), and counting back
fewer than `MaxGeneration` generations does not come around (`BackSteps`).

**The broker.** Assumed (`BrokerAssumptions`): finitely many connections, no
more than a wait count can hold; a well formed first store without adjustments,
on which nobody waits;
requests of the forms the dispatcher accepts, none of which removes a set of the
last generation. `BrokerInvariant` has the inductive invariant `BrokerInv`:
`StoreOK`, the types, that a request being served is one (`Asking`),
`QueueIsWaiters` and `MonitorAwake`. The queue needs `Asking`, since a waiter's
set is named by its request; the monitor needs the types of the watcher table.

- `NoWakeupIsLost` adds that whatever happens without a broadcast leaves the
  store `Quiet`: no live set changes its size or values, and the undo table
  stays. A blocked `semop` looks at nothing else (`StillBlocked`).
- `BrokerIsAtomic` is the refinement, with one lemma for each kind of step that
  says which step of the service it is. A step that only counts a waiter in or
  out is a stutter up to `SameButCounts` (`CountOnly`).
- `WaitersKeepOrder` and `RemovedServesNobody` follow step by step. The second
  needs that time passes for a slot (`Ages`: its generation never falls, and a
  removal raises it) and that waiters hold ids that were once given out
  (`WaitersKnown`, `GivenOut`); then a stale id stays stale.
- `TheGoneTakeNothing`: a waiter with no process left at its client end leaves
  the queue and the counts, and changes neither a value nor an adjustment.
- `AdjustmentsAreWatched` is for runs without fork, like the property
  (`UndoInv`): a connection has no holder but the process that opened it, and
  not only those that have adjustments are watched but also the waiting ones
  that will record one. With fork it is false, which is what `BrokerOrphan` shows.
- `CountsStayExact` is `WaitCounts`, with the invariant `Counted`. A waiter that
  leaves from anywhere in the queue takes one entry out of one index set, which
  is a bijection of the rest; a counter never meets its limit because no more
  workers wait than there are connections; and a set that is created has an id
  that no waiter holds, since waiters hold ids that were given out before.

**Sessions.** `SessionInv` says what is on each connection: nothing, one request,
one response or one job, of the process that opened it and, while that process
waits for it, with the number of its current call (`OneExchange`); no two
processes use one connection (`OwnersKnown`, `OwnersAreOld`: a connection is
older than the processes forked after it); and active slots and open server ends
are paired one to one (`WorkersPaired`), which is also what `accept_client`,
`join_workers` and the refusal of a client have to restore.

**Launching.** Each component has its own invariant. `ScriptInv`: with shells
that take turns at most one daemon is alive, and where the shell stands says
which files may name it. `ElfInv`: what is being read fits what `fstat` saw,
which the checks of the header and of the segment establish without a sum that
wraps, for words of any width. `MpInv`: where the copy stands says which of the
two copies has the bytes, and that the range is not executable until they are
back. `RootInv`: the last call was mapped as its arguments say; every call that
only looks is mapped by `rewrite_proc` (`MappedByIntent`, one case per
function). `ShimInv`: sleepers block on live sets, and keys are
unique; `First` finds a free slot if there is one.

**The bridge.** Three invariants, over one step relation:

- `HandlesInv` ties what is held to what the release looks at (`html`, `gs`),
  up to the lone handles of a game server that was half created (`LeftOver`),
  and says what may be at the path at each point of the program.
- `CallbacksInv`: none of HTML's callbacks was ever put into an answer, and the
  one that `callback_pipe` remembers is the oldest of its pipe and was sent, or
  went to a client that was killed. The loop of GET_CALLBACK is a recursive
  function; `SearchEnds` says what its rounds leave: only HTML's callbacks are
  skipped, on either pipe, and what it stops at is not one of them or the
  attempts have run out.
- `ConnsInv` has for every client what lies between the two ends: before the
  answer the inbox is what the client sent and the server has not read, and
  after it the answer is the one to this request, from this client's own call,
  with a size no larger than the handler of its opcode gives (`AnswerInv`,
  `SizeBounded`). The messages of a request are read in order because one
  connection is served at a time. `StructsFit` compares the structures of the
  three parties, opcode by opcode; `ToolAgrees` and `ProxyAgrees` then show,
  check by check, that each program takes what fits and refuses the rest.

`TicketsAreSafe` rests on `RangeExact`: a difference that does not wrap is
compared, so the check is exact for words of any width.

`tlapm` has no induction over data with an operator parameter. The proofs about
loops (`semop`, GET_CALLBACK) use sets in place of predicates (`LeastElement`,
from well-foundedness of `<` on the naturals); recursive functions are then
handled as fixed points.

Only model-checked:

- all liveness: `WaitersEnd`, `HeadProgresses`, `ExitRestores`, `SignalStops`,
  `ScalarCallsReturn`, `ClientsReturn` (fairness and `ENABLED` are out of the
  prover's reach);
- `UndoBalance`, `ExitSettles`: sums over the undo table, which are folds, and
  what a fold computes needs induction over the table;
- the exec shim (`ProgramIsItself`, `RightFileRuns`, `PreloadsArrive`,
  `VectorsFit`): filtered sequences and a search along the vector of the loader,
  again induction over data;
- `TakesWhatIsThere`: what a list of operations leaves in a semaphore is a
  recursive function over the list.

## Not modelled

In the modelled parts: malformed packets, failing clocks and mutexes, memory
exhaustion except in `semget`, GETALL/STAT/INFO, reuse of a pid, creation of the
broker, `--once`, truncated frames, the owner and mode checks of the transport,
failing allocations and symbol lookups in the shims.

Parts that are left out:

- The wire protocol (`protocol.c`) and the payload checks of the dispatcher and
  the overlay: fixed layouts read and written byte by byte, without state. The
  requests of the models are decoded ones. The overlay's GETALL and SETALL are
  two requests each; the set may change between them, which no property covers.
- The bridge's interface calls (`*_native.inc`): argument checks and one
  forwarded call each into a library that is not in the repository. The model
  has them as calls that succeed, with a size the handler can give, or fail.
  Matchmaking queries and chunked messages keep state, but the library calls back
  into them on terms the source does not state.
- The interfaces the proxy offers to the game, beyond its exchanges with the
  server.
- `run-server.sh`, the bridge's launcher: it takes no lock, and two launches at a
  time may stop or replace each other's server. There is no model of it.
- The flock, robust-list and raknet shims: each stands for one system call and
  falls back to the real one. What they keep is set once when the library is
  loaded, or belongs to one thread and is read by nobody else.
- The path, socket, helper and certificate shims: each replaces a prefix or a
  name in its argument and calls the next function, without state.
- Build, packaging and installation scripts.
