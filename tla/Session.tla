------------------------------- MODULE Session -------------------------------
(***************************************************************************)
(* Clients and the daemon around the broker: the per-thread connection of  *)
(* src/client.c with its fork and interrupt rules, the stream sockets of   *)
(* src/transport.c, and the accept loop, worker slots and shutdown of      *)
(* src/tgcompatd.c.  What the broker does with a request is left open: it  *)
(* performs a request at once, or a semop blocks first (see SemBroker).    *)
(*                                                                         *)
(* A connection has two queues and two ends.  Every system call that       *)
(* another thread can observe is a step of its own.                        *)
(***************************************************************************)
EXTENDS Naturals, Sequences

CONSTANTS Conns,         \* connections
          Procs,         \* processes, one client thread each
          First,         \* the process that runs at the start
          None,
          MaxClients,    \* MAX_CLIENTS, the worker slots
          MaxRequestId,  \* UINT32_MAX
          MaxCalls,      \* Bound: the calls of one process
          CanStop        \* whether the daemon is signalled, fails or is killed

ASSUME SessionAssumptions ==
  /\ First \in Procs /\ None \notin Conns \cup Procs
  /\ MaxClients \in Nat \ {0} /\ MaxRequestId \in Nat \ {0}
  /\ MaxCalls \in Nat /\ CanStop \in BOOLEAN

VARIABLES
  daemon,    \* where main() is: down, poll, accept, stop, join or unlink
  signal,    \* SIGTERM or SIGINT is pending in the signal descriptor
  path,      \* the socket file exists
  backlog,   \* connections the listener holds, oldest first
  slots,     \* workers[]: [conn, phase, job]
  ends,      \* of a connection: the processes that hold its client end
  server,    \* of a connection: its server end: none, queued, open, shut, closed
  peer,      \* of a connection: the process SO_PEERCRED names
  inbox,     \* of a connection: requests on their way to the worker
  outbox,    \* of a connection: responses on their way to the client
  client,    \* of a process: struct tgc_client: [fd, pid, next]
  call,      \* of a process: the call in progress: [pc, kind, id]
  result,    \* of a process: what its last call returned
  got,       \* of a process: the request its last response answers
  serial,    \* of a process: its calls so far
  running,   \* the processes that run
  performed  \* what the broker did for the current calls: [by, serial, as]

dvars == <<daemon, signal, path>>
svars == <<ends, server, peer, inbox, outbox>>
pvars == <<client, call, result, got, serial, running>>
vars == <<dvars, backlog, slots, svars, pvars, performed>>

Slots == 1 .. MaxClients
FreeSlot == [conn |-> None, phase |-> "free", job |-> None]
Disconnected == [fd |-> None, pid |-> None, next |-> 0]

\* All calls but semop and semtimedop receive without being interrupted.
Kinds == {"scalar", "semop"}
NoCall == [pc |-> "idle", kind |-> "none", id |-> 0]

Init == /\ daemon = "down" /\ signal = FALSE /\ path = FALSE
        /\ backlog = <<>>
        /\ slots = [s \in Slots |-> FreeSlot]
        /\ ends = [c \in Conns |-> {}]
        /\ server = [c \in Conns |-> "none"]
        /\ peer = [c \in Conns |-> None]
        /\ inbox = [c \in Conns |-> <<>>]
        /\ outbox = [c \in Conns |-> <<>>]
        /\ client = [p \in Procs |-> Disconnected]
        /\ call = [p \in Procs |-> NoCall]
        /\ result = [p \in Procs |-> "none"]
        /\ got = [p \in Procs |-> None]
        /\ serial = [p \in Procs |-> 0]
        /\ running = {First}
        /\ performed = {}

-----------------------------------------------------------------------------
(* The client library.                                                     *)

Listening == path /\ daemon \in {"poll", "accept"}

\* Neither end of a connection is open: its name can be used again.
Unused(c) == ends[c] = {} /\ server[c] \in {"none", "closed"}

\* The client ends after p has closed its own.
EndsWithout(p) == [c \in Conns |->
  IF c = client[p].fd THEN ends[c] \ {p} ELSE ends[c]]

\* A call ends: with the connection closed, or kept.
Return(p, value, closed) ==
  /\ call' = [call EXCEPT ![p] = NoCall]
  /\ result' = [result EXCEPT ![p] = value]
  /\ ends' = IF closed THEN EndsWithout(p) ELSE ends
  /\ client' = IF closed
               THEN [client EXCEPT ![p].fd = None, ![p].pid = None]
               ELSE client

\* Mutant of connected: the owner of the connection is not checked.
connected_by_anyone(p) == client[p].fd # None

connected(p) == client[p].fd # None /\ client[p].pid = p

\* A call begins: ensure_connection.
ensure_connection(p, kind) ==
  /\ p \in running /\ call[p].pc = "idle" /\ serial[p] < MaxCalls
  /\ serial' = [serial EXCEPT ![p] = @ + 1]
  /\ got' = [got EXCEPT ![p] = None]
  /\ \/ /\ connected(p)
        /\ call' = [call EXCEPT ![p] = [pc |-> "send", kind |-> kind, id |-> 0]]
        /\ UNCHANGED <<backlog, svars, client, result>>
     \/ /\ ~connected(p) /\ ~Listening
        /\ Return(p, "refused", TRUE)
        /\ UNCHANGED <<backlog, server, peer, inbox, outbox>>
     \/ /\ ~connected(p) /\ Listening
        /\ \E c \in Conns :
             /\ Unused(c)
             /\ ends' = [EndsWithout(p) EXCEPT ![c] = {p}]
             /\ server' = [server EXCEPT ![c] = "queued"]
             /\ peer' = [peer EXCEPT ![c] = p]
             /\ inbox' = [inbox EXCEPT ![c] = <<>>]
             /\ outbox' = [outbox EXCEPT ![c] = <<>>]
             /\ backlog' = Append(backlog, c)
             /\ client' = [client EXCEPT ![p].fd = c, ![p].pid = p]
        /\ call' = [call EXCEPT ![p] = [pc |-> "send", kind |-> kind, id |-> 0]]
        /\ UNCHANGED result
  /\ performed' = {x \in performed : x.by # p}
  /\ UNCHANGED <<dvars, slots, running>>

next_request_id(id) == IF id = MaxRequestId THEN 1 ELSE id + 1

\* The peer still reads: the daemon has neither shut down nor closed its end.
Reads(c) == server[c] \in {"queued", "open"}

\* exchange: number the request and send it; a send to a closed end fails.
send_request(p) ==
  LET c == client[p].fd
      id == next_request_id(client[p].next)
  IN  /\ p \in running /\ call[p].pc = "send"
      /\ \/ /\ Reads(c)
            /\ inbox' = [inbox EXCEPT ![c] = Append(@,
                 [id |-> id, by |-> p, serial |-> serial[p],
                  kind |-> call[p].kind])]
            /\ call' = [call EXCEPT ![p].pc = "receive", ![p].id = id]
            /\ client' = [client EXCEPT ![p].next = id]
            /\ UNCHANGED <<ends, result>>
         \/ /\ ~Reads(c)
            /\ call' = [call EXCEPT ![p] = NoCall]
            /\ result' = [result EXCEPT ![p] = "EPIPE"]
            /\ ends' = EndsWithout(p)
            /\ client' = [client EXCEPT ![p] =
                 [fd |-> None, pid |-> None, next |-> id]]
            /\ UNCHANGED inbox
      /\ UNCHANGED <<dvars, backlog, slots, server, peer, outbox, got, serial,
                     running, performed>>

\* A response is there; it must carry the number of the request.
receive_response(p) ==
  LET c == client[p].fd
      r == Head(outbox[c])
      mine == r.id = call[p].id
  IN  /\ p \in running /\ call[p].pc = "receive" /\ outbox[c] # <<>>
      /\ outbox' = [outbox EXCEPT ![c] = Tail(@)]
      /\ Return(p, IF mine THEN "ok" ELSE "EPROTO", ~mine)
      /\ got' = [got EXCEPT ![p] = IF mine THEN r ELSE None]
      /\ UNCHANGED <<dvars, backlog, slots, server, peer, inbox, serial,
                     running, performed>>

\* The server's end is closed and everything it sent has been read.
receive_eof(p) ==
  /\ p \in running /\ call[p].pc = "receive"
  /\ outbox[client[p].fd] = <<>> /\ ~Reads(client[p].fd)
  /\ Return(p, "ECONNRESET", TRUE)
  /\ UNCHANGED <<dvars, backlog, slots, server, peer, inbox, outbox, got,
                 serial, running, performed>>

\* Mutant of receive_interrupted: the connection is kept for the next call.
interrupted_keeps_connection(p) ==
  /\ p \in running /\ call[p].pc = "receive" /\ call[p].kind = "semop"
  /\ outbox[client[p].fd] = <<>> /\ Reads(client[p].fd)
  /\ Return(p, "EINTR", FALSE)
  /\ UNCHANGED <<dvars, backlog, slots, server, peer, inbox, outbox, got,
                 serial, running, performed>>

\* A signal ends the recv of a semop that has nothing to read yet.
receive_interrupted(p) ==
  /\ p \in running /\ call[p].pc = "receive" /\ call[p].kind = "semop"
  /\ outbox[client[p].fd] = <<>> /\ Reads(client[p].fd)
  /\ Return(p, "EINTR", TRUE)
  /\ UNCHANGED <<dvars, backlog, slots, server, peer, inbox, outbox, got,
                 serial, running, performed>>

\* The thread ends between calls: its destructor closes the client, and the
\* next thread starts with a new one.
close_thread_client(p) ==
  /\ p \in running /\ call[p].pc = "idle" /\ client[p] # Disconnected
  /\ ends' = EndsWithout(p)
  /\ client' = [client EXCEPT ![p] = Disconnected]
  /\ UNCHANGED <<dvars, backlog, slots, server, peer, inbox, outbox, call,
                 result, got, serial, running, performed>>

\* fork copies the client structure and the open descriptors.
Fork(p, q) ==
  /\ p \in running /\ call[p].pc = "idle"
  /\ q \notin running /\ result[q] = "none"     \* a fresh process id
  /\ running' = running \cup {q}
  /\ client' = [client EXCEPT ![q] = client[p]]
  /\ result' = [result EXCEPT ![q] = "forked"]
  /\ ends' = [c \in Conns |->
       IF p \in ends[c] THEN ends[c] \cup {q} ELSE ends[c]]
  /\ UNCHANGED <<dvars, backlog, slots, server, peer, inbox, outbox, call, got,
                 serial, performed>>

Exit(p) ==
  /\ p \in running
  /\ running' = running \ {p}
  /\ ends' = [c \in Conns |-> ends[c] \ {p}]
  /\ client' = [client EXCEPT ![p] = Disconnected]
  /\ call' = [call EXCEPT ![p] = NoCall]
  /\ result' = [result EXCEPT ![p] = "exited"]
  /\ got' = [got EXCEPT ![p] = None]
  /\ UNCHANGED <<dvars, backlog, slots, server, peer, inbox, outbox, serial,
                 performed>>

-----------------------------------------------------------------------------
(* The workers: tgc_broker_serve_connection, and the end of serve_client.  *)

Phase(s, phase, job) == slots' = [slots EXCEPT ![s].phase = phase,
                                               ![s].job = job]

\* The next request is performed at once, or it is a semop that blocks.
serve_request(s) ==
  LET c == slots[s].conn
      r == Head(inbox[c])
  IN  /\ slots[s].phase = "receive" /\ inbox[c] # <<>>
      /\ inbox' = [inbox EXCEPT ![c] = Tail(@)]
      /\ \/ /\ Phase(s, "send", r)
            /\ performed' = performed \cup
                 {[by |-> r.by, serial |-> r.serial, as |-> peer[c]]}
         \/ /\ r.kind = "semop"
            /\ Phase(s, "blocked", r)
            /\ UNCHANGED performed
      /\ UNCHANGED <<dvars, backlog, ends, server, peer, outbox, pvars>>

\* peer_has_closed: end of file with nothing left to read.
peer_has_closed(c) == inbox[c] = <<>> /\ (ends[c] = {} \/ server[c] = "shut")

\* A blocked semop is let through, as long as its client is there.
serve_unblocks(s) ==
  LET c == slots[s].conn
      r == slots[s].job
  IN  /\ slots[s].phase = "blocked" /\ ~peer_has_closed(c)
      /\ Phase(s, "send", r)
      /\ performed' = performed \cup
           {[by |-> r.by, serial |-> r.serial, as |-> peer[c]]}
      /\ UNCHANGED <<dvars, backlog, svars, pvars>>

\* A blocked semop is given up, without an effect.
serve_abandons(s) ==
  /\ slots[s].phase = "blocked" /\ peer_has_closed(slots[s].conn)
  /\ Phase(s, "send", slots[s].job)
  /\ UNCHANGED <<dvars, backlog, svars, pvars, performed>>

\* The worker leaves serve_connection and closes its socket.
CloseSocket(s) == /\ Phase(s, "closed", None)
                  /\ server' = [server EXCEPT ![slots[s].conn] = "closed"]
                  /\ inbox' = [inbox EXCEPT ![slots[s].conn] = <<>>]

\* The response is sent, unless somebody closed the stream.
send_response(s) ==
  LET c == slots[s].conn IN
  /\ slots[s].phase = "send"
  /\ \/ /\ ends[c] # {} /\ server[c] = "open"
        /\ outbox' = [outbox EXCEPT ![c] = Append(@, slots[s].job)]
        /\ Phase(s, "receive", None)
        /\ UNCHANGED <<server, inbox>>
     \/ /\ ends[c] = {} \/ server[c] = "shut"
        /\ CloseSocket(s)
        /\ UNCHANGED outbox
  /\ UNCHANGED <<dvars, backlog, ends, peer, pvars, performed>>

serve_eof(s) ==
  /\ slots[s].phase = "receive" /\ peer_has_closed(slots[s].conn)
  /\ CloseSocket(s)
  /\ UNCHANGED <<dvars, backlog, ends, peer, outbox, pvars, performed>>

\* The flag that lets the accept loop join the thread.
serve_done(s) ==
  /\ slots[s].phase = "closed"
  /\ Phase(s, "done", None)
  /\ UNCHANGED <<dvars, backlog, svars, pvars, performed>>

-----------------------------------------------------------------------------
(* The daemon.                                                             *)

\* tgcompat-session.sh start, for a daemon that is not running.
remove_stale_socket ==
  /\ daemon = "down" /\ path
  /\ path' = FALSE
  /\ UNCHANGED <<daemon, signal, backlog, slots, svars, pvars, performed>>

start ==
  /\ daemon = "down" /\ ~path
  /\ daemon' = "poll" /\ path' = TRUE /\ signal' = FALSE
  /\ UNCHANGED <<backlog, slots, svars, pvars, performed>>

Terminate ==
  /\ CanStop /\ daemon # "down" /\ ~signal
  /\ signal' = TRUE
  /\ UNCHANGED <<daemon, path, backlog, slots, svars, pvars, performed>>

\* Closing the listener resets the connections it still holds.
LeaveLoop == /\ daemon' = "stop"
             /\ backlog' = <<>>
             /\ server' = [c \in Conns |->
                  IF server[c] = "queued" THEN "closed" ELSE server[c]]

\* poll returns: a signal comes before a connection.
poll ==
  /\ daemon = "poll" /\ (signal \/ backlog # <<>>)
  /\ IF signal THEN LeaveLoop
               ELSE daemon' = "accept" /\ UNCHANGED <<backlog, server>>
  /\ UNCHANGED <<signal, path, slots, ends, peer, inbox, outbox, pvars,
                 performed>>

\* poll or accept4 fails for good, and the loop ends as after a signal.
accept_fails ==
  /\ CanStop /\ daemon \in {"poll", "accept"}
  /\ LeaveLoop
  /\ UNCHANGED <<signal, path, slots, ends, peer, inbox, outbox, pvars,
                 performed>>

\* Mutant of reap_finished_workers: the thread is joined after the search.
reap_nothing(ss) == ss

reap_finished_workers(ss) == [s \in Slots |->
  IF ss[s].phase = "done" THEN FreeSlot ELSE ss[s]]

\* Mutant of refuse: the descriptor of a refused client stays open.
refuse_silently(c) == server' = [server EXCEPT ![c] = "open"]

refuse(c) == server' = [server EXCEPT ![c] = "closed"]

\* accept4 and what follows: the client gets a free slot, or it is refused for
\* want of a slot or of a thread.
accept_client ==
  LET c == Head(backlog)
      reaped == reap_finished_workers(slots)
      free == {s \in Slots : reaped[s].phase = "free"}
  IN  /\ daemon = "accept"
      /\ daemon' = "poll"
      /\ backlog' = Tail(backlog)
      /\ \/ /\ slots' = reaped
            /\ refuse(c)
            /\ free = {} \/ CanStop
         \/ /\ free # {}
            /\ LET s == CHOOSE s \in free : \A t \in free : s <= t
               IN  slots' = [reaped EXCEPT ![s] =
                     [conn |-> c, phase |-> "receive", job |-> None]]
            /\ server' = [server EXCEPT ![c] = "open"]
      /\ UNCHANGED <<signal, path, ends, peer, inbox, outbox, pvars, performed>>

\* Mutant of shut: only idle workers are told.
shut_idle(c) == \E s \in Slots : slots[s].conn = c /\ slots[s].phase = "receive"

\* A socket that stop_and_join_workers shuts down; for a worker that has closed
\* it already the call does nothing.
shut(c) == server[c] = "open" /\ \E s \in Slots : slots[s].conn = c

stop_workers ==
  /\ daemon = "stop"
  /\ daemon' = "join"
  /\ server' = [c \in Conns |-> IF shut(c) THEN "shut" ELSE server[c]]
  /\ UNCHANGED <<signal, path, backlog, slots, ends, peer, inbox, outbox,
                 pvars, performed>>

\* pthread_join returns for a finished thread.
joined(s) == slots[s].phase \in {"free", "done"}

\* All threads are joined, and the broker is destroyed.
join_workers ==
  /\ daemon = "join" /\ \A s \in Slots : joined(s)
  /\ daemon' = "unlink"
  /\ slots' = [s \in Slots |-> FreeSlot]
  /\ UNCHANGED <<signal, path, backlog, svars, pvars, performed>>

\* unlink, and the end of main, where the kernel closes what is still open.
exit_main ==
  /\ daemon = "unlink"
  /\ daemon' = "down" /\ path' = FALSE /\ signal' = FALSE
  /\ server' = [c \in Conns |->
       IF server[c] = "none" THEN "none" ELSE "closed"]
  /\ UNCHANGED <<backlog, slots, ends, peer, inbox, outbox, pvars, performed>>

\* SIGKILL, or the out-of-memory killer: the kernel closes every descriptor,
\* and the socket file stays behind.
Kill ==
  /\ CanStop /\ daemon # "down"
  /\ daemon' = "down" /\ signal' = FALSE
  /\ backlog' = <<>>
  /\ slots' = [s \in Slots |-> FreeSlot]
  /\ server' = [c \in Conns |->
       IF server[c] = "none" THEN "none" ELSE "closed"]
  /\ UNCHANGED <<path, ends, peer, inbox, outbox, pvars, performed>>

-----------------------------------------------------------------------------
Process(p) == \/ \E k \in Kinds : ensure_connection(p, k)
              \/ send_request(p)
              \/ receive_response(p)
              \/ receive_eof(p)
              \/ receive_interrupted(p)
              \/ close_thread_client(p)
              \/ \E q \in Procs : Fork(p, q)
              \/ Exit(p)

Worker(s) == \/ serve_request(s)
             \/ serve_unblocks(s)
             \/ serve_abandons(s)
             \/ send_response(s)
             \/ serve_eof(s)
             \/ serve_done(s)

Main == poll \/ accept_client \/ stop_workers \/ join_workers \/ exit_main

Next == \/ \E p \in Procs : Process(p)
        \/ \E s \in Slots : Worker(s)
        \/ Main \/ accept_fails
        \/ remove_stale_socket \/ start \/ Terminate \/ Kill

Spec == Init /\ [][Next]_vars

\* The daemon's threads run, and a client that has called goes on: the system
\* schedules every thread, and the peer check of a blocked worker is timed.
\* Nobody has to call, to let a blocked semop through, or to send a signal.
Fairness == /\ WF_vars(Main)
            /\ \A s \in Slots : /\ WF_vars(serve_request(s))
                                /\ WF_vars(serve_abandons(s))
                                /\ WF_vars(send_response(s))
                                /\ WF_vars(serve_eof(s))
                                /\ WF_vars(serve_done(s))
            /\ \A p \in Procs : /\ WF_vars(send_request(p))
                                /\ WF_vars(receive_response(p))
                                /\ WF_vars(receive_eof(p))

FairSpec == Spec /\ Fairness

-----------------------------------------------------------------------------
(* Properties.                                                             *)

Request == [id : 1 .. MaxRequestId, by : Procs, serial : 1 .. MaxCalls,
            kind : Kinds]

SlotState == [conn : Conns \cup {None},
              phase : {"free", "receive", "blocked", "send", "closed", "done"},
              job : Request \cup {None}]
ClientState == [fd : Conns \cup {None}, pid : Procs \cup {None},
                next : 0 .. MaxRequestId]
CallState == [pc : {"idle", "send", "receive"}, kind : Kinds \cup {"none"},
              id : 0 .. MaxRequestId]
Results == {"none", "ok", "refused", "EPIPE", "EPROTO", "ECONNRESET", "EINTR",
            "forked", "exited"}

TypeOK ==
  /\ daemon \in {"down", "poll", "accept", "stop", "join", "unlink"}
  /\ signal \in BOOLEAN /\ path \in BOOLEAN
  /\ backlog \in Seq(Conns)
  /\ slots \in [Slots -> SlotState]
  /\ ends \in [Conns -> SUBSET running]
  /\ server \in [Conns -> {"none", "queued", "open", "shut", "closed"}]
  /\ peer \in [Conns -> Procs \cup {None}]
  /\ inbox \in [Conns -> Seq(Request)] /\ outbox \in [Conns -> Seq(Request)]
  /\ client \in [Procs -> ClientState]
  /\ call \in [Procs -> CallState]
  /\ result \in [Procs -> Results] /\ got \in [Procs -> Request \cup {None}]
  /\ serial \in [Procs -> 0 .. MaxCalls] /\ running \subseteq Procs
  /\ performed \subseteq [by : Procs, serial : 1 .. MaxCalls,
                          as : Procs \cup {None}]

\* A call that returns a response returns the one to its own request, whatever
\* was forked, interrupted or reconnected before: a late response never
\* answers a later call, and parent and child never read each other's.  The
\* number check of exchange never has to fail for that: a connection with an
\* unread response is never used again.
AnswerIsMine ==
  \A p \in Procs :
    /\ got[p] # None => got[p].by = p /\ got[p].serial = serial[p]
    /\ result[p] # "EPROTO"

\* The broker performs a request in the name of the process that made it
\* (docs/ARCHITECTURE.md:113): SO_PEERCRED names the caller, also after fork.
ServedAsCaller == \A x \in performed : x.as = x.by

\* An accepted connection is in the hands of exactly one working worker until
\* it is closed: no descriptor leaks when a client is refused, and a slot that
\* is used again never takes the connection of a worker that still runs.
WorkerOwnsConnection ==
  \A c \in Conns : server[c] \in {"open", "shut"} =>
    \E s \in Slots :
      {t \in Slots : /\ slots[t].conn = c
                    /\ slots[t].phase \in {"receive", "blocked", "send"}} = {s}

\* Slots do not leak: as long as threads can be created, a client is refused
\* only while every slot has a worker that is not finished.
RefusedOnlyWhenFull ==
  [][daemon = "accept" /\ daemon' = "poll" /\ server'[Head(backlog)] = "closed"
     => \A s \in Slots : slots[s].phase \notin {"free", "done"}]_vars

\* semop(2): a call that returns EINTR has not been performed, and its caller
\* may repeat it.
InterruptedHasNoEffect ==
  \A p \in Procs : result[p] = "EINTR" =>
    ~\E x \in performed : x.by = p /\ x.serial = serial[p]

\* A signal ends the daemon, with workers blocked in semop, clients that never
\* hang up and connections in the backlog.
SignalStops == signal ~> daemon = "down"

\* A call that cannot block returns, also when the daemon refuses the client,
\* is told to stop or is killed under it.
ScalarCallsReturn ==
  \A p \in Procs : call[p].kind = "scalar" ~> call[p].kind # "scalar"
=============================================================================
