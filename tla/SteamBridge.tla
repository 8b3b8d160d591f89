----------------------------- MODULE SteamBridge -----------------------------
(***************************************************************************)
(* The Steam bridge: the server of steam-bridge/server.cpp, one thread     *)
(* that serves one connection after the other, its clients (client.c and   *)
(* the proxy inside Wine), and the native Steam client behind it.          *)
(*                                                                         *)
(* A client sends a request, for some opcodes a second message, reads one  *)
(* answer and is gone.  The thread blocks in recv until the accepted       *)
(* client has sent or closed.  External: the native client queues          *)
(* callbacks on the user's pipe and on the game server's pipe, and reports *)
(* sizes of its own; the oldest callback of a pipe stays until             *)
(* Steam_FreeLastCallback frees it.  What the matchmaking queries do is    *)
(* left out; their calls succeed or fail.                                  *)
(***************************************************************************)
EXTENDS BridgeProtocol, Sequences

CONSTANTS Clients,      \* processes that use the socket
          Jobs,         \* what a behaviour has: what each client asks, the
                        \* clients of another user and of another version,
                        \* those that may be killed, which callbacks come
                        \* and how many, the interfaces found
          Backlog,      \* the length given to listen
          Attempts,     \* how often GET_CALLBACK skips an HTML callback
          Callbacks,    \* what the native client queues: [id, size, data]
          NativeTickets,\* what the native client reports of a ticket
          NativeSizes   \* the sizes it reports of anything else

\* What a program asks for when it uses the socket.
Call == {k \in [opcode : Opcodes, by : Programs, item : UInt \X UInt] :
           k.opcode \in sends(k.by)}

ASSUME BridgeAssumptions ==
  /\ Jobs \subseteq
       [calls : [Clients -> SUBSET Call],
        foreign : SUBSET Clients, outdated : SUBSET Clients,
        mortal : SUBSET Clients, queued : SUBSET Callbacks, posts : Nat,
        ifaces : SUBSET SUBSET {"client", "user", "ticket"}]
  /\ Backlog \in Nat /\ Attempts \in Nat \ {0}
  /\ NativeTickets \subseteq NativeTicket /\ NativeSizes \subseteq UInt

Serving == {"loop", "poll", "request", "body"}
Pipes == {"user", "gameserver"}
NoPipe == "none"

VARIABLES
  job,       \* the clients' requests, the bound on the callbacks queued, and
             \* the interfaces the library may have at the start
  pc,        \* where the server's thread is
  running,   \* the flag that STOP and the signals clear
  path,      \* what has the socket's path: nothing, listener, a socket of the
             \* server's user nobody listens on, a file, or a foreign socket
  ifaces,    \* the native interfaces the server has found
  gs,        \* game_server_state: none, the pipe or the user alone, owned
             \* (both), or ready (both and the interface)
  html,      \* html_state.initialized
  held,      \* the native handles the process has
  backlog,   \* connections not yet accepted
  current,   \* the connection being served
  conn,      \* of a client: [state, call, inbox, hung, answer]
  queue,     \* of a pipe: its callbacks, oldest first, each with a mark:
             \* new, sent, or unread (put into an answer to a dead client)
  callback_pipe   \* the pipe of the callback to free

server == <<pc, running, path, ifaces, gs, html, held, backlog, current>>
callbacks == <<queue, callback_pipe>>
bridge == <<job, server, conn, callbacks>>

NoAnswer == [struct |-> "none"]
NoClient == "none"
Idle == [state |-> "idle", call |-> [opcode |-> "NONE"], inbox |-> <<>>,
         hung |-> FALSE, answer |-> NoAnswer]

\* Anything may have the path when a server is started.
BridgeInit ==
  /\ job \in Jobs
  /\ pc = "start" /\ running = TRUE
  /\ path \in {"nothing", "socket", "file", "foreign"}
  /\ ifaces \in job.ifaces
  /\ "user" \in ifaces => "client" \in ifaces
  /\ gs = "none" /\ html = FALSE
  /\ held = {}
  /\ backlog = <<>> /\ current = NoClient
  /\ conn = [c \in Clients |-> Idle]
  /\ queue = [p \in Pipes |-> <<>>]
  /\ callback_pipe = NoPipe

-----------------------------------------------------------------------------
(* The clients.                                                            *)

Ends(c) == conn' = [conn EXCEPT ![c] = Idle]

version_of(c) == IF c \in job.outdated THEN VERSION - 1 ELSE VERSION

\* The connection waits in the backlog; connect blocks while that is full.
Connect(c, call) ==
  /\ conn[c].state = "idle" /\ path = "listener"
  /\ call.by = "proxy" => proxy_asks(call)
  /\ Len(backlog) <= Backlog
  /\ backlog' = Append(backlog, c)
  /\ conn' = [conn EXCEPT ![c] = [Idle EXCEPT !.state = "connected",
                                              !.call = call]]
  /\ UNCHANGED <<job, pc, running, path, ifaces, gs, html, held, current,
                 callbacks>>

\* A send on a connection the server has closed fails.
SendRequest(c) ==
  /\ conn[c].state = "connected"
  /\ IF conn[c].hung THEN Ends(c)
     ELSE LET op == conn[c].call.opcode IN
       conn' = [conn EXCEPT
         ![c].state = IF body_struct(op) = NoBody THEN "waiting" ELSE "half",
         ![c].inbox = <<[header(op, 1) EXCEPT !.version = version_of(c)]>>]
  /\ UNCHANGED <<job, server, callbacks>>

SendBody(c) ==
  /\ conn[c].state = "half"
  /\ IF conn[c].hung THEN Ends(c)
     ELSE conn' = [conn EXCEPT
            ![c].state = "waiting",
            ![c].inbox = Append(@, [item |-> sent_item(conn[c].call)])]
  /\ UNCHANGED <<job, server, callbacks>>

\* What the client's program makes of the answer.
Report(c) == IF conn[c].call.by = "tool"
             THEN tool_report(conn[c].call, conn[c].answer)
             ELSE proxy_report(conn[c].call, conn[c].answer)

ReadAnswer(c) ==
  /\ conn[c].state = "waiting" /\ conn[c].hung
  /\ Ends(c)
  /\ UNCHANGED <<job, server, callbacks>>

\* A client is killed; what it has sent can still be read.  (After the server
\* has closed the connection this is no different from reading the answer.)
Die(c) ==
  /\ c \in job.mortal
  /\ conn[c].state \in {"connected", "half", "waiting"} /\ ~conn[c].hung
  /\ conn' = [conn EXCEPT ![c].state = "dead"]
  /\ UNCHANGED <<job, server, callbacks>>

-----------------------------------------------------------------------------
(* The native client.                                                      *)
\* It queues a callback on a pipe that exists.
Post(p, m) ==
  /\ pc \in Serving /\ m \in job.queued
  /\ Len(queue["user"]) + Len(queue["gameserver"]) < job.posts
  /\ p = "gameserver" => gs \in {"pipe", "owned", "ready"}
  /\ queue' = [queue EXCEPT ![p] =
                 Append(@, [id |-> m.id, size |-> m.size, data |-> m.data,
                            mark |-> "new"])]
  /\ UNCHANGED <<job, server, conn, callback_pipe>>

\* Steam_FreeLastCallback.
free_callback(q, p) == [q EXCEPT ![p] = Tail(@)]

-----------------------------------------------------------------------------
(* The server's loop.                                                      *)

\* The server closes connection c, after an answer or without one.
Hang(c, answer) ==
  conn' = [conn EXCEPT
    ![c] = IF @.state = "dead" THEN Idle
           ELSE [@ EXCEPT !.hung = TRUE, !.inbox = <<>>, !.answer = answer]]

safe_remove_socket == IF path \in {"file", "foreign"}
                      THEN [ok |-> FALSE, path |-> path]
                      ELSE [ok |-> TRUE, path |-> "nothing"]

\* The pipe and its user, unless there is no Steam session.  A server that
\* fails to start leaves what it has to the end of its process.
OpenSession ==
  /\ pc = "start"
  /\ \/ pc' = "replace" /\ held' = {"pipe", "user"}
     \/ pc' = "failed" /\ held' \in {{}, {"pipe"}}
  /\ UNCHANGED <<job, running, path, ifaces, gs, html, backlog, current, conn,
                 callbacks>>

\* What an earlier server left is removed, and the path is bound; when bind,
\* chmod or listen fails, what is there is removed again.
Listen ==
  /\ \/ /\ pc = "replace"
        /\ path' = safe_remove_socket.path
        /\ pc' = IF safe_remove_socket.ok THEN "bind" ELSE "failed"
     \/ pc = "bind" /\ path' = "socket" /\ pc' = "listen"
     \/ pc = "listen" /\ path' = "listener" /\ pc' = "loop"
     \/ /\ pc \in {"bind", "listen"}
        /\ path' = safe_remove_socket.path /\ pc' = "failed"
  /\ UNCHANGED <<job, running, ifaces, gs, html, held, backlog, current, conn,
                 callbacks>>

LoopTest ==
  /\ pc = "loop"
  /\ pc' = IF running THEN "poll" ELSE "closing"
  /\ UNCHANGED <<job, running, path, ifaces, gs, html, held, backlog, current,
                 conn, callbacks>>

\* poll times out, or a signal interrupts it.
PollAgain ==
  /\ pc = "poll" /\ (backlog = <<>> \/ ~running)
  /\ pc' = "loop"
  /\ UNCHANGED <<job, running, path, ifaces, gs, html, held, backlog, current,
                 conn, callbacks>>

\* poll or accept4 fails, and the loop is left.
PollFails ==
  /\ pc = "poll" /\ pc' = "closing"
  /\ UNCHANGED <<job, running, path, ifaces, gs, html, held, backlog, current,
                 conn, callbacks>>

\* Mutant of Accept: a foreign connection is not closed.
AcceptLeaks ==
  /\ pc = "poll" /\ backlog # <<>>
  /\ backlog' = Tail(backlog)
  /\ IF Head(backlog) \in job.foreign
     THEN pc' = "loop" /\ UNCHANGED current
     ELSE current' = Head(backlog) /\ pc' = "request"
  /\ UNCHANGED <<job, running, path, ifaces, gs, html, held, conn, callbacks>>

\* Only the server's own user is served.
Accept ==
  /\ pc = "poll" /\ backlog # <<>>
  /\ backlog' = Tail(backlog)
  /\ IF Head(backlog) \in job.foreign
     THEN /\ Hang(Head(backlog), NoAnswer)
          /\ pc' = "loop" /\ UNCHANGED current
     ELSE /\ current' = Head(backlog) /\ pc' = "request"
          /\ UNCHANGED conn
  /\ UNCHANGED <<job, running, path, ifaces, gs, html, held, callbacks>>

\* A request was answered: the connection is closed and the loop goes on.
Answers(r, status, size, item) ==
  /\ Hang(current, [struct |-> answer_struct(r.opcode), magic |-> MAGIC,
                    version |-> VERSION, opcode |-> r.opcode,
                    sequence |-> r.sequence, status |-> status,
                    size |-> size, item |-> item])
  /\ pc' = "loop" /\ current' = NoClient
  /\ UNCHANGED <<path, backlog>>

NothingElse == UNCHANGED <<job, running, ifaces, gs, html, held, callbacks>>

-----------------------------------------------------------------------------
(* One answer per opcode.  "whole": the second message came in full; it     *)
(* is short when the client died before it sent it.                        *)

\* The largest size a handler gives for its payload.  Two do not bound it by
\* the message: a folder's name behind a 64-bit number, and the name of a
\* connection with the byte that ends it.
ugc_limit == MaxTicket + SteamIdSize
sockets_limit == MaxTicket + 1

size_limit(opcode) ==
  CASE opcode = "UGC_CALL" -> ugc_limit
    [] opcode = "NETWORK_SOCKETS_CALL" -> sockets_limit
    [] OTHER -> payload[answer_struct(opcode)]

\* What a native call may answer; -EIO stands for every error of its handler,
\* none of which gives a size.
NativeReplies(opcode) ==
  {[status |-> -EIO, size |-> 0]} \cup
  {[status |-> 0, size |-> n] :
     n \in {k \in NativeSizes : k <= size_limit(opcode)}}

Refused(status) == {[status |-> status, size |-> 0]}

\* The native client's size is sent as it is, with an error too.
get_auth_ticket(r) ==
  /\ r.opcode = "GET_AUTH_TICKET"
  /\ IF "user" \in ifaces
     THEN \E handle \in BOOLEAN, size \in NativeSizes :
            Answers(r, IF handle /\ size # 0 THEN 0 ELSE -EIO, size, 0)
     ELSE Answers(r, -EIO, 0, 0)
  /\ NothingElse

\* The interface may appear after the server was started, and is looked for
\* when a request that names an application and a buffer needs it.
get_app_ticket(r, whole, item) ==
  /\ r.opcode = "APP_TICKET_CALL"
  /\ IF whole /\ item[1] # 0 /\ item[2] # 0
     THEN \/ UNCHANGED ifaces
          \/ ifaces' = ifaces \cup {"ticket"}
     ELSE UNCHANGED ifaces
  /\ IF whole
     THEN \E t \in NativeTickets :
            LET a == app_ticket(item[1], item[2], "ticket" \in ifaces', t,
                                "user" \in ifaces)
            IN  Answers(r, a.status, a.ticket.returned_size, a.ticket)
     ELSE Answers(r, -EINVAL, 0, NoTicket)
  /\ UNCHANGED <<job, running, gs, html, held, callbacks>>

\* item[1] is the size of the caller's buffer; the native client's size is sent
\* as it is.
init_game_connection(r, whole, item) ==
  /\ r.opcode = "INIT_GAME_CONNECTION"
  /\ IF whole /\ "user" \in ifaces /\ item[1] > 0
     THEN \E size \in NativeSizes :
            Answers(r, IF size # 0 THEN 0 ELSE -EIO, size, 0)
     ELSE Answers(r, -EINVAL, 0, 0)
  /\ NothingElse

HandlesOf(state) == CASE state = "none" -> {}
                      [] state = "pipe" -> {"gs pipe"}
                      [] state = "user" -> {"gs user"}
                      [] state \in {"owned", "ready"} -> {"gs pipe", "gs user"}

\* The handles after the game server's are created (again): a pipe is used
\* again, a user without one is forgotten.
HandlesWith(new) ==
  IF gs = "user" THEN (held \ {"gs user"}) \cup {"lost user"} \cup HandlesOf(new)
  ELSE held \cup HandlesOf(new)

\* Mutant of ensure_game_server: the handles count once the interface is there.
ensure_game_server_late(new) == /\ gs' = IF new = "ready" THEN new ELSE gs
                                /\ held' = HandlesWith(new)

\* The game server's handles, once both are there, are kept and released at the
\* end, whether or not its interface is found.
ensure_game_server(new) == gs' = new /\ held' = HandlesWith(new)

GameServerOutcomes ==
  CASE gs \in {"none", "user"} -> {"none", "pipe", "user", "owned", "ready"}
    [] gs = "pipe" -> {"pipe", "owned", "ready"}
    [] gs = "owned" -> {"owned", "ready"}
    [] gs = "ready" -> {"ready"}

\* Calls of ISteamGameServer and of ISteamGameServerStats take the same handles;
\* the second interface is looked up by itself.
game_server_calls(r, whole) ==
  /\ r.opcode \in {"GAME_SERVER_CALL", "GAME_SERVER_STATS_CALL"}
  /\ IF whole /\ "client" \in ifaces
     THEN \E new \in GameServerOutcomes :
            /\ ensure_game_server(new)
            /\ \E a \in IF new = "ready" THEN NativeReplies(r.opcode)
                        ELSE Refused(-ENODEV) : Answers(r, a.status, a.size, 0)
     ELSE /\ r.opcode = "GAME_SERVER_CALL" \/ ~whole
          /\ Answers(r, -EINVAL, 0, 0) /\ UNCHANGED <<gs, held>>
  /\ UNCHANGED <<job, running, ifaces, html, callbacks>>

\* The process's memory and its pipes end with it; what has its path stays.
Gone == /\ gs' = "none" /\ html' = FALSE /\ current' = NoClient
        /\ queue' = [p \in Pipes |-> <<>>] /\ callback_pipe' = NoPipe

Dies(c) == IF c.state = "idle" THEN c
           ELSE IF c.state = "dead" THEN Idle
           ELSE IF c.hung THEN c ELSE [c EXCEPT !.hung = TRUE, !.inbox = <<>>]

Crash ==
  /\ pc' = "crashed"
  /\ path' = IF path = "listener" THEN "socket" ELSE path
  /\ conn' = [c \in Clients |-> Dies(conn[c])]
  /\ backlog' = <<>> /\ held' = {} /\ Gone
  /\ UNCHANGED <<job, running, ifaces>>

\* The statistics handler does not look whether there is an ISteamClient:
\* without one it is called as soon as both handles are there.
stats_without_client(r, whole) ==
  /\ r.opcode = "GAME_SERVER_STATS_CALL" /\ whole /\ "client" \notin ifaces
  /\ \/ /\ \E new \in GameServerOutcomes \ {"owned", "ready"} :
             ensure_game_server(new)
        /\ Answers(r, -ENODEV, 0, 0)
        /\ UNCHANGED <<job, running, ifaces, html, callbacks>>
     \/ Crash

\* The surface stays initialised until the server ends.
html_call(r, whole) ==
  /\ r.opcode = "HTML_CALL"
  /\ \E init \in IF whole /\ "client" \in ifaces THEN {html, TRUE} ELSE {html} :
       /\ html' = init
       /\ held' = IF init THEN held \cup {"html"} ELSE held
  /\ \E a \in IF ~whole THEN Refused(-EINVAL)
              ELSE IF "client" \in ifaces THEN NativeReplies(r.opcode)
              ELSE Refused(-ENODEV) : Answers(r, a.status, a.size, 0)
  /\ UNCHANGED <<job, running, ifaces, gs, callbacks>>

\* The calls that change nothing of the server's own state kept here.
native_call(r, whole) ==
  /\ r.opcode \in (InterfaceCalls \ {"GAME_SERVER_STATS_CALL", "HTML_CALL"})
                    \cup {"VOICE_CALL"}
  /\ \E a \in IF whole THEN NativeReplies(r.opcode) ELSE Refused(-EINVAL) :
       Answers(r, a.status, a.size, 0)
  /\ NothingElse

matchmaking_call(r, whole) ==
  /\ r.opcode \in MatchmakingCalls
  /\ \E a \in IF whole /\ "client" \in ifaces THEN NativeReplies(r.opcode)
              ELSE Refused(-EINVAL) : Answers(r, a.status, a.size, 0)
  /\ NothingElse

\* item[1] is the size the caller gives for the result.
get_api_call_result(r, whole, item) ==
  /\ r.opcode = "GET_API_CALL_RESULT"
  /\ \E a \in IF whole /\ item[1] <= MaxCallback
              THEN {[status |-> 0, size |-> item[1]]} \cup Refused(-EIO)
              ELSE Refused(-EINVAL) : Answers(r, a.status, a.size, 0)
  /\ NothingElse

-----------------------------------------------------------------------------
(* Callbacks.                                                              *)

\* 4501 comes as the result of a call; the others point into native memory.
Html(m) == m.id \in 4502 .. 4527

\* A callback no message can carry: too large, or a size without data.
Unsendable(m) == m.size \notin 0 .. MaxCallback \/ (m.size # 0 /\ ~m.data)

\* get_callback: the user's pipe comes first.
next_pipe(q) == IF q["user"] # <<>> THEN "user"
                ELSE IF q["gameserver"] # <<>> THEN "gameserver" ELSE NoPipe

Look(q, pipe, have, done) ==
  [queue |-> q, pipe |-> pipe, have |-> have, done |-> done]

\* Mutant of look_once: the first of HTML's callbacks passes for another.
look_off_by_one(s) ==
  LET p == next_pipe(s.queue) IN
  IF s.done \/ p = NoPipe THEN [s EXCEPT !.done = TRUE]
  ELSE IF Html(Head(s.queue[p])) /\ Head(s.queue[p]).id > 4502
       THEN Look(free_callback(s.queue, p), NoPipe, FALSE, FALSE)
       ELSE Look(s.queue, p, TRUE, TRUE)

\* One attempt: the oldest callback is found, or freed because it is HTML's.
look_once(s) ==
  LET p == next_pipe(s.queue) IN
  IF s.done \/ p = NoPipe THEN [s EXCEPT !.done = TRUE]
  ELSE IF Html(Head(s.queue[p]))
       THEN Look(free_callback(s.queue, p), NoPipe, FALSE, FALSE)
       ELSE Look(s.queue, p, TRUE, TRUE)

attempts_made[n \in 0 .. Attempts] ==
  IF n = 0 THEN Look(queue, callback_pipe, FALSE, FALSE)
  ELSE look_once(attempts_made[n - 1])

\* A callback no message can carry is freed; any other stays the oldest of its
\* pipe until it is freed.  Whether the answer could be sent is not looked at.
Marked(mark) == IF conn[current].state # "dead" THEN "sent"
                ELSE IF mark = "new" THEN "unread" ELSE mark

get_callback(r) ==
  LET s == attempts_made[Attempts]
      m == Head(s.queue[s.pipe])
  IN  /\ r.opcode = "GET_CALLBACK"
      /\ \/ /\ ~s.have
            /\ Answers(r, -EAGAIN, 0, 0)
            /\ queue' = s.queue /\ callback_pipe' = s.pipe
         \/ /\ s.have /\ Unsendable(m)
            /\ Answers(r, -EOVERFLOW, 0, 0)
            /\ queue' = free_callback(s.queue, s.pipe)
            /\ callback_pipe' = NoPipe
         \/ /\ s.have /\ ~Unsendable(m)
            /\ Answers(r, 0, m.size, 0)
            /\ queue' = [s.queue EXCEPT ![s.pipe][1].mark = Marked(@)]
            /\ callback_pipe' = s.pipe
      /\ UNCHANGED <<job, running, ifaces, gs, html, held>>

\* Mutant of free_last_callback: it frees what would be found next.
free_next_callback(r) ==
  /\ r.opcode = "FREE_CALLBACK"
  /\ IF callback_pipe = NoPipe
     THEN Answers(r, -ENOENT, 0, 0) /\ UNCHANGED queue
     ELSE /\ Answers(r, 0, 0, 0)
          /\ queue' = free_callback(queue, next_pipe(queue))
  /\ callback_pipe' = NoPipe
  /\ UNCHANGED <<job, running, ifaces, gs, html, held>>

free_last_callback(r) ==
  /\ r.opcode = "FREE_CALLBACK"
  /\ IF callback_pipe = NoPipe
     THEN Answers(r, -ENOENT, 0, 0) /\ UNCHANGED queue
     ELSE /\ Answers(r, 0, 0, 0)
          /\ queue' = free_callback(queue, callback_pipe)
  /\ callback_pipe' = NoPipe
  /\ UNCHANGED <<job, running, ifaces, gs, html, held>>

\* The answer to STOP is sent before the loop ends.
status_call(r) ==
  /\ r.opcode \in {"PING", "STATUS", "STOP"}
  /\ Answers(r, 0, 0, 0)
  /\ running' = (running /\ r.opcode # "STOP")
  /\ UNCHANGED <<job, ifaces, gs, html, held, callbacks>>

-----------------------------------------------------------------------------
(* A connection, and the end of the server.                                *)

answer_alone(r) == \/ get_auth_ticket(r) \/ get_callback(r)
                   \/ free_last_callback(r) \/ status_call(r)

answer_body(r, whole, item) ==
  \/ get_app_ticket(r, whole, item) \/ init_game_connection(r, whole, item)
  \/ game_server_calls(r, whole) \/ stats_without_client(r, whole)
  \/ html_call(r, whole) \/ native_call(r, whole)
  \/ matchmaking_call(r, whole) \/ get_api_call_result(r, whole, item)

\* The first message: not a request of this version, or answered at once, or
\* followed by a second one.
ReadRequest ==
  /\ pc = "request" /\ conn[current].inbox # <<>>
  /\ LET r == Head(conn[current].inbox) IN
     \/ /\ r.magic # MAGIC \/ r.version # VERSION
        /\ Hang(current, NoAnswer)
        /\ pc' = "loop" /\ current' = NoClient
        /\ UNCHANGED <<path, backlog>> /\ NothingElse
     \/ /\ r.magic = MAGIC /\ r.version = VERSION
        /\ body_struct(r.opcode) = NoBody
        /\ answer_alone(r)
     \/ /\ r.magic = MAGIC /\ r.version = VERSION
        /\ body_struct(r.opcode) # NoBody
        /\ conn' = [conn EXCEPT ![current].inbox = Tail(@)]
        /\ pc' = "body"
        /\ UNCHANGED <<path, backlog, current>> /\ NothingElse

ReadBody ==
  /\ pc = "body" /\ conn[current].inbox # <<>>
  /\ answer_body(header(conn[current].call.opcode, 1), TRUE,
                 Head(conn[current].inbox).item)

\* The client died before it sent what recv waits for.
ReadEnd ==
  /\ pc \in {"request", "body"}
  /\ conn[current].state = "dead" /\ conn[current].inbox = <<>>
  /\ \/ /\ pc = "request"
        /\ Hang(current, NoAnswer)
        /\ pc' = "loop" /\ current' = NoClient
        /\ UNCHANGED <<path, backlog>> /\ NothingElse
     \/ /\ pc = "body"
        /\ answer_body(header(conn[current].call.opcode, 1), FALSE, <<0, 0>>)

\* SIGTERM or SIGINT.
Signal ==
  /\ pc \in Serving /\ running
  /\ running' = FALSE
  /\ UNCHANGED <<job, pc, path, ifaces, gs, html, held, backlog, current, conn,
                 callbacks>>

Kill == pc \in Serving /\ Crash

\* close(listener) hangs up on those that were not accepted.
CloseListener ==
  /\ pc = "closing" /\ pc' = "unlinking"
  /\ path' = "socket" /\ backlog' = <<>>
  /\ conn' = [c \in Clients |-> Dies(conn[c])]
  /\ UNCHANGED <<job, running, ifaces, gs, html, held, current, callbacks>>

RemoveSocket ==
  /\ pc = "unlinking" /\ pc' = "releasing"
  /\ path' = safe_remove_socket.path
  /\ UNCHANGED <<job, running, ifaces, gs, html, held, backlog, current, conn,
                 callbacks>>

Release ==
  /\ pc = "releasing" /\ pc' = "exited"
  /\ held' = held \ ({"pipe", "user"} \cup (IF html THEN {"html"} ELSE {})
                     \cup (IF gs \in {"owned", "ready"}
                           THEN {"gs pipe", "gs user"} ELSE {}))
  /\ Gone
  /\ UNCHANGED <<job, running, path, ifaces, backlog, conn>>

ServerStep == \/ OpenSession \/ Listen \/ LoopTest \/ PollAgain \/ Accept
              \/ ReadRequest \/ ReadBody \/ ReadEnd
              \/ CloseListener \/ RemoveSocket \/ Release

ClientStep(c) == SendRequest(c) \/ SendBody(c) \/ ReadAnswer(c)

BridgeNext ==
  \/ ServerStep \/ PollFails \/ Signal \/ Kill
  \/ \E c \in Clients :
       \/ ClientStep(c) \/ Die(c)
       \/ \E call \in job.calls[c] : Connect(c, call)
  \/ \E p \in Pipes, m \in Callbacks : Post(p, m)

\* The server's thread runs, and a client that has connected goes on to send
\* its messages and to read its answer.
BridgeFairness ==
  WF_bridge(ServerStep) /\ \A c \in Clients : WF_bridge(ClientStep(c))

BridgeSpec == BridgeInit /\ [][BridgeNext]_bridge /\ BridgeFairness

-----------------------------------------------------------------------------
(* Properties.                                                             *)

\* What the program that made a call can take of an answer: what the message
\* holds, and no more than its caller's buffer.
Room(call) ==
  CASE call.opcode = "APP_TICKET_CALL" -> native_capacity(call.item[2])
    [] call.by = "proxy" /\ call.opcode \in {"GET_AUTH_TICKET",
                                             "INIT_GAME_CONNECTION"} ->
         native_capacity(call.item[1])
    [] OTHER -> payload[answer_struct(call.opcode)]

\* The calls whose size the server passes on without bounding it by the message.
PassedOn == {"GET_AUTH_TICKET", "INIT_GAME_CONNECTION", "UGC_CALL",
             "NETWORK_SOCKETS_CALL"}

Succeeded(call, answer) ==
  \/ answer.status = 0
  \/ /\ call.by = "tool" /\ call.opcode = "GET_CALLBACK"
     /\ answer.status = -EAGAIN

\* A client of the server's user and version that stays alive gets the answer
\* to the request it sent, and only the end of the server cuts it off, whoever
\* else connects, dies or is turned away.  Its program, client.c or the proxy,
\* takes the answer exactly when the server calls it a success; the one success
\* it refuses is a size the server only passed on and the program has no room
\* for.  What it takes always lies within the message and its caller's buffer.
ExchangeAgrees ==
  \A c \in Clients \ (job.foreign \cup job.outdated) :
    conn[c].hung /\ conn[c].state # "dead" =>
      LET call == conn[c].call  answer == conn[c].answer IN
      IF answer = NoAnswer THEN pc \notin Serving
      ELSE /\ Report(c) = "ok" <=>
                /\ Succeeded(call, answer)
                /\ call.opcode \in PassedOn => answer.size <= Room(call)
           /\ Report(c) = "ok" => answer.size <= Room(call)

\* A path that names a file or another user's socket is never replaced or
\* removed (safe_remove_socket, at the start and at the end).
UnsafePathKept == [][(path \in {"file", "foreign"}) => path' = path]_bridge

\* However the requests of several clients to get and to free callbacks of the
\* two pipes interleave, the server frees a callback only after it was sent to
\* a client that was there to read it, unless it is one of HTML's or no message
\* can carry it.  Only where a client can be killed in its request may the
\* callback have gone into an answer nobody was left to read: the server does
\* not look whether send failed, and anybody's FREE_CALLBACK then frees it.
NothingLost ==
  [][pc' \in Serving => \A p \in Pipes :
       \A i \in 1 .. Len(queue[p]) - Len(queue'[p]) :
         LET m == queue[p][i]
         IN  \/ m.mark = "sent" \/ Html(m) \/ Unsendable(m)
             \/ m.mark = "unread" /\ job.mortal # {}]_bridge

\* A callback that points into native memory is never put into an answer, not
\* even when the attempts of one request run out on such callbacks.
HtmlNeverDelivered ==
  \A p \in Pipes : \A i \in DOMAIN queue[p] :
    queue[p][i].mark # "new" => ~Html(queue[p][i])

\* Every ticket on its way to a client is one it can read within its bounds.
TicketsAreSafe ==
  \A c \in Clients :
    conn[c].hung /\ conn[c].answer # NoAnswer
                 /\ conn[c].call.opcode = "APP_TICKET_CALL" =>
      TicketSafe([status |-> conn[c].answer.status,
                  ticket |-> conn[c].answer.item], conn[c].call.item[2])

\* A server that leaves its loop (STOP, a signal, a failing poll or accept)
\* gives back its session, HTML's surface and the game server's handles, those
\* of a game server without an interface included, and leaves no socket behind.
\* What can be left to the end of the process is a lone pipe or user of a game
\* server that was only half created, which the code never gives back.
HandlesReleased ==
  pc = "exited" => /\ path = "nothing"
                   /\ held \subseteq {"gs pipe", "gs user", "lost user"}
                   /\ ~({"gs pipe", "gs user"} \subseteq held)

\* A client that has sent its request is not left waiting, and STOP and the
\* signals end the server, provided that a client the server has accepted goes
\* on to send its messages or dies: the server waits for it without a limit.
ClientsReturn ==
  /\ \A c \in Clients : conn[c].state = "waiting" ~> conn[c].state # "waiting"
  /\ ~running ~> pc \in {"exited", "crashed"}
=============================================================================
