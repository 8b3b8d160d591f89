---------------------------- MODULE BridgeProofs ----------------------------
(***************************************************************************)
(* What the bridge server and its clients promise one another, proved for  *)
(* any number of clients, requests, callbacks and attempts and for every   *)
(* word size: SteamBridge's safety properties.                             *)
(***************************************************************************)
EXTENDS SteamBridge, WellFoundedInduction, TLAPS

-----------------------------------------------------------------------------
(* The inductive invariant, in three parts that are proved one after the   *)
(* other: the native handles and the socket's path, the callbacks, and the *)
(* connections.                                                            *)

\* Where the server is when it has begun to end, and never serves again.
Ended == {"unlinking", "releasing", "exited", "crashed"}

\* What may be left of a game server that was only half created.
LeftOver(h) == /\ h \subseteq {"gs pipe", "gs user", "lost user"}
               /\ ~({"gs pipe", "gs user"} \subseteq h)

\* The handles the server's state accounts for, and those it has forgotten.
Known(h, state, surface) ==
  h \subseteq {"pipe", "user", "lost user"} \cup HandlesOf(state)
                \cup (IF surface THEN {"html"} ELSE {})

\* Every native handle but a forgotten one is one the server still knows of,
\* and the path is clear once it was removed.
HandlesInv ==
  /\ html \in BOOLEAN /\ gs \in {"none", "pipe", "user", "owned", "ready"}
  /\ IF pc = "exited" THEN LeftOver(held) ELSE Known(held, gs, html)
  /\ pc = "unlinking" => path = "socket"
  /\ pc \in {"releasing", "exited"} => path = "nothing"
  /\ pc \notin {"start", "replace", "failed"} => path \notin {"file", "foreign"}

\* The queues of the two pipes, and the callbacks in them.  None is put into an
\* answer nobody reads where no client can be killed.
Marks == {"new", "sent"} \cup (IF job.mortal = {} THEN {} ELSE {"unread"})
Ids == {m.id : m \in Callbacks}
Sizes == {m.size : m \in Callbacks}
Datas == {m.data : m \in Callbacks}
Messages == [id : Ids, size : Sizes, data : Datas, mark : Marks]
Queues == [Pipes -> Seq(Messages)]

\* The callback that FREE_CALLBACK would free is still the oldest of its pipe
\* and was put into an answer; and none of HTML's ever was.
CallbacksInv ==
  /\ queue \in Queues
  /\ HtmlNeverDelivered
  /\ callback_pipe # NoPipe =>
       /\ callback_pipe \in Pipes
       /\ queue[callback_pipe] # <<>> /\ queue[callback_pipe][1].mark # "new"

\* The two messages of a client's request.
First(c) == [header(conn[c].call.opcode, 1) EXCEPT !.version = version_of(c)]
Second(c) == [item |-> sent_item(conn[c].call)]

\* The server has read the first message of c and waits for the second.
HalfRead(c) == pc = "body" /\ current = c

\* What is in the inbox of the server's end is what the client has sent and
\* the server has not read.
InboxInv(c) ==
  /\ \/ conn[c].inbox = <<>>
     \/ HalfRead(c) /\ conn[c].inbox = <<Second(c)>>
     \/ ~HalfRead(c) /\ conn[c].inbox = <<First(c)>>
     \/ ~HalfRead(c) /\ conn[c].inbox = <<First(c), Second(c)>>
  /\ conn[c].state \in {"idle", "connected"} => conn[c].inbox = <<>>
  /\ conn[c].state = "half" /\ ~conn[c].hung =>
       conn[c].inbox = IF HalfRead(c) THEN <<>> ELSE <<First(c)>>

\* The answer to call k, and what holds of its numbers: a size that is not the
\* native client's lies within the room there is, a result has the size that
\* was asked for, and a ticket is one the proxy takes.
IsAnswer(a, k, status, size, item) ==
  a = [struct |-> answer_struct(k.opcode), magic |-> MAGIC,
       version |-> VERSION, opcode |-> k.opcode, sequence |-> 1,
       status |-> status, size |-> size, item |-> item]

AnswerHas(a, k, status, size, item) ==
  /\ a.struct = answer_struct(k.opcode) /\ a.magic = MAGIC
  /\ a.version = VERSION /\ a.opcode = k.opcode /\ a.sequence = 1
  /\ a.status = status /\ a.size = size /\ a.item = item

Bounded(k, status, size, item) ==
  /\ size \in Nat
  /\ k.opcode \notin PassedOn => size <= Room(k)
  /\ k.opcode = "GET_API_CALL_RESULT" /\ status = 0 => size = sent_item(k)[1]
  /\ k.opcode = "APP_TICKET_CALL" =>
       /\ TicketSafe([status |-> status, ticket |-> item], k.item[2])
       /\ status = 0 => proxy_takes_ticket(item, k.item[2])

RightAnswer(k, answer) ==
  /\ k \in Call
  /\ \E status, size, item : /\ IsAnswer(answer, k, status, size, item)
                             /\ Bounded(k, status, size, item)

\* A closed connection has the answer to its request, or none because its
\* client is one that is turned away, or because the server is ending.
AnswerInv(c) ==
  \/ /\ conn[c].answer = NoAnswer
     /\ c \in job.foreign \cup job.outdated \/ pc \in Ended
  \/ RightAnswer(conn[c].call, conn[c].answer)

\* The fields of a connection.
IsConn(r, s, k, in, h, a) ==
  r = [state |-> s, call |-> k, inbox |-> in, hung |-> h, answer |-> a]
HasFields(r, s, k, in, h, a) ==
  r.state = s /\ r.call = k /\ r.inbox = in /\ r.hung = h /\ r.answer = a
Whole(r) == IsConn(r, r.state, r.call, r.inbox, r.hung, r.answer)

ConnInv(c) ==
  /\ Whole(conn[c])
  /\ conn[c].state \in {"idle", "connected", "half", "waiting", "dead"}
  /\ conn[c].state # "idle" => conn[c].call \in Call
  /\ conn[c].state = "dead" => c \in job.mortal
  /\ conn[c].hung \in BOOLEAN
  /\ HalfRead(c) => /\ ~conn[c].hung
                    /\ conn[c].state \in {"half", "waiting", "dead"}
  /\ InboxInv(c)
  /\ IF conn[c].hung THEN conn[c].inbox = <<>> /\ AnswerInv(c)
     ELSE conn[c].answer = NoAnswer

ConnsInv ==
  /\ job \in Jobs
  /\ backlog \in Seq(Clients)
  /\ pc \in {"request", "body"} => current \in Clients
  /\ conn = [c \in Clients |-> conn[c]]
  /\ \A c \in Clients : ConnInv(c)

-----------------------------------------------------------------------------
(* The native handles.                                                     *)

\* A request that takes no handle: those it leaves alone, and the loop goes on.
KeepsHandles == pc' = "loop" /\ UNCHANGED <<path, gs, html, held>>

\* The elements of a sequence.
LEMMA ElementOfSeq ==
  ASSUME NEW S, NEW t \in Seq(S), NEW i \in 1 .. Len(t) PROVE t[i] \in S
OBVIOUS

\* Of the requests answered at once, none takes a handle.
LEMMA AloneKeepsHandles ==
  ASSUME NEW r, answer_alone(r) PROVE KeepsHandles
BY Zenon DEF answer_alone, get_auth_ticket, get_callback, free_last_callback,
             status_call, Answers, NothingElse, KeepsHandles

\* Creating the game server's handles, or the missing one of them, keeps the
\* handles known.
LEMMA CreationKeeps ==
  ASSUME NEW new \in GameServerOutcomes, Known(held, gs, html),
         gs \in {"none", "pipe", "user", "owned", "ready"}
  PROVE  /\ new \in {"none", "pipe", "user", "owned", "ready"}
         /\ Known(HandlesWith(new), new, html)
<1>1. CASE gs = "none"
  BY <1>1, ZenonT(40) DEF GameServerOutcomes, Known, HandlesWith, HandlesOf
<1>2. CASE gs = "user"
  <2>1. held \subseteq {"pipe", "user", "lost user", "gs user"}
                         \cup (IF html THEN {"html"} ELSE {})
    BY <1>2, Zenon DEF Known, HandlesOf
  <2>2. new \in {"none", "pipe", "user", "owned", "ready"}
    BY <1>2 DEF GameServerOutcomes
  <2> QED
    BY <1>2, <2>1, <2>2, ZenonT(40) DEF Known, HandlesWith
<1>3. CASE gs \in {"pipe", "owned", "ready"}
  <2>1. /\ new \in {"pipe", "owned", "ready"}
        /\ HandlesOf(gs) \subseteq HandlesOf(new)
    BY <1>3, Zenon DEF GameServerOutcomes, HandlesOf
  <2> QED
    BY <1>3, <2>1, ZenonT(40) DEF Known, HandlesWith
<1> QED
  BY <1>1, <1>2, <1>3, Zenon

\* Of those with a second message, three may.
LEMMA BodyHandles ==
  ASSUME NEW r, NEW whole \in BOOLEAN, NEW item, HandlesInv, pc = "body",
         answer_body(r, whole, item)
  PROVE  HandlesInv'
<1>0. ASSUME NEW new \in GameServerOutcomes, ensure_game_server(new),
             pc' = "loop", UNCHANGED <<path, html>>
      PROVE  HandlesInv'
  <2>1. Known(held', new, html) /\ new \in {"none", "pipe", "user", "owned", "ready"}
    BY <1>0, CreationKeeps, Zenon DEF HandlesInv, ensure_game_server
  <2> QED
    BY <1>0, <2>1, Zenon DEF HandlesInv, ensure_game_server
<1>1. ASSUME KeepsHandles PROVE HandlesInv'
  BY <1>1, Zenon DEF KeepsHandles, HandlesInv
<1>2. CASE get_app_ticket(r, whole, item)
  BY <1>1, <1>2, Zenon DEF get_app_ticket, Answers, KeepsHandles
<1>3. CASE \/ init_game_connection(r, whole, item)
           \/ native_call(r, whole) \/ matchmaking_call(r, whole)
           \/ get_api_call_result(r, whole, item)
  BY <1>1, <1>3, Zenon
  DEF init_game_connection, native_call, matchmaking_call,
      get_api_call_result, Answers, NothingElse, KeepsHandles
<1>4. ASSUME Crash PROVE HandlesInv'
  BY <1>4, Zenon DEF Crash, Gone, HandlesInv, Known
<1>5. CASE game_server_calls(r, whole)
  <2>1. pc' = "loop" /\ UNCHANGED <<path, html>>
    BY <1>5, Zenon DEF game_server_calls, Answers
  <2>2. \/ UNCHANGED <<gs, held>>
        \/ \E new \in GameServerOutcomes : ensure_game_server(new)
    BY <1>5, Zenon DEF game_server_calls
  <2>3. CASE UNCHANGED <<gs, held>>
    BY <1>1, <2>1, <2>3 DEF KeepsHandles
  <2>4. CASE \E new \in GameServerOutcomes : ensure_game_server(new)
    BY <1>0, <2>1, <2>4, Zenon
  <2> QED
    BY <2>2, <2>3, <2>4
<1>6. CASE stats_without_client(r, whole)
  <2>1. CASE \E new \in GameServerOutcomes \ {"owned", "ready"} :
               ensure_game_server(new) /\ pc' = "loop" /\ UNCHANGED <<path, html>>
    BY <1>0, <2>1, Zenon
  <2> QED
    BY <1>4, <1>6, <2>1, Zenon DEF stats_without_client, Answers
<1>7. CASE html_call(r, whole)
  <2>1. pc' = "loop" /\ UNCHANGED <<path, gs>>
    BY <1>7, Zenon DEF html_call, Answers
  <2>2. PICK init \in {html, TRUE} :
          /\ html' = init
          /\ held' = IF init THEN held \cup {"html"} ELSE held
    BY <1>7, Zenon DEF html_call
  <2>3. Known(held, gs, html) /\ html \in BOOLEAN
    BY Zenon DEF HandlesInv
  <2>4. Known(held', gs, html')
    BY <2>2, <2>3, Zenon DEF Known
  <2> QED
    BY <2>1, <2>2, <2>3, <2>4, Zenon DEF HandlesInv
<1> QED
  BY <1>2, <1>3, <1>5, <1>6, <1>7, Zenon DEF answer_body

\* Every step keeps the handles accounted for.
LEMMA HandlesStep ==
  ASSUME HandlesInv, [BridgeNext]_bridge PROVE HandlesInv'
<1>1. CASE /\ UNCHANGED <<path, gs, html, held>>
           /\ pc \in Serving /\ pc' \notin Ended
  BY <1>1, Zenon DEF HandlesInv, Ended, Serving
<1>2. CASE UNCHANGED bridge
  BY <1>2 DEF bridge, server, HandlesInv
<1>3. CASE OpenSession
  BY <1>3, Zenon DEF OpenSession, HandlesInv, Known
<1>4. CASE Listen
  BY <1>4 DEF Listen, HandlesInv, safe_remove_socket
<1>5. CASE LoopTest \/ PollAgain \/ PollFails \/ Accept
  BY <1>1, <1>5 DEF LoopTest, PollAgain, PollFails, Accept, Ended, Serving
<1>6. CASE ReadRequest
  <2>1. CASE pc' \in {"loop", "body"} /\ UNCHANGED <<path, gs, html, held>>
    BY <1>1, <1>6, <2>1 DEF Ended, ReadRequest, Serving
  <2>2. CASE \E r : answer_alone(r)
    <3>1. KeepsHandles
      BY <2>2, AloneKeepsHandles, Zenon
    <3> QED
      BY <1>1, <1>6, <3>1 DEF KeepsHandles, Ended, ReadRequest, Serving
  <2> QED
    BY <1>6, <2>1, <2>2, Zenon DEF ReadRequest, NothingElse
<1>7. CASE ReadBody
  BY <1>7, BodyHandles, Zenon DEF ReadBody
<1>8. CASE ReadEnd
  <2>1. CASE pc' = "loop" /\ UNCHANGED <<path, gs, html, held>>
    BY <1>1, <1>8, <2>1 DEF Ended, ReadEnd, Serving
  <2>2. CASE /\ pc = "body"
             /\ answer_body(header(conn[current].call.opcode, 1), FALSE,
                            <<0, 0>>)
    BY <2>2, BodyHandles, Zenon
  <2> QED
    BY <1>8, <2>1, <2>2, Zenon DEF ReadEnd, NothingElse
<1>9. CASE CloseListener
  BY <1>9 DEF CloseListener, HandlesInv
<1>10. CASE RemoveSocket
  BY <1>10 DEF RemoveSocket, HandlesInv, safe_remove_socket
<1>11. CASE Release
  <2>1. Known(held, gs, html) /\ path = "nothing"
    BY <1>11, Zenon DEF Release, HandlesInv
  <2>2. LeftOver(held')
    <3>1. held' = held \ ({"pipe", "user"} \cup (IF html THEN {"html"} ELSE {})
                     \cup (IF gs \in {"owned", "ready"}
                           THEN {"gs pipe", "gs user"} ELSE {}))
      BY <1>11, Zenon DEF Release
    <3>2. \/ HandlesOf(gs) \subseteq {"gs pipe"}
          \/ HandlesOf(gs) \subseteq {"gs user"}
          \/ gs \in {"owned", "ready"} /\ HandlesOf(gs) = {"gs pipe", "gs user"}
      BY Zenon DEF HandlesInv, HandlesOf
    <3> QED
      BY <2>1, <3>1, <3>2, Zenon DEF Known, LeftOver
  <2>3. pc' = "exited" /\ path' = path /\ html' = FALSE /\ gs' = "none"
    BY <1>11, Zenon DEF Release, Gone
  <2> QED
    BY <2>1, <2>2, <2>3, Zenon DEF HandlesInv
<1>12. CASE Kill
  BY <1>12, Zenon DEF Kill, Crash, Gone, HandlesInv, Serving, Known
<1>13. CASE \/ Signal
            \/ \E c \in Clients :
                 \/ ClientStep(c) \/ Die(c)
                 \/ \E call \in job.calls[c] : Connect(c, call)
            \/ \E p \in Pipes, m \in Callbacks : Post(p, m)
  <2>1. UNCHANGED <<pc, path, gs, html, held>>
    BY <1>13, Zenon DEF Signal, ClientStep, SendRequest, SendBody, ReadAnswer, Die,
                        Connect, Post, server
  <2> QED
    BY <2>1 DEF HandlesInv
<1> QED
  BY <1>2, <1>3, <1>4, <1>5, <1>6, <1>7, <1>8, <1>9, <1>10, <1>11, <1>12, <1>13,
     Zenon DEF BridgeNext, ServerStep

\* A server that leaves its loop gives back its session, the surface and every
\* game server it has created in full, and leaves no socket behind, whichever
\* of these were created on the way; only the lone half of a game server's
\* handles stays.
THEOREM HandlesAreReleased == BridgeSpec => []HandlesReleased
<1>1. BridgeInit => HandlesInv
  BY Zenon DEF BridgeInit, HandlesInv, Known
<1>2. HandlesInv => HandlesReleased
  BY Zenon DEF HandlesInv, HandlesReleased, LeftOver
<1> QED
  BY <1>1, <1>2, HandlesStep, PTL DEF BridgeSpec

\* What is at the path and is not a socket of the server's user stays there,
\* from the start to the end.
THEOREM UnsafePathsAreKept == BridgeSpec => UnsafePathKept
<1>1. BridgeInit => HandlesInv
  BY Zenon DEF BridgeInit, HandlesInv, Known
<1>2. ASSUME HandlesInv, path \in {"file", "foreign"}, BridgeNext
      PROVE  path' = path
  <2>1. pc \in {"start", "replace", "failed"}
    BY <1>2, Zenon DEF HandlesInv
  <2>3. CASE OpenSession \/ Listen
    BY <1>2, <2>1, <2>3, Zenon DEF OpenSession, Listen, safe_remove_socket
  <2>4. CASE \/ LoopTest \/ PollAgain \/ Accept \/ ReadRequest \/ ReadBody
             \/ ReadEnd \/ CloseListener \/ RemoveSocket \/ Release
             \/ PollFails \/ Signal \/ Kill
    BY <2>1, <2>4, Zenon
    DEF LoopTest, PollAgain, Accept, ReadRequest, ReadBody, ReadEnd,
        CloseListener, RemoveSocket, Release, PollFails, Signal, Kill, Serving
  <2>5. CASE \/ \E c \in Clients :
                  \/ ClientStep(c) \/ Die(c)
                  \/ \E call \in job.calls[c] : Connect(c, call)
             \/ \E p \in Pipes, m \in Callbacks : Post(p, m)
    BY <2>5, Zenon DEF ClientStep, SendRequest, SendBody, ReadAnswer, Die,
                       Connect, Post, server
  <2> QED
    BY <1>2, <2>3, <2>4, <2>5, Zenon DEF BridgeNext, ServerStep
<1> DEFINE Kept == (path \in {"file", "foreign"}) => path' = path
<1>3. HandlesInv /\ [BridgeNext]_bridge => [Kept]_bridge
  BY <1>2, Zenon
<1> QED
  BY <1>1, <1>3, HandlesStep, PTL DEF BridgeSpec, UnsafePathKept

-----------------------------------------------------------------------------
(* The loop of get_callback, a recursive function on 0 .. Attempts.  The   *)
(* induction is stated for sets, so that no proof has to instantiate an    *)
(* operator.                                                               *)

\* A nonempty set of naturals has a least element.
LEMMA LeastElement ==
  ASSUME NEW T, T \subseteq Nat, T # {}
  PROVE  \E x \in T : \A y \in T : x <= y
<1> DEFINE R == OpToRel(<, Nat)
<1>1. IsWellFoundedOn(R, Nat)
  BY NatLessThanWellFounded, Zenon
<1> HIDE DEF R
<1>2. \E x \in T : \A y \in T : ~ (<<y, x>> \in R)
  BY <1>1, WFMin, Zenon
<1>3. PICK x \in T : \A y \in T : ~ (<<y, x>> \in R)
  BY <1>2
<1>4. \A y \in T : ~(y < x)
  BY <1>3, Zenon DEF R, OpToRel
<1> QED
  BY <1>4

\* Induction up to a bound, for a set in place of a predicate.
LEMMA UpTo ==
  ASSUME NEW n \in Nat, NEW S, 0 \in S, \A i \in 1 .. n : i - 1 \in S => i \in S
  PROVE  0 .. n \subseteq S
<1> SUFFICES ASSUME (0 .. n) \ S # {} PROVE FALSE
  OBVIOUS
<1>1. PICK x \in (0 .. n) \ S : \A y \in (0 .. n) \ S : x <= y
  <2>1. (0 .. n) \ S \subseteq Nat
    OBVIOUS
  <2> QED
    BY <2>1, LeastElement, Zenon
<1>2. x \in 1 .. n /\ x - 1 \in 0 .. n /\ ~(x <= x - 1)
  OBVIOUS
<1> QED
  BY <1>1, <1>2

\* The runs of a loop of n rounds over a set D of states: w[i] is the state
\* after i rounds of g.
Runs(D, a, n, g) ==
  {w \in [0 .. n -> D] : w[0] = a /\ \A i \in 1 .. n : w[i] = g[w[i - 1]]}

\* A round that stays within D can be repeated n times.
LEMMA LoopRuns ==
  ASSUME NEW D, NEW a \in D, NEW n \in Nat, NEW g \in [D -> D]
  PROVE  Runs(D, a, n, g) # {}
<1> DEFINE Run(m, w) == w[0] = a /\ \A i \in 1 .. m : w[i] = g[w[i - 1]]
           S == {m \in 0 .. n : \E w \in [0 .. m -> D] : Run(m, w)}
<1>1. 0 \in S
  <2>1. [i \in 0 .. 0 |-> a] \in [0 .. 0 -> D] /\ Run(0, [i \in 0 .. 0 |-> a])
    OBVIOUS
  <2>2. 0 \in 0 .. n
    OBVIOUS
  <2> QED
    BY <2>1, <2>2, Zenon
<1>2. ASSUME NEW m \in 1 .. n, m - 1 \in S PROVE m \in S
  <2>1. PICK w \in [0 .. m - 1 -> D] : Run(m - 1, w)
    BY <1>2
  <2> DEFINE b == g[w[m - 1]]
             v == [i \in 0 .. m |-> IF i = m THEN b ELSE w[i]]
  <2>2. b \in D
    OBVIOUS
  <2>3. v \in [0 .. m -> D]
    BY <2>2
  <2>4. Run(m, v)
    BY <2>1
  <2>5. m \in 0 .. n
    OBVIOUS
  <2> QED
    BY <2>3, <2>4, <2>5, Zenon
<1>3. 0 .. n \subseteq S
  <2> HIDE DEF S
  <2> QED
    BY <1>1, <1>2, UpTo, Zenon
<1> QED
  BY <1>3 DEF Runs

\* t is what is left of q after some callbacks of HTML were freed.
Skipped(q, t) ==
  \E d \in 0 .. Len(q) :
    /\ Len(t) = Len(q) - d
    /\ \A i \in 1 .. Len(t) : t[i] = q[i + d]
    /\ \A i \in 1 .. d : Html(q[i])

\* Where a search of get_callback may be after some attempts: only callbacks
\* of HTML are gone, and a callback it has found is not one of them.
Searches ==
  {s \in [queue : Queues, pipe : Pipes \cup {NoPipe}, have : BOOLEAN,
          done : BOOLEAN] :
     /\ \A p \in Pipes : Skipped(queue[p], s.queue[p])
     /\ IF s.have
        THEN /\ s.pipe \in Pipes /\ s.queue[s.pipe] # <<>>
             /\ ~Html(Head(s.queue[s.pipe]))
        ELSE \/ s.pipe = NoPipe
             \/ s.pipe = callback_pipe /\ s.queue = queue}

\* One more callback of HTML is freed.
LEMMA SkipOne ==
  ASSUME NEW S, NEW q \in Seq(S), NEW t \in Seq(S), Skipped(q, t), t # <<>>,
         Html(Head(t))
  PROVE  Skipped(q, Tail(t))
<1>1. PICK d \in 0 .. Len(q) : /\ Len(t) = Len(q) - d
                               /\ \A i \in 1 .. Len(t) : t[i] = q[i + d]
                               /\ \A i \in 1 .. d : Html(q[i])
  BY Zenon DEF Skipped
<1>2. /\ Len(t) > 0 /\ Head(t) = t[1] /\ Len(Tail(t)) = Len(t) - 1
      /\ \A i \in 1 .. Len(t) - 1 : Tail(t)[i] = t[i + 1]
  OBVIOUS
<1>3. d + 1 \in 0 .. Len(q) /\ Len(Tail(t)) = Len(q) - (d + 1)
  BY <1>1, <1>2
<1>4. ASSUME NEW i \in 1 .. Len(Tail(t)) PROVE Tail(t)[i] = q[i + (d + 1)]
  <2>1. i \in 1 .. Len(t) - 1 /\ i + 1 \in 1 .. Len(t) /\ (i + 1) + d = i + (d + 1)
    BY <1>2
  <2>2. Tail(t)[i] = t[i + 1] /\ t[i + 1] = q[(i + 1) + d]
    BY <1>1, <1>2, <2>1, Zenon
  <2> QED
    BY <2>1, <2>2, Zenon
<1>5. t[1] = q[d + 1]
  BY <1>1, <1>2
<1>6. \A i \in 1 .. d + 1 : Html(q[i])
  BY <1>1, <1>2, <1>5
<1> QED
  BY <1>3, <1>4, <1>6, Zenon DEF Skipped

\* One attempt keeps a search within those.
LEMMA LookKeeps ==
  ASSUME queue \in Queues, NEW s \in Searches
  PROVE  look_once(s) \in Searches
<1> DEFINE p == next_pipe(s.queue)
           t == s.queue[p]
<1>1. s = Look(s.queue, s.pipe, s.have, s.done)
  BY DEF Searches, Look
<1>2. /\ s.queue \in Queues /\ s.pipe \in Pipes \cup {NoPipe}
      /\ s.have \in BOOLEAN /\ s.done \in BOOLEAN
      /\ \A k \in Pipes : Skipped(queue[k], s.queue[k])
  BY Zenon DEF Searches
<1>3. CASE s.done \/ p = NoPipe
  <2>1. look_once(s) = Look(s.queue, s.pipe, s.have, TRUE)
    BY <1>1, <1>3, Zenon DEF look_once, Look
  <2> QED
    BY <2>1 DEF Searches, Look
<1>4. CASE ~s.done /\ p # NoPipe
  <2>1. p \in Pipes /\ t # <<>>
    BY <1>4 DEF next_pipe, Pipes
  <2>2. queue[p] \in Seq(Messages) /\ t \in Seq(Messages)
    BY <1>2, <2>1 DEF Queues
  <2>3. CASE Html(Head(t))
    <3> DEFINE new == free_callback(s.queue, p)
    <3>1. look_once(s) = Look(new, NoPipe, FALSE, FALSE)
      BY <1>4, <2>3, Zenon DEF look_once
    <3>2. Skipped(queue[p], Tail(t))
      <4>1. Skipped(queue[p], t)
        BY <1>2, <2>1, Zenon
      <4> DEFINE q == queue[p]
      <4> HIDE DEF p, t, q
      <4>2. Skipped(q, Tail(t))
        BY <2>1, <2>2, <2>3, <4>1, SkipOne, Zenon DEF q
      <4> QED
        BY <4>2, Zenon DEF q
    <3>3. Tail(t) \in Seq(Messages)
      BY <2>1, <2>2
    <3>4. new = [k \in Pipes |-> IF k = p THEN Tail(t) ELSE s.queue[k]]
      BY <1>2, <2>1, Zenon DEF free_callback, Queues
    <3>5. new \in Queues /\ \A k \in Pipes : Skipped(queue[k], new[k])
      BY <1>2, <3>2, <3>3, <3>4, Zenon DEF Queues
    <3> HIDE DEF new
    <3> QED
      BY <3>1, <3>5 DEF Searches, Look
  <2>4. CASE ~Html(Head(t))
    <3>1. look_once(s) = Look(s.queue, p, TRUE, TRUE)
      BY <1>4, <2>4, Zenon DEF look_once
    <3> HIDE DEF p
    <3> QED
      BY <1>2, <2>1, <2>4, <3>1 DEF Searches, Look
  <2> QED
    BY <2>3, <2>4
<1> QED
  BY <1>3, <1>4, Zenon

\* What get_callback ends its search with.
LEMMA SearchEnds ==
  ASSUME queue \in Queues, callback_pipe \in Pipes \cup {NoPipe}
  PROVE  attempts_made[Attempts] \in Searches
<1> DEFINE n == Attempts
           a == Look(queue, callback_pipe, FALSE, FALSE)
           g == [s \in Searches |-> look_once(s)]
           Def(w) == [i \in 0 .. n |-> IF i = 0 THEN a ELSE look_once(w[i - 1])]
           F == CHOOSE w : w = Def(w)
           S == {i \in 0 .. n : F[i] \in Searches}
<1>1. n \in Nat
  BY BridgeAssumptions
<1>2. a \in Searches
  <2>1. \A p \in Pipes : Skipped(queue[p], queue[p])
    <3> SUFFICES ASSUME NEW p \in Pipes PROVE Skipped(queue[p], queue[p])
      OBVIOUS
    <3>1. Len(queue[p]) \in Nat
      BY DEF Queues
    <3>2. 0 \in 0 .. Len(queue[p])
      BY <3>1
    <3> QED
      BY <3>1, <3>2 DEF Skipped
  <2> QED
    BY <2>1, Zenon DEF Searches, Look
<1>3. g \in [Searches -> Searches]
  BY LookKeeps, Zenon
<1> HIDE DEF n, a
<1>4. PICK w \in [0 .. n -> Searches] :
        w[0] = a /\ \A i \in 1 .. n : w[i] = g[w[i - 1]]
  <2> DEFINE D == Searches
  <2>1. a \in D /\ n \in Nat /\ g \in [D -> D]
    BY <1>1, <1>2, <1>3, Zenon
  <2> HIDE DEF g, D
  <2>2. Runs(D, a, n, g) # {}
    BY <2>1, LoopRuns, Zenon
  <2> QED
    BY <2>2, Zenon DEF D, Runs
<1>5. ASSUME NEW i \in 1 .. n PROVE w[i] = look_once(w[i - 1])
  <2>1. w[i - 1] \in Searches
    BY <1>1
  <2>2. w[i] = g[w[i - 1]]
    BY <1>4, Zenon
  <2> QED
    BY <2>1, <2>2, Zenon
<1>6. w = Def(w)
  BY <1>1, <1>4, <1>5
<1>7. F = Def(F)
  <2> HIDE DEF Def
  <2> QED
    BY <1>6, Zenon
<1>8. attempts_made = F
  BY DEF attempts_made, n, a
<1> HIDE DEF F
<1>9. F[0] = a /\ \A i \in 1 .. n : F[i] = look_once(F[i - 1])
  BY <1>1, <1>7
<1>10. 0 \in S /\ \A i \in 1 .. n : i - 1 \in S => i \in S
  BY <1>1, <1>2, <1>9, LookKeeps
<1>11. 0 .. n \subseteq S
  <2> HIDE DEF S
  <2> QED
    BY <1>1, <1>10, UpTo, Zenon
<1> QED
  BY <1>1, <1>8, <1>11 DEF n

-----------------------------------------------------------------------------
(* The callbacks.                                                          *)

\* The process has ended and its pipes with it.
PipesGone == /\ queue' = [p \in Pipes |-> <<>>] /\ callback_pipe' = NoPipe
             /\ pc' \notin Serving

\* Who changes the queues: the native client, the two requests that are about
\* callbacks, and the end of the process.
LEMMA CallbackSteps ==
  ASSUME [BridgeNext]_bridge
  PROVE  \/ UNCHANGED callbacks
         \/ \E p \in Pipes, m \in Callbacks : Post(p, m)
         \/ pc = "request" /\ \E r : get_callback(r) \/ free_last_callback(r)
         \/ PipesGone
<1>1. ASSUME Crash PROVE PipesGone
  BY <1>1 DEF Crash, Gone, PipesGone, Serving
<1>2. ASSUME NEW r, NEW whole, NEW item, answer_body(r, whole, item)
      PROVE  UNCHANGED callbacks \/ PipesGone
  BY <1>1, <1>2, Zenon
  DEF answer_body, get_app_ticket, init_game_connection, game_server_calls,
      stats_without_client, html_call, native_call, matchmaking_call,
      get_api_call_result, NothingElse
<1>3. CASE UNCHANGED bridge
  BY <1>3, Zenon DEF bridge
<1>4. CASE \/ OpenSession \/ Listen \/ LoopTest \/ PollAgain \/ PollFails
           \/ Accept \/ CloseListener \/ RemoveSocket \/ Signal
  BY <1>4, Zenon
  DEF OpenSession, Listen, LoopTest, PollAgain, PollFails, Accept,
      CloseListener, RemoveSocket, Signal
<1>5. CASE ReadRequest
  BY <1>5, Zenon DEF ReadRequest, answer_alone, get_auth_ticket, status_call,
                     NothingElse
<1>6. CASE ReadBody
  BY <1>2, <1>6, Zenon DEF ReadBody
<1>7. CASE ReadEnd
  BY <1>2, <1>7, Zenon DEF ReadEnd, NothingElse
<1>8. CASE Release
  BY <1>8, Zenon DEF Release, Gone, PipesGone, Serving
<1>9. CASE Kill
  BY <1>1, <1>9, Zenon DEF Kill
<1>10. CASE \E c \in Clients :
              \/ ClientStep(c) \/ Die(c)
              \/ \E call \in job.calls[c] : Connect(c, call)
  BY <1>10, Zenon DEF ClientStep, SendRequest, SendBody, ReadAnswer, Die, Connect
<1> QED
  BY <1>3, <1>4, <1>5, <1>6, <1>7, <1>8, <1>9, <1>10, Zenon
  DEF BridgeNext, ServerStep

\* What the clients ask is settled at the start, and so is who can be killed.
LEMMA JobStays ==
  ASSUME [BridgeNext]_bridge PROVE job' = job /\ Queues' = Queues
<1>1. ASSUME NEW r, NEW whole, NEW item, answer_body(r, whole, item)
      PROVE  job' = job
  BY <1>1, Zenon
  DEF answer_body, get_app_ticket, init_game_connection, game_server_calls,
      stats_without_client, html_call, native_call, matchmaking_call,
      get_api_call_result, NothingElse, Crash
<1>2. ASSUME ReadRequest \/ ReadBody \/ ReadEnd PROVE job' = job
  BY <1>1, <1>2, Zenon
  DEF ReadRequest, ReadBody, ReadEnd, NothingElse, answer_alone, get_callback,
      get_auth_ticket, free_last_callback, status_call
<1>3. job' = job
  BY <1>2, Zenon
  DEF bridge, BridgeNext, ServerStep, ClientStep, OpenSession, Listen, LoopTest,
      PollAgain, PollFails, Accept, CloseListener, RemoveSocket, Release,
      Signal, Kill, Crash, SendRequest, SendBody, ReadAnswer, Die, Connect, Post
<1> QED
  BY <1>3, Zenon DEF Queues, Messages, Marks

\* No callback of HTML in this queue was put into an answer.
Unsent(q) == \A i \in 1 .. Len(q) : q[i].mark # "new" => ~Html(q[i])

\* HtmlNeverDelivered, queue by queue.
LEMMA QueuesUnsent ==
  ASSUME NEW q \in Queues
  PROVE  (\A p \in Pipes : \A i \in DOMAIN q[p] :
            q[p][i].mark # "new" => ~Html(q[p][i]))
           <=> \A p \in Pipes : Unsent(q[p])
BY DEF Queues, Unsent

\* A callback that may be gone from the front of its pipe: one of HTML's, one
\* that no message can carry, or one that was put into an answer, which was
\* read unless a client can be killed.
Freed(m) == \/ m.mark = "sent" \/ Html(m) \/ Unsendable(m)
            \/ m.mark = "unread" /\ job.mortal # {}
Spent(q, new) == \A i \in 1 .. Len(q) - Len(new) : Freed(q[i])

\* What is left after the skipped ones were sent to nobody.
LEMMA SkippedIsSpent ==
  ASSUME NEW q \in Seq(Messages), NEW t \in Seq(Messages), Skipped(q, t), Unsent(q)
  PROVE  /\ Spent(q, t) /\ Unsent(t)
         /\ t # <<>> => Unsent(Tail(t))
         /\ t # <<>> /\ Unsendable(Head(t)) => Spent(q, Tail(t))
<1>1. PICK d \in 0 .. Len(q) : /\ Len(t) = Len(q) - d
                               /\ \A i \in 1 .. Len(t) : t[i] = q[i + d]
                               /\ \A i \in 1 .. d : Html(q[i])
  BY Zenon DEF Skipped
<1>2. Spent(q, t)
  <2>1. Len(q) - Len(t) = d
    BY <1>1
  <2> QED
    BY <1>1, <2>1, Zenon DEF Spent, Freed
<1>3. ASSUME NEW i \in 1 .. Len(t), t[i].mark # "new" PROVE ~Html(t[i])
  <2>1. i + d \in 1 .. Len(q) /\ t[i] = q[i + d]
    BY <1>1
  <2> QED
    BY <1>3, <2>1, Zenon DEF Unsent
<1>4. ASSUME t # <<>>, Unsendable(Head(t)) PROVE Spent(q, Tail(t))
  <2>1. Len(t) > 0 /\ Head(t) = t[1] /\ Len(Tail(t)) = Len(t) - 1
    BY <1>4
  <2>2. t[1] = q[d + 1]
    BY <1>1, <2>1
  <2>3. Unsendable(q[d + 1])
    BY <1>4, <2>1, <2>2, Zenon
  <2> DEFINE rest == Len(Tail(t))
  <2>4. Len(q) - rest = d + 1
    <3>1. rest = Len(q) - d - 1 /\ Len(q) \in Nat /\ d \in Nat
      BY <1>1, <2>1
    <3> HIDE DEF rest
    <3> QED
      BY <3>1
  <2>5. \A i \in 1 .. d + 1 : i \in 1 .. d \/ i = d + 1
    OBVIOUS
  <2> QED
    BY <1>1, <2>3, <2>4, <2>5, Zenon DEF Spent, Freed
<1>5. ASSUME t # <<>> PROVE Unsent(Tail(t))
  <2>1. /\ Len(t) > 0 /\ Len(Tail(t)) = Len(t) - 1
        /\ \A i \in 1 .. Len(t) - 1 : Tail(t)[i] = t[i + 1]
    BY <1>5
  <2> QED
    BY <1>3, <2>1 DEF Unsent
<1> QED
  BY <1>2, <1>3, <1>4, <1>5 DEF Unsent

\* Nothing is lost: what a step takes from a pipe is spent.
TakesSpent == \A p \in Pipes : Spent(queue[p], queue'[p])

\* A callback that is marked is the same callback.
LEMMA MarkedMessage ==
  ASSUME NEW m \in Messages, ~Html(m), NEW k \in Marks
  PROVE  LET x == [m EXCEPT !.mark = k]
         IN  x \in Messages /\ x.mark = k /\ ~Html(x)
<1> DEFINE x == [m EXCEPT !.mark = k]
<1>1. m \in [id : Ids, size : Sizes, data : Datas, mark : Marks] /\ k \in Marks
  BY Zenon DEF Messages
<1>2. x.id = m.id /\ x.mark = k
  BY <1>1, Zenon
<1>3. x \in [id : Ids, size : Sizes, data : Datas, mark : Marks]
  BY <1>1
<1> HIDE DEF x
<1>4. ~Html(x)
  BY <1>2 DEF Html
<1> QED
  BY <1>2, <1>3, <1>4, Zenon DEF x, Messages

\* A mark says whether somebody was there to read the answer.
LEMMA MarkFits ==
  ASSUME NEW mark \in Marks, conn[current].state = "dead" => job.mortal # {}
  PROVE  Marked(mark) \in Marks /\ Marked(mark) # "new"
<1>1. CASE conn[current].state # "dead"
  BY <1>1, Zenon DEF Marked, Marks
<1>2. CASE conn[current].state = "dead"
  <2>1. "unread" \in Marks
    BY <1>2, Zenon DEF Marks
  <2> QED
    BY <1>2, <2>1, Zenon DEF Marked
<1> QED
  BY <1>1, <1>2, Zenon

\* GET_CALLBACK frees callbacks of HTML and one that no message can carry, and
\* remembers the pipe of one that it puts into its answer.
LEMMA GetKeeps ==
  ASSUME CallbacksInv, Queues' = Queues, NEW r, get_callback(r),
         conn[current].state = "dead" => job.mortal # {}
  PROVE  CallbacksInv' /\ TakesSpent
<1> DEFINE s == attempts_made[Attempts]
           t == s.queue[s.pipe]
           m == Head(t)
<1>1. s \in Searches
  BY SearchEnds, Zenon DEF CallbacksInv
<1>2. /\ \/ /\ ~s.have
            /\ queue' = s.queue /\ callback_pipe' = s.pipe
         \/ /\ s.have /\ Unsendable(m)
            /\ queue' = free_callback(s.queue, s.pipe)
            /\ callback_pipe' = NoPipe
         \/ /\ s.have /\ ~Unsendable(m)
            /\ queue' = [s.queue EXCEPT ![s.pipe][1].mark = Marked(@)]
            /\ callback_pipe' = s.pipe
  BY Zenon DEF get_callback
<1> HIDE DEF s
<1>3. /\ s.queue \in Queues /\ s.pipe \in Pipes \cup {NoPipe}
      /\ s.have \in BOOLEAN
      /\ \A p \in Pipes : Skipped(queue[p], s.queue[p])
      /\ s.have => s.pipe \in Pipes /\ t # <<>> /\ ~Html(m)
      /\ ~s.have => \/ s.pipe = NoPipe
                    \/ s.pipe = callback_pipe /\ s.queue = queue
  BY <1>1, Zenon DEF Searches
<1>4. ASSUME NEW p \in Pipes
      PROVE  /\ queue[p] \in Seq(Messages) /\ s.queue[p] \in Seq(Messages)
             /\ Spent(queue[p], s.queue[p]) /\ Unsent(s.queue[p])
             /\ s.queue[p] # <<>> => Unsent(Tail(s.queue[p]))
             /\ s.queue[p] # <<>> /\ Unsendable(Head(s.queue[p])) =>
                  Spent(queue[p], Tail(s.queue[p]))
  <2> DEFINE a == queue[p]
             b == s.queue[p]
  <2>1. a \in Seq(Messages) /\ b \in Seq(Messages)
    BY <1>3, Zenon DEF CallbacksInv, Queues
  <2>2. Skipped(a, b)
    BY <1>3
  <2>3. Unsent(a)
    BY QueuesUnsent, Zenon DEF CallbacksInv, HtmlNeverDelivered
  <2> HIDE DEF a, b
  <2>4. /\ Spent(a, b) /\ Unsent(b)
        /\ b # <<>> => Unsent(Tail(b))
        /\ b # <<>> /\ Unsendable(Head(b)) => Spent(a, Tail(b))
    BY <2>1, <2>2, <2>3, SkippedIsSpent, Zenon
  <2> QED
    BY <2>1, <2>4, Zenon DEF a, b
<1>5. CASE ~s.have /\ queue' = s.queue /\ callback_pipe' = s.pipe
  <2>1. queue' \in Queues /\ \A p \in Pipes : Unsent(queue'[p])
    BY <1>3, <1>4, <1>5, Zenon
  <2>2. HtmlNeverDelivered'
    BY <2>1, QueuesUnsent, Zenon DEF HtmlNeverDelivered
  <2>3. TakesSpent
    BY <1>4, <1>5, Zenon DEF TakesSpent
  <2> QED
    BY <1>3, <1>5, <2>1, <2>2, <2>3, Zenon DEF CallbacksInv
<1>6. CASE /\ s.have /\ Unsendable(m)
           /\ queue' = free_callback(s.queue, s.pipe)
           /\ callback_pipe' = NoPipe
  <2>1. queue' = [p \in Pipes |-> IF p = s.pipe THEN Tail(t) ELSE s.queue[p]]
    BY <1>3, <1>6, Zenon DEF free_callback, Queues
  <2>2. /\ t \in Seq(Messages) /\ t # <<>> /\ s.pipe \in Pipes
        /\ Tail(t) \in Seq(Messages)
    BY <1>3, <1>4, <1>6
  <2>3. queue' \in Queues
    BY <1>4, <2>1, <2>2, Zenon DEF Queues
  <2>4. TakesSpent
    BY <1>4, <1>6, <2>1, <2>2 DEF TakesSpent
  <2>5. \A p \in Pipes : Unsent(queue'[p])
    BY <1>4, <2>1, <2>2
  <2>6. HtmlNeverDelivered'
    BY <2>3, <2>5, QueuesUnsent, Zenon DEF HtmlNeverDelivered
  <2> QED
    BY <1>6, <2>3, <2>4, <2>6, Zenon DEF CallbacksInv
<1>7. CASE /\ s.have /\ ~Unsendable(m)
           /\ queue' = [s.queue EXCEPT ![s.pipe][1].mark = Marked(@)]
           /\ callback_pipe' = s.pipe
  <2> DEFINE u == [t EXCEPT ![1] = [t[1] EXCEPT !.mark = Marked(t[1].mark)]]
  <2>1. queue' = [p \in Pipes |-> IF p = s.pipe THEN u ELSE s.queue[p]]
    BY <1>3, <1>7, Zenon DEF Queues
  <2>2. /\ t \in Seq(Messages) /\ t # <<>> /\ s.pipe \in Pipes
        /\ 1 \in 1 .. Len(t) /\ m = t[1] /\ ~Html(t[1])
    BY <1>3, <1>4, <1>7
  <2> DEFINE k == Marked(t[1].mark)
             x == [t[1] EXCEPT !.mark = k]
  <2>3. x \in Messages /\ x.mark # "new" /\ ~Html(x)
    <3>1. t[1] \in Messages
      BY <2>2, ElementOfSeq, Zenon
    <3>2. t[1].mark \in Marks
      BY <3>1, Zenon DEF Messages
    <3>3. k \in Marks /\ k # "new"
      BY <3>2, MarkFits, Zenon
    <3> HIDE DEF k
    <3> QED
      BY <2>2, <3>1, <3>3, MarkedMessage, Zenon
  <2> HIDE DEF x
  <2>4. /\ u \in Seq(Messages) /\ Len(u) = Len(t) /\ u # <<>>
        /\ u[1] = x
        /\ \A i \in 2 .. Len(t) : u[i] = t[i]
    <3>1. u = [i \in 1 .. Len(t) |-> IF i = 1 THEN x ELSE t[i]]
      <4>1. t = [i \in 1 .. Len(t) |-> t[i]]
        BY <2>2
      <4> QED
        BY <2>2, <4>1, Zenon DEF x
    <3> HIDE DEF u
    <3> QED
      BY <2>2, <2>3, <3>1
  <2> HIDE DEF u
  <2>5. queue' \in Queues
    BY <1>4, <2>1, <2>4, Zenon DEF Queues
  <2>6. TakesSpent
    BY <1>4, <2>1, <2>2, <2>4, Zenon DEF TakesSpent, Spent
  <2>7. \A p \in Pipes : Unsent(queue'[p])
    <3>1. Unsent(u)
      BY <1>4, <2>2, <2>3, <2>4 DEF Unsent
    <3> QED
      BY <1>4, <2>1, <3>1, Zenon
  <2>8. HtmlNeverDelivered'
    BY <2>5, <2>7, QueuesUnsent, Zenon DEF HtmlNeverDelivered
  <2> QED
    BY <1>7, <2>1, <2>2, <2>3, <2>4, <2>5, <2>6, <2>8, Zenon DEF CallbacksInv
<1> QED
  BY <1>2, <1>5, <1>6, <1>7, Zenon

\* Queues that stay as they are lose nothing.
LEMMA Untouched ==
  ASSUME CallbacksInv, queue' = queue PROVE TakesSpent
<1>1. ASSUME NEW p \in Pipes PROVE Len(queue[p]) - Len(queue[p]) = 0
  BY DEF CallbacksInv, Queues
<1> QED
  BY <1>1 DEF TakesSpent, Spent

\* FREE_CALLBACK frees the callback that was put into an answer, and nothing
\* else.
LEMMA FreeKeeps ==
  ASSUME CallbacksInv, Queues' = Queues, NEW r, free_last_callback(r)
  PROVE  CallbacksInv' /\ TakesSpent
<1>1. callback_pipe' = NoPipe
  BY Zenon DEF free_last_callback
<1>2. CASE UNCHANGED queue
  BY <1>1, <1>2, Untouched, Zenon DEF CallbacksInv, HtmlNeverDelivered
<1>3. CASE /\ callback_pipe # NoPipe
           /\ queue' = free_callback(queue, callback_pipe)
  <2> DEFINE t == queue[callback_pipe]
  <2>1. /\ callback_pipe \in Pipes /\ t \in Seq(Messages) /\ t # <<>>
        /\ Freed(t[1])
    <3>1. /\ callback_pipe \in Pipes /\ t # <<>> /\ t[1].mark # "new"
          /\ queue \in Queues
      BY <1>3, Zenon DEF CallbacksInv
    <3>2. t \in Seq(Messages) /\ 1 \in 1 .. Len(t)
      BY <3>1 DEF Queues
    <3>3. t[1] \in Messages
      BY <3>2, ElementOfSeq, Zenon
    <3>4. t[1].mark \in Marks
      BY <3>3, Zenon DEF Messages
    <3>5. Freed(t[1])
      BY <3>1, <3>4, Zenon DEF Marks, Freed
    <3> QED
      BY <3>1, <3>2, <3>5, Zenon
  <2>2. queue' = [p \in Pipes |-> IF p = callback_pipe THEN Tail(t) ELSE queue[p]]
    BY <1>3, <2>1, Zenon DEF CallbacksInv, Queues, free_callback
  <2>3. \A p \in Pipes : queue[p] \in Seq(Messages) /\ Unsent(queue[p])
    <3>1. \A p \in Pipes : queue[p] \in Seq(Messages)
      BY DEF CallbacksInv, Queues
    <3>2. \A p \in Pipes : Unsent(queue[p])
      BY QueuesUnsent, Zenon DEF CallbacksInv, HtmlNeverDelivered
    <3> QED
      BY <3>1, <3>2
  <2>4. /\ Tail(t) \in Seq(Messages) /\ Len(Tail(t)) = Len(t) - 1
        /\ \A i \in 1 .. Len(t) - 1 : Tail(t)[i] = t[i + 1]
    BY <2>1
  <2>5. Unsent(Tail(t)) /\ Spent(t, Tail(t))
    BY <2>1, <2>3, <2>4 DEF Unsent, Spent
  <2>6. queue' \in Queues
    BY <2>2, <2>3, <2>4 DEF Queues
  <2>7. \A p \in Pipes : Unsent(queue'[p])
    BY <2>2, <2>3, <2>5
  <2>8. HtmlNeverDelivered'
    BY <2>6, <2>7, QueuesUnsent, Zenon DEF HtmlNeverDelivered
  <2>9. \A p \in Pipes : Spent(queue[p], queue[p])
    BY <2>3 DEF Spent
  <2>10. TakesSpent
    BY <2>2, <2>5, <2>9 DEF TakesSpent
  <2> QED
    BY <1>1, <2>6, <2>8, <2>10, Zenon DEF CallbacksInv
<1> QED
  BY <1>2, <1>3, Zenon DEF free_last_callback

\* The native client adds to the end of a pipe.
LEMMA PostKeeps ==
  ASSUME CallbacksInv, Queues' = Queues, NEW p \in Pipes, NEW m \in Callbacks,
         Post(p, m)
  PROVE  CallbacksInv' /\ TakesSpent
<1> DEFINE x == [id |-> m.id, size |-> m.size, data |-> m.data,
                 mark |-> "new"]
           u == Append(queue[p], x)
<1>1. x \in Messages /\ x.mark = "new"
  BY Zenon DEF Messages, Marks, Ids, Sizes, Datas
<1>2. callback_pipe' = callback_pipe /\ queue' = [queue EXCEPT ![p] = u]
  BY DEF Post
<1> HIDE DEF x
<1>3. \A k \in Pipes : queue[k] \in Seq(Messages) /\ Unsent(queue[k])
  <2>1. \A k \in Pipes : queue[k] \in Seq(Messages)
    BY DEF CallbacksInv, Queues
  <2>2. \A k \in Pipes : Unsent(queue[k])
    BY QueuesUnsent, Zenon DEF CallbacksInv, HtmlNeverDelivered
  <2> QED
    BY <2>1, <2>2, Zenon
<1>4. queue' = [k \in Pipes |-> IF k = p THEN u ELSE queue[k]]
  BY <1>2, Zenon DEF CallbacksInv, Queues
<1>5. /\ u \in Seq(Messages) /\ Len(u) = Len(queue[p]) + 1
      /\ \A i \in 1 .. Len(queue[p]) : u[i] = queue[p][i]
      /\ u[Len(u)] = x
  BY <1>1, <1>3
<1> HIDE DEF u
<1>6. Unsent(u) /\ Spent(queue[p], u)
  <2>1. Len(queue[p]) \in Nat
    BY <1>3
  <2>2. ASSUME NEW i \in 1 .. Len(u), u[i].mark # "new" PROVE ~Html(u[i])
    <3>1. i \in 1 .. Len(queue[p])
      BY <1>1, <1>5, <2>1, <2>2
    <3> QED
      BY <1>3, <1>5, <2>2, <3>1, Zenon DEF Unsent
  <2> QED
    BY <1>5, <2>1, <2>2 DEF Unsent, Spent
<1>7. queue' \in Queues
  BY <1>3, <1>4, <1>5 DEF Queues
<1>8. \A k \in Pipes : Unsent(queue'[k])
  BY <1>3, <1>4, <1>6
<1>9. HtmlNeverDelivered'
  BY <1>7, <1>8, QueuesUnsent, Zenon DEF HtmlNeverDelivered
<1>10. \A k \in Pipes : Spent(queue[k], queue[k])
  BY <1>3 DEF Spent
<1>11. TakesSpent
  BY <1>4, <1>6, <1>10 DEF TakesSpent
<1>12. ASSUME NEW k \in Pipes, queue[k] # <<>>, queue[k][1].mark # "new"
       PROVE  queue'[k] # <<>> /\ queue'[k][1].mark # "new"
  BY <1>3, <1>4, <1>5, <1>12
<1> QED
  BY <1>2, <1>7, <1>9, <1>11, <1>12, Zenon DEF CallbacksInv

-----------------------------------------------------------------------------
(* The connections.                                                        *)

\* What a client asks is a call of the protocol.
LEMMA JobCalls ==
  ASSUME job \in Jobs, NEW c \in Clients PROVE job.calls[c] \subseteq Call
<1>1. job.calls \in [Clients -> SUBSET Call]
  BY BridgeAssumptions
<1> QED
  BY <1>1, Zenon

\* A connection that a step leaves alone.
LEMMA ConnKept ==
  ASSUME NEW c \in Clients, ConnInv(c), job' = job, conn'[c] = conn[c],
         HalfRead(c)' <=> HalfRead(c), pc \in Ended => pc' \in Ended
  PROVE  ConnInv(c)'
<1>1. First(c)' = First(c) /\ Second(c)' = Second(c)
  BY Zenon DEF First, Second, version_of
<1>2. InboxInv(c)'
  BY <1>1, Zenon DEF ConnInv, InboxInv
<1>3. AnswerInv(c) => AnswerInv(c)'
  BY Zenon DEF AnswerInv
<1> QED
  BY <1>2, <1>3, Zenon DEF ConnInv

\* What a connection's fields are.
LEMMA ConnFields ==
  ASSUME NEW r, NEW s, NEW k, NEW in, NEW h, NEW a, IsConn(r, s, k, in, h, a)
  PROVE  HasFields(r, s, k, in, h, a) /\ Whole(r)
BY DEF IsConn, HasFields, Whole

\* A client that has left its connection.
LEMMA ConnIdle ==
  ASSUME NEW c \in Clients, conn'[c] = Idle, ~HalfRead(c)'
  PROVE  ConnInv(c)'
<1>1. InboxInv(c)'
  BY DEF InboxInv, Idle
<1> QED
  <2>1. IsConn(conn'[c], "idle", [opcode |-> "NONE"], <<>>, FALSE, NoAnswer)
    BY Zenon DEF Idle, IsConn
  <2>2. /\ conn'[c].state = "idle" /\ conn'[c].hung = FALSE
        /\ conn'[c].answer = NoAnswer /\ Whole(conn'[c])
    <3>1. /\ HasFields(conn'[c], "idle", [opcode |-> "NONE"], <<>>, FALSE, NoAnswer)
          /\ Whole(conn'[c])
      BY <2>1, ConnFields, Zenon
    <3> QED
      BY <3>1, Zenon DEF HasFields
  <2> QED
    BY <1>1, <2>2, Zenon DEF ConnInv

\* An answer that may be given to c.
Fitting(c, answer) ==
  \/ answer = NoAnswer /\ c \in job.foreign \cup job.outdated
  \/ RightAnswer(conn[c].call, answer)

\* A connection that the server closes.
LEMMA ConnHung ==
  ASSUME NEW c \in Clients, ConnInv(c), job' = job, ~HalfRead(c)', NEW answer,
         conn[c].state # "dead" => Fitting(c, answer),
         conn'[c] = IF conn[c].state = "dead" THEN Idle
                    ELSE [conn[c] EXCEPT !.hung = TRUE, !.inbox = <<>>,
                                         !.answer = answer]
  PROVE  ConnInv(c)'
<1>1. CASE conn[c].state = "dead"
  BY <1>1, ConnIdle, Zenon
<1>2. CASE conn[c].state # "dead"
  <2>1. conn'[c] = [state |-> conn[c].state, call |-> conn[c].call,
                    inbox |-> <<>>, hung |-> TRUE, answer |-> answer]
    BY <1>2, Zenon DEF ConnInv, Whole, IsConn
  <2>2. InboxInv(c)'
    BY <2>1 DEF InboxInv
  <2>3. AnswerInv(c)'
    <3>1. conn'[c].call = conn[c].call /\ conn'[c].answer = answer
      BY <2>1
    <3> QED
      BY <1>2, <3>1, Zenon DEF Fitting, AnswerInv
  <2>4. /\ conn'[c].state = conn[c].state /\ conn'[c].call = conn[c].call
        /\ conn'[c].inbox = <<>> /\ conn'[c].hung = TRUE
        /\ conn'[c].answer = answer
    BY <2>1
  <2> QED
    BY <2>1, <2>2, <2>3, <2>4, Zenon DEF ConnInv, Whole, IsConn
<1> QED
  BY <1>1, <1>2, Zenon

\* A connection when the server's process or its listener goes.
LEMMA ConnDies ==
  ASSUME NEW c \in Clients, ConnInv(c), job' = job, ~HalfRead(c)',
         pc' \in Ended, conn'[c] = Dies(conn[c])
  PROVE  ConnInv(c)'
<1>1. CASE conn[c].state = "dead"
  BY <1>1, ConnIdle, Zenon DEF Dies
<1>2. CASE conn[c].state = "idle" \/ (conn[c].hung /\ conn[c].state # "dead")
  <2>1. conn'[c] = conn[c]
    BY <1>2, Zenon DEF Dies
  <2>2. conn[c].inbox = <<>>
    BY <1>2, Zenon DEF ConnInv, InboxInv
  <2>3. InboxInv(c)'
    BY <1>2, <2>1, <2>2, Zenon DEF InboxInv
  <2>4. AnswerInv(c) => AnswerInv(c)'
    BY <2>1, Zenon DEF AnswerInv
  <2> QED
    BY <2>1, <2>3, <2>4, Zenon DEF ConnInv
<1>3. CASE ~conn[c].hung /\ conn[c].state \notin {"idle", "dead"}
  <2>1. IsConn(conn'[c], conn[c].state, conn[c].call, <<>>, TRUE, NoAnswer)
    BY <1>3, ZenonT(40) DEF IsConn, Whole, ConnInv, Dies
  <2>f. /\ HasFields(conn'[c], conn[c].state, conn[c].call,
                     <<>>, TRUE, NoAnswer)
        /\ Whole(conn'[c])
    BY <2>1, ConnFields, Zenon
  <2>2. InboxInv(c)'
    BY <2>f, Zenon DEF HasFields, InboxInv
  <2>3. AnswerInv(c)'
    BY <2>f, Zenon DEF AnswerInv, HasFields
  <2> QED
    BY <1>3, <2>2, <2>3, <2>f, Zenon DEF ConnInv, HasFields
<1> QED
  BY <1>1, <1>2, <1>3, Zenon DEF ConnInv

\* What Append does.
LEMMA Appended ==
  ASSUME NEW S, NEW s \in Seq(S), NEW e \in S
  PROVE  /\ Append(s, e) \in Seq(S) /\ Len(Append(s, e)) = Len(s) + 1
         /\ \A i \in 1 .. Len(s) : Append(s, e)[i] = s[i]
         /\ Append(s, e)[Len(s) + 1] = e
OBVIOUS

\* The messages of one request, one after the other.
LEMMA Messages2 ==
  ASSUME NEW x, NEW y
  PROVE  /\ Append(<<>>, y) = <<y>> /\ Append(<<x>>, y) = <<x, y>>
         /\ Tail(<<x>>) = <<>> /\ Tail(<<x, y>>) = <<y>>
         /\ Head(<<x>>) = x /\ Head(<<x, y>>) = x
<1>1. Append(<<>>, y) = <<y>>
  OBVIOUS
<1>2. Append(<<x>>, y) = <<x, y>>
  <2> DEFINE S == {x, y}
             s == <<x>>
             t == Append(s, y)
             u == <<x, y>>
  <2>1. x \in S /\ y \in S /\ s \in Seq(S) /\ Len(s) = 1 /\ s[1] = x
    OBVIOUS
  <2> HIDE DEF S, s
  <2>2. t \in Seq(S) /\ Len(t) = 2 /\ t[1] = x /\ t[2] = y
    <3>1. /\ t \in Seq(S) /\ Len(t) = Len(s) + 1
          /\ \A i \in 1 .. Len(s) : t[i] = s[i]
          /\ t[Len(s) + 1] = y
      BY <2>1, Appended, ZenonT(40)
    <3> HIDE DEF t
    <3> QED
      BY <2>1, <3>1
  <2>3. u \in Seq(S) /\ Len(u) = 2 /\ u[1] = x /\ u[2] = y
    BY <2>1
  <2> HIDE DEF t, u
  <2>4. t = u
    BY <2>2, <2>3
  <2> QED
    BY <2>4 DEF s, t, u
<1>3. Tail(<<x>>) = <<>>
  OBVIOUS
<1>4. Tail(<<x, y>>) = <<y>>
  OBVIOUS
<1>5. Head(<<x>>) = x /\ Head(<<x, y>>) = x
  OBVIOUS
<1> QED
  BY <1>1, <1>2, <1>3, <1>4, <1>5

\* The steps of the clients keep every connection in order.
LEMMA ClientsKeep ==
  ASSUME ConnsInv, NEW c \in Clients,
         \/ ClientStep(c) \/ Die(c)
         \/ \E call \in job.calls[c] : Connect(c, call)
  PROVE  ConnsInv'
<1> DEFINE new == conn'[c]
<1>1. UNCHANGED <<job, pc, current>>
  BY Zenon DEF ClientStep, SendRequest, SendBody, ReadAnswer, Die, Connect, server
<1>2. ConnInv(c)
  BY DEF ConnsInv
<1>3. HalfRead(c)' <=> HalfRead(c)
  BY <1>1, Zenon DEF HalfRead
<1>4. version_of(c)' = version_of(c)
  BY <1>1, Zenon DEF version_of
<1>5. backlog' \in Seq(Clients)
  <2>1. CASE ClientStep(c) \/ Die(c)
    BY <2>1, Zenon DEF ConnsInv, ClientStep, SendRequest, SendBody, ReadAnswer, Die, server
  <2>2. CASE \E call \in job.calls[c] : Connect(c, call)
    <3>1. backlog' = Append(backlog, c) /\ backlog \in Seq(Clients)
      BY <2>2, Zenon DEF ConnsInv, Connect
    <3> QED
      BY <3>1
  <2> QED
    BY <2>1, <2>2, Zenon
<1>6. \E x : conn' = [conn EXCEPT ![c] = x]
  <2>1. CASE Die(c)
    BY <2>1, Zenon DEF Die
  <2>2. CASE \E call \in job.calls[c] : Connect(c, call)
    BY <2>2, Zenon DEF Connect
  <2>3. CASE SendRequest(c)
    <3>1. CASE conn[c].hung
      BY <2>3, <3>1, Zenon DEF SendRequest, Ends
    <3>2. CASE ~conn[c].hung
      BY <2>3, <3>2, Zenon DEF SendRequest
    <3> QED
      BY <3>1, <3>2, Zenon
  <2>4. CASE SendBody(c)
    <3>1. CASE conn[c].hung
      BY <2>4, <3>1, Zenon DEF SendBody, Ends
    <3>2. CASE ~conn[c].hung
      BY <2>4, <3>2, Zenon DEF SendBody
    <3> QED
      BY <3>1, <3>2
  <2>5. CASE ReadAnswer(c)
    BY <2>5, Zenon DEF ReadAnswer, Ends
  <2> QED
    BY <2>1, <2>2, <2>3, <2>4, <2>5, Zenon DEF ClientStep
<1>7. /\ conn' = [d \in Clients |-> conn'[d]]
      /\ \A d \in Clients \ {c} : conn'[d] = conn[d]
  BY <1>6, Zenon DEF ConnsInv
<1>8. ASSUME NEW d \in Clients \ {c} PROVE ConnInv(d)'
  <2>1. ConnInv(d) /\ conn'[d] = conn[d]
    BY <1>7 DEF ConnsInv
  <2>2. HalfRead(d)' <=> HalfRead(d)
    BY <1>1, Zenon DEF HalfRead
  <2> QED
    BY <1>1, <2>1, <2>2, ConnKept, Zenon
<1>9. ConnInv(c)'
  <2>1. ASSUME conn[c].hung, conn' = [conn EXCEPT ![c] = Idle] PROVE ConnInv(c)'
    <3>1. conn'[c] = Idle
      BY <2>1, Zenon DEF ConnsInv
    <3>2. ~HalfRead(c)'
      BY <1>2, <1>3, <2>1, Zenon DEF ConnInv
    <3> QED
      BY <3>1, <3>2, ConnIdle, Zenon
  <2>2. CASE ReadAnswer(c)
    BY <2>1, <2>2, ZenonT(40) DEF ReadAnswer, Ends
  <2>3. CASE SendRequest(c) /\ ~conn[c].hung
    <3> DEFINE op == conn[c].call.opcode
               st == IF body_struct(op) = NoBody THEN "waiting" ELSE "half"
    <3>1. conn'[c] = [conn[c] EXCEPT !.state = st, !.inbox = <<First(c)>>]
      BY <2>3, Zenon DEF ConnsInv, SendRequest, First
    <3>2. st \in {"waiting", "half"}
      BY Zenon
    <3> HIDE DEF st
    <3>3. /\ conn[c].state = "connected" /\ conn[c].call \in Call
          /\ conn[c].answer = NoAnswer /\ ~HalfRead(c)
      BY <1>2, <2>3, Zenon DEF ConnInv, SendRequest
    <3>4. IsConn(conn'[c], st, conn[c].call, <<First(c)>>, FALSE, NoAnswer)
      BY <1>2, <2>3, <3>1, <3>3, Zenon DEF IsConn, Whole, ConnInv
    <3>f. /\ HasFields(conn'[c], st, conn[c].call, <<First(c)>>,
                       FALSE, NoAnswer)
          /\ Whole(conn'[c])
      BY <3>4, ConnFields, Zenon
    <3>5. First(c)' = First(c)
      BY <1>4, <3>f, Zenon DEF HasFields, First
    <3>6. InboxInv(c)'
      BY <1>3, <3>2, <3>3, <3>5, <3>f, Zenon DEF HasFields, InboxInv
    <3> QED
      BY <1>3, <3>2, <3>3, <3>6, <3>f, Zenon DEF ConnInv, HasFields
  <2>4. CASE SendBody(c) /\ ~conn[c].hung
    <3>1. conn'[c] = [conn[c] EXCEPT !.state = "waiting",
                                     !.inbox = Append(@, Second(c))]
      BY <2>4 DEF ConnsInv, SendBody, Second
    <3>2. /\ conn[c].state = "half" /\ conn[c].call \in Call
          /\ conn[c].answer = NoAnswer
          /\ conn[c].inbox = IF HalfRead(c) THEN <<>> ELSE <<First(c)>>
      BY <1>2, <2>4 DEF ConnInv, InboxInv, SendBody
    <3> DEFINE in == IF HalfRead(c) THEN <<Second(c)>>
                     ELSE <<First(c), Second(c)>>
    <3>3. Append(conn[c].inbox, Second(c)) = in
      BY <3>2, Messages2, Zenon
    <3>4. IsConn(conn'[c], "waiting", conn[c].call, in, FALSE, NoAnswer)
      BY <1>2, <2>4, <3>1, <3>2, <3>3, Zenon DEF IsConn, Whole, ConnInv
    <3>f. /\ HasFields(conn'[c], "waiting", conn[c].call, in, FALSE, NoAnswer)
          /\ Whole(conn'[c])
      BY <3>4, ConnFields, Zenon
    <3>5. First(c)' = First(c) /\ Second(c)' = Second(c)
      BY <1>4, <3>f, Zenon DEF HasFields, First, Second
    <3>6. InboxInv(c)'
      <4>1. conn'[c].state = "waiting" /\ conn'[c].inbox = in
        BY <3>f, Zenon DEF HasFields
      <4> QED
        BY <1>3, <3>5, <4>1, Zenon DEF InboxInv
    <3> QED
      BY <1>3, <3>2, <3>6, <3>f, Zenon DEF ConnInv, HasFields
  <2>5. CASE Die(c)
    <3>1. conn'[c] = [conn[c] EXCEPT !.state = "dead"]
      BY <2>5 DEF ConnsInv, Die
    <3>2. /\ conn[c].state \in {"connected", "half", "waiting"}
          /\ conn[c].call \in Call /\ ~conn[c].hung
          /\ conn[c].answer = NoAnswer /\ c \in job.mortal
      BY <1>2, <2>5 DEF ConnInv, Die
    <3>3. IsConn(conn'[c], "dead", conn[c].call, conn[c].inbox,
                 FALSE, NoAnswer)
      BY <1>2, <3>1, <3>2, Zenon DEF IsConn, Whole, ConnInv
    <3>f. /\ HasFields(conn'[c], "dead", conn[c].call, conn[c].inbox,
                       FALSE, NoAnswer)
          /\ Whole(conn'[c])
      BY <3>3, ConnFields, Zenon
    <3>4. First(c)' = First(c) /\ Second(c)' = Second(c)
      BY <1>4, <3>f, Zenon DEF HasFields, First, Second
    <3>5. /\ conn'[c].state = "dead" /\ conn'[c].call = conn[c].call
          /\ conn'[c].inbox = conn[c].inbox /\ conn'[c].hung = FALSE
          /\ conn'[c].answer = NoAnswer
      BY <3>f, Zenon DEF HasFields
    <3>6. InboxInv(c)'
      BY <1>2, <1>3, <3>4, <3>5, ZenonT(40) DEF ConnInv, InboxInv
    <3> QED
      BY <1>1, <1>3, <3>2, <3>6, <3>f, Zenon DEF ConnInv, HasFields
  <2>6. ASSUME NEW call \in job.calls[c], Connect(c, call) PROVE ConnInv(c)'
    <3>1. conn'[c] = [state |-> "connected", call |-> call, inbox |-> <<>>,
                      hung |-> FALSE, answer |-> NoAnswer]
      BY <2>6, Zenon DEF ConnsInv, Connect, Idle
    <3>2. ~HalfRead(c)
      BY <1>2, <2>6, Zenon DEF ConnInv, Connect
    <3>3. call \in Call
      BY JobCalls, Zenon DEF ConnsInv
    <3>4. /\ conn'[c].state = "connected" /\ conn'[c].call = call
          /\ conn'[c].inbox = <<>> /\ conn'[c].hung = FALSE
          /\ conn'[c].answer = NoAnswer
      BY <3>1
    <3>5. InboxInv(c)'
      BY <3>4, Zenon DEF InboxInv
    <3> QED
      BY <1>3, <3>1, <3>2, <3>3, <3>4, <3>5, Zenon DEF ConnInv, Whole, IsConn
  <2> QED
    BY <2>1, <2>2, <2>3, <2>4, <2>5, <2>6, Zenon
    DEF ClientStep, SendRequest, SendBody, Ends
<1>10. \A d \in Clients : ConnInv(d)'
  BY <1>8, <1>9, Zenon
<1> QED
  BY <1>1, <1>5, <1>7, <1>10, Zenon DEF ConnsInv

-----------------------------------------------------------------------------
(* Tickets.                                                                *)

\* app_ticket_range_valid computes offset + size <= total without the sum
\* that could wrap: it accepts exactly the ranges inside the ticket.
LEMMA RangeExact ==
  ASSUME NEW offset \in UInt, NEW size \in Nat, NEW total \in UInt
  PROVE  app_ticket_range_valid(offset, size, total)
           <=> Inside(offset, size, total)
  BY TicketAssumptions DEF UInt, app_ticket_range_valid, minus, Inside

\* Whatever the native call reports, the answer to an APP_TICKET_CALL is
\* empty, or a ticket that fits the caller's buffer and whose ids and
\* signature lie inside it.
THEOREM AnswersAreSafe ==
  ASSUME NEW app_id \in UInt, NEW capacity \in UInt, NEW has_iface \in BOOLEAN,
         NEW t \in NativeTicket, NEW knows_id \in BOOLEAN
  PROVE  TicketSafe(app_ticket(app_id, capacity, has_iface, t, knows_id),
                    capacity)
<1> DEFINE a == app_ticket(app_id, capacity, has_iface, t, knows_id)
<1>0. /\ t.returned_size \in UInt /\ t.app_id_offset \in UInt
      /\ t.steam_id_offset \in UInt /\ t.signature_offset \in UInt
      /\ t.signature_size \in UInt
  BY Zenon DEF NativeTicket
<1>1. CASE a.status # 0
  BY <1>1, Zenon DEF app_ticket, TicketSafe
<1>2. CASE a.status = 0
  <2>1. /\ ticket_status(t, capacity, knows_id) = 0
        /\ a.ticket = TicketFields(t.returned_size, t.app_id_offset,
                                   t.steam_id_offset, t.signature_offset,
                                   t.signature_size)
    BY <1>2 DEF app_ticket, EINVAL, ENODEV
  <2>2. /\ t.returned_size # 0
        /\ t.returned_size <= native_capacity(capacity)
        /\ t.returned_size <= MaxTicket
        /\ ticket_ranges_valid(t)
    BY <1>0, <2>1, TicketAssumptions
    DEF ticket_status, native_capacity, EIO, EOVERFLOW, EPROTO, UInt
  <2>3. /\ Inside(t.app_id_offset, AppIdSize, t.returned_size)
        /\ Inside(t.steam_id_offset, SteamIdSize, t.returned_size)
        /\ t.signature_size # 0
        /\ Inside(t.signature_offset, t.signature_size, t.returned_size)
    BY <1>0, <2>2, RangeExact, TicketAssumptions DEF ticket_ranges_valid, UInt
  <2>4. /\ t.returned_size \in 1 .. MaxTicket
        /\ t.returned_size <= capacity
        /\ t.signature_size > 0
    BY <1>0, <2>2, <2>3, TicketAssumptions DEF native_capacity, UInt
  <2> QED
    BY <1>2, <2>1, <2>3, <2>4 DEF TicketSafe, TicketFields
<1> QED
  BY <1>1, <1>2, Zenon

\* A ticket the server lets through is one the proxy takes: both look at the
\* same ranges, and the proxy offers no more than the message holds.
LEMMA TicketTaken ==
  ASSUME NEW k \in Call, k.opcode = "APP_TICKET_CALL", NEW app_id \in UInt,
         NEW has_iface \in BOOLEAN, NEW t \in NativeTicket, NEW knows_id \in BOOLEAN
  PROVE  LET a == app_ticket(app_id, native_capacity(k.item[2]), has_iface, t,
                             knows_id)
         IN  Bounded(k, a.status, a.ticket.returned_size, a.ticket)
<1> DEFINE cap == k.item[2]
           n == native_capacity(cap)
           a == app_ticket(app_id, n, has_iface, t, knows_id)
           size == a.ticket.returned_size
<1>1. cap \in UInt
  BY DEF Call
<1>2. n \in UInt /\ n \in Nat /\ n <= cap /\ native_capacity(n) = n
  BY <1>1, TicketAssumptions DEF native_capacity, UInt
<1>3. Room(k) = n
  BY Zenon DEF Room
<1>4. k.opcode \notin PassedOn /\ k.opcode # "GET_API_CALL_RESULT"
  BY Zenon DEF PassedOn
<1>5. a = [status |-> a.status, ticket |-> a.ticket]
  BY Zenon DEF app_ticket
<1> HIDE DEF n
<1>6. TicketSafe(a, n)
  BY <1>2, AnswersAreSafe, Zenon
<1>7. CASE a.status # 0
  <2>1. a.ticket = NoTicket
    BY <1>6, <1>7, Zenon DEF TicketSafe
  <2>2. size = 0
    BY <2>1 DEF NoTicket, TicketFields
  <2>3. size \in Nat /\ size <= n
    BY <1>2, <2>2
  <2> HIDE DEF a, cap
  <2>4. TicketSafe([status |-> a.status, ticket |-> a.ticket], cap)
    BY <1>5, <1>7, <2>1, Zenon DEF TicketSafe
  <2> QED
    BY <1>3, <1>4, <1>7, <2>3, <2>4, Zenon DEF Bounded, a, cap, n
<1>8. CASE a.status = 0
  <2>1. /\ ticket_status(t, n, knows_id) = 0
        /\ a.ticket = TicketFields(t.returned_size, t.app_id_offset,
                                   t.steam_id_offset, t.signature_offset,
                                   t.signature_size)
    BY <1>8 DEF app_ticket, EINVAL, ENODEV
  <2>2. /\ size = t.returned_size /\ a.ticket.app_id_offset = t.app_id_offset
        /\ a.ticket.steam_id_offset = t.steam_id_offset
        /\ a.ticket.signature_offset = t.signature_offset
        /\ a.ticket.signature_size = t.signature_size
    BY <2>1 DEF TicketFields
  <2>3. t.returned_size \in UInt
    BY Zenon DEF NativeTicket
  <2>4. /\ t.returned_size # 0 /\ t.returned_size <= n
        /\ t.returned_size <= MaxTicket /\ ticket_ranges_valid(t)
    BY <1>2, <2>1, <2>3, TicketAssumptions
    DEF ticket_status, EIO, EOVERFLOW, EPROTO, UInt
  <2>5. t.returned_size \in Nat /\ t.returned_size <= cap
    BY <1>1, <1>2, <2>3, <2>4, TicketAssumptions DEF UInt
  <2> HIDE DEF a, cap
  <2>6. proxy_takes_ticket(a.ticket, cap)
    BY <2>2, <2>4, <2>5, Zenon
    DEF proxy_takes_ticket, ticket_ranges_valid, app_ticket_range_valid,
        proxy_range_valid, n
  <2>7. TicketSafe([status |-> a.status, ticket |-> a.ticket], cap)
    BY <1>5, <1>6, <1>8, <2>2, <2>5, Zenon DEF TicketSafe
  <2> QED
    BY <1>3, <1>4, <1>8, <2>2, <2>4, <2>5, <2>6, <2>7, Zenon
    DEF Bounded, a, cap, n
<1> QED
  BY <1>7, <1>8, Zenon DEF n

-----------------------------------------------------------------------------
(* The answers.                                                            *)

\* An answer's fields.
LEMMA AnswerFields ==
  ASSUME NEW k, NEW status, NEW size, NEW item,
         NEW a, IsAnswer(a, k, status, size, item)
  PROVE  AnswerHas(a, k, status, size, item)
BY DEF IsAnswer, AnswerHas

\* The structure that answers an opcode, and the length of its payload.
LEMMA Structs ==
  ASSUME NEW op \in Opcodes
  PROVE  /\ answer_struct(op) # "none"
         /\ payload[answer_struct(op)] \in Nat
         /\ op \in InterfaceCalls \cup {"GAME_SERVER_CALL"} =>
              /\ answer_struct(op) = "game_server_response"
              /\ payload[answer_struct(op)] = MaxTicket
         /\ op \in MatchmakingCalls =>
              /\ answer_struct(op) = "mm_response"
              /\ payload[answer_struct(op)] = MMDataSize
         /\ op \in {"GET_CALLBACK", "GET_API_CALL_RESULT"} =>
              payload[answer_struct(op)] = MaxCallback
         /\ op = "VOICE_CALL" => payload[answer_struct(op)] = MaxVoice
         /\ op = "GET_AUTH_TICKET" => payload[answer_struct(op)] = MaxTicket
<1>1. CASE op \in MatchmakingCalls
  <2>1. /\ op \notin InterfaceCalls \cup {"GAME_SERVER_CALL"}
        /\ op \notin {"GET_CALLBACK", "GET_API_CALL_RESULT"}
        /\ op # "VOICE_CALL" /\ op # "GET_AUTH_TICKET"
    BY <1>1, Zenon DEF InterfaceCalls, MatchmakingCalls
  <2>2. answer_struct(op) = "mm_response"
    BY <1>1 DEF answer_struct, InterfaceCalls, MatchmakingCalls
  <2>3. payload["mm_response"] = MMDataSize /\ MMDataSize \in Nat
    BY DEF payload, MMDataSize
  <2> QED
    BY <2>1, <2>2, <2>3, Zenon
<1>2. CASE op \in InterfaceCalls \cup {"GAME_SERVER_CALL"}
  <2>1. /\ op \notin MatchmakingCalls
        /\ op \notin {"GET_CALLBACK", "GET_API_CALL_RESULT"}
        /\ op # "VOICE_CALL" /\ op # "GET_AUTH_TICKET"
    BY <1>2, Zenon DEF InterfaceCalls, MatchmakingCalls
  <2>2. answer_struct(op) = "game_server_response"
    BY <1>2 DEF answer_struct, InterfaceCalls, MatchmakingCalls
  <2>3. payload["game_server_response"] = MaxTicket /\ MaxTicket \in Nat
    BY TicketAssumptions DEF payload
  <2> QED
    BY <2>1, <2>2, <2>3, Zenon
<1>3. CASE op \in {"PING", "STATUS", "STOP", "GET_AUTH_TICKET", "GET_CALLBACK",
                   "INIT_GAME_CONNECTION", "FREE_CALLBACK", "VOICE_CALL",
                   "GET_API_CALL_RESULT", "APP_TICKET_CALL"}
  <2>1. op \notin MatchmakingCalls /\ op \notin InterfaceCalls \cup {"GAME_SERVER_CALL"}
    BY <1>3, Zenon DEF InterfaceCalls, MatchmakingCalls
  <2>2. /\ answer_struct(op) # "none" /\ payload[answer_struct(op)] \in Nat
        /\ op \in {"GET_CALLBACK", "GET_API_CALL_RESULT"} =>
             payload[answer_struct(op)] = MaxCallback
        /\ op = "VOICE_CALL" => payload[answer_struct(op)] = MaxVoice
        /\ op = "GET_AUTH_TICKET" => payload[answer_struct(op)] = MaxTicket
    BY <1>3, <2>1, TicketAssumptions
    DEF answer_struct, payload, MaxCallback, MaxVoice
  <2> QED
    BY <2>1, <2>2, Zenon
<1> QED
  BY <1>1, <1>2, <1>3, Zenon DEF Opcodes

\* A call's opcode, and the room there is where no buffer of the caller counts.
LEMMA CallFacts ==
  ASSUME NEW k \in Call
  PROVE  /\ k.opcode \in Opcodes /\ k.by \in Programs /\ k.opcode \in sends(k.by)
         /\ k.item \in UInt \X UInt
         /\ k.opcode \notin {"APP_TICKET_CALL", "GET_AUTH_TICKET",
                             "INIT_GAME_CONNECTION"} =>
              Room(k) = payload[answer_struct(k.opcode)]
<1>1. /\ k.opcode \in Opcodes /\ k.by \in Programs /\ k.opcode \in sends(k.by)
      /\ k.item \in UInt \X UInt
  BY Zenon DEF Call
<1>2. ASSUME k.opcode \notin {"APP_TICKET_CALL", "GET_AUTH_TICKET",
                              "INIT_GAME_CONNECTION"}
      PROVE  Room(k) = payload[answer_struct(k.opcode)]
  BY <1>2 DEF Room
<1> QED
  BY <1>1, <1>2, Zenon

\* An answer whose size is the native client's, or within the message.
LEMMA SizeBounded ==
  ASSUME NEW k \in Call, NEW status, NEW size \in Nat, NEW item,
         k.opcode \notin {"APP_TICKET_CALL", "GET_API_CALL_RESULT"},
         k.opcode \notin PassedOn => size <= payload[answer_struct(k.opcode)]
  PROVE  Bounded(k, status, size, item)
<1>1. ASSUME k.opcode \notin PassedOn PROVE size <= Room(k)
  <2>1. k.opcode \notin {"APP_TICKET_CALL", "GET_AUTH_TICKET",
                         "INIT_GAME_CONNECTION"}
    BY <1>1, Zenon DEF PassedOn
  <2> QED
    BY <1>1, <2>1, CallFacts, Zenon
<1> QED
  BY <1>1, Zenon DEF Bounded

\* An answer that only tells an error.
LEMMA ErrorBounded ==
  ASSUME NEW k \in Call, NEW status, status # 0, NEW item,
         k.opcode # "APP_TICKET_CALL"
  PROVE  Bounded(k, status, 0, item)
<1>1. ASSUME k.opcode \notin PassedOn PROVE 0 <= Room(k)
  <2>1. k.opcode \notin {"APP_TICKET_CALL", "GET_AUTH_TICKET",
                         "INIT_GAME_CONNECTION"}
    BY <1>1, Zenon DEF PassedOn
  <2>2. Room(k) = payload[answer_struct(k.opcode)] /\ k.opcode \in Opcodes
    BY <2>1, CallFacts, Zenon
  <2>3. Room(k) \in Nat
    BY <2>2, Structs, Zenon
  <2> QED
    BY <2>3
<1>2. 0 \in Nat
  OBVIOUS
<1> QED
  BY <1>1, <1>2, Zenon DEF Bounded

\* The errors there are.
LEMMA Errors ==
  /\ -EIO # 0 /\ -EINVAL # 0 /\ -ENODEV # 0 /\ -EAGAIN # 0 /\ -EOVERFLOW # 0
  /\ -ENOENT # 0
BY DEF EIO, EINVAL, ENODEV, EAGAIN, EOVERFLOW, ENOENT

\* A call that is refused has a status and no size.
LEMMA RefusedIs ==
  ASSUME NEW status, NEW a \in Refused(status)
  PROVE  a.status = status /\ a.size = 0
BY DEF Refused

\* What a native call answers, and a call that is refused.
LEMMA RepliesBounded ==
  ASSUME NEW k \in Call,
         k.opcode \notin {"APP_TICKET_CALL", "GET_API_CALL_RESULT"},
         NEW a \in NativeReplies(k.opcode) \cup Refused(-EINVAL)
                     \cup Refused(-ENODEV)
  PROVE  Bounded(k, a.status, a.size, 0)
<1>1. CASE a \in Refused(-EIO) \cup Refused(-EINVAL) \cup Refused(-ENODEV)
  <2>1. a.size = 0 /\ a.status \in {-EIO, -EINVAL, -ENODEV}
    BY <1>1, RefusedIs, Zenon
  <2>2. a.status # 0
    BY <2>1, Errors, Zenon
  <2> QED
    BY <2>1, <2>2, ErrorBounded, Zenon
<1>2. CASE \E n \in NativeSizes : /\ a = [status |-> 0, size |-> n]
                                  /\ n <= size_limit(k.opcode)
  <2>1. PICK n \in NativeSizes : /\ a = [status |-> 0, size |-> n]
                                 /\ n <= size_limit(k.opcode)
    BY <1>2
  <2>2. n \in Nat
    BY BridgeAssumptions DEF UInt
  <2>3. ASSUME k.opcode \notin PassedOn
        PROVE  size_limit(k.opcode) = payload[answer_struct(k.opcode)]
    BY <2>3 DEF PassedOn, size_limit
  <2>4. Bounded(k, 0, n, 0)
    BY <2>1, <2>2, <2>3, SizeBounded, Zenon
  <2>5. a.status = 0 /\ a.size = n
    BY <2>1
  <2> QED
    BY <2>4, <2>5, Zenon
<1> QED
  BY <1>1, <1>2, Zenon DEF NativeReplies, Refused

\* A callback that is sent fits the message.
LEMMA CallbackSize ==
  ASSUME NEW m, ~Unsendable(m) PROVE m.size \in Nat /\ m.size <= MaxCallback
<1>1. m.size \in 0 .. MaxCallback
  BY Zenon DEF Unsendable
<1>2. MaxCallback \in Nat
  BY DEF MaxCallback
<1> QED
  BY <1>1, <1>2

\* The connection being served is closed with an answer to its request.
AnswersOK(r) ==
  \E status, size, item : /\ Answers(r, status, size, item)
                          /\ Bounded(conn[current].call, status, size, item)

\* The requests of one message.
LEMMA AloneAnswers ==
  ASSUME NEW r, NEW k \in Call, k = conn[current].call, r.opcode = k.opcode,
         answer_alone(r)
  PROVE  AnswersOK(r) /\ job' = job
<1>1. job' = job
  BY Zenon DEF answer_alone, get_auth_ticket, get_callback, free_last_callback,
               status_call, NothingElse
<1>2. r.opcode \in {"GET_AUTH_TICKET", "GET_CALLBACK", "FREE_CALLBACK", "PING",
                    "STATUS", "STOP"}
  BY Zenon DEF answer_alone, get_auth_ticket, get_callback, free_last_callback,
               status_call
<1>3. k.opcode \notin {"APP_TICKET_CALL", "GET_API_CALL_RESULT"}
  BY <1>2, Zenon
<1>4. k.opcode \in Opcodes /\ payload[answer_struct(k.opcode)] \in Nat
  BY CallFacts, Structs, Zenon
<1>5. 0 \in Nat /\ 0 <= payload[answer_struct(k.opcode)]
  BY <1>4
<1>6. ASSUME NEW status PROVE Bounded(k, status, 0, 0)
  BY <1>3, <1>5, SizeBounded, Zenon
<1>7. CASE get_auth_ticket(r)
  <2>1. k.opcode \in PassedOn
    BY <1>7, Zenon DEF get_auth_ticket, PassedOn
  <2>2. ASSUME NEW size \in NativeSizes, NEW status PROVE Bounded(k, status, size, 0)
    <3>1. size \in Nat
      BY BridgeAssumptions DEF UInt
    <3> QED
      BY <1>3, <2>1, <3>1, SizeBounded, Zenon
  <2>3. \/ \E handle \in BOOLEAN, size \in NativeSizes :
             Answers(r, IF handle /\ size # 0 THEN 0 ELSE -EIO, size, 0)
        \/ Answers(r, -EIO, 0, 0)
    BY <1>7, Zenon DEF get_auth_ticket
  <2>4. CASE Answers(r, -EIO, 0, 0)
    BY <1>1, <1>6, <2>4, Zenon DEF AnswersOK
  <2>5. ASSUME NEW handle \in BOOLEAN, NEW size \in NativeSizes,
               Answers(r, IF handle /\ size # 0 THEN 0 ELSE -EIO, size, 0)
        PROVE  AnswersOK(r)
    <3> DEFINE status == IF handle /\ size # 0 THEN 0 ELSE -EIO
    <3>1. Answers(r, status, size, 0)
      BY <2>5, Zenon
    <3> HIDE DEF status
    <3> QED
      BY <2>2, <3>1, Zenon DEF AnswersOK
  <2> QED
    BY <1>1, <2>3, <2>4, <2>5, Zenon
<1>8. CASE get_callback(r)
  <2> DEFINE m == Head(attempts_made[Attempts].queue[attempts_made[Attempts].pipe])
  <2>1. \/ Answers(r, -EAGAIN, 0, 0) \/ Answers(r, -EOVERFLOW, 0, 0)
        \/ ~Unsendable(m) /\ Answers(r, 0, m.size, 0)
    BY <1>8, Zenon DEF get_callback
  <2> HIDE DEF m
  <2>2. CASE Answers(r, -EAGAIN, 0, 0) \/ Answers(r, -EOVERFLOW, 0, 0)
    BY <1>1, <1>6, <2>2, Zenon DEF AnswersOK
  <2>3. CASE ~Unsendable(m) /\ Answers(r, 0, m.size, 0)
    <3>1. k.opcode = "GET_CALLBACK"
      BY <1>8, Zenon DEF get_callback
    <3>2. payload[answer_struct(k.opcode)] = MaxCallback
      BY <1>4, <3>1, Structs, Zenon
    <3>3. m.size \in Nat /\ m.size <= MaxCallback
      BY <2>3, CallbackSize, Zenon
    <3>4. Bounded(k, 0, m.size, 0)
      BY <1>3, <3>2, <3>3, SizeBounded, Zenon
    <3> QED
      BY <1>1, <2>3, <3>4, Zenon DEF AnswersOK
  <2> QED
    BY <1>1, <2>1, <2>2, <2>3, Zenon
<1>9. CASE free_last_callback(r) \/ status_call(r)
  <2>1. Answers(r, -ENOENT, 0, 0) \/ Answers(r, 0, 0, 0)
    BY <1>9, Zenon DEF free_last_callback, status_call
  <2> QED
    BY <1>1, <1>6, <2>1, Zenon DEF AnswersOK
<1> QED
  BY <1>7, <1>8, <1>9, Zenon DEF answer_alone

\* The requests of two messages.
LEMMA BodyAnswers ==
  ASSUME NEW r, NEW k \in Call, k = conn[current].call, r.opcode = k.opcode,
         NEW whole \in BOOLEAN, NEW item, whole => item = sent_item(k),
         answer_body(r, whole, item)
  PROVE  job' = job /\ (AnswersOK(r) \/ Crash)
<1>1. job' = job
  BY Zenon
  DEF answer_body, get_app_ticket, init_game_connection, game_server_calls,
      stats_without_client, html_call, native_call, matchmaking_call,
      get_api_call_result, NothingElse, Crash
<1>2. CASE get_app_ticket(r, whole, item)
  <2>0. k.opcode = "APP_TICKET_CALL"
    BY <1>2, Zenon DEF get_app_ticket
  <2>1. CASE whole
    <3>1. PICK t \in NativeTickets :
            LET a == app_ticket(item[1], item[2], "ticket" \in ifaces', t,
                                "user" \in ifaces)
            IN  Answers(r, a.status, a.ticket.returned_size, a.ticket)
      BY <1>2, <2>1, Zenon DEF get_app_ticket
    <3> DEFINE has == "ticket" \in ifaces'
               knows == "user" \in ifaces
               one == item[1]
               two == item[2]
               a == app_ticket(one, two, has, t, knows)
    <3>2. t \in NativeTicket /\ has \in BOOLEAN /\ knows \in BOOLEAN
      BY BridgeAssumptions
    <3>3. sent_item(k) = <<k.item[1], native_capacity(k.item[2])>>
      BY <2>0, Zenon DEF sent_item
    <3>4. one = k.item[1] /\ two = native_capacity(k.item[2])
      BY <2>1, <3>3
    <3>5. one \in UInt
      BY <3>4, CallFacts
    <3>6. Answers(r, a.status, a.ticket.returned_size, a.ticket)
      BY <3>1, Zenon
    <3> HIDE DEF has, knows, one, two
    <3>7. Bounded(k, a.status, a.ticket.returned_size, a.ticket)
      BY <2>0, <3>2, <3>4, <3>5, TicketTaken, Zenon
    <3> HIDE DEF a
    <3> QED
      BY <1>1, <3>6, <3>7, Zenon DEF AnswersOK
  <2>2. CASE ~whole
    <3>1. Answers(r, -EINVAL, 0, NoTicket)
      BY <1>2, <2>2, Zenon DEF get_app_ticket
    <3>2. TicketSafe([status |-> -EINVAL, ticket |-> NoTicket], k.item[2])
      BY Errors, Zenon DEF TicketSafe
    <3>3. Room(k) = native_capacity(k.item[2])
      BY <2>0, Zenon DEF Room
    <3>4. k.item[2] \in UInt
      BY CallFacts
    <3>5. 0 \in Nat /\ 0 <= Room(k)
      BY <3>3, <3>4, TicketAssumptions DEF native_capacity, UInt
    <3>6. Bounded(k, -EINVAL, 0, NoTicket)
      BY <2>0, <3>2, <3>5, Errors, Zenon DEF Bounded
    <3> QED
      BY <1>1, <3>1, <3>6, Zenon DEF AnswersOK
  <2> QED
    BY <2>1, <2>2, Zenon
<1>3. CASE init_game_connection(r, whole, item)
  <2>1. k.opcode = "INIT_GAME_CONNECTION"
    BY <1>3, Zenon DEF init_game_connection
  <2>2. \/ Answers(r, -EINVAL, 0, 0)
        \/ \E size \in NativeSizes :
             Answers(r, IF size # 0 THEN 0 ELSE -EIO, size, 0)
    BY <1>3, Zenon DEF init_game_connection
  <2>3. CASE Answers(r, -EINVAL, 0, 0)
    BY <1>1, <2>1, <2>3, Errors, ErrorBounded, Zenon DEF AnswersOK
  <2>4. ASSUME NEW size \in NativeSizes,
               Answers(r, IF size # 0 THEN 0 ELSE -EIO, size, 0)
        PROVE  AnswersOK(r)
    <3> DEFINE status == IF size # 0 THEN 0 ELSE -EIO
    <3>1. Answers(r, status, size, 0)
      BY <2>4, Zenon
    <3>2. size \in Nat
      BY BridgeAssumptions DEF UInt
    <3>3. /\ k.opcode \in PassedOn
          /\ k.opcode \notin {"APP_TICKET_CALL", "GET_API_CALL_RESULT"}
      BY <2>1, Zenon DEF PassedOn
    <3> HIDE DEF status
    <3>4. Bounded(k, status, size, 0)
      BY <3>2, <3>3, SizeBounded, Zenon
    <3> QED
      BY <3>1, <3>4, Zenon DEF AnswersOK
  <2> QED
    BY <1>1, <2>2, <2>3, <2>4, Zenon
<1>4. CASE get_api_call_result(r, whole, item)
  <2>1. k.opcode = "GET_API_CALL_RESULT"
    BY <1>4, Zenon DEF get_api_call_result
  <2>2. PICK a \in IF whole /\ item[1] <= MaxCallback
                   THEN {[status |-> 0, size |-> item[1]]} \cup Refused(-EIO)
                   ELSE Refused(-EINVAL) : Answers(r, a.status, a.size, 0)
    BY <1>4, Zenon DEF get_api_call_result
  <2>3. CASE a \in Refused(-EIO) \cup Refused(-EINVAL)
    <3>1. a.size = 0 /\ a.status \in {-EIO, -EINVAL}
      BY <2>3, RefusedIs, Zenon
    <3>2. a.status # 0
      BY <3>1, Errors, Zenon
    <3> QED
      BY <1>1, <2>1, <2>2, <3>1, <3>2, ErrorBounded, Zenon DEF AnswersOK
  <2>4. CASE whole /\ item[1] <= MaxCallback /\ a = [status |-> 0, size |-> item[1]]
    <3>1. a.size = item[1]
      BY <2>4
    <3>2. /\ k.opcode \notin {"APP_TICKET_CALL", "GET_AUTH_TICKET",
                              "INIT_GAME_CONNECTION"}
          /\ k.opcode \in Opcodes
      BY <2>1, CallFacts, Zenon
    <3>3. Room(k) = MaxCallback
      BY <2>1, <3>2, CallFacts, Structs, Zenon
    <3>4. item[1] \in Nat
      <4>1. item = <<16, 703>> \/ item = k.item
        BY <2>1, <2>4, Zenon DEF sent_item
      <4> QED
        BY <4>1, CallFacts DEF UInt
    <3>5. item[1] = sent_item(k)[1]
      BY <2>4, Zenon
    <3>6. Bounded(k, a.status, a.size, 0)
      BY <2>1, <2>4, <3>1, <3>3, <3>4, <3>5, Zenon DEF Bounded
    <3> QED
      BY <1>1, <2>2, <3>6, Zenon DEF AnswersOK
  <2> QED
    BY <2>2, <2>3, <2>4, Zenon
<1>5. CASE \/ game_server_calls(r, whole) \/ stats_without_client(r, whole)
           \/ html_call(r, whole) \/ native_call(r, whole)
           \/ matchmaking_call(r, whole)
  <2>1. \/ Crash \/ Answers(r, -ENODEV, 0, 0) \/ Answers(r, -EINVAL, 0, 0)
        \/ \E a \in NativeReplies(r.opcode) \cup Refused(-EINVAL)
                      \cup Refused(-ENODEV) : Answers(r, a.status, a.size, 0)
    BY <1>5, Zenon
    DEF game_server_calls, stats_without_client, html_call, native_call,
        matchmaking_call
  <2>2. r.opcode \in {"GAME_SERVER_CALL", "VOICE_CALL"} \cup InterfaceCalls
                       \cup MatchmakingCalls
    BY <1>5, Zenon
    DEF game_server_calls, stats_without_client, html_call, native_call,
        matchmaking_call, InterfaceCalls
  <2>3. k.opcode \notin {"APP_TICKET_CALL", "GET_API_CALL_RESULT"}
    BY <2>2 DEF InterfaceCalls, MatchmakingCalls
  <2>4. ASSUME NEW status \in {-ENODEV, -EINVAL} PROVE Bounded(k, status, 0, 0)
    BY <2>3, Errors, ErrorBounded, Zenon
  <2>5. ASSUME NEW a \in NativeReplies(k.opcode) \cup Refused(-EINVAL)
                           \cup Refused(-ENODEV)
        PROVE  Bounded(k, a.status, a.size, 0)
    BY <2>3, RepliesBounded, Zenon
  <2> QED
    BY <1>1, <2>1, <2>4, <2>5, Zenon DEF AnswersOK
<1> QED
  BY <1>2, <1>3, <1>4, <1>5, Zenon DEF answer_body

\* The server closes the connection it serves, or one it refuses.
LEMMA HangKeeps ==
  ASSUME ConnsInv, NEW c \in Clients, NEW answer, Hang(c, answer), job' = job,
         pc' = "loop", backlog' \in Seq(Clients), pc = "body" => current = c,
         pc \notin Ended,
         conn[c].state # "dead" => Fitting(c, answer)
  PROVE  ConnsInv'
<1>1. /\ conn' = [d \in Clients |-> conn'[d]]
      /\ \A d \in Clients \ {c} : conn'[d] = conn[d]
      /\ conn'[c] = IF conn[c].state = "dead" THEN Idle
                    ELSE [conn[c] EXCEPT !.hung = TRUE, !.inbox = <<>>,
                                         !.answer = answer]
  <2> DEFINE x == IF conn[c].state = "dead" THEN Idle
                  ELSE [conn[c] EXCEPT !.hung = TRUE, !.inbox = <<>>,
                                       !.answer = answer]
  <2>1. conn' = [conn EXCEPT ![c] = x]
    BY Zenon DEF Hang
  <2> HIDE DEF x
  <2>2. conn = [d \in Clients |-> conn[d]]
    BY Zenon DEF ConnsInv
  <2>3. /\ conn' = [d \in Clients |-> conn'[d]] /\ conn'[c] = x
        /\ \A d \in Clients \ {c} : conn'[d] = conn[d]
    BY <2>1, <2>2, Zenon
  <2> QED
    BY <2>3, Zenon DEF x
<1>2. \A d \in Clients : ConnInv(d) /\ ~HalfRead(d)'
  BY DEF ConnsInv, HalfRead
<1>3. ConnInv(c)'
  BY <1>1, <1>2, ConnHung, Zenon
<1>4. ASSUME NEW d \in Clients \ {c} PROVE ConnInv(d)'
  <2>1. ~HalfRead(d)
    BY DEF HalfRead
  <2> QED
    BY <1>1, <1>2, <2>1, ConnKept, Zenon
<1>5. \A d \in Clients : ConnInv(d)'
  BY <1>3, <1>4, Zenon
<1>6. job' \in Jobs
  BY Zenon DEF ConnsInv
<1> QED
  BY <1>1, <1>5, <1>6, Zenon DEF ConnsInv

\* Every connection is cut off when the server ends.
LEMMA DiesKeeps ==
  ASSUME ConnsInv, conn' = [c \in Clients |-> Dies(conn[c])], job' = job,
         pc' \in Ended, backlog' = <<>>
  PROVE  ConnsInv'
<1>1. pc' \notin {"request", "body"}
  BY DEF Ended
<1>2. ASSUME NEW c \in Clients PROVE ConnInv(c)'
  <2>1. ConnInv(c) /\ conn'[c] = Dies(conn[c])
    BY DEF ConnsInv
  <2>2. ~HalfRead(c)'
    BY <1>1, Zenon DEF HalfRead
  <2> QED
    BY <2>1, <2>2, ConnDies, Zenon
<1>3. conn' = [c \in Clients |-> conn'[c]]
  BY Zenon
<1> QED
  BY <1>1, <1>2, <1>3 DEF ConnsInv

\* A step that changes no connection, and reads none.
LEMMA NoneRead ==
  ASSUME ConnsInv, UNCHANGED <<job, conn>>, backlog' \in Seq(Clients),
         pc' \in {"request", "body"} => current' \in Clients,
         pc # "body", pc' # "body", pc \in Ended => pc' \in Ended
  PROVE  ConnsInv'
<1>1. ASSUME NEW c \in Clients PROVE ConnInv(c)'
  <2>1. ConnInv(c) /\ conn'[c] = conn[c] /\ job' = job
    BY Zenon DEF ConnsInv
  <2>2. HalfRead(c)' <=> HalfRead(c)
    BY DEF HalfRead
  <2> QED
    BY <2>1, <2>2, ConnKept, Zenon
<1> QED
  BY <1>1, Zenon DEF ConnsInv

\* The request of the connection being served is answered.
LEMMA AnswerKeeps ==
  ASSUME ConnsInv, current \in Clients, conn[current].call \in Call, NEW r,
         r.opcode = conn[current].call.opcode, r.sequence = 1,
         AnswersOK(r), job' = job, pc \in {"request", "body"}
  PROVE  ConnsInv'
<1> DEFINE k == conn[current].call
<1>1. PICK status, size, item : /\ Answers(r, status, size, item)
                                /\ Bounded(k, status, size, item)
  BY Zenon DEF AnswersOK
<1> DEFINE a == [struct |-> answer_struct(r.opcode), magic |-> MAGIC,
                 version |-> VERSION, opcode |-> r.opcode,
                 sequence |-> r.sequence, status |-> status, size |-> size,
                 item |-> item]
<1>2. Hang(current, a) /\ pc' = "loop" /\ backlog' = backlog
  BY <1>1, Zenon DEF Answers
<1>3. Fitting(current, a)
  <2>1. IsAnswer(a, k, status, size, item)
    BY Zenon DEF IsAnswer
  <2> QED
    BY <1>1, <2>1, Zenon DEF Fitting, RightAnswer
<1>4. backlog' \in Seq(Clients)
  BY <1>2, Zenon DEF ConnsInv
<1>5. pc \notin Ended
  BY Zenon DEF Ended
<1> HIDE DEF a
<1> QED
  BY <1>2, <1>3, <1>4, <1>5, HangKeeps, Zenon

\* What the server finds in the inbox of the connection it serves.
LEMMA RequestRead ==
  ASSUME ConnsInv, pc = "request", conn[current].inbox # <<>>
  PROVE  /\ current \in Clients /\ ConnInv(current)
         /\ conn[current].call \in Call /\ ~conn[current].hung
         /\ conn[current].state \in {"half", "waiting", "dead"}
         /\ Head(conn[current].inbox) = First(current)
         /\ Tail(conn[current].inbox) \in {<<>>, <<Second(current)>>}
         /\ conn[current].state = "half" => Tail(conn[current].inbox) = <<>>
<1>1. current \in Clients /\ ConnInv(current) /\ ~HalfRead(current)
  BY Zenon DEF ConnsInv, HalfRead
<1>2. /\ conn[current].call \in Call /\ ~conn[current].hung
      /\ conn[current].state \in {"half", "waiting", "dead"}
  BY <1>1, Zenon DEF ConnInv, InboxInv
<1>3. /\ \/ conn[current].inbox = <<First(current)>>
         \/ conn[current].inbox = <<First(current), Second(current)>>
      /\ conn[current].state = "half" => conn[current].inbox = <<First(current)>>
  BY <1>1, <1>2, Zenon DEF ConnInv, InboxInv
<1>4. /\ Head(conn[current].inbox) = First(current)
      /\ Tail(conn[current].inbox) \in {<<>>, <<Second(current)>>}
      /\ conn[current].state = "half" => Tail(conn[current].inbox) = <<>>
  BY <1>3, Messages2, Zenon
<1> QED
  BY <1>1, <1>2, <1>4, Zenon

\* Reading the first message.
LEMMA RequestKeeps ==
  ASSUME ConnsInv, ReadRequest PROVE ConnsInv'
<1>0. PICK c \in Clients : c = current
  BY DEF ReadRequest, ConnsInv
<1> DEFINE r == Head(conn[c].inbox)
<1>1. pc = "request" /\ conn[c].inbox # <<>>
  BY <1>0, Zenon DEF ReadRequest
<1>2. /\ c \in Clients /\ ConnInv(c) /\ conn[c].call \in Call /\ ~conn[c].hung
      /\ conn[c].state \in {"half", "waiting", "dead"} /\ r = First(c)
      /\ Tail(conn[c].inbox) \in {<<>>, <<Second(c)>>}
      /\ conn[c].state = "half" => Tail(conn[c].inbox) = <<>>
  BY <1>0, <1>1, RequestRead, Zenon
<1>3. /\ r.magic = MAGIC /\ r.version = version_of(c)
      /\ r.opcode = conn[c].call.opcode /\ r.sequence = 1
  BY <1>2, Zenon DEF First, header
<1>4. pc \notin Ended
  BY <1>1, Zenon DEF Ended
<1>5. CASE /\ r.magic # MAGIC \/ r.version # VERSION
           /\ Hang(c, NoAnswer) /\ pc' = "loop"
           /\ UNCHANGED backlog /\ NothingElse
  <2>1. c \in job.outdated
    BY <1>3, <1>5, Zenon DEF version_of
  <2>2. Fitting(c, NoAnswer)
    BY <2>1, Zenon DEF Fitting
  <2>3. job' = job /\ backlog' \in Seq(Clients)
    BY <1>5, Zenon DEF NothingElse, ConnsInv
  <2>4. Hang(c, NoAnswer) /\ pc' = "loop"
    BY <1>5
  <2>5. pc = "body" => current = c
    BY <1>0
  <2> DEFINE a == NoAnswer
  <2> HIDE DEF a
  <2>6. Hang(c, a) /\ Fitting(c, a)
    BY <2>2, <2>4, Zenon DEF a
  <2> QED
    BY <1>2, <1>4, <2>3, <2>4, <2>5, <2>6, HangKeeps, Zenon
<1>6. CASE answer_alone(r)
  <2>1. AnswersOK(r) /\ job' = job
    <3> DEFINE k == conn[c].call
    <3>1. k \in Call /\ k = conn[current].call /\ r.opcode = k.opcode
      BY <1>0, <1>2, <1>3, Zenon
    <3> HIDE DEF k
    <3> QED
      BY <1>6, <3>1, AloneAnswers, Zenon
  <2>2. pc \in {"request", "body"}
    BY <1>1, Zenon
  <2> HIDE DEF r
  <2> QED
    BY <1>0, <1>2, <1>3, <2>1, <2>2, AnswerKeeps, Zenon
<1>7. CASE /\ conn' = [conn EXCEPT ![c].inbox = Tail(@)]
           /\ pc' = "body"
           /\ UNCHANGED <<backlog, current>> /\ NothingElse
  <2>1. /\ conn' = [d \in Clients |-> conn'[d]]
        /\ \A d \in Clients \ {c} : conn'[d] = conn[d]
        /\ conn'[c] = [conn[c] EXCEPT !.inbox = Tail(conn[c].inbox)]
    BY <1>2, <1>7, Zenon DEF ConnsInv
  <2>2. job' = job /\ job' \in Jobs /\ backlog' \in Seq(Clients)
    BY <1>7 DEF NothingElse, ConnsInv
  <2>3. ASSUME NEW d \in Clients \ {c} PROVE ConnInv(d)'
    <3>1. ConnInv(d) /\ conn'[d] = conn[d]
      BY <2>1 DEF ConnsInv
    <3>2. HalfRead(d)' <=> HalfRead(d)
      BY <1>0, <1>1, <1>7 DEF HalfRead
    <3> QED
      BY <1>4, <2>2, <3>1, <3>2, ConnKept, Zenon
  <2>4. ConnInv(c)'
    <3> DEFINE in == Tail(conn[c].inbox)
    <3>1. IsConn(conn'[c], conn[c].state, conn[c].call,
                 in, conn[c].hung, conn[c].answer)
      BY <1>2, <2>1, Zenon DEF IsConn, Whole, ConnInv
    <3>f. /\ HasFields(conn'[c], conn[c].state, conn[c].call,
                       in, conn[c].hung, conn[c].answer)
          /\ Whole(conn'[c])
      BY <3>1, ConnFields, Zenon
    <3>2. HalfRead(c)'
      BY <1>0, <1>7, Zenon DEF HalfRead
    <3>3. Second(c)' = Second(c)
      BY <3>f, Zenon DEF HasFields, Second
    <3>4. /\ conn'[c].state = conn[c].state /\ conn'[c].call = conn[c].call
          /\ conn'[c].inbox = in /\ conn'[c].hung = conn[c].hung
          /\ conn'[c].answer = conn[c].answer
      BY <3>f, Zenon DEF HasFields
    <3> HIDE DEF in
    <3>5. in \in {<<>>, <<Second(c)>>} /\ (conn[c].state = "half" => in = <<>>)
      BY <1>2, ZenonT(40) DEF in
    <3>6. InboxInv(c)'
      BY <1>2, <3>2, <3>3, <3>4, <3>5 DEF InboxInv
    <3> QED
      BY <1>2, <2>2, <3>2, <3>6, <3>f, Zenon DEF ConnInv, HasFields
  <2> QED
    BY <1>0, <1>7, <2>1, <2>2, <2>3, <2>4, Zenon DEF ConnsInv
<1> QED
  BY <1>0, <1>5, <1>6, <1>7, Zenon DEF ReadRequest

\* Reading the second message, or the end of file in its place.
LEMMA BodyKeeps ==
  ASSUME ConnsInv, pc = "body", NEW whole \in BOOLEAN, NEW item,
         item = IF whole THEN Head(conn[current].inbox).item ELSE <<0, 0>>,
         whole => conn[current].inbox # <<>>,
         answer_body(header(conn[current].call.opcode, 1), whole, item)
  PROVE  ConnsInv'
<1> DEFINE c == current
           r == header(conn[c].call.opcode, 1)
<1>1. c \in Clients /\ ConnInv(c) /\ HalfRead(c)
  BY Zenon DEF ConnsInv, HalfRead
<1>2. conn[c].call \in Call
  BY <1>1 DEF ConnInv
<1>3. r.opcode = conn[c].call.opcode /\ r.sequence = 1
  BY Zenon DEF header
<1>4. ASSUME whole PROVE item = sent_item(conn[c].call)
  <2>1. conn[c].inbox = <<Second(c)>>
    BY <1>1, <1>4, Zenon DEF ConnInv, InboxInv
  <2>2. Head(conn[c].inbox) = Second(c)
    BY <2>1, Messages2, Zenon
  <2>3. item = Second(c).item
    BY <1>4, <2>2, Zenon
  <2> QED
    BY <2>3 DEF Second
<1>5. answer_body(r, whole, item)
  BY Zenon
<1> HIDE DEF r
<1>6. job' = job /\ (AnswersOK(r) \/ Crash)
  <2> DEFINE k == conn[c].call
  <2>1. k \in Call /\ k = conn[current].call /\ r.opcode = k.opcode
    BY <1>2, <1>3, Zenon
  <2> HIDE DEF k
  <2> QED
    BY <1>4, <1>5, <2>1, BodyAnswers, Zenon DEF k
<1>7. CASE AnswersOK(r)
  <2>1. pc \in {"request", "body"}
    OBVIOUS
  <2> QED
    BY <1>1, <1>2, <1>3, <1>6, <1>7, <2>1, AnswerKeeps, Zenon
<1>8. CASE Crash
  <2>1. pc' \in Ended
    BY <1>8, Zenon DEF Crash, Ended
  <2> QED
    BY <1>6, <1>8, <2>1, DiesKeeps, Zenon DEF Crash
<1> QED
  BY <1>6, <1>7, <1>8

\* Every step keeps the connections in order.
LEMMA ConnsStep ==
  ASSUME ConnsInv, [BridgeNext]_bridge PROVE ConnsInv'
<1>1. CASE \/ UNCHANGED bridge \/ Signal
           \/ \E p \in Pipes, m \in Callbacks : Post(p, m)
  <2>1. UNCHANGED <<job, pc, current, backlog, conn>>
    BY <1>1, Zenon DEF bridge, server, Signal, Post
  <2>2. ASSUME NEW c \in Clients PROVE ConnInv(c)'
    <3>1. ConnInv(c) /\ conn'[c] = conn[c]
      BY <2>1, Zenon DEF ConnsInv
    <3>2. HalfRead(c)' <=> HalfRead(c)
      BY <2>1, Zenon DEF HalfRead
    <3> QED
      BY <2>1, <3>1, <3>2, ConnKept, Zenon
  <2> QED
    BY <2>1, <2>2, Zenon DEF ConnsInv
<1>2. CASE OpenSession \/ Listen \/ LoopTest \/ PollAgain \/ PollFails
           \/ RemoveSocket \/ Release
  <2>1. UNCHANGED <<job, conn, backlog>>
    BY <1>2, Zenon DEF OpenSession, Listen, LoopTest, PollAgain, PollFails,
                       RemoveSocket, Release
  <2>2. /\ pc # "body" /\ pc' \notin {"request", "body"}
        /\ pc \in Ended => pc' \in Ended
    BY <1>2, Zenon DEF OpenSession, Listen, LoopTest, PollAgain, PollFails,
                RemoveSocket, Release, Ended
  <2>3. backlog' \in Seq(Clients)
    BY <2>1, Zenon DEF ConnsInv
  <2> QED
    BY <2>1, <2>2, <2>3, NoneRead, Zenon
<1>3. CASE Accept
  <2> DEFINE c == Head(backlog)
  <2>1. c \in Clients /\ backlog' \in Seq(Clients)
    BY <1>3 DEF Accept, ConnsInv
  <2>2. job' = job /\ pc = "poll" /\ pc \notin Ended
    BY <1>3, Zenon DEF Accept, Ended
  <2>3. CASE c \in job.foreign
    <3>1. Hang(c, NoAnswer) /\ pc' = "loop"
      BY <1>3, <2>3, Zenon DEF Accept
    <3>2. Fitting(c, NoAnswer)
      BY <2>3, Zenon DEF Fitting
    <3> DEFINE a == NoAnswer
    <3> HIDE DEF c, a
    <3>3. Hang(c, a) /\ Fitting(c, a)
      BY <3>1, <3>2, Zenon DEF a
    <3>4. pc = "body" => current = c
      BY <2>2, Zenon
    <3> QED
      BY <2>1, <2>2, <3>1, <3>3, <3>4, HangKeeps, Zenon
  <2>4. CASE c \notin job.foreign
    <3>1. current' = c /\ pc' = "request" /\ conn' = conn
      BY <1>3, <2>4, Zenon DEF Accept
    <3> QED
      BY <2>1, <2>2, <3>1, NoneRead, Zenon
  <2> QED
    BY <2>3, <2>4, Zenon
<1>4. CASE ReadRequest
  BY <1>4, RequestKeeps, Zenon
<1>5. CASE ReadBody
  <2> DEFINE item == Head(conn[current].inbox).item
             whole == TRUE
  <2>1. /\ pc = "body" /\ conn[current].inbox # <<>> /\ whole \in BOOLEAN
        /\ item = IF whole THEN Head(conn[current].inbox).item ELSE <<0, 0>>
        /\ answer_body(header(conn[current].call.opcode, 1), whole, item)
    BY <1>5, Zenon DEF ReadBody
  <2> HIDE DEF whole, item
  <2> QED
    BY <2>1, BodyKeeps, Zenon
<1>6. CASE ReadEnd
  <2>1. CASE pc = "request"
    <3> DEFINE c == current
               a == NoAnswer
    <3>1. /\ Hang(c, a) /\ pc' = "loop" /\ backlog' = backlog /\ job' = job
          /\ conn[c].state = "dead"
      BY <1>6, <2>1, Zenon DEF ReadEnd, NothingElse
    <3>2. c \in Clients /\ backlog' \in Seq(Clients) /\ pc \notin Ended
      BY <2>1, <3>1, Zenon DEF ConnsInv, Ended
    <3>3. pc = "body" => current = c
      OBVIOUS
    <3> HIDE DEF a, c
    <3> QED
      BY <3>1, <3>2, <3>3, HangKeeps, Zenon
  <2>2. CASE pc = "body"
    <3> DEFINE item == <<0, 0>>
               whole == FALSE
    <3>1. /\ whole \in BOOLEAN /\ ~whole
          /\ item = IF whole THEN Head(conn[current].inbox).item ELSE <<0, 0>>
      BY Zenon
    <3>2. answer_body(header(conn[current].call.opcode, 1), whole, item)
      BY <1>6, <2>2, Zenon DEF ReadEnd
    <3> HIDE DEF whole, item
    <3> QED
      BY <2>2, <3>1, <3>2, BodyKeeps, Zenon
  <2> QED
    BY <1>6, <2>1, <2>2, Zenon DEF ReadEnd
<1>7. CASE CloseListener
  <2>1. pc' \in Ended
    BY <1>7 DEF CloseListener, Ended
  <2> QED
    BY <1>7, <2>1, DiesKeeps, Zenon DEF CloseListener
<1>8. CASE Kill
  <2>1. pc' \in Ended
    BY <1>8 DEF Kill, Crash, Ended
  <2> QED
    BY <1>8, <2>1, DiesKeeps, Zenon DEF Kill, Crash
<1>9. CASE \E c \in Clients :
              \/ ClientStep(c) \/ Die(c)
              \/ \E call \in job.calls[c] : Connect(c, call)
  BY <1>9, ClientsKeep, Zenon
<1> QED
  BY <1>1, <1>2, <1>3, <1>4, <1>5, <1>6, <1>7, <1>8, <1>9, Zenon
  DEF BridgeNext, ServerStep

\* The connections stay in order in every behaviour.
LEMMA ConnsInvariant == BridgeSpec => []ConnsInv
<1>1. BridgeInit => ConnsInv
  <2> SUFFICES ASSUME BridgeInit PROVE ConnsInv
    BY Zenon
  <2>1. ASSUME NEW c \in Clients PROVE ConnInv(c)
    <3>1. conn[c] = Idle /\ ~HalfRead(c)
      BY Zenon DEF BridgeInit, HalfRead
    <3>2. InboxInv(c)
      BY <3>1 DEF InboxInv, Idle
    <3>3. /\ HasFields(conn[c], "idle", [opcode |-> "NONE"], <<>>, FALSE, NoAnswer)
          /\ Whole(conn[c])
      BY <3>1, ConnFields, Zenon DEF Idle, IsConn
    <3> QED
      BY <3>1, <3>2, <3>3, Zenon DEF ConnInv, HasFields
  <2> QED
    BY <2>1 DEF BridgeInit, ConnsInv
<1> QED
  BY <1>1, ConnsStep, PTL DEF BridgeSpec

\* Every ticket on its way to a client is one it can read within its bounds,
\* whatever the native client reports and whoever asked in between.
THEOREM TicketsStaySafe == BridgeSpec => []TicketsAreSafe
<1>1. ASSUME ConnsInv, NEW c \in Clients, conn[c].hung,
             conn[c].answer # NoAnswer, conn[c].call.opcode = "APP_TICKET_CALL"
      PROVE  TicketSafe([status |-> conn[c].answer.status,
                         ticket |-> conn[c].answer.item], conn[c].call.item[2])
  <2> DEFINE k == conn[c].call
  <2>1. PICK status, size, item :
          /\ IsAnswer(conn[c].answer, k, status, size, item)
          /\ Bounded(k, status, size, item)
    BY <1>1, Zenon DEF ConnsInv, ConnInv, AnswerInv, RightAnswer
  <2>2. TicketSafe([status |-> status, ticket |-> item], k.item[2])
    BY <1>1, <2>1, Zenon DEF Bounded
  <2>3. AnswerHas(conn[c].answer, k, status, size, item)
    BY <2>1, AnswerFields, Zenon
  <2> QED
    BY <2>2, <2>3, Zenon DEF AnswerHas
<1>2. ConnsInv => TicketsAreSafe
  BY <1>1, Zenon DEF TicketsAreSafe
<1> QED
  BY <1>2, ConnsInvariant, PTL

\* What the server answers with fills the structure a program receives into.
LEMMA StructsFit ==
  ASSUME NEW op \in Opcodes
  PROVE  /\ op \in ToolOpcodes => sizeof[answer_struct(op)] >= sizeof[tool_struct(op)]
         /\ sizeof[answer_struct(op)] >= sizeof[proxy_struct(op)]
<1>1. proxy_struct(op) = answer_struct(op)
  <2>1. CASE op \in MatchmakingCalls
    BY <2>1 DEF answer_struct, proxy_struct, MatchmakingCalls, InterfaceCalls
  <2>2. CASE op \in InterfaceCalls \cup {"GAME_SERVER_CALL"}
    <3>1. answer_struct(op) = "game_server_response"
      BY <2>2, Structs, Zenon
    <3>2. proxy_struct(op) = "game_server_response"
      BY <2>2 DEF proxy_struct, MatchmakingCalls, InterfaceCalls
    <3> QED
      BY <3>1, <3>2, Zenon
  <2>3. CASE op \in {"PING", "STATUS", "STOP", "GET_AUTH_TICKET", "GET_CALLBACK",
                     "INIT_GAME_CONNECTION", "FREE_CALLBACK", "VOICE_CALL",
                     "GET_API_CALL_RESULT", "APP_TICKET_CALL"}
    <3>1. /\ op \notin MatchmakingCalls
          /\ op \notin InterfaceCalls \cup {"GAME_SERVER_CALL"}
      BY <2>3, Zenon DEF InterfaceCalls, MatchmakingCalls
    <3> QED
      BY <2>3, <3>1 DEF answer_struct, proxy_struct
  <2> QED
    BY <2>1, <2>2, <2>3, Zenon DEF Opcodes
<1>2. ASSUME op \in ToolOpcodes PROVE tool_struct(op) = answer_struct(op)
  <2>1. CASE op \in MatchmakingCalls
    BY <2>1 DEF answer_struct, tool_struct, MatchmakingCalls, InterfaceCalls
  <2>2. CASE op \in InterfaceCalls \cup {"GAME_SERVER_CALL"}
    <3>1. answer_struct(op) = "game_server_response"
      BY <2>2, Structs, Zenon
    <3>2. /\ op \in (InterfaceCalls \ {"NETWORK_SOCKETS_CALL"})
                      \cup {"GAME_SERVER_CALL"}
          /\ op \notin MatchmakingCalls
          /\ op \notin {"GET_AUTH_TICKET", "GET_CALLBACK", "GET_API_CALL_RESULT"}
      BY <1>2, <2>2, Zenon DEF ToolOpcodes, InterfaceCalls, MatchmakingCalls
    <3>3. tool_struct(op) = "game_server_response"
      BY <3>2 DEF tool_struct
    <3> QED
      BY <3>1, <3>3, Zenon
  <2>3. CASE op \in {"PING", "STATUS", "STOP", "GET_AUTH_TICKET", "GET_CALLBACK",
                     "FREE_CALLBACK", "GET_API_CALL_RESULT"}
    <3>1. /\ op \notin MatchmakingCalls
          /\ op \notin InterfaceCalls \cup {"GAME_SERVER_CALL"}
          /\ op \notin (InterfaceCalls \ {"NETWORK_SOCKETS_CALL"})
                         \cup {"GAME_SERVER_CALL"}
      BY <2>3, Zenon DEF InterfaceCalls, MatchmakingCalls
    <3> QED
      BY <2>3, <3>1 DEF answer_struct, tool_struct
  <2> QED
    BY <1>2, <2>1, <2>2, <2>3, Zenon DEF Opcodes, ToolOpcodes
<1>3. answer_struct(op) \in DOMAIN sizeof /\ \A s \in DOMAIN sizeof : sizeof[s] \in Nat
  <2>1. answer_struct(op) \in
          {"ticket_response", "mm_response", "game_server_response",
           "callback_response", "api_call_response", "app_ticket_response",
           "blob_response", "voice_response", "response"}
    BY DEF answer_struct
  <2> QED
    BY <2>1 DEF sizeof
<1>4. sizeof[answer_struct(op)] >= sizeof[answer_struct(op)]
  <2> DEFINE n == sizeof[answer_struct(op)]
  <2>1. n \in Nat
    BY <1>3, Zenon
  <2> HIDE DEF n
  <2>2. n >= n
    BY <2>1
  <2> QED
    BY <2>2, Zenon DEF n
<1> QED
  BY <1>1, <1>2, <1>4, Zenon

\* What a program takes of the answer to its call.
Agreed(k, a, report) ==
  /\ report = "ok" <=> /\ Succeeded(k, a)
                       /\ k.opcode \in PassedOn => a.size <= Room(k)
  /\ report = "ok" => a.size <= Room(k)

\* The tool takes what the server calls a success, but for a size that no
\* message holds.
LEMMA ToolAgrees ==
  ASSUME NEW k \in Call, k.by = "tool", NEW status, NEW size, NEW item,
         Bounded(k, status, size, item),
         NEW a, IsAnswer(a, k, status, size, item)
  PROVE  Agreed(k, a, tool_report(k, a))
<1> DEFINE op == k.opcode
<1>1. op \in Opcodes /\ op \in ToolOpcodes
  BY CallFacts, Zenon DEF sends
<1>2. /\ a.struct = answer_struct(op) /\ a.magic = MAGIC
      /\ a.version = VERSION /\ a.opcode = op /\ a.sequence = 1
      /\ a.status = status /\ a.size = size
  <2>1. AnswerHas(a, k, status, size, item)
    BY AnswerFields, Zenon
  <2> QED
    BY <2>1, Zenon DEF AnswerHas
<1>3. fills(a, tool_struct(op))
  BY <1>1, <1>2, StructsFit, Zenon DEF fills
<1>4. size \in Nat /\ (op \notin PassedOn => size <= Room(k))
  BY Zenon DEF Bounded
<1>5. /\ op \in InterfaceCalls \cup {"GET_AUTH_TICKET"} => Room(k) = MaxTicket
      /\ op = "GET_API_CALL_RESULT" => Room(k) = MaxCallback
  <2>1. Room(k) = payload[answer_struct(op)]
    <3>1. op # "APP_TICKET_CALL" /\ k.by # "proxy"
      BY <1>1, Zenon DEF ToolOpcodes
    <3> QED
      BY <3>1 DEF Room
  <2> QED
    BY <1>1, <2>1, Structs, Zenon
<1>6. tool_oversized(op, size) <=> op \in PassedOn /\ ~(size <= Room(k))
  <2>1. MaxTicket \in Nat /\ MaxCallback \in Nat
    BY TicketAssumptions DEF MaxCallback
  <2>2. CASE op \in PassedOn
    <3>1. /\ op \in InterfaceCalls \cup {"GET_AUTH_TICKET"}
          /\ op # "GET_API_CALL_RESULT"
      BY <1>1, <2>2, Zenon DEF PassedOn, ToolOpcodes, InterfaceCalls
    <3>2. size > MaxTicket <=> ~(size <= MaxTicket)
      BY <1>4, <2>1
    <3> QED
      BY <1>5, <2>2, <3>1, <3>2, Zenon DEF tool_oversized
  <2>3. CASE op \notin PassedOn
    <3>1. size <= MaxTicket => ~(size > MaxTicket)
      BY <1>4, <2>1
    <3>2. size <= MaxCallback => ~(size > MaxCallback)
      BY <1>4, <2>1
    <3> QED
      BY <1>4, <1>5, <2>3, <3>1, <3>2, Zenon DEF tool_oversized
  <2> QED
    BY <2>2, <2>3, Zenon
<1>7. Succeeded(k, a) <=> (status = 0 \/ (op = "GET_CALLBACK" /\ status = -EAGAIN))
  BY <1>2, Zenon DEF Succeeded
<1>8. tool_report(k, a) = "ok" <=>
        ~tool_oversized(op, size) /\ Succeeded(k, a)
  BY <1>2, <1>3, <1>7, ZenonT(40) DEF tool_report
<1> QED
  BY <1>2, <1>4, <1>6, <1>8, Zenon DEF Agreed

\* So does the proxy, whose caller's buffer may be smaller than the message.
LEMMA ProxyAgrees ==
  ASSUME NEW k \in Call, k.by = "proxy", NEW status, NEW size, NEW item,
         Bounded(k, status, size, item),
         NEW a, IsAnswer(a, k, status, size, item)
  PROVE  Agreed(k, a, proxy_report(k, a))
<1> DEFINE op == k.opcode
<1>1. op \in Opcodes
  BY CallFacts, Zenon
<1>2. /\ a.struct = answer_struct(op) /\ a.magic = MAGIC
      /\ a.version = VERSION /\ a.opcode = op /\ a.sequence = 1
      /\ a.status = status /\ a.size = size /\ a.item = item
  <2>1. AnswerHas(a, k, status, size, item)
    BY AnswerFields, Zenon
  <2> QED
    BY <2>1, Zenon DEF AnswerHas
<1>3. fills(a, proxy_struct(op))
  BY <1>1, <1>2, StructsFit, Zenon DEF fills
<1>4. size \in Nat /\ (op \notin PassedOn => size <= Room(k))
  BY Zenon DEF Bounded
<1>5. Succeeded(k, a) <=> status = 0
  BY <1>2, Zenon DEF Succeeded
<1>6. proxy_report(k, a) = "ok" <=> status = 0 /\ proxy_takes_size(k, a)
  BY <1>2, <1>3, ZenonT(40) DEF proxy_report
<1>7. ASSUME status = 0
      PROVE  proxy_takes_size(k, a) <=> (op \in PassedOn => size <= Room(k))
  <2>1. CASE op \in {"GET_AUTH_TICKET", "INIT_GAME_CONNECTION"}
    <3>1. Room(k) = native_capacity(k.item[1]) /\ op \in PassedOn
      BY <2>1 DEF Room, PassedOn
    <3>2. k.item[1] \in Nat /\ MaxTicket \in Nat
      BY CallFacts, TicketAssumptions DEF UInt
    <3>3. size <= native_capacity(k.item[1]) <=>
            size <= MaxTicket /\ size <= k.item[1]
      BY <1>4, <3>2 DEF native_capacity
    <3>4. proxy_takes_size(k, a) <=> size <= MaxTicket /\ size <= k.item[1]
      BY <1>2, <2>1 DEF proxy_takes_size, InterfaceCalls, MatchmakingCalls
    <3> QED
      BY <3>1, <3>3, <3>4, Zenon
  <2>2. CASE op = "APP_TICKET_CALL"
    <3>1. op \notin PassedOn
      BY <2>2, Zenon DEF PassedOn
    <3>2. proxy_takes_ticket(item, k.item[2])
      BY <1>7, <2>2, Zenon DEF Bounded
    <3>3. proxy_takes_size(k, a) <=> proxy_takes_ticket(item, k.item[2])
      BY <1>2, <2>2 DEF proxy_takes_size, InterfaceCalls, MatchmakingCalls
    <3> QED
      BY <3>1, <3>2, <3>3, Zenon
  <2>3. CASE op \notin {"GET_AUTH_TICKET", "INIT_GAME_CONNECTION", "APP_TICKET_CALL"}
    <3>1. Room(k) = payload[answer_struct(op)]
      BY <2>3, CallFacts, Zenon
    <3>2. CASE op \in InterfaceCalls
      <4>1. Room(k) = MaxTicket
        BY <1>1, <3>1, <3>2, Structs, Zenon
      <4>2. /\ op \notin MatchmakingCalls
            /\ op \notin {"VOICE_CALL", "GET_CALLBACK", "GET_API_CALL_RESULT"}
        BY <3>2, Zenon DEF InterfaceCalls, MatchmakingCalls
      <4>3. proxy_takes_size(k, a) <=> size <= MaxTicket
        BY <1>2, <2>3, <3>2, <4>2 DEF proxy_takes_size
      <4> QED
        BY <1>4, <4>1, <4>3, Zenon
    <3>3. CASE op \in MatchmakingCalls
      <4>1. Room(k) = MMDataSize
        BY <1>1, <3>1, <3>3, Structs, Zenon
      <4>2. /\ op \notin InterfaceCalls /\ op \notin PassedOn
            /\ op \notin {"VOICE_CALL", "GET_CALLBACK", "GET_API_CALL_RESULT"}
        BY <3>3, Zenon DEF InterfaceCalls, MatchmakingCalls, PassedOn
      <4>3. proxy_takes_size(k, a) <=> size <= MMDataSize
        BY <1>2, <2>3, <3>3, <4>2 DEF proxy_takes_size
      <4> QED
        BY <1>4, <4>1, <4>2, <4>3, Zenon
    <3>4. CASE op \notin InterfaceCalls \cup MatchmakingCalls
      <4>1. op \notin PassedOn
        BY <2>3, <3>4, Zenon DEF PassedOn, InterfaceCalls
      <4>2. size <= payload[answer_struct(op)]
        BY <1>4, <3>1, <4>1, Zenon
      <4>3. CASE op = "GET_CALLBACK"
        BY <1>1, <1>2, <2>3, <3>4, <4>1, <4>2, <4>3, Structs, Zenon
        DEF proxy_takes_size
      <4>4. CASE op = "VOICE_CALL"
        BY <1>1, <1>2, <2>3, <3>4, <4>1, <4>2, <4>4, Structs, Zenon
        DEF proxy_takes_size
      <4>5. CASE op = "GET_API_CALL_RESULT"
        <5>1. size = sent_item(k)[1]
          BY <1>7, <4>5, Zenon DEF Bounded
        <5>2. sent_item(k) = k.item
          BY <4>5 DEF sent_item
        <5> QED
          BY <1>2, <2>3, <3>4, <4>1, <4>5, <5>1, <5>2, Zenon DEF proxy_takes_size
      <4>6. CASE op \notin {"GET_CALLBACK", "VOICE_CALL", "GET_API_CALL_RESULT"}
        BY <1>2, <2>3, <3>4, <4>1, <4>6 DEF proxy_takes_size
      <4> QED
        BY <4>3, <4>4, <4>5, <4>6, Zenon
    <3> QED
      BY <3>2, <3>3, <3>4, Zenon
  <2> QED
    BY <2>1, <2>2, <2>3, Zenon
<1> QED
  BY <1>2, <1>4, <1>5, <1>6, <1>7, Zenon DEF Agreed

\* A client of the server's user and version gets the answer to its own
\* request, cut off only by the end of the server; its program takes it exactly
\* when the server calls it a success, but for a size the server only passed on
\* and there is no room for, and never takes more than there is room for.
THEOREM ExchangesAgree == BridgeSpec => []ExchangeAgrees
<1>1. ASSUME ConnsInv PROVE ExchangeAgrees
  <2> SUFFICES ASSUME NEW c \in Clients, c \notin job.foreign \cup job.outdated,
                      conn[c].hung
               PROVE  IF conn[c].answer = NoAnswer THEN pc \notin Serving
                      ELSE Agreed(conn[c].call, conn[c].answer, Report(c))
    BY Zenon DEF ExchangeAgrees, Agreed
  <2>1. AnswerInv(c)
    BY <1>1, Zenon DEF ConnsInv, ConnInv
  <2>2. CASE conn[c].answer = NoAnswer
    <3>1. ASSUME RightAnswer(conn[c].call, NoAnswer) PROVE FALSE
      <4> DEFINE k == conn[c].call
      <4>1. PICK status, size, item : IsAnswer(NoAnswer, k, status, size, item)
        BY <3>1, Zenon DEF RightAnswer
      <4>2. k \in Call
        BY <3>1, Zenon DEF RightAnswer
      <4>3. answer_struct(k.opcode) # "none"
        BY <4>2, CallFacts, Structs, Zenon
      <4>4. NoAnswer.struct = "none"
        BY Zenon DEF NoAnswer
      <4>5. AnswerHas(NoAnswer, k, status, size, item)
        BY <4>1, AnswerFields, Zenon
      <4> QED
        BY <4>3, <4>4, <4>5, Zenon DEF AnswerHas
    <3>2. pc \in Ended
      BY <2>1, <2>2, <3>1, Zenon DEF AnswerInv
    <3> QED
      BY <2>2, <3>2, Zenon DEF Ended, Serving
  <2>3. CASE conn[c].answer # NoAnswer
    <3> DEFINE k == conn[c].call
               b == conn[c].answer
    <3>1. k \in Call
      BY <2>1, <2>3, Zenon DEF AnswerInv, RightAnswer
    <3>2. PICK status, size, item : /\ IsAnswer(b, k, status, size, item)
                                    /\ Bounded(k, status, size, item)
      BY <2>1, <2>3, Zenon DEF AnswerInv, RightAnswer
    <3>3. k.by \in {"tool", "proxy"}
      BY <3>1, CallFacts, Zenon DEF Programs
    <3>4. Report(c) = IF k.by = "tool" THEN tool_report(k, b) ELSE proxy_report(k, b)
      BY Zenon DEF Report
    <3> HIDE DEF k, b
    <3>5. CASE k.by = "tool"
      <4>1. Agreed(k, b, tool_report(k, b))
        BY <3>1, <3>2, <3>5, ToolAgrees, Zenon
      <4> QED
        BY <2>3, <3>4, <3>5, <4>1, Zenon DEF k, b
    <3>6. CASE k.by = "proxy"
      <4>1. Agreed(k, b, proxy_report(k, b))
        BY <3>1, <3>2, <3>6, ProxyAgrees, Zenon
      <4> QED
        BY <2>3, <3>4, <3>6, <4>1, Zenon DEF k, b
    <3> QED
      BY <3>3, <3>5, <3>6, Zenon
  <2> QED
    BY <2>2, <2>3, Zenon
<1> QED
  BY <1>1, ConnsInvariant, PTL

-----------------------------------------------------------------------------
(* The callbacks in every behaviour.                                       *)

\* Every step keeps the callbacks in order, and loses none.
LEMMA CallbacksStep ==
  ASSUME CallbacksInv, ConnsInv, [BridgeNext]_bridge
  PROVE  CallbacksInv' /\ (pc' \in Serving => TakesSpent)
<1>0. Queues' = Queues
  BY JobStays, Zenon
<1>1. CASE UNCHANGED callbacks
  BY <1>0, <1>1, Untouched, Zenon DEF callbacks, CallbacksInv, HtmlNeverDelivered
<1>2. CASE PipesGone
  <2>1. queue' \in Queues /\ \A p \in Pipes : queue'[p] = <<>>
    BY <1>2 DEF PipesGone, Queues
  <2>2. HtmlNeverDelivered'
    BY <2>1 DEF HtmlNeverDelivered
  <2> QED
    BY <1>0, <1>2, <2>1, <2>2, Zenon DEF PipesGone, CallbacksInv
<1>3. pc = "request" /\ conn[current].state = "dead" => job.mortal # {}
  BY Zenon DEF ConnsInv, ConnInv
<1> QED
  BY <1>0, <1>1, <1>2, <1>3, CallbackSteps, PostKeeps, GetKeeps, FreeKeeps, Zenon

\* The callbacks stay in order in every behaviour.
LEMMA CallbacksInvariant == BridgeSpec => []CallbacksInv
<1>1. BridgeInit => CallbacksInv
  BY DEF BridgeInit, CallbacksInv, HtmlNeverDelivered, Queues
<1> QED
  BY <1>1, CallbacksStep, ConnsInvariant, PTL DEF BridgeSpec

\* A callback that points into native memory is in no answer, however many
\* attempts a request makes and however many such callbacks come in a row.
THEOREM HtmlStaysBehind == BridgeSpec => []HtmlNeverDelivered
<1>1. CallbacksInv => HtmlNeverDelivered
  BY DEF CallbacksInv
<1> QED
  BY <1>1, CallbacksInvariant, PTL

\* No callback is freed that was not sent to a client there to read it, unless
\* it is one of HTML's or no message can carry it, whichever clients get and
\* free callbacks of the two pipes in between; only where a client can be
\* killed may the answer it went into have had no reader left.
THEOREM NothingIsLost == BridgeSpec => NothingLost
<1> DEFINE Keeps == pc' \in Serving => \A p \in Pipes :
                      \A i \in 1 .. Len(queue[p]) - Len(queue'[p]) :
                        LET m == queue[p][i]
                        IN  \/ m.mark = "sent" \/ Html(m) \/ Unsendable(m)
                            \/ m.mark = "unread" /\ job.mortal # {}
<1>1. CallbacksInv /\ ConnsInv /\ [BridgeNext]_bridge => [Keeps]_bridge
  BY CallbacksStep, Zenon DEF TakesSpent, Spent, Freed
<1> QED
  BY <1>1, CallbacksInvariant, ConnsInvariant, PTL DEF BridgeSpec, NothingLost
=============================================================================
