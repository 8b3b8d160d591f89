--------------------------- MODULE SessionProofs ---------------------------
(***************************************************************************)
(* Proofs about Session, for any number of connections, processes, worker  *)
(* slots and calls, and for any range of request numbers: its inductive    *)
(* invariant, the steps of the client library, of the workers and of the   *)
(* daemon, and the theorems.                                               *)
(***************************************************************************)
EXTENDS Session, WellFoundedInduction, TLAPS


-----------------------------------------------------------------------------
(* The inductive invariant.                                                *)

\* A worker that serves a connection, and one that has a request in hand.
Active(s) == slots[s].phase \in {"receive", "blocked", "send"}
Serving(s) == slots[s].phase \in {"blocked", "send"}

\* A process that does not run has no client and no call.
GoneIsGone ==
  \A p \in Procs \ running : client[p] = Disconnected /\ call[p] = NoCall

\* Who has a descriptor keeps the connection open, who opened it is the one
\* that SO_PEERCRED names, and only they are in the middle of a call.
OwnersKnown ==
  \A p \in Procs :
    /\ client[p].fd # None => p \in ends[client[p].fd]
    /\ connected(p) => peer[client[p].fd] = p
    /\ call[p].pc # "idle" =>
         connected(p) /\ serial[p] # 0 /\ call[p].kind # "none"

\* The owner that a child finds in its copy of the client is no fresh process.
OwnersAreOld ==
  \A p \in Procs : \/ client[p].pid = None
                   \/ client[p].pid \in running
                   \/ result[client[p].pid] # "none"

\* The listener holds each connection that waits for accept4 once, accept4
\* finds one, and a daemon that has left its loop holds none.
BacklogSound ==
  /\ \A i \in DOMAIN backlog : server[backlog[i]] = "queued"
  /\ \A i, j \in DOMAIN backlog : backlog[i] = backlog[j] => i = j
  /\ daemon = "accept" => backlog # <<>>
  /\ daemon \notin {"poll", "accept"} => backlog = <<>>

\* Accepted connections and working workers belong together, one to one.
WorkersPaired ==
  /\ \A s \in Slots : Active(s) =>
       slots[s].conn \in Conns /\ server[slots[s].conn] \in {"open", "shut"}
  /\ \A s, t \in Slots :
       Active(s) /\ Active(t) /\ slots[s].conn = slots[t].conn => s = t
  /\ \A c \in Conns : server[c] \in {"open", "shut"} =>
       \E s \in Slots : Active(s) /\ slots[s].conn = c
  /\ \A s \in Slots : Serving(s) => slots[s].job \in Request
  /\ daemon \in {"unlink", "down"} => \A s \in Slots : ~Active(s)

\* A request or response on its way on connection c is its owner's, and if the
\* owner still uses the connection it is the one it waits for.
Expected(c, r) ==
  /\ r.by = peer[c]
  /\ connected(r.by) /\ client[r.by].fd = c =>
       /\ call[r.by].pc = "receive"
       /\ r.id = call[r.by].id /\ r.serial = serial[r.by]

\* At most one message is on its way on a connection: a request, the request a
\* worker has in hand, or a response.
WireSound(c) ==
  /\ Len(inbox[c]) + Len(outbox[c]) <= 1
  /\ \A i \in DOMAIN inbox[c] : Expected(c, inbox[c][i])
  /\ \A i \in DOMAIN outbox[c] : Expected(c, outbox[c][i])
JobSound(s) ==
  Serving(s) => /\ inbox[slots[s].conn] = <<>> /\ outbox[slots[s].conn] = <<>>
                /\ Expected(slots[s].conn, slots[s].job)
OneExchange == /\ \A c \in Conns : WireSound(c)
               /\ \A s \in Slots : JobSound(s)

SessionInv == /\ TypeOK /\ GoneIsGone /\ OwnersKnown /\ OwnersAreOld
              /\ BacklogSound /\ WorkersPaired /\ OneExchange
              /\ AnswerIsMine /\ ServedAsCaller

\* Init satisfies the invariant.
LEMMA InitHolds == Init => SessionInv
<1> SUFFICES ASSUME Init PROVE SessionInv
  OBVIOUS
<1> USE SessionAssumptions
<1>1. TypeOK
  <2>1. /\ FreeSlot \in SlotState /\ Disconnected \in ClientState
        /\ NoCall \in CallState
    BY DEF FreeSlot, SlotState, Disconnected, ClientState, NoCall, CallState
  <2>2. /\ slots \in [Slots -> SlotState] /\ client \in [Procs -> ClientState]
        /\ call \in [Procs -> CallState]
    BY <2>1 DEF Init
  <2>3. /\ backlog \in Seq(Conns) /\ inbox \in [Conns -> Seq(Request)]
        /\ outbox \in [Conns -> Seq(Request)]
    BY DEF Init
  <2>4. ends \in [Conns -> SUBSET running] /\ running \subseteq Procs
    BY DEF Init
  <2>5. /\ serial \in [Procs -> 0 .. MaxCalls] /\ result \in [Procs -> Results]
        /\ got \in [Procs -> Request \cup {None}]
    BY DEF Init, Results
  <2> QED
    BY <2>2, <2>3, <2>4, <2>5, Zenon DEF Init, TypeOK
<1>2. GoneIsGone /\ OwnersKnown /\ OwnersAreOld
  BY Zenon DEF Init, GoneIsGone, OwnersKnown, OwnersAreOld, Disconnected, NoCall,
         connected
<1>3. BacklogSound /\ WorkersPaired
  BY DEF Init, BacklogSound, WorkersPaired, Active, Serving, FreeSlot
<1>4. OneExchange
  BY DEF Init, OneExchange, WireSound, JobSound, Serving, FreeSlot
<1>5. AnswerIsMine /\ ServedAsCaller
  BY DEF Init, AnswerIsMine, ServedAsCaller
<1> QED
  BY <1>1, <1>2, <1>3, <1>4, <1>5 DEF SessionInv

-----------------------------------------------------------------------------
(* What the steps of a client have in common.                              *)

\* Of two queues that hold at most one message together, the one that is not
\* empty holds it, and the other is empty.
LEMMA OnlyOne ==
  ASSUME NEW M, NEW a \in Seq(M), NEW b \in Seq(M), b # <<>>,
         Len(a) + Len(b) <= 1 \/ Len(b) + Len(a) <= 1
  PROVE  /\ a = <<>> /\ Len(b) = 1 /\ 1 \in DOMAIN b
         /\ Head(b) = b[1] /\ b[1] \in M /\ Tail(b) = <<>>
<1>1. Len(a) \in Nat /\ Len(b) \in Nat
  OBVIOUS
<1>2. Len(b) # 0
  OBVIOUS
<1>3. Len(a) = 0 /\ Len(b) = 1
  <2>1. ASSUME NEW m \in Nat, NEW n \in Nat, n # 0,
               m + n <= 1 \/ n + m <= 1
        PROVE  m = 0 /\ n = 1
    BY <2>1
  <2> QED
    BY <1>1, <1>2, <2>1, Zenon
<1>4. a = <<>> /\ 1 \in DOMAIN b /\ b[1] \in M
  BY <1>3
<1>5. Head(b) = b[1] /\ Tail(b) = <<>>
  <2>1. Tail(b) \in Seq(M) /\ Len(Tail(b)) = 0
    BY <1>2, <1>3
  <2> QED
    BY <2>1
<1> QED
  BY <1>3, <1>4, <1>5

\* Process p gives its connection up, and nobody else is concerned.
GivesUp(p) ==
  /\ client'[p].fd = None /\ call'[p].pc = "idle"
  /\ \A q \in Procs \ {p} : /\ client'[q] = client[q] /\ call'[q] = call[q]
                            /\ serial'[q] = serial[q]
  /\ \A c \in Conns : ends[c] \ {p} \subseteq ends'[c]
  /\ peer' = peer

\* Then everybody else keeps what it knows of its connection.
LEMMA OwnersAfterGivingUp ==
  ASSUME NEW p \in Procs, GivesUp(p), client \in [Procs -> ClientState],
         OwnersKnown
  PROVE  OwnersKnown'
<1> SUFFICES ASSUME NEW q \in Procs
    PROVE  /\ client'[q].fd # None => q \in ends'[client'[q].fd]
           /\ connected(q)' => peer'[client'[q].fd] = q
           /\ call'[q].pc # "idle" => /\ connected(q)' /\ serial'[q] # 0
                                      /\ call'[q].kind # "none"
  BY DEF OwnersKnown
<1>1. CASE q = p
  BY <1>1, Zenon DEF GivesUp, connected
<1>2. CASE q # p
  <2>1. /\ client'[q] = client[q] /\ call'[q] = call[q]
        /\ serial'[q] = serial[q] /\ peer' = peer
    BY <1>2 DEF GivesUp
  <2>2. client[q].fd \in Conns \cup {None}
    BY DEF ClientState
  <2>3. client[q].fd # None => q \in ends'[client[q].fd]
    BY <1>2, <2>2 DEF GivesUp, OwnersKnown
  <2> QED
    BY <2>1, <2>3, Zenon DEF OwnersKnown, connected
<1> QED
  BY <1>1, <1>2, Zenon

\* And what is on its way stays as expected.
LEMMA ExpectedAfterGivingUp ==
  ASSUME NEW p \in Procs, GivesUp(p), NEW c \in Conns, NEW r \in Request,
         Expected(c, r)
  PROVE  Expected(c, r)'
<1>1. r.by \in Procs
  BY DEF Request
<1>2. CASE r.by = p
  BY <1>2, Zenon DEF GivesUp, Expected, connected
<1>3. CASE r.by # p
  BY <1>1, <1>3 DEF GivesUp, Expected, connected
<1> QED
  BY <1>2, <1>3

\* If nothing moves on a connection, what was expected before is enough.
LEMMA QuietConnection ==
  ASSUME TypeOK, NEW c \in Conns, WireSound(c),
         inbox'[c] = inbox[c], outbox'[c] = outbox[c],
         \A r \in Request : Expected(c, r) => Expected(c, r)'
  PROVE  WireSound(c)'
<1>1. /\ \A i \in DOMAIN inbox[c] : inbox[c][i] \in Request
      /\ \A i \in DOMAIN outbox[c] : outbox[c][i] \in Request
  <2>1. inbox[c] \in Seq(Request) /\ outbox[c] \in Seq(Request)
    BY Zenon DEF TypeOK
  <2> QED
    BY <2>1
<1>2. (\A i \in DOMAIN inbox[c] : Expected(c, inbox[c][i]))'
  BY <1>1, Zenon DEF WireSound
<1>3. (\A i \in DOMAIN outbox[c] : Expected(c, outbox[c][i]))'
  BY <1>1, Zenon DEF WireSound
<1> QED
  BY <1>2, <1>3, Zenon DEF WireSound

\* A worker whose slot and connection nothing has changed keeps a sound job.
LEMMA QuietWorker ==
  ASSUME WorkersPaired, NEW s \in Slots, JobSound(s),
         slots'[s] = slots[s] \/ ~Serving(s)',
         Serving(s) => /\ inbox'[slots[s].conn] = inbox[slots[s].conn]
                       /\ outbox'[slots[s].conn] = outbox[slots[s].conn]
                       /\ \A r \in Request : Expected(slots[s].conn, r) =>
                            \A c \in {slots[s].conn} : Expected(c, r)'
  PROVE  JobSound(s)'
<1>1. SUFFICES ASSUME Serving(s)'
      PROVE  (/\ inbox[slots[s].conn] = <<>> /\ outbox[slots[s].conn] = <<>>
              /\ Expected(slots[s].conn, slots[s].job))'
  BY Zenon DEF JobSound
<1>2. Serving(s) /\ slots'[s] = slots[s]
  BY <1>1, Zenon DEF Serving
<1>3. slots[s].job \in Request
  BY <1>2 DEF WorkersPaired
<1> QED
  BY <1>2, <1>3 DEF JobSound, Expected, connected

\* Nothing moves on any connection.
LEMMA QuietWire ==
  ASSUME TypeOK, WorkersPaired, OneExchange,
         slots' = slots, inbox' = inbox, outbox' = outbox,
         \A c \in Conns, r \in Request : Expected(c, r) => Expected(c, r)'
  PROVE  OneExchange'
<1>1. ASSUME NEW c \in Conns PROVE WireSound(c)'
  BY QuietConnection, Zenon DEF OneExchange
<1>2. ASSUME NEW s \in Slots PROVE JobSound(s)'
  <2>1. Serving(s) => slots[s].conn \in Conns
    BY Zenon DEF WorkersPaired, Active, Serving
  <2> QED
    BY <2>1, QuietWorker, Zenon DEF OneExchange
<1> QED
  BY <1>1, <1>2, Zenon DEF OneExchange

\* A process whose connection is c concerns no other connection.
LEMMA ExpectedElsewhere ==
  ASSUME NEW p \in Procs, NEW c, client'[p].fd = c,
         \A q \in Procs \ {p} : /\ client'[q] = client[q] /\ call'[q] = call[q]
                                /\ serial'[q] = serial[q],
         \A d \in Conns \ {c} : peer'[d] = peer[d]
  PROVE  \A d \in Conns \ {c}, r \in Request : Expected(d, r) => Expected(d, r)'
<1> SUFFICES ASSUME NEW d \in Conns \ {c}, NEW r \in Request, Expected(d, r)
    PROVE  Expected(d, r)'
  OBVIOUS
<1>1. r.by \in Procs
  BY DEF Request
<1>2. CASE r.by = p
  BY <1>2, Zenon DEF Expected, connected
<1>3. CASE r.by # p
  BY <1>1, <1>3, Zenon DEF Expected, connected
<1> QED
  BY <1>2, <1>3, Zenon

\* It is enough to look at the connection, and the worker, where things move.
LEMMA QuietElsewhere ==
  ASSUME TypeOK, WorkersPaired, OneExchange, NEW c \in Conns, NEW busy,
         \A d \in Conns \ {c}, r \in Request : Expected(d, r) => Expected(d, r)',
         \A d \in Conns \ {c} : inbox'[d] = inbox[d] /\ outbox'[d] = outbox[d],
         \A t \in Slots \ {busy} :
           Serving(t)' => slots'[t] = slots[t] /\ slots[t].conn # c,
         WireSound(c)', busy \in Slots => JobSound(busy)'
  PROVE  OneExchange'
<1>1. ASSUME NEW d \in Conns, d # c PROVE WireSound(d)'
  BY <1>1, QuietConnection DEF OneExchange
<1>2. ASSUME NEW t \in Slots \ {busy} PROVE JobSound(t)'
  <2>1. CASE Serving(t)'
    <3>1. Serving(t) /\ slots'[t] = slots[t] /\ slots[t].conn # c
      BY <2>1, Zenon DEF Serving
    <3>2. slots[t].conn \in Conns \ {c}
      BY <3>1 DEF WorkersPaired, Active, Serving
    <3>3. \A r \in Request : Expected(slots[t].conn, r) =>
                               \A d \in {slots[t].conn} : Expected(d, r)'
      BY <3>2, ZenonT(30)
    <3> QED
      BY <3>1, <3>2, <3>3, QuietWorker, Zenon DEF OneExchange
  <2>2. CASE ~Serving(t)'
    BY <2>2, Zenon DEF JobSound
  <2> QED
    BY <2>1, <2>2, Zenon
<1> QED
  BY <1>1, <1>2, Zenon DEF OneExchange

\* The same for a step that no worker takes.
LEMMA QuietButOne ==
  ASSUME TypeOK, WorkersPaired, OneExchange, NEW c \in Conns,
         \A d \in Conns \ {c}, r \in Request : Expected(d, r) => Expected(d, r)',
         \A d \in Conns \ {c} : inbox'[d] = inbox[d] /\ outbox'[d] = outbox[d],
         \A t \in Slots : Serving(t)' => slots'[t] = slots[t] /\ slots[t].conn # c,
         WireSound(c)'
  PROVE  OneExchange'
<1>1. 0 \notin Slots
  BY SessionAssumptions DEF Slots
<1> QED
  BY <1>1, QuietElsewhere, Zenon

\* A step of a client moves neither the daemon nor the workers.
LEMMA ServiceUntouched ==
  ASSUME SessionInv, UNCHANGED <<dvars, backlog, slots, server>>,
         performed' \subseteq performed
  PROVE  BacklogSound' /\ WorkersPaired' /\ ServedAsCaller'
<1>1. daemon' = daemon /\ backlog' = backlog /\ slots' = slots /\ server' = server
  BY DEF dvars
<1>2. BacklogSound'
  BY <1>1, Zenon DEF SessionInv, BacklogSound
<1>3. WorkersPaired'
  BY <1>1 DEF SessionInv, WorkersPaired, Active, Serving
<1>4. ServedAsCaller'
  BY Zenon DEF SessionInv, ServedAsCaller
<1> QED
  BY <1>2, <1>3, <1>4, Zenon

\* On the connection of a process that does not wait for a response nothing is
\* on its way.
LEMMA NothingPending ==
  ASSUME SessionInv, NEW p \in Procs, connected(p), call[p].pc # "receive"
  PROVE  /\ client[p].fd \in Conns
         /\ inbox[client[p].fd] = <<>> /\ outbox[client[p].fd] = <<>>
         /\ \A s \in Slots : Serving(s) => slots[s].conn # client[p].fd
<1> DEFINE c == client[p].fd
<1>1. c \in Conns
  BY Zenon DEF SessionInv, TypeOK, ClientState, connected
<1>2. peer[c] = p
  BY DEF SessionInv, OwnersKnown
<1>3. ASSUME NEW r, Expected(c, r) PROVE FALSE
  BY <1>2, <1>3, Zenon DEF Expected
<1>4. inbox[c] \in Seq(Request) /\ outbox[c] \in Seq(Request)
  BY <1>1 DEF SessionInv, TypeOK
<1>5. /\ \A i \in DOMAIN inbox[c] : Expected(c, inbox[c][i])
      /\ \A i \in DOMAIN outbox[c] : Expected(c, outbox[c][i])
      /\ \A s \in Slots : Serving(s) => Expected(slots[s].conn, slots[s].job)
  BY <1>1, Zenon DEF SessionInv, OneExchange, WireSound, JobSound
<1>6. inbox[c] = <<>>
  <2>1. SUFFICES ASSUME inbox[c] # <<>> PROVE FALSE
    BY Zenon
  <2>2. 1 \in DOMAIN inbox[c]
    BY <1>4, <2>1
  <2> QED
    BY <1>3, <1>5, <2>2, Zenon
<1>7. outbox[c] = <<>>
  <2>1. SUFFICES ASSUME outbox[c] # <<>> PROVE FALSE
    OBVIOUS
  <2>2. 1 \in DOMAIN outbox[c]
    BY <1>4, <2>1
  <2> QED
    BY <1>3, <1>5, <2>2, Zenon
<1>8. \A s \in Slots : Serving(s) => slots[s].conn # c
  BY <1>3, <1>5, Zenon
<1> QED
  BY <1>1, <1>6, <1>7, <1>8, Zenon

\* The end of a call that closes the connection.
LEMMA ClosingReturn ==
  ASSUME SessionInv, NEW p \in Procs, p \in running,
         NEW v \in Results \ {"none", "EPROTO"}, Return(p, v, TRUE)
  PROVE  /\ client' \in [Procs -> ClientState] /\ call' \in [Procs -> CallState]
         /\ result' \in [Procs -> Results] /\ ends' \in [Conns -> SUBSET running]
         /\ client'[p].fd = None /\ client'[p].pid = None /\ call'[p] = NoCall
         /\ \A q \in Procs \ {p} : client'[q] = client[q] /\ call'[q] = call[q]
         /\ \A c \in Conns : ends[c] \ {p} \subseteq ends'[c]
         /\ \A q \in Procs : result'[q] = IF q = p THEN v ELSE result[q]
<1>1. client \in [Procs -> ClientState]
  BY Zenon DEF SessionInv, TypeOK
<1>2. call \in [Procs -> CallState]
  BY Zenon DEF SessionInv, TypeOK
<1>3. result \in [Procs -> Results]
  BY Zenon DEF SessionInv, TypeOK
<1>4. ends \in [Conns -> SUBSET running]
  BY DEF SessionInv, TypeOK
<1>5. /\ client' = [client EXCEPT ![p].fd = None, ![p].pid = None]
      /\ call' = [call EXCEPT ![p] = NoCall]
      /\ result' = [result EXCEPT ![p] = v]
      /\ ends' = EndsWithout(p)
  BY DEF Return
<1>6. client' \in [Procs -> ClientState]
  BY <1>1, <1>5, ZenonT(60) DEF ClientState
<1>7. NoCall \in CallState
  BY SessionAssumptions DEF NoCall, CallState
<1>8. call' \in [Procs -> CallState] /\ call'[p] = NoCall
  BY <1>2, <1>5, <1>7
<1>9. /\ result' \in [Procs -> Results]
      /\ \A q \in Procs : result'[q] = IF q = p THEN v ELSE result[q]
  BY <1>3, <1>5
<1>10. /\ ends' \in [Conns -> SUBSET running]
       /\ \A c \in Conns : ends[c] \ {p} \subseteq ends'[c]
  BY <1>4, <1>5 DEF EndsWithout
<1>11. /\ client'[p].fd = None /\ client'[p].pid = None
       /\ \A q \in Procs \ {p} : client'[q] = client[q] /\ call'[q] = call[q]
  BY <1>1, <1>2, <1>5, Zenon DEF ClientState
<1> QED
  BY <1>6, <1>8, <1>9, <1>10, <1>11, Zenon

\* What the end of a call that closes the connection leaves to be shown.
LEMMA AfterClosingReturn ==
  ASSUME SessionInv, NEW p \in Procs, p \in running,
         NEW v \in Results \ {"none", "EPROTO"}, Return(p, v, TRUE),
         \A q \in Procs \ {p} : serial'[q] = serial[q],
         running' = running, peer' = peer,
         slots' = slots, inbox' = inbox, outbox' = outbox
  PROVE  GoneIsGone' /\ OwnersKnown' /\ OwnersAreOld' /\ OneExchange'
<1>1. /\ client'[p].fd = None /\ client'[p].pid = None /\ call'[p] = NoCall
      /\ \A q \in Procs \ {p} : client'[q] = client[q] /\ call'[q] = call[q]
      /\ \A c \in Conns : ends[c] \ {p} \subseteq ends'[c]
      /\ \A q \in Procs : result'[q] = IF q = p THEN v ELSE result[q]
  BY ClosingReturn, ZenonT(60)
<1>2. GivesUp(p)
  BY <1>1 DEF GivesUp, NoCall
<1>3. GoneIsGone'
  BY <1>1, Zenon DEF SessionInv, GoneIsGone
<1>4. OwnersKnown'
  BY <1>2, OwnersAfterGivingUp, Zenon DEF SessionInv, TypeOK
<1>5. OwnersAreOld'
  <2>1. client \in [Procs -> ClientState]
    BY Zenon DEF SessionInv, TypeOK
  <2>2. \A q \in Procs : client[q].pid \in Procs \cup {None}
    BY <2>1, Zenon DEF ClientState
  <2> QED
    BY <1>1, <2>2 DEF SessionInv, OwnersAreOld
<1>6. \A c \in Conns, r \in Request : Expected(c, r) => Expected(c, r)'
  BY <1>2, ExpectedAfterGivingUp, Zenon
<1>7. OneExchange'
  BY <1>6, QuietWire, Zenon DEF SessionInv
<1> QED
  BY <1>3, <1>4, <1>5, <1>7, Zenon

-----------------------------------------------------------------------------
(* The steps of a client.                                                  *)

\* receive fails with ECONNRESET or EINTR, and the connection is closed.
LEMMA ReceiveFails ==
  ASSUME SessionInv, NEW p \in Procs, receive_eof(p) \/ receive_interrupted(p)
  PROVE  SessionInv'
<1>1. PICK v \in {"ECONNRESET", "EINTR"} : Return(p, v, TRUE)
  BY Zenon DEF receive_eof, receive_interrupted
<1>2. /\ p \in running
      /\ UNCHANGED <<dvars, backlog, slots, server, peer, inbox, outbox, got,
                     serial, running, performed>>
  BY Zenon DEF receive_eof, receive_interrupted
<1>3. v \in Results \ {"none", "EPROTO"}
  BY DEF Results
<1>4. TypeOK'
  BY <1>1, <1>2, <1>3, ClosingReturn, Zenon DEF SessionInv, TypeOK, dvars
<1>5. GoneIsGone' /\ OwnersKnown' /\ OwnersAreOld' /\ OneExchange'
  BY <1>1, <1>2, <1>3, AfterClosingReturn, ZenonT(60)
<1>6. BacklogSound' /\ WorkersPaired' /\ ServedAsCaller'
  BY <1>2, ServiceUntouched, Zenon
<1>7. AnswerIsMine'
  BY <1>1, <1>2, <1>3, ClosingReturn, ZenonT(60) DEF SessionInv, AnswerIsMine
<1> QED
  BY <1>4, <1>5, <1>6, <1>7, Zenon DEF SessionInv

\* A call begins on a connection that is there.
LEMMA EnsureConnected ==
  ASSUME SessionInv, NEW p \in Procs, NEW kind \in Kinds,
         p \in running, call[p].pc = "idle", serial[p] < MaxCalls,
         serial' = [serial EXCEPT ![p] = @ + 1],
         got' = [got EXCEPT ![p] = None],
         connected(p),
         call' = [call EXCEPT ![p] = [pc |-> "send", kind |-> kind, id |-> 0]],
         UNCHANGED <<backlog, svars, client, result>>,
         performed' = {x \in performed : x.by # p},
         UNCHANGED <<dvars, slots, running>>
  PROVE  SessionInv'
<1> USE SessionAssumptions
<1>1. /\ call \in [Procs -> CallState] /\ serial \in [Procs -> 0 .. MaxCalls]
      /\ got \in [Procs -> Request \cup {None}]
  BY DEF SessionInv, TypeOK
<1>2. serial' \in [Procs -> 0 .. MaxCalls] /\ serial'[p] # 0
  <2>1. serial[p] + 1 \in 0 .. MaxCalls /\ serial[p] + 1 # 0
    <3>1. serial[p] \in 0 .. MaxCalls /\ serial[p] < MaxCalls
      BY <1>1, Zenon
    <3> QED
      BY <3>1
  <2> QED
    BY <1>1, <2>1, Zenon
<1>3. [pc |-> "send", kind |-> kind, id |-> 0] \in CallState
  BY DEF CallState
<1>4. /\ call' \in [Procs -> CallState]
      /\ call'[p].pc = "send" /\ call'[p].kind \in Kinds
      /\ \A q \in Procs \ {p} : call'[q] = call[q] /\ serial'[q] = serial[q]
  BY <1>1, <1>3, Zenon
<1>5. got' \in [Procs -> Request \cup {None}]
  BY <1>1, Zenon
<1>6. performed' \subseteq performed
  BY Zenon
<1>7. TypeOK'
  BY <1>2, <1>4, <1>5, <1>6, Zenon DEF SessionInv, TypeOK, svars, dvars
<1>8. GoneIsGone' /\ OwnersKnown' /\ OwnersAreOld'
  BY <1>2, <1>4 DEF SessionInv, GoneIsGone, OwnersKnown, OwnersAreOld,
                    connected, svars, Kinds
<1>9. BacklogSound' /\ WorkersPaired' /\ ServedAsCaller'
  BY <1>6, ServiceUntouched DEF svars
<1>10. \A c \in Conns, r \in Request : Expected(c, r) => Expected(c, r)'
  <2> SUFFICES ASSUME NEW c \in Conns, NEW r \in Request, Expected(c, r)
      PROVE  Expected(c, r)'
    BY Zenon
  <2>1. r.by \in Procs
    BY Zenon DEF Request
  <2> QED
    BY <2>1, <1>4, Zenon DEF Expected, connected, svars
<1>11. OneExchange'
  BY <1>10, QuietWire, Zenon DEF SessionInv, svars
<1>12. AnswerIsMine'
  BY <1>1, <1>4 DEF SessionInv, AnswerIsMine
<1> QED
  BY <1>7, <1>8, <1>9, <1>11, <1>12, Zenon DEF SessionInv

\* A call cannot connect.
LEMMA EnsureRefused ==
  ASSUME SessionInv, NEW p \in Procs,
         p \in running, call[p].pc = "idle", serial[p] < MaxCalls,
         serial' = [serial EXCEPT ![p] = @ + 1],
         got' = [got EXCEPT ![p] = None],
         Return(p, "refused", TRUE),
         UNCHANGED <<backlog, server, peer, inbox, outbox>>,
         performed' = {x \in performed : x.by # p},
         UNCHANGED <<dvars, slots, running>>
  PROVE  SessionInv'
<1> USE SessionAssumptions
<1>1. /\ serial \in [Procs -> 0 .. MaxCalls]
      /\ got \in [Procs -> Request \cup {None}]
  BY Zenon DEF SessionInv, TypeOK
<1>2. /\ serial' \in [Procs -> 0 .. MaxCalls]
      /\ \A q \in Procs \ {p} : serial'[q] = serial[q]
  BY <1>1
<1>3. /\ got' \in [Procs -> Request \cup {None}] /\ got'[p] = None
      /\ \A q \in Procs \ {p} : got'[q] = got[q]
  BY <1>1, Zenon
<1>4. performed' \subseteq performed
  BY Zenon
<1>5. "refused" \in Results \ {"none", "EPROTO"}
  BY Zenon DEF Results
<1>6. TypeOK'
  <2>1. /\ client' \in [Procs -> ClientState] /\ call' \in [Procs -> CallState]
        /\ result' \in [Procs -> Results] /\ ends' \in [Conns -> SUBSET running]
    BY <1>5, ClosingReturn, Zenon
  <2> QED
    BY <1>2, <1>3, <1>4, <2>1, Zenon DEF SessionInv, TypeOK, dvars
<1>7. GoneIsGone' /\ OwnersKnown' /\ OwnersAreOld' /\ OneExchange'
  BY <1>2, <1>5, AfterClosingReturn, Zenon
<1>8. BacklogSound' /\ WorkersPaired' /\ ServedAsCaller'
  BY <1>4, ServiceUntouched, Zenon
<1>9. AnswerIsMine'
  <2>1. \A q \in Procs : result'[q] = IF q = p THEN "refused" ELSE result[q]
    BY <1>5, ClosingReturn, ZenonT(60)
  <2> QED
    BY <1>2, <1>3, <2>1, Zenon DEF SessionInv, AnswerIsMine
<1> QED
  BY <1>6, <1>7, <1>8, <1>9, Zenon DEF SessionInv

\* A call opens a new connection, in place of the one it may have inherited.
LEMMA EnsureConnects ==
  ASSUME SessionInv, NEW p \in Procs, NEW kind \in Kinds, NEW c \in Conns,
         p \in running, call[p].pc = "idle", serial[p] < MaxCalls,
         serial' = [serial EXCEPT ![p] = @ + 1],
         got' = [got EXCEPT ![p] = None],
         Listening, Unused(c),
         ends' = [EndsWithout(p) EXCEPT ![c] = {p}],
         server' = [server EXCEPT ![c] = "queued"],
         peer' = [peer EXCEPT ![c] = p],
         inbox' = [inbox EXCEPT ![c] = <<>>],
         outbox' = [outbox EXCEPT ![c] = <<>>],
         backlog' = Append(backlog, c),
         client' = [client EXCEPT ![p].fd = c, ![p].pid = p],
         call' = [call EXCEPT ![p] = [pc |-> "send", kind |-> kind, id |-> 0]],
         performed' = {x \in performed : x.by # p},
         UNCHANGED <<result, dvars, slots, running>>
  PROVE  SessionInv'
<1> USE SessionAssumptions
<1>1. /\ call \in [Procs -> CallState] /\ serial \in [Procs -> 0 .. MaxCalls]
      /\ got \in [Procs -> Request \cup {None}]
  BY Zenon DEF SessionInv, TypeOK
<1>2. /\ serial' \in [Procs -> 0 .. MaxCalls] /\ serial'[p] # 0
      /\ \A q \in Procs \ {p} : serial'[q] = serial[q]
  <2>1. serial[p] + 1 \in 0 .. MaxCalls /\ serial[p] + 1 # 0
    BY <1>1
  <2> QED
    BY <1>1, <2>1, Zenon
<1>3. [pc |-> "send", kind |-> kind, id |-> 0] \in CallState
  BY DEF CallState
<1>4. /\ call' \in [Procs -> CallState]
      /\ call'[p].pc = "send" /\ call'[p].kind \in Kinds
      /\ \A q \in Procs \ {p} : call'[q] = call[q]
  BY <1>1, <1>3, Zenon
<1>5. /\ got' \in [Procs -> Request \cup {None}] /\ got'[p] = None
      /\ \A q \in Procs \ {p} : got'[q] = got[q]
  BY <1>1, Zenon
<1>6. performed' \subseteq performed
  BY Zenon
<1>7. client \in [Procs -> ClientState]
  BY DEF SessionInv, TypeOK
<1>8. /\ client' \in [Procs -> ClientState]
      /\ client'[p].fd = c /\ client'[p].pid = p
      /\ \A q \in Procs \ {p} : client'[q] = client[q]
  BY <1>7, Zenon DEF ClientState
<1>9. ends \in [Conns -> SUBSET running] /\ ends[c] = {}
  BY Zenon DEF SessionInv, TypeOK, Unused
<1>10. /\ ends' \in [Conns -> SUBSET running] /\ ends'[c] = {p}
       /\ \A d \in Conns : ends[d] \ {p} \subseteq ends'[d]
  BY <1>9, Zenon DEF EndsWithout
<1>11. /\ server \in [Conns -> {"none", "queued", "open", "shut", "closed"}]
       /\ peer \in [Conns -> Procs \cup {None}] /\ backlog \in Seq(Conns)
  BY Zenon DEF SessionInv, TypeOK
<1>12. /\ server' \in [Conns -> {"none", "queued", "open", "shut", "closed"}]
       /\ server'[c] = "queued" /\ server[c] \in {"none", "closed"}
       /\ \A d \in Conns \ {c} : server'[d] = server[d]
  BY <1>11, Zenon DEF Unused
<1>13. /\ peer' \in [Conns -> Procs \cup {None}] /\ peer'[c] = p
       /\ \A d \in Conns \ {c} : peer'[d] = peer[d]
  BY <1>11, Zenon
<1>14. /\ inbox \in [Conns -> Seq(Request)] /\ outbox \in [Conns -> Seq(Request)]
  BY Zenon DEF SessionInv, TypeOK
<1>15. /\ inbox' \in [Conns -> Seq(Request)] /\ outbox' \in [Conns -> Seq(Request)]
       /\ inbox'[c] = <<>> /\ outbox'[c] = <<>>
       /\ \A d \in Conns \ {c} : inbox'[d] = inbox[d] /\ outbox'[d] = outbox[d]
  BY <1>14
<1>16. TypeOK'
  <2>1. backlog' \in Seq(Conns)
    BY <1>11
  <2> QED
    BY <1>2, <1>4, <1>5, <1>6, <1>8, <1>10, <1>12, <1>13, <1>15, <2>1, Zenon
    DEF SessionInv, TypeOK, dvars
<1>17. GoneIsGone'
  BY <1>4, <1>8 DEF SessionInv, GoneIsGone
<1>18. OwnersKnown'
  <2> SUFFICES ASSUME NEW q \in Procs
      PROVE  /\ client'[q].fd # None => q \in ends'[client'[q].fd]
             /\ connected(q)' => peer'[client'[q].fd] = q
             /\ call'[q].pc # "idle" => /\ connected(q)' /\ serial'[q] # 0
                                        /\ call'[q].kind # "none"
    BY Zenon DEF OwnersKnown
  <2>1. CASE q = p
    BY <2>1, <1>2, <1>4, <1>8, <1>10, <1>13 DEF connected, Kinds
  <2>2. CASE q # p
    <3>1. /\ client'[q] = client[q] /\ call'[q] = call[q]
          /\ serial'[q] = serial[q]
      BY <2>2, <1>2, <1>4, <1>8, Zenon
    <3>2. /\ client[q].fd # None => q \in ends[client[q].fd]
          /\ connected(q) => peer[client[q].fd] = q
          /\ call[q].pc # "idle" => /\ connected(q) /\ serial[q] # 0
                                    /\ call[q].kind # "none"
      BY Zenon DEF SessionInv, OwnersKnown
    <3>3. client[q].fd \in Conns \cup {None}
      BY <1>7, Zenon DEF ClientState
    <3>4. client[q].fd # c
      BY <3>2, <1>9, Zenon
    <3> QED
      BY <3>1, <3>2, <3>3, <3>4, <2>2, <1>10, <1>13, Zenon DEF connected
  <2> QED
    BY <2>1, <2>2, Zenon
<1>19. OwnersAreOld'
  BY <1>8 DEF SessionInv, OwnersAreOld
<1>20. BacklogSound'
  <2>1. \A i \in DOMAIN backlog : backlog[i] \in Conns /\ backlog[i] # c
    BY <1>11, <1>12 DEF SessionInv, BacklogSound
  <2>2. /\ \A i \in DOMAIN backlog' : \/ i \in DOMAIN backlog
                                         /\ backlog'[i] = backlog[i]
                                      \/ i = Len(backlog) + 1 /\ backlog'[i] = c
    BY <1>11
  <2>3. \A i \in DOMAIN backlog' : server'[backlog'[i]] = "queued"
    BY <2>1, <2>2, <1>12 DEF SessionInv, BacklogSound
  <2>4. \A i, j \in DOMAIN backlog' : backlog'[i] = backlog'[j] => i = j
    BY <2>1, <2>2 DEF SessionInv, BacklogSound
  <2>5. backlog' # <<>>
    <3>1. backlog \in Seq(Conns) /\ backlog' = Append(backlog, c)
      BY <1>11, Zenon
    <3> QED
      BY <3>1
  <2> QED
    BY <2>3, <2>4, <2>5, Zenon DEF BacklogSound, Listening, dvars
<1>21. WorkersPaired'
  <2>1. \A s \in Slots : Active(s) => slots[s].conn # c
    BY <1>12, Zenon DEF SessionInv, WorkersPaired
  <2> QED
    BY <2>1, <1>12 DEF SessionInv, WorkersPaired, Active, Serving, dvars
<1>22. OneExchange'
  <2>1. \A d \in Conns \ {c}, r \in Request : Expected(d, r) => Expected(d, r)'
    BY <1>2, <1>4, <1>8, <1>13, ExpectedElsewhere, Zenon
  <2>2. WireSound(c)'
    BY <1>15 DEF WireSound
  <2>3. \A s \in Slots : Serving(s)' => slots'[s] = slots[s] /\ slots[s].conn # c
    BY <1>12 DEF SessionInv, WorkersPaired, Active, Serving
  <2> QED
    BY <2>1, <2>2, <2>3, <1>15, QuietButOne, Zenon DEF SessionInv
<1>23. AnswerIsMine' /\ ServedAsCaller'
  BY <1>2, <1>5, <1>6 DEF SessionInv, AnswerIsMine, ServedAsCaller
<1> QED
  BY <1>16, <1>17, <1>18, <1>19, <1>20, <1>21, <1>22, <1>23, Zenon DEF SessionInv

\* ensure_connection.
LEMMA EnsureConnection ==
  ASSUME SessionInv, NEW p \in Procs, NEW kind \in Kinds,
         ensure_connection(p, kind)
  PROVE  SessionInv'
<1>1. CASE connected(p)
  BY <1>1, EnsureConnected, Zenon DEF ensure_connection
<1>2. CASE ~connected(p) /\ ~Listening
  BY <1>2, EnsureRefused, Zenon DEF ensure_connection
<1>3. CASE ~connected(p) /\ Listening
  BY <1>3, EnsureConnects, Zenon DEF ensure_connection
<1> QED
  BY <1>1, <1>2, <1>3, Zenon

\* exchange: the request is numbered and sent, or the stream is closed.
LEMMA SendRequest ==
  ASSUME SessionInv, NEW p \in Procs, send_request(p) PROVE SessionInv'
<1> USE SessionAssumptions
<1> DEFINE id == next_request_id(client[p].next)
           msg == [id |-> id, by |-> p, serial |-> serial[p],
                   kind |-> call[p].kind]
<1>1. /\ client \in [Procs -> ClientState] /\ call \in [Procs -> CallState]
      /\ serial \in [Procs -> 0 .. MaxCalls]
  BY Zenon DEF SessionInv, TypeOK
<1>2. /\ p \in running /\ call[p].pc = "send"
      /\ UNCHANGED <<dvars, backlog, slots, server, peer, outbox, got, serial,
                     running, performed>>
  BY Zenon DEF send_request
<1>3. /\ connected(p) /\ peer[client[p].fd] = p /\ serial[p] # 0
      /\ call[p].kind # "none"
  BY <1>2, Zenon DEF SessionInv, OwnersKnown, connected
<1>4. id \in 1 .. MaxRequestId
  <2>1. client[p].next \in 0 .. MaxRequestId
    BY <1>1, Zenon DEF ClientState
  <2> QED
    BY <2>1 DEF next_request_id
<1>5. msg \in Request
  BY <1>1, <1>3, <1>4 DEF Request, CallState
<1> HIDE DEF id
<1>6. PICK c \in Conns, r \in Request :
        /\ c = client[p].fd /\ inbox[c] = <<>> /\ outbox[c] = <<>>
        /\ \A s \in Slots : Serving(s) => slots[s].conn # c
        /\ r = msg /\ r.id = id /\ r.by = p /\ r.serial = serial[p]
  BY <1>2, <1>3, <1>5, NothingPending, Zenon
<1>7. CASE Reads(c)
  <2>1. /\ inbox' = [inbox EXCEPT ![c] = Append(@, r)]
        /\ UNCHANGED <<ends, result>>
    BY <1>6, <1>7, Zenon DEF send_request, id
  <2>a. client' = [client EXCEPT ![p].next = id]
    BY <1>6, <1>7, Zenon DEF send_request, id
  <2>b. call' = [call EXCEPT ![p].pc = "receive", ![p].id = id]
    BY <1>6, <1>7, Zenon DEF send_request, id
  <2>2. /\ client' \in [Procs -> ClientState]
        /\ client'[p].fd = client[p].fd /\ client'[p].pid = client[p].pid
        /\ \A q \in Procs \ {p} : client'[q] = client[q]
    <3>1. client \in [Procs -> ClientState]
      BY <1>1, Zenon
    <3> QED
      BY <1>4, <2>a, <3>1 DEF ClientState
  <2>3. /\ call' \in [Procs -> CallState]
        /\ call'[p].pc = "receive" /\ call'[p].id = id
        /\ call'[p].kind = call[p].kind
        /\ \A q \in Procs \ {p} : call'[q] = call[q]
    <3>1. call \in [Procs -> CallState]
      BY <1>1, Zenon
    <3>2. \A q \in Procs \ {p} : call'[q] = call[q]
      BY <2>b, <3>1, Zenon
    <3>3. /\ call'[p].pc = "receive" /\ call'[p].id = id
          /\ call'[p].kind = call[p].kind
      BY <2>b, <3>1, Zenon DEF CallState
    <3>4. call' \in [Procs -> CallState]
      <4>1. call[p] \in CallState /\ id \in 0 .. MaxRequestId
        BY <1>4, <3>1
      <4>2. ASSUME NEW x \in CallState, NEW n \in 0 .. MaxRequestId
            PROVE  [x EXCEPT !.pc = "receive", !.id = n] \in CallState
        BY Zenon DEF CallState
      <4>3. [call[p] EXCEPT !.pc = "receive", !.id = id] \in CallState
        BY <4>1, <4>2, Zenon
      <4> QED
        BY <2>b, <3>1, <4>3, Zenon
    <3> QED
      BY <3>2, <3>3, <3>4, Zenon
  <2>4. inbox \in [Conns -> Seq(Request)]
    BY Zenon DEF SessionInv, TypeOK
  <2>5. /\ inbox' \in [Conns -> Seq(Request)]
        /\ inbox'[c] = <<r>>
        /\ \A d \in Conns \ {c} : inbox'[d] = inbox[d]
    BY <1>5, <1>6, <2>1, <2>4
  <2>6. TypeOK'
    BY <1>2, <2>1, <2>2, <2>3, <2>5, Zenon DEF SessionInv, TypeOK, dvars
  <2>7. GoneIsGone' /\ OwnersAreOld'
    BY <1>2, <2>1, <2>2, <2>3 DEF SessionInv, GoneIsGone, OwnersAreOld
  <2>8. OwnersKnown'
    <3> SUFFICES ASSUME NEW q \in Procs
        PROVE  /\ client'[q].fd # None => q \in ends'[client'[q].fd]
               /\ connected(q)' => peer'[client'[q].fd] = q
               /\ call'[q].pc # "idle" => /\ connected(q)' /\ serial'[q] # 0
                                          /\ call'[q].kind # "none"
      BY DEF OwnersKnown
    <3>1. client'[q].fd = client[q].fd /\ client'[q].pid = client[q].pid
      BY <2>2, Zenon
    <3>2. call'[q].kind = call[q].kind
          /\ (call'[q].pc # "idle" => call[q].pc # "idle")
      BY <1>2, <2>3, Zenon
    <3> QED
      BY <1>2, <2>1, <3>1, <3>2, Zenon DEF SessionInv, OwnersKnown, connected
  <2>9. OneExchange'
    <3>1. \A d \in Conns \ {c}, m \in Request : Expected(d, m) => Expected(d, m)'
      BY <1>2, <1>6, <2>2, <2>3, ExpectedElsewhere
    <3>2. Expected(c, r)'
      BY <1>2, <1>3, <1>6, <2>3, Zenon DEF Expected
    <3>3. WireSound(c)'
      BY <1>2, <1>6, <2>5, <3>2 DEF WireSound
    <3>4. \A s \in Slots : Serving(s)' => slots'[s] = slots[s] /\ slots[s].conn # c
      BY <1>2, <1>6, Zenon DEF Serving
    <3> QED
      BY <1>2, <1>6, <2>5, <3>1, <3>3, <3>4, QuietButOne, Zenon DEF SessionInv
  <2>10. BacklogSound' /\ WorkersPaired' /\ ServedAsCaller'
    BY <1>2, ServiceUntouched, Zenon
  <2>11. AnswerIsMine'
    BY <1>2, <2>1, Zenon DEF SessionInv, AnswerIsMine
  <2> QED
    BY <2>6, <2>7, <2>8, <2>9, <2>10, <2>11, Zenon DEF SessionInv
<1>8. CASE ~Reads(c)
  <2>1. /\ call' = [call EXCEPT ![p] = NoCall]
        /\ result' = [result EXCEPT ![p] = "EPIPE"]
        /\ ends' = EndsWithout(p)
        /\ client' = [client EXCEPT ![p] =
                        [fd |-> None, pid |-> None, next |-> id]]
        /\ UNCHANGED inbox
    BY <1>6, <1>8, Zenon DEF send_request, id
  <2>2. [fd |-> None, pid |-> None, next |-> id] \in ClientState
    BY <1>4 DEF ClientState
  <2>3. /\ client' \in [Procs -> ClientState]
        /\ client'[p].fd = None /\ client'[p].pid = None
        /\ \A q \in Procs \ {p} : client'[q] = client[q]
    BY <1>1, <2>1, <2>2, Zenon
  <2>4. NoCall \in CallState
    BY DEF NoCall, CallState
  <2>5. /\ call' \in [Procs -> CallState] /\ call'[p] = NoCall
        /\ \A q \in Procs \ {p} : call'[q] = call[q]
    BY <1>1, <2>1, <2>4, Zenon
  <2>6. result \in [Procs -> Results] /\ ends \in [Conns -> SUBSET running]
    BY Zenon DEF SessionInv, TypeOK
  <2>7. /\ result' \in [Procs -> Results]
        /\ \A q \in Procs : result'[q] = IF q = p THEN "EPIPE" ELSE result[q]
    BY <2>1, <2>6, Zenon DEF Results
  <2>8. /\ ends' \in [Conns -> SUBSET running]
        /\ \A d \in Conns : ends[d] \ {p} \subseteq ends'[d]
    BY <2>1, <2>6, Zenon DEF EndsWithout
  <2>9. TypeOK'
    BY <1>2, <2>1, <2>3, <2>5, <2>7, <2>8, Zenon DEF SessionInv, TypeOK, dvars
  <2>10. GivesUp(p)
    BY <1>2, <2>3, <2>5, <2>8 DEF GivesUp, NoCall
  <2>11. GoneIsGone'
    BY <1>2, <2>3, <2>5, Zenon DEF SessionInv, GoneIsGone
  <2>12. OwnersKnown'
    BY <1>1, <2>10, OwnersAfterGivingUp, ZenonT(40) DEF SessionInv
  <2>13. OwnersAreOld'
    <3>1. \A q \in Procs : client[q].pid \in Procs \cup {None}
      BY <1>1, Zenon DEF ClientState
    <3> QED
      BY <1>2, <2>3, <2>7, <3>1 DEF SessionInv, OwnersAreOld
  <2>14. OneExchange'
    BY <1>2, <2>1, <2>10, ExpectedAfterGivingUp, QuietWire, ZenonT(40) DEF SessionInv
  <2>15. BacklogSound' /\ WorkersPaired' /\ ServedAsCaller'
    BY <1>2, ServiceUntouched
  <2>16. AnswerIsMine'
    BY <1>2, <2>7, Zenon DEF SessionInv, AnswerIsMine
  <2> QED
    BY <2>9, <2>11, <2>12, <2>13, <2>14, <2>15, <2>16, Zenon DEF SessionInv
<1> QED
  BY <1>7, <1>8, Zenon

\* A response is received: it carries the number of the request.
LEMMA ReceiveResponse ==
  ASSUME SessionInv, NEW p \in Procs, receive_response(p) PROVE SessionInv'
<1> USE SessionAssumptions
<1>1. /\ p \in running /\ call[p].pc = "receive"
      /\ outbox[client[p].fd] # <<>>
      /\ UNCHANGED <<dvars, backlog, slots, server, peer, inbox, serial,
                     running, performed>>
  BY Zenon DEF receive_response
<1>2. /\ client \in [Procs -> ClientState] /\ call \in [Procs -> CallState]
      /\ inbox \in [Conns -> Seq(Request)] /\ outbox \in [Conns -> Seq(Request)]
  BY Zenon DEF SessionInv, TypeOK
<1>3. connected(p) /\ peer[client[p].fd] = p
  BY <1>1, Zenon DEF SessionInv, OwnersKnown
<1>4. PICK c \in Conns : c = client[p].fd
  BY <1>2, <1>3 DEF connected, ClientState
<1>5. /\ Len(inbox[c]) + Len(outbox[c]) <= 1 /\ outbox[c] # <<>>
      /\ \A i \in DOMAIN outbox[c] : Expected(c, outbox[c][i])
  BY <1>1, <1>4, Zenon DEF SessionInv, OneExchange, WireSound
<1>6. /\ inbox[c] = <<>> /\ Len(outbox[c]) = 1 /\ 1 \in DOMAIN outbox[c]
      /\ Head(outbox[c]) = outbox[c][1] /\ outbox[c][1] \in Request
      /\ Tail(outbox[c]) = <<>>
  <2>1. inbox[c] \in Seq(Request) /\ outbox[c] \in Seq(Request)
    BY <1>2, Zenon
  <2> QED
    BY <1>5, <2>1, OnlyOne, Zenon
<1>7. PICK r \in Request : r = Head(outbox[c])
  BY <1>6, Zenon
<1>8. r.id = call[p].id /\ r.by = p /\ r.serial = serial[p]
  <2>1. Expected(c, r)
    BY <1>5, <1>6, <1>7, Zenon
  <2> QED
    BY <1>3, <1>4, <2>1, Zenon DEF Expected
<1>9. /\ outbox' = [outbox EXCEPT ![c] = Tail(@)]
      /\ Return(p, "ok", FALSE)
      /\ got' = [got EXCEPT ![p] = r]
  BY <1>4, <1>7, <1>8, Zenon DEF receive_response
<1>10. /\ call' = [call EXCEPT ![p] = NoCall]
       /\ result' = [result EXCEPT ![p] = "ok"]
       /\ ends' = ends /\ client' = client
  BY <1>9, Zenon DEF Return
<1>11. NoCall \in CallState
  BY DEF NoCall, CallState
<1>12. /\ call' \in [Procs -> CallState] /\ call'[p] = NoCall
       /\ \A q \in Procs \ {p} : call'[q] = call[q]
  BY <1>2, <1>10, <1>11, Zenon
<1>13. /\ outbox' \in [Conns -> Seq(Request)] /\ outbox'[c] = <<>>
       /\ \A d \in Conns \ {c} : outbox'[d] = outbox[d]
  BY <1>2, <1>6, <1>9, Zenon
<1>14. result \in [Procs -> Results] /\ got \in [Procs -> Request \cup {None}]
  BY Zenon DEF SessionInv, TypeOK
<1>15. /\ result' \in [Procs -> Results]
       /\ \A q \in Procs : result'[q] = IF q = p THEN "ok" ELSE result[q]
  BY <1>10, <1>14, Zenon DEF Results
<1>16. /\ got' \in [Procs -> Request \cup {None}]
       /\ \A q \in Procs : got'[q] = IF q = p THEN r ELSE got[q]
  BY <1>9, <1>14, Zenon
<1>17. TypeOK'
  BY <1>1, <1>10, <1>12, <1>13, <1>15, <1>16, Zenon DEF SessionInv, TypeOK, dvars
<1>18. GoneIsGone' /\ OwnersKnown' /\ OwnersAreOld'
  <2>1. GoneIsGone'
    BY <1>1, <1>10, <1>12, Zenon DEF SessionInv, GoneIsGone
  <2>2. OwnersKnown'
    BY <1>1, <1>10, <1>12, Zenon DEF SessionInv, OwnersKnown, connected, NoCall
  <2>3. \A q \in Procs : client[q].pid \in Procs \cup {None}
    BY <1>2, Zenon DEF ClientState
  <2>4. OwnersAreOld'
    BY <1>1, <1>10, <1>15, <2>3, Zenon DEF SessionInv, OwnersAreOld
  <2> QED
    BY <2>1, <2>2, <2>4, Zenon
<1>19. OneExchange'
  <2>1. \A d \in Conns \ {c}, m \in Request : Expected(d, m) => Expected(d, m)'
    BY <1>1, <1>4, <1>10, <1>12, ExpectedElsewhere, Zenon
  <2>2. WireSound(c)'
    BY <1>1, <1>6, <1>13 DEF WireSound
  <2>3. \A s \in Slots : Serving(s)' => slots'[s] = slots[s] /\ slots[s].conn # c
    BY <1>1, <1>5, Zenon DEF SessionInv, OneExchange, JobSound, Serving
  <2> QED
    BY <1>1, <1>13, <2>1, <2>2, <2>3, QuietButOne, Zenon DEF SessionInv
<1>20. BacklogSound' /\ WorkersPaired' /\ ServedAsCaller'
  BY <1>1, ServiceUntouched, Zenon
<1>21. AnswerIsMine'
  BY <1>1, <1>8, <1>15, <1>16 DEF SessionInv, AnswerIsMine
<1> QED
  BY <1>17, <1>18, <1>19, <1>20, <1>21, Zenon DEF SessionInv

\* A thread ends and closes its client.
LEMMA CloseThreadClient ==
  ASSUME SessionInv, NEW p \in Procs, close_thread_client(p) PROVE SessionInv'
<1> USE SessionAssumptions
<1>1. /\ p \in running /\ call[p].pc = "idle"
      /\ ends' = EndsWithout(p)
      /\ client' = [client EXCEPT ![p] = Disconnected]
      /\ UNCHANGED <<dvars, backlog, slots, server, peer, inbox, outbox, call,
                     result, got, serial, running, performed>>
  BY Zenon DEF close_thread_client
<1>2. client \in [Procs -> ClientState] /\ Disconnected \in ClientState
  BY DEF SessionInv, TypeOK, Disconnected, ClientState
<1>3. /\ client' \in [Procs -> ClientState] /\ client'[p] = Disconnected
      /\ \A q \in Procs \ {p} : client'[q] = client[q]
  BY <1>1, <1>2, Zenon
<1>4. ends \in [Conns -> SUBSET running]
  BY Zenon DEF SessionInv, TypeOK
<1>5. /\ ends' \in [Conns -> SUBSET running]
      /\ \A d \in Conns : ends[d] \ {p} \subseteq ends'[d]
  BY <1>1, <1>4, Zenon DEF EndsWithout
<1>6. TypeOK'
  BY <1>1, <1>3, <1>5, Zenon DEF SessionInv, TypeOK, dvars
<1>7. GivesUp(p)
  BY <1>1, <1>3, <1>5, Zenon DEF GivesUp, Disconnected
<1>8. GoneIsGone' /\ OwnersAreOld'
  BY <1>1, <1>3, Zenon DEF SessionInv, GoneIsGone, OwnersAreOld, Disconnected
<1>9. OwnersKnown'
  BY <1>2, <1>7, OwnersAfterGivingUp, Zenon DEF SessionInv
<1>10. OneExchange'
  BY <1>1, <1>7, ExpectedAfterGivingUp, QuietWire, Zenon DEF SessionInv
<1>11. BacklogSound' /\ WorkersPaired' /\ ServedAsCaller'
  BY <1>1, ServiceUntouched, Zenon
<1>12. AnswerIsMine'
  BY <1>1, Zenon DEF SessionInv, AnswerIsMine
<1> QED
  BY <1>6, <1>8, <1>9, <1>10, <1>11, <1>12, Zenon DEF SessionInv

\* A child starts with a copy of its parent's client: it is not connected, for
\* the owner that the copy names is not the child.
LEMMA ForkKeeps ==
  ASSUME SessionInv, NEW p \in Procs, NEW q \in Procs, Fork(p, q)
  PROVE  SessionInv'
<1> USE SessionAssumptions
<1>1. /\ p \in running /\ q \notin running /\ result[q] = "none"
      /\ running' = running \cup {q}
      /\ client' = [client EXCEPT ![q] = client[p]]
      /\ result' = [result EXCEPT ![q] = "forked"]
      /\ ends' = [c \in Conns |->
           IF p \in ends[c] THEN ends[c] \cup {q} ELSE ends[c]]
      /\ UNCHANGED <<dvars, backlog, slots, server, peer, inbox, outbox, call,
                     got, serial, performed>>
  BY Zenon DEF Fork
<1>2. client \in [Procs -> ClientState]
  BY Zenon DEF SessionInv, TypeOK
<1>3. /\ client' \in [Procs -> ClientState] /\ client'[q] = client[p]
      /\ \A o \in Procs \ {q} : client'[o] = client[o]
  BY <1>1, <1>2, Zenon
<1>4. ends \in [Conns -> SUBSET running] /\ running \subseteq Procs
  BY Zenon DEF SessionInv, TypeOK
<1>5. /\ ends' \in [Conns -> SUBSET running'] /\ running' \subseteq Procs
      /\ \A c \in Conns : /\ ends[c] \subseteq ends'[c]
                          /\ p \in ends[c] => q \in ends'[c]
  BY <1>1, <1>4, Zenon
<1>6. result \in [Procs -> Results]
  BY Zenon DEF SessionInv, TypeOK
<1>7. /\ result' \in [Procs -> Results]
      /\ \A o \in Procs : result'[o] = IF o = q THEN "forked" ELSE result[o]
  BY <1>1, <1>6, Zenon DEF Results
<1>8. TypeOK'
  BY <1>1, <1>3, <1>5, <1>7, Zenon DEF SessionInv, TypeOK, dvars
<1>9. /\ client[p].pid # q /\ p # q
      /\ client[q] = Disconnected /\ call[q] = NoCall
  BY <1>1, Zenon DEF SessionInv, GoneIsGone, OwnersAreOld
<1>10. GoneIsGone'
  BY <1>1, <1>3, Zenon DEF SessionInv, GoneIsGone
<1>11. ~connected(q) /\ ~connected(q)' /\ call'[q].pc = "idle"
  BY <1>1, <1>3, <1>9 DEF connected, Disconnected, NoCall
<1>12. OwnersKnown'
  <2> SUFFICES ASSUME NEW o \in Procs
      PROVE  /\ client'[o].fd # None => o \in ends'[client'[o].fd]
             /\ connected(o)' => peer'[client'[o].fd] = o
             /\ call'[o].pc # "idle" => /\ connected(o)' /\ serial'[o] # 0
                                        /\ call'[o].kind # "none"
    BY DEF OwnersKnown
  <2>1. \A t \in Procs : client[t].fd \in Conns \cup {None}
    BY <1>2, Zenon DEF ClientState
  <2>2. CASE o = q
    <3>1. client[p].fd # None => p \in ends[client[p].fd]
      BY Zenon DEF SessionInv, OwnersKnown
    <3> QED
      BY <1>3, <1>5, <1>11, <2>1, <2>2, <3>1
  <2>3. CASE o # q
    <3>1. /\ client[o].fd # None => o \in ends[client[o].fd]
          /\ connected(o) => peer[client[o].fd] = o
          /\ call[o].pc # "idle" => /\ connected(o) /\ serial[o] # 0
                                    /\ call[o].kind # "none"
      BY Zenon DEF SessionInv, OwnersKnown
    <3>2. client'[o] = client[o] /\ (connected(o)' <=> connected(o))
      BY <1>3, <2>3, Zenon DEF connected
    <3> QED
      BY <1>1, <1>5, <2>1, <3>1, <3>2, Zenon
  <2> QED
    BY <2>2, <2>3, Zenon
<1>13. OwnersAreOld'
  <2> SUFFICES ASSUME NEW o \in Procs
      PROVE  \/ client'[o].pid = None \/ client'[o].pid \in running'
             \/ result'[client'[o].pid] # "none"
    BY Zenon DEF OwnersAreOld
  <2>1. PICK t \in Procs : client'[o] = client[t]
    BY <1>3, Zenon
  <2>2. client[t].pid \in Procs \cup {None}
    BY <1>2, Zenon DEF ClientState
  <2>3. \/ client[t].pid = None \/ client[t].pid \in running
        \/ result[client[t].pid] # "none"
    BY Zenon DEF SessionInv, OwnersAreOld
  <2> QED
    BY <1>1, <1>7, <2>1, <2>2, <2>3
<1>14. OneExchange'
  <2>1. \A c \in Conns, r \in Request : Expected(c, r) => Expected(c, r)'
    <3> SUFFICES ASSUME NEW c \in Conns, NEW r \in Request, Expected(c, r)
        PROVE  Expected(c, r)'
      BY Zenon
    <3>1. r.by \in Procs
      BY Zenon DEF Request
    <3>2. CASE r.by = q
      BY <1>1, <1>11, <3>2, Zenon DEF Expected
    <3>3. CASE r.by # q
      BY <1>1, <1>3, <3>1, <3>3, Zenon DEF Expected, connected
    <3> QED
      BY <3>2, <3>3, Zenon
  <2> QED
    BY <1>1, <2>1, QuietWire, Zenon DEF SessionInv
<1>15. BacklogSound' /\ WorkersPaired' /\ ServedAsCaller'
  BY <1>1, ServiceUntouched, Zenon
<1>16. AnswerIsMine'
  BY <1>1, <1>7, Zenon DEF SessionInv, AnswerIsMine
<1> QED
  BY <1>8, <1>10, <1>12, <1>13, <1>14, <1>15, <1>16, Zenon DEF SessionInv

\* A process ends, in the middle of a call or not.
LEMMA ExitKeeps ==
  ASSUME SessionInv, NEW p \in Procs, Exit(p) PROVE SessionInv'
<1> USE SessionAssumptions
<1>1. /\ p \in running /\ running' = running \ {p}
      /\ ends' = [c \in Conns |-> ends[c] \ {p}]
      /\ client' = [client EXCEPT ![p] = Disconnected]
      /\ call' = [call EXCEPT ![p] = NoCall]
      /\ result' = [result EXCEPT ![p] = "exited"]
      /\ got' = [got EXCEPT ![p] = None]
      /\ UNCHANGED <<dvars, backlog, slots, server, peer, inbox, outbox, serial,
                     performed>>
  BY Zenon DEF Exit
<1>2. client \in [Procs -> ClientState] /\ Disconnected \in ClientState
  BY DEF SessionInv, TypeOK, Disconnected, ClientState
<1>3. /\ client' \in [Procs -> ClientState] /\ client'[p] = Disconnected
      /\ \A q \in Procs \ {p} : client'[q] = client[q]
  BY <1>1, <1>2, Zenon
<1>4. ends \in [Conns -> SUBSET running] /\ running \subseteq Procs
  BY Zenon DEF SessionInv, TypeOK
<1>5. /\ ends' \in [Conns -> SUBSET running'] /\ running' \subseteq Procs
      /\ \A d \in Conns : ends[d] \ {p} \subseteq ends'[d]
  BY <1>1, <1>4, Zenon
<1>6. call \in [Procs -> CallState] /\ NoCall \in CallState
  BY DEF SessionInv, TypeOK, NoCall, CallState
<1>7. /\ call' \in [Procs -> CallState] /\ call'[p] = NoCall
      /\ \A q \in Procs \ {p} : call'[q] = call[q]
  BY <1>1, <1>6, Zenon
<1>8. result \in [Procs -> Results] /\ got \in [Procs -> Request \cup {None}]
  BY Zenon DEF SessionInv, TypeOK
<1>9. /\ result' \in [Procs -> Results]
      /\ \A q \in Procs : result'[q] = IF q = p THEN "exited" ELSE result[q]
  BY <1>1, <1>8, Zenon DEF Results
<1>10. /\ got' \in [Procs -> Request \cup {None}]
       /\ \A q \in Procs : got'[q] = IF q = p THEN None ELSE got[q]
  BY <1>1, <1>8, Zenon
<1>11. TypeOK'
  BY <1>1, <1>3, <1>5, <1>7, <1>9, <1>10, ZenonT(40) DEF SessionInv, TypeOK, dvars
<1>12. GivesUp(p)
  BY <1>1, <1>3, <1>5, <1>7 DEF GivesUp, Disconnected, NoCall
<1>13. GoneIsGone'
  BY <1>1, <1>3, <1>7, Zenon DEF SessionInv, GoneIsGone
<1>14. OwnersKnown'
  BY <1>2, <1>12, OwnersAfterGivingUp, Zenon DEF SessionInv
<1>15. OwnersAreOld'
  <2>1. \A q \in Procs : client[q].pid \in Procs \cup {None}
    BY <1>2, Zenon DEF ClientState
  <2>2. client'[p].pid = None
    BY <1>3 DEF Disconnected
  <2> QED
    BY <1>1, <1>3, <1>9, <2>1, <2>2 DEF SessionInv, OwnersAreOld
<1>16. OneExchange'
  BY <1>1, <1>12, ExpectedAfterGivingUp, QuietWire, Zenon DEF SessionInv
<1>17. BacklogSound' /\ WorkersPaired' /\ ServedAsCaller'
  BY <1>1, ServiceUntouched, ZenonT(40)
<1>18. AnswerIsMine'
  BY <1>1, <1>9, <1>10, Zenon DEF SessionInv, AnswerIsMine
<1> QED
  BY <1>11, <1>13, <1>14, <1>15, <1>16, <1>17, <1>18, Zenon DEF SessionInv


-----------------------------------------------------------------------------
(* The steps of a worker.                                                  *)

\* Nothing that the clients know changes.
LEMMA ClientsUntouched ==
  ASSUME SessionInv, UNCHANGED <<ends, peer, pvars>>
  PROVE  /\ GoneIsGone' /\ OwnersKnown' /\ OwnersAreOld' /\ AnswerIsMine'
         /\ \A c, r : Expected(c, r) <=> Expected(c, r)'
<1>1. UNCHANGED <<ends, peer, client, call, result, got, serial, running>>
  BY Zenon DEF pvars
<1>2. GoneIsGone' /\ OwnersAreOld'
  BY <1>1, Zenon DEF SessionInv, GoneIsGone, OwnersAreOld
<1>3. OwnersKnown'
  BY <1>1, Zenon DEF SessionInv, OwnersKnown, connected
<1>4. AnswerIsMine'
  BY <1>1 DEF SessionInv, AnswerIsMine
<1>5. \A c, r : Expected(c, r) <=> Expected(c, r)'
  BY <1>1, Zenon DEF Expected, connected
<1> QED
  BY <1>2, <1>3, <1>4, <1>5, Zenon

\* What Phase does to the slots.
LEMMA PhaseIs ==
  ASSUME slots \in [Slots -> SlotState], NEW s \in Slots,
         NEW phase \in {"free", "receive", "blocked", "send", "closed", "done"},
         NEW job \in Request \cup {None}, Phase(s, phase, job)
  PROVE  /\ slots' \in [Slots -> SlotState]
         /\ slots'[s].conn = slots[s].conn /\ slots'[s].phase = phase
         /\ slots'[s].job = job
         /\ \A t \in Slots \ {s} : slots'[t] = slots[t]
<1>1. slots' = [slots EXCEPT ![s].phase = phase, ![s].job = job]
  BY DEF Phase
<1>2. ASSUME NEW w \in SlotState
      PROVE  /\ [w EXCEPT !.phase = phase, !.job = job] \in SlotState
             /\ [w EXCEPT !.phase = phase, !.job = job].conn = w.conn
             /\ [w EXCEPT !.phase = phase, !.job = job].phase = phase
             /\ [w EXCEPT !.phase = phase, !.job = job].job = job
  BY Zenon DEF SlotState
<1>3. slots[s] \in SlotState
  OBVIOUS
<1>4. slots' = [slots EXCEPT ![s] = [slots[s] EXCEPT !.phase = phase, !.job = job]]
  BY <1>1, ZenonT(60)
<1> HIDE DEF SlotState
<1>5. /\ slots'[s] = [slots[s] EXCEPT !.phase = phase, !.job = job]
      /\ \A t \in Slots \ {s} : slots'[t] = slots[t]
  BY <1>4
<1>6. slots' \in [Slots -> SlotState]
  BY <1>2, <1>3, <1>4, Zenon
<1> QED
  BY <1>2, <1>3, <1>5, <1>6, Zenon

\* A worker that goes on keeps its connection.
LEMMA WorkerGoesOn ==
  ASSUME WorkersPaired, BacklogSound, NEW s \in Slots, Active(s), Active(s)',
         slots'[s].conn = slots[s].conn, Serving(s)' => slots'[s].job \in Request,
         \A t \in Slots \ {s} : slots'[t] = slots[t],
         UNCHANGED <<daemon, backlog, server>>
  PROVE  WorkersPaired' /\ BacklogSound'
<1>1. BacklogSound'
  BY Zenon DEF BacklogSound
<1>2. \A t \in Slots : (Active(t)' <=> Active(t)) /\ slots'[t].conn = slots[t].conn
  BY Zenon DEF Active
<1>3. \A t \in Slots : Serving(t)' => slots'[t].job \in Request
  BY DEF WorkersPaired, Serving
<1> QED
  BY <1>1, <1>2, <1>3 DEF WorkersPaired

\* A worker that closes its connection lets go of it.
LEMMA WorkerCloses ==
  ASSUME TypeOK, WorkersPaired, BacklogSound, NEW s \in Slots, Active(s),
         slots'[s].phase = "closed",
         \A t \in Slots \ {s} : slots'[t] = slots[t],
         server' = [server EXCEPT ![slots[s].conn] = "closed"],
         UNCHANGED <<daemon, backlog>>
  PROVE  WorkersPaired' /\ BacklogSound'
<1>1. PICK c \in Conns : c = slots[s].conn /\ server[c] \in {"open", "shut"}
  BY Zenon DEF WorkersPaired
<1>2. server \in [Conns -> {"none", "queued", "open", "shut", "closed"}]
  BY DEF TypeOK
<1>3. server'[c] = "closed" /\ \A d \in Conns \ {c} : server'[d] = server[d]
  BY <1>1, <1>2, Zenon
<1>4. /\ ~Active(s)' /\ ~Serving(s)'
      /\ \A t \in Slots \ {s} : /\ Active(t)' <=> Active(t)
                                /\ Serving(t)' <=> Serving(t)
                                /\ Active(t) => slots[t].conn # c
  BY <1>1, ZenonT(40) DEF WorkersPaired, Active, Serving
<1>5. BacklogSound'
  <2>1. \A i \in DOMAIN backlog : backlog[i] \in Conns
    BY DEF TypeOK
  <2>2. \A i \in DOMAIN backlog : backlog[i] # c
    BY <1>1, Zenon DEF BacklogSound
  <2>3. \A i \in DOMAIN backlog : server'[backlog[i]] = server[backlog[i]]
    BY <1>3, <2>1, <2>2, Zenon
  <2> QED
    BY <2>1, <2>2, <2>3, Zenon DEF BacklogSound
<1>6. WorkersPaired'
  <2>1. \A t \in Slots : Active(t)' =>
          slots'[t].conn \in Conns /\ server'[slots'[t].conn] \in {"open", "shut"}
    BY <1>3, <1>4 DEF WorkersPaired
  <2>2. \A t, u \in Slots :
          Active(t)' /\ Active(u)' /\ slots'[t].conn = slots'[u].conn => t = u
    BY <1>4, Zenon DEF WorkersPaired
  <2>3. \A d \in Conns : server'[d] \in {"open", "shut"} =>
          \E t \in Slots : Active(t)' /\ slots'[t].conn = d
    <3> SUFFICES ASSUME NEW d \in Conns, server'[d] \in {"open", "shut"}
        PROVE  \E t \in Slots : Active(t)' /\ slots'[t].conn = d
      BY Zenon
    <3>1. d # c /\ server[d] \in {"open", "shut"}
      BY <1>3, Zenon
    <3>2. PICK t \in Slots : Active(t) /\ slots[t].conn = d
      BY <3>1, Zenon DEF WorkersPaired
    <3> QED
      BY <1>1, <1>4, <3>1, <3>2, Zenon
  <2>4. \A t \in Slots : Serving(t)' => slots'[t].job \in Request
    BY <1>4, Zenon DEF WorkersPaired
  <2>5. daemon' \in {"unlink", "down"} => \A t \in Slots : ~Active(t)'
    BY <1>4, Zenon DEF WorkersPaired
  <2> QED
    BY <2>1, <2>2, <2>3, <2>4, <2>5, Zenon DEF WorkersPaired
<1> QED
  BY <1>5, <1>6, Zenon

\* A worker touches only its own connection.
LEMMA WorkerWire ==
  ASSUME SessionInv, NEW s \in Slots, Active(s), NEW c \in Conns,
         c = slots[s].conn,
         \A d, r : Expected(d, r) <=> Expected(d, r)',
         \A t \in Slots \ {s} : slots'[t] = slots[t],
         \A d \in Conns \ {c} : inbox'[d] = inbox[d] /\ outbox'[d] = outbox[d],
         WireSound(c)', JobSound(s)'
  PROVE  OneExchange'
<1>1. \A t \in Slots \ {s} :
        Serving(t)' => slots'[t] = slots[t] /\ slots[t].conn # c
  <2> SUFFICES ASSUME NEW t \in Slots \ {s}, Serving(t)'
      PROVE  slots[t].conn # c
    BY Zenon
  <2>1. Active(t)
    BY Zenon DEF Active, Serving
  <2> QED
    BY <2>1, Zenon DEF SessionInv, WorkersPaired
<1>2. \A d \in Conns \ {c}, r \in Request : Expected(d, r) => Expected(d, r)'
  BY Zenon
<1> QED
  BY <1>1, <1>2, QuietElsewhere, Zenon DEF SessionInv

\* A worker takes a request and performs it, or blocks with it.
LEMMA ServeRequest ==
  ASSUME SessionInv, NEW s \in Slots, serve_request(s) PROVE SessionInv'
<1> USE SessionAssumptions
<1>1. /\ slots[s].phase = "receive" /\ inbox[slots[s].conn] # <<>>
      /\ UNCHANGED <<dvars, backlog, ends, server, peer, outbox, pvars>>
  BY Zenon DEF serve_request
<1>2. Active(s) /\ ~Serving(s)
  BY <1>1, Zenon DEF Active, Serving
<1>3. PICK c \in Conns : c = slots[s].conn
  BY <1>2 DEF SessionInv, WorkersPaired
<1>4. /\ inbox \in [Conns -> Seq(Request)] /\ outbox \in [Conns -> Seq(Request)]
      /\ slots \in [Slots -> SlotState] /\ peer \in [Conns -> Procs \cup {None}]
      /\ performed \subseteq [by : Procs, serial : 1 .. MaxCalls,
                              as : Procs \cup {None}]
  BY Zenon DEF SessionInv, TypeOK
<1>5. /\ Len(inbox[c]) + Len(outbox[c]) <= 1
      /\ \A i \in DOMAIN inbox[c] : Expected(c, inbox[c][i])
  BY Zenon DEF SessionInv, OneExchange, WireSound
<1>6. /\ outbox[c] = <<>> /\ 1 \in DOMAIN inbox[c]
      /\ Head(inbox[c]) = inbox[c][1] /\ inbox[c][1] \in Request
      /\ Tail(inbox[c]) = <<>>
  <2>1. inbox[c] \in Seq(Request) /\ outbox[c] \in Seq(Request)
    BY <1>4, Zenon
  <2> QED
    BY <1>1, <1>3, <1>5, <2>1, OnlyOne, Zenon
<1>7. PICK r \in Request : r = Head(inbox[c])
  BY <1>6, Zenon
<1>8. Expected(c, r)
  BY <1>5, <1>6, <1>7, Zenon
<1>9. /\ inbox' = [inbox EXCEPT ![c] = Tail(@)]
      /\ \/ /\ Phase(s, "send", r)
            /\ performed' = performed \cup
                 {[by |-> r.by, serial |-> r.serial, as |-> peer[c]]}
         \/ Phase(s, "blocked", r) /\ performed' = performed
  BY <1>3, <1>7, Zenon DEF serve_request
<1>10. /\ slots' \in [Slots -> SlotState]
       /\ slots'[s].conn = slots[s].conn /\ slots'[s].phase \in {"send", "blocked"}
       /\ slots'[s].job = r
       /\ \A t \in Slots \ {s} : slots'[t] = slots[t]
  BY <1>4, <1>9, PhaseIs, Zenon
<1>11. /\ inbox' \in [Conns -> Seq(Request)] /\ inbox'[c] = <<>>
       /\ \A d \in Conns \ {c} : inbox'[d] = inbox[d]
  BY <1>4, <1>6, <1>9, Zenon
<1>12. /\ performed' \subseteq [by : Procs, serial : 1 .. MaxCalls,
                               as : Procs \cup {None}]
       /\ ServedAsCaller'
  <2>1. [by |-> r.by, serial |-> r.serial, as |-> peer[c]] \in
          [by : Procs, serial : 1 .. MaxCalls, as : Procs \cup {None}]
    BY <1>4, Zenon DEF Request
  <2>2. r.by = peer[c]
    BY <1>8, Zenon DEF Expected
  <2>3. performed' \subseteq performed \cup
          {[by |-> r.by, serial |-> r.serial, as |-> peer[c]]}
    BY <1>9, Zenon
  <2> QED
    BY <1>4, <2>1, <2>2, <2>3 DEF SessionInv, ServedAsCaller
<1>13. TypeOK'
  BY <1>1, <1>10, <1>11, <1>12, Zenon DEF SessionInv, TypeOK, dvars, pvars
<1>14. /\ GoneIsGone' /\ OwnersKnown' /\ OwnersAreOld' /\ AnswerIsMine'
       /\ \A d, m : Expected(d, m) <=> Expected(d, m)'
  BY <1>1, ClientsUntouched, Zenon
<1>15. Active(s)' /\ Serving(s)'
  BY <1>10, Zenon DEF Active, Serving
<1>16. WorkersPaired' /\ BacklogSound'
  BY <1>1, <1>2, <1>10, <1>15, WorkerGoesOn, Zenon DEF SessionInv, dvars
<1>17. WireSound(c)'
  BY <1>1, <1>6, <1>11 DEF WireSound
<1>18. JobSound(s)'
  <2>1. slots'[s].conn = c /\ slots'[s].job = r
    BY <1>3, <1>10, Zenon
  <2>2. Expected(c, r)'
    BY <1>8, <1>14, Zenon
  <2> QED
    BY <1>1, <1>6, <1>11, <2>1, <2>2, Zenon DEF JobSound, Expected, connected
<1>19. OneExchange'
  BY <1>1, <1>2, <1>3, <1>10, <1>11, <1>14, <1>17, <1>18, WorkerWire, Zenon
<1> QED
  BY <1>12, <1>13, <1>14, <1>16, <1>19, Zenon DEF SessionInv

\* A blocked semop is performed or given up.
LEMMA ServeBlocked ==
  ASSUME SessionInv, NEW s \in Slots, serve_unblocks(s) \/ serve_abandons(s)
  PROVE  SessionInv'
<1> USE SessionAssumptions
<1>1. /\ slots[s].phase = "blocked"
      /\ UNCHANGED <<dvars, backlog, ends, server, peer, inbox, outbox, pvars>>
  BY DEF serve_unblocks, serve_abandons, svars
<1>2. Active(s) /\ Serving(s)
  BY <1>1, Zenon DEF Active, Serving
<1>3. PICK c \in Conns : c = slots[s].conn
  BY <1>2 DEF SessionInv, WorkersPaired
<1>4. PICK r \in Request : r = slots[s].job
  BY <1>2, Zenon DEF SessionInv, WorkersPaired
<1>5. /\ inbox[c] = <<>> /\ outbox[c] = <<>>
      /\ Expected(slots[s].conn, slots[s].job)
  BY <1>2, <1>3, Zenon DEF SessionInv, OneExchange, JobSound
<1>6. Expected(c, r)
  BY <1>3, <1>4, <1>5, Zenon
<1>7. /\ slots \in [Slots -> SlotState] /\ peer \in [Conns -> Procs \cup {None}]
      /\ performed \subseteq [by : Procs, serial : 1 .. MaxCalls,
                              as : Procs \cup {None}]
  BY Zenon DEF SessionInv, TypeOK
<1>8. /\ Phase(s, "send", r)
      /\ performed' \subseteq performed \cup
           {[by |-> r.by, serial |-> r.serial, as |-> peer[c]]}
  BY <1>3, <1>4, Zenon DEF serve_unblocks, serve_abandons
<1>9. /\ slots' \in [Slots -> SlotState]
      /\ slots'[s].conn = slots[s].conn /\ slots'[s].phase = "send"
      /\ slots'[s].job = r
      /\ \A t \in Slots \ {s} : slots'[t] = slots[t]
  BY <1>7, <1>8, PhaseIs, Zenon
<1>10. /\ performed' \subseteq [by : Procs, serial : 1 .. MaxCalls,
                               as : Procs \cup {None}]
       /\ ServedAsCaller'
  <2>1. [by |-> r.by, serial |-> r.serial, as |-> peer[c]] \in
          [by : Procs, serial : 1 .. MaxCalls, as : Procs \cup {None}]
    BY <1>7, Zenon DEF Request
  <2>2. r.by = peer[c]
    BY <1>6, Zenon DEF Expected
  <2> QED
    BY <1>7, <1>8, <2>1, <2>2 DEF SessionInv, ServedAsCaller
<1>11. TypeOK'
  BY <1>1, <1>9, <1>10, Zenon DEF SessionInv, TypeOK, dvars, pvars
<1>12. /\ GoneIsGone' /\ OwnersKnown' /\ OwnersAreOld' /\ AnswerIsMine'
       /\ \A d, m : Expected(d, m) <=> Expected(d, m)'
  BY <1>1, ClientsUntouched, Zenon
<1>13. Active(s)' /\ Serving(s)'
  BY <1>9, Zenon DEF Active, Serving
<1>14. WorkersPaired' /\ BacklogSound'
  BY <1>1, <1>2, <1>9, <1>13, WorkerGoesOn, Zenon DEF SessionInv, dvars
<1>15. WireSound(c)'
  BY <1>1, <1>5 DEF WireSound
<1>16. JobSound(s)'
  <2>1. slots'[s].conn = c /\ slots'[s].job = r
    BY <1>3, <1>9, Zenon
  <2>2. Expected(c, r)'
    BY <1>6, <1>12, Zenon
  <2> QED
    BY <1>1, <1>5, <2>1, <2>2, Zenon DEF JobSound, Expected, connected
<1>17. OneExchange'
  BY <1>1, <1>2, <1>3, <1>9, <1>12, <1>15, <1>16, WorkerWire, Zenon
<1> QED
  BY <1>10, <1>11, <1>12, <1>14, <1>17, ZenonT(40) DEF SessionInv

\* A worker closes its socket: the client finds the end of the stream after
\* what has been sent.
LEMMA SocketCloses ==
  ASSUME SessionInv, NEW s \in Slots, Active(s), CloseSocket(s),
         UNCHANGED <<dvars, backlog, ends, peer, outbox, pvars, performed>>
  PROVE  SessionInv'
<1> USE SessionAssumptions
<1>1. PICK c \in Conns : c = slots[s].conn
  BY Zenon DEF SessionInv, WorkersPaired
<1>2. /\ inbox \in [Conns -> Seq(Request)] /\ slots \in [Slots -> SlotState]
      /\ outbox \in [Conns -> Seq(Request)]
      /\ server \in [Conns -> {"none", "queued", "open", "shut", "closed"}]
  BY Zenon DEF SessionInv, TypeOK
<1>3. /\ Phase(s, "closed", None)
      /\ server' = [server EXCEPT ![slots[s].conn] = "closed"]
      /\ inbox' = [inbox EXCEPT ![c] = <<>>]
  BY <1>1, Zenon DEF CloseSocket
<1>4. /\ slots' \in [Slots -> SlotState] /\ slots'[s].phase = "closed"
      /\ \A t \in Slots \ {s} : slots'[t] = slots[t]
  BY <1>2, <1>3, PhaseIs, Zenon
<1>5. /\ inbox' \in [Conns -> Seq(Request)] /\ inbox'[c] = <<>>
      /\ \A d \in Conns \ {c} : inbox'[d] = inbox[d]
  BY <1>2, <1>3
<1>6. server' \in [Conns -> {"none", "queued", "open", "shut", "closed"}]
  BY <1>2, <1>3, Zenon
<1>7. TypeOK'
  BY <1>4, <1>5, <1>6, Zenon DEF SessionInv, TypeOK, dvars, pvars
<1>8. /\ GoneIsGone' /\ OwnersKnown' /\ OwnersAreOld' /\ AnswerIsMine'
      /\ \A d, m : Expected(d, m) <=> Expected(d, m)'
  BY ClientsUntouched, Zenon
<1>9. WorkersPaired' /\ BacklogSound'
  BY <1>3, <1>4, WorkerCloses, Zenon DEF SessionInv, dvars
<1>10. WireSound(c)'
  <2>1. /\ Len(inbox[c]) + Len(outbox[c]) <= 1
        /\ \A i \in DOMAIN outbox[c] : Expected(c, outbox[c][i])
    BY Zenon DEF SessionInv, OneExchange, WireSound
  <2>2. ASSUME NEW i \in DOMAIN outbox[c]
        PROVE  Expected(c, outbox[c][i])'
    <3>1. PICK r : r = outbox[c][i]
      BY Zenon
    <3>2. Expected(c, r)'
      BY <1>8, <2>1, <3>1, Zenon
    <3> QED
      BY <3>1, <3>2, Zenon DEF Expected, connected
  <2>3. Len(inbox[c]) \in Nat /\ Len(outbox[c]) \in Nat
    BY <1>2
  <2>4. Len(outbox[c]) <= 1
    <3>1. ASSUME NEW m \in Nat, NEW n \in Nat, m + n <= 1 PROVE n <= 1
      BY <3>1
    <3> QED
      BY <2>1, <2>3, <3>1, Zenon
  <2> QED
    BY <1>5, <2>2, <2>3, <2>4 DEF WireSound
<1>11. JobSound(s)'
  BY <1>4, Zenon DEF JobSound, Serving
<1>12. OneExchange'
  BY <1>1, <1>4, <1>5, <1>8, <1>10, <1>11, WorkerWire, Zenon
<1>13. ServedAsCaller'
  BY Zenon DEF SessionInv, ServedAsCaller
<1> QED
  BY <1>7, <1>8, <1>9, <1>12, <1>13, ZenonT(40) DEF SessionInv

\* A response is sent, or the worker finds that it cannot be.
LEMMA SendResponse ==
  ASSUME SessionInv, NEW s \in Slots, send_response(s) PROVE SessionInv'
<1> USE SessionAssumptions
<1>1. /\ slots[s].phase = "send"
      /\ UNCHANGED <<dvars, backlog, ends, peer, pvars, performed>>
  BY Zenon DEF send_response
<1>2. Active(s) /\ Serving(s)
  BY <1>1 DEF Active, Serving
<1>3. CASE CloseSocket(s) /\ UNCHANGED outbox
  BY <1>1, <1>2, <1>3, SocketCloses, Zenon
<1>4. CASE /\ outbox' = [outbox EXCEPT ![slots[s].conn] = Append(@, slots[s].job)]
           /\ Phase(s, "receive", None)
           /\ UNCHANGED <<server, inbox>>
  <2>1. PICK c \in Conns : c = slots[s].conn
    BY <1>2 DEF SessionInv, WorkersPaired
  <2>2. PICK r \in Request : r = slots[s].job
    BY <1>2, Zenon DEF SessionInv, WorkersPaired
  <2>3. /\ inbox[c] = <<>> /\ outbox[c] = <<>>
        /\ Expected(slots[s].conn, slots[s].job)
    BY <1>2, <2>1, Zenon DEF SessionInv, OneExchange, JobSound
  <2>4. Expected(c, r)
    BY <2>1, <2>2, <2>3, Zenon
  <2>5. slots \in [Slots -> SlotState] /\ outbox \in [Conns -> Seq(Request)]
    BY Zenon DEF SessionInv, TypeOK
  <2>6. /\ slots' \in [Slots -> SlotState]
        /\ slots'[s].conn = slots[s].conn /\ slots'[s].phase = "receive"
        /\ \A t \in Slots \ {s} : slots'[t] = slots[t]
    BY <1>4, <2>5, PhaseIs, Zenon
  <2>7. /\ outbox' \in [Conns -> Seq(Request)] /\ outbox'[c] = <<r>>
        /\ \A d \in Conns \ {c} : outbox'[d] = outbox[d]
    BY <1>4, <2>1, <2>2, <2>3, <2>5
  <2>8. TypeOK'
    BY <1>1, <1>4, <2>6, <2>7, ZenonT(60) DEF SessionInv, TypeOK, dvars, pvars
  <2>9. /\ GoneIsGone' /\ OwnersKnown' /\ OwnersAreOld' /\ AnswerIsMine'
        /\ \A d, m : Expected(d, m) <=> Expected(d, m)'
    BY <1>1, ClientsUntouched, Zenon
  <2>10. Active(s)' /\ ~Serving(s)'
    BY <2>6, Zenon DEF Active, Serving
  <2>11. WorkersPaired' /\ BacklogSound'
    BY <1>1, <1>2, <1>4, <2>6, <2>10, WorkerGoesOn, Zenon DEF SessionInv, dvars
  <2>12. WireSound(c)'
    <3>1. Expected(c, r)'
      BY <2>4, <2>9
    <3>2. Len(outbox'[c]) = 1 /\ DOMAIN outbox'[c] = {1} /\ outbox'[c][1] = r
      BY <2>7
    <3>3. (\A i \in DOMAIN outbox[c] : Expected(c, outbox[c][i]))'
      BY <3>1, <3>2, Zenon DEF Expected, connected
    <3>4. Len(inbox'[c]) = 0 /\ DOMAIN inbox'[c] = {}
      BY <1>4, <2>3
    <3> QED
      BY <3>2, <3>3, <3>4 DEF WireSound
  <2>13. JobSound(s)'
    BY <2>10, Zenon DEF JobSound
  <2>14. OneExchange'
    BY <1>2, <1>4, <2>1, <2>6, <2>7, <2>9, <2>12, <2>13, WorkerWire, Zenon
  <2>15. ServedAsCaller'
    BY <1>1, Zenon DEF SessionInv, ServedAsCaller
  <2> QED
    BY <2>8, <2>9, <2>11, <2>14, <2>15, Zenon DEF SessionInv
<1> QED
  BY <1>3, <1>4, ZenonT(40) DEF send_response

\* The client has hung up.
LEMMA ServeEof ==
  ASSUME SessionInv, NEW s \in Slots, serve_eof(s) PROVE SessionInv'
BY SocketCloses, Zenon DEF serve_eof, Active

-----------------------------------------------------------------------------
(* The steps of the daemon.                                                *)

\* Steps that leave the clients and the messages alone, and the workers that
\* have a request in hand.
LEMMA Bystanders ==
  ASSUME SessionInv, UNCHANGED <<ends, peer, inbox, outbox, pvars, performed>>,
         \A s \in Slots : Serving(s)' => slots'[s] = slots[s],
         TypeOK', BacklogSound', WorkersPaired'
  PROVE  SessionInv'
<1>1. /\ GoneIsGone' /\ OwnersKnown' /\ OwnersAreOld' /\ AnswerIsMine'
      /\ \A c, r : Expected(c, r) <=> Expected(c, r)'
  BY ClientsUntouched, Zenon
<1>2. ASSUME NEW c \in Conns PROVE WireSound(c)'
  BY <1>1, QuietConnection, Zenon DEF SessionInv, OneExchange
<1>3. ASSUME NEW s \in Slots PROVE JobSound(s)'
  <2>1. slots'[s] = slots[s] \/ ~Serving(s)'
    OBVIOUS
  <2>2. \A r \in Request : Expected(slots[s].conn, r) =>
          \A c \in {slots[s].conn} : Expected(c, r)'
    BY <1>1, Zenon
  <2> QED
    BY <2>1, <2>2, QuietWorker, Zenon DEF SessionInv, OneExchange
<1>4. OneExchange'
  BY <1>2, <1>3, Zenon DEF OneExchange
<1>5. ServedAsCaller'
  BY DEF SessionInv, ServedAsCaller
<1> QED
  BY <1>1, <1>4, <1>5, Zenon DEF SessionInv

\* A worker says that it is done.
LEMMA ServeDone ==
  ASSUME SessionInv, NEW s \in Slots, serve_done(s) PROVE SessionInv'
<1> USE SessionAssumptions
<1>1. /\ slots[s].phase = "closed" /\ Phase(s, "done", None)
      /\ UNCHANGED <<dvars, backlog, ends, server, peer, inbox, outbox, pvars,
                     performed>>
  BY Zenon DEF serve_done, svars
<1>2. slots \in [Slots -> SlotState]
  BY DEF SessionInv, TypeOK
<1>3. /\ slots' \in [Slots -> SlotState] /\ slots'[s].phase = "done"
      /\ \A t \in Slots \ {s} : slots'[t] = slots[t]
  BY <1>1, <1>2, PhaseIs, Zenon
<1>4. TypeOK'
  BY <1>1, <1>3, Zenon DEF SessionInv, TypeOK, dvars, pvars
<1>5. BacklogSound'
  BY <1>1, Zenon DEF SessionInv, BacklogSound, dvars
<1>6. \A t \in Slots : /\ Active(t)' <=> Active(t) /\ t # s
                       /\ Serving(t)' <=> Serving(t) /\ t # s
  BY <1>3, Zenon DEF Active, Serving
<1>7. ~Active(s) /\ ~Serving(s)
  BY <1>1, ZenonT(40) DEF Active, Serving
<1>8. WorkersPaired'
  <2>1. WorkersPaired
    BY Zenon DEF SessionInv
  <2>2. server' = server /\ daemon' = daemon
    BY <1>1, Zenon DEF dvars
  <2>3. \A t \in Slots : Active(t)' <=> Active(t)
    BY <1>6, <1>7, Zenon
  <2>4. \A t \in Slots : Active(t) => slots'[t] = slots[t]
    BY <1>3, <1>7, Zenon
  <2>5. \A t \in Slots : Serving(t)' => Serving(t) /\ slots'[t] = slots[t]
    BY <1>3, <1>6, Zenon
  <2> QED
    BY <2>1, <2>2, <2>3, <2>4, <2>5, ZenonT(40) DEF WorkersPaired
<1> QED
  BY <1>1, <1>3, <1>4, <1>5, <1>6, <1>8, Bystanders, Zenon

\* Starting, removing a socket file and signalling move no connection.
LEMMA OutsideTheLoop ==
  ASSUME SessionInv, remove_stale_socket \/ start \/ Terminate
  PROVE  SessionInv'
<1>1. UNCHANGED <<backlog, slots, svars, pvars, performed>>
  BY Zenon DEF remove_stale_socket, start, Terminate
<1>2. UNCHANGED <<backlog, slots, ends, server, peer, inbox, outbox, pvars,
                  performed>>
  BY <1>1, Zenon DEF svars
<1>3. /\ daemon' \in {"down", "poll", "accept", "stop", "join", "unlink"}
      /\ signal' \in BOOLEAN /\ path' \in BOOLEAN
      /\ daemon' = daemon \/ (daemon = "down" /\ daemon' = "poll")
  <2>1. /\ daemon \in {"down", "poll", "accept", "stop", "join", "unlink"}
        /\ signal \in BOOLEAN /\ path \in BOOLEAN
    BY Zenon DEF SessionInv, TypeOK
  <2>2. ASSUME NEW b \in BOOLEAN, signal' = b \/ signal' = TRUE \/ signal' = FALSE
        PROVE  signal' \in BOOLEAN
    BY <2>2, Zenon
  <2>3. ASSUME NEW b \in BOOLEAN, path' = b \/ path' = TRUE \/ path' = FALSE
        PROVE  path' \in BOOLEAN
    BY <2>3, Zenon
  <2>4. CASE remove_stale_socket
    <3>1. path' = FALSE
      BY <2>4, Zenon DEF remove_stale_socket
    <3>2. signal' = signal /\ daemon' = daemon
      BY <2>4, SMT DEF remove_stale_socket
    <3> QED
      BY <2>1, <2>2, <2>3, <3>1, <3>2, Zenon
  <2>5. CASE start
    <3>1. /\ path' = TRUE /\ signal' = FALSE
          /\ daemon = "down" /\ daemon' = "poll"
      BY <2>5, Zenon DEF start
    <3> QED
      BY <2>1, <2>2, <2>3, <3>1, Zenon
  <2>6. CASE Terminate
    <3>1. signal' = TRUE
      BY <2>6, Zenon DEF Terminate
    <3>2. path' = path /\ daemon' = daemon
      BY <2>6, SMT DEF Terminate
    <3> QED
      BY <2>1, <2>2, <2>3, <3>1, <3>2, Zenon
  <2> QED
    BY <2>4, <2>5, <2>6, Zenon
<1>4. TypeOK'
  BY <1>2, <1>3, Zenon DEF SessionInv, TypeOK, pvars
<1>5. BacklogSound'
  BY <1>2, <1>3, ZenonT(40) DEF SessionInv, BacklogSound
<1>6. WorkersPaired'
  BY <1>2, <1>3 DEF SessionInv, WorkersPaired, Active, Serving
<1> QED
  BY <1>2, <1>4, <1>5, <1>6, Bystanders, Zenon

\* The loop is left: the listener drops the connections it holds.
LEMMA LoopIsLeft ==
  ASSUME SessionInv, LeaveLoop, daemon \in {"poll", "accept"},
         UNCHANGED <<signal, path, slots, ends, peer, inbox, outbox, pvars,
                     performed>>
  PROVE  SessionInv'
<1>1. /\ daemon' = "stop" /\ backlog' = <<>>
      /\ server' = [c \in Conns |->
           IF server[c] = "queued" THEN "closed" ELSE server[c]]
  BY Zenon DEF LeaveLoop
<1>2. server \in [Conns -> {"none", "queued", "open", "shut", "closed"}]
  BY DEF SessionInv, TypeOK
<1>3. /\ server' \in [Conns -> {"none", "queued", "open", "shut", "closed"}]
      /\ \A c \in Conns : /\ server'[c] = "open" <=> server[c] = "open"
                          /\ server'[c] = "shut" <=> server[c] = "shut"
  BY <1>1, <1>2, Zenon
<1>4. TypeOK'
  BY <1>1, <1>3 DEF SessionInv, TypeOK, pvars
<1>5. BacklogSound'
  BY <1>1 DEF BacklogSound
<1>6. \A s \in Slots : (Active(s)' <=> Active(s)) /\ (Serving(s)' <=> Serving(s))
  BY ZenonT(40) DEF Active, Serving
<1>7. WorkersPaired'
  BY <1>1, <1>3, <1>6, Zenon DEF SessionInv, WorkersPaired
<1> QED
  BY <1>4, <1>5, <1>7, Bystanders, Zenon

\* poll returns, or fails for good.
LEMMA PollReturns ==
  ASSUME SessionInv, poll \/ accept_fails PROVE SessionInv'
<1>1. CASE LeaveLoop
  BY <1>1, LoopIsLeft, Zenon DEF poll, accept_fails
<1>2. CASE ~LeaveLoop
  <2>1. /\ daemon = "poll" /\ daemon' = "accept" /\ backlog # <<>>
        /\ UNCHANGED <<signal, path, slots, ends, peer, inbox, outbox, pvars,
                       performed, backlog, server>>
    BY <1>2, Zenon DEF poll, accept_fails
  <2>2. TypeOK'
    BY <2>1, Zenon DEF SessionInv, TypeOK, pvars
  <2>3. BacklogSound'
    BY <2>1, Zenon DEF SessionInv, BacklogSound
  <2>4. WorkersPaired'
    BY <2>1, Zenon DEF SessionInv, WorkersPaired, Active, Serving
  <2> QED
    BY <2>1, <2>2, <2>3, <2>4, Bystanders, Zenon
<1> QED
  BY <1>1, <1>2, Zenon

\* accept4 takes the oldest connection off the listener; the others keep their
\* places.
LEMMA OldestTaken ==
  ASSUME SessionInv, backlog # <<>>, backlog' = Tail(backlog),
         daemon' = "poll", NEW v \in {"open", "closed"},
         server' = [server EXCEPT ![Head(backlog)] = v]
  PROVE  /\ Head(backlog) \in Conns /\ server[Head(backlog)] = "queued"
         /\ server' \in [Conns -> {"none", "queued", "open", "shut", "closed"}]
         /\ server'[Head(backlog)] = v
         /\ \A d \in Conns \ {Head(backlog)} : server'[d] = server[d]
         /\ backlog' \in Seq(Conns) /\ BacklogSound'
<1>1. /\ backlog \in Seq(Conns)
      /\ server \in [Conns -> {"none", "queued", "open", "shut", "closed"}]
  BY Zenon DEF SessionInv, TypeOK
<1>2. /\ \A i \in DOMAIN backlog : server[backlog[i]] = "queued"
      /\ \A i, j \in DOMAIN backlog : backlog[i] = backlog[j] => i = j
  BY DEF SessionInv, BacklogSound
<1>3. /\ 1 \in DOMAIN backlog /\ Head(backlog) = backlog[1]
      /\ Head(backlog) \in Conns
      /\ backlog' \in Seq(Conns) /\ Len(backlog') = Len(backlog) - 1
      /\ \A i \in 1 .. Len(backlog') : backlog'[i] = backlog[i + 1]
  <2>1. Len(backlog) \in Nat \ {0}
    BY <1>1
  <2>2. /\ 1 \in DOMAIN backlog /\ Head(backlog) = backlog[1]
        /\ Head(backlog) \in Conns
    BY <1>1, <2>1
  <2>3. backlog' \in Seq(Conns) /\ Len(backlog') = Len(backlog) - 1
    BY <1>1, <2>1
  <2> QED
    BY <1>1, <2>1, <2>2, <2>3
<1>4. \A i \in DOMAIN backlog' :
        /\ i + 1 \in DOMAIN backlog /\ backlog'[i] = backlog[i + 1]
        /\ i + 1 # 1 /\ i \in Nat
  BY <1>1, <1>3
<1>5. \A i \in DOMAIN backlog' : backlog'[i] \in Conns \ {Head(backlog)}
  <2> SUFFICES ASSUME NEW i \in DOMAIN backlog'
      PROVE  backlog'[i] \in Conns /\ backlog'[i] # Head(backlog)
    OBVIOUS
  <2>1. backlog[i + 1] \in Conns
    BY <1>1, <1>4
  <2>2. backlog[i + 1] # backlog[1]
    BY <1>2, <1>3, <1>4, Zenon
  <2> QED
    BY <1>3, <1>4, <2>1, <2>2, Zenon
<1>6. /\ server' \in [Conns -> {"none", "queued", "open", "shut", "closed"}]
      /\ server'[Head(backlog)] = v
      /\ \A d \in Conns \ {Head(backlog)} : server'[d] = server[d]
  BY <1>1, <1>3, Zenon
<1>7. \A i \in DOMAIN backlog' : server'[backlog'[i]] = "queued"
  BY <1>2, <1>4, <1>5, <1>6
<1>8. \A i, j \in DOMAIN backlog' : backlog'[i] = backlog'[j] => i = j
  BY <1>2, <1>4
<1>9. BacklogSound'
  BY <1>7, <1>8, Zenon DEF BacklogSound
<1> QED
  BY <1>2, <1>3, <1>6, <1>9, ZenonT(40)

\* Joining the finished workers frees their slots and no other.
LEMMA Reaped ==
  ASSUME slots \in [Slots -> SlotState]
  PROVE  LET reaped == reap_finished_workers(slots)
         IN  /\ reaped \in [Slots -> SlotState]
             /\ \A s \in Slots :
                  IF slots[s].phase = "done" THEN reaped[s].phase = "free"
                                             ELSE reaped[s] = slots[s]
<1>1. FreeSlot \in SlotState /\ FreeSlot.phase = "free"
  BY Zenon DEF FreeSlot, SlotState
<1> QED
  BY <1>1, Zenon DEF reap_finished_workers

\* The slot that a new worker gets.
LEMMA FreeSlotFound ==
  ASSUME NEW F, F \subseteq Slots, F # {}
  PROVE  (CHOOSE s \in F : \A t \in F : s <= t) \in F
<1> DEFINE R == OpToRel(<, Nat)
<1>1. F \subseteq Nat
  BY SessionAssumptions DEF Slots
<1>2. IsWellFoundedOn(R, Nat)
  BY NatLessThanWellFounded, Zenon
<1> HIDE DEF R
<1>3. PICK s \in F : \A t \in F : ~(<<t, s>> \in R)
  BY <1>1, <1>2, WFMin, Zenon
<1>4. \A t \in F : ~(t < s)
  BY <1>1, <1>3, Zenon DEF R, OpToRel
<1>5. \A t \in F : s <= t
  BY <1>1, <1>4
<1> QED
  BY <1>5

\* A client is accepted or refused.
LEMMA AcceptClient == ASSUME SessionInv, accept_client PROVE SessionInv'
<1> DEFINE reaped == reap_finished_workers(slots)
           free == {s \in Slots : reaped[s].phase = "free"}
           worker(c) == [conn |-> c, phase |-> "receive", job |-> None]
<1>1. /\ daemon = "accept" /\ daemon' = "poll" /\ backlog' = Tail(backlog)
      /\ UNCHANGED <<signal, path, ends, peer, inbox, outbox, pvars, performed>>
  BY DEF accept_client
<1>2. backlog # <<>>
  BY <1>1, Zenon DEF SessionInv, BacklogSound
<1>3. slots \in [Slots -> SlotState]
  BY DEF SessionInv, TypeOK
<1>4. /\ reaped \in [Slots -> SlotState]
      /\ \A s \in Slots :
           IF slots[s].phase = "done" THEN reaped[s].phase = "free"
                                      ELSE reaped[s] = slots[s]
  BY <1>3, Reaped, Zenon
<1> HIDE DEF reaped
<1>5. CASE slots' = reaped /\ refuse(Head(backlog))
  <2>1. server' = [server EXCEPT ![Head(backlog)] = "closed"]
    BY <1>5, Zenon DEF refuse
  <2>2. PICK c \in Conns :
          /\ c = Head(backlog) /\ server[c] = "queued" /\ server'[c] = "closed"
          /\ server' \in [Conns -> {"none", "queued", "open", "shut", "closed"}]
          /\ \A d \in Conns \ {c} : server'[d] = server[d]
          /\ backlog' \in Seq(Conns) /\ BacklogSound'
    BY <1>1, <1>2, <2>1, OldestTaken, Zenon
  <2>3. TypeOK'
    BY <1>1, <1>4, <1>5, <2>2, Zenon DEF SessionInv, TypeOK, pvars
  <2>4. \A s \in Slots : /\ Active(s)' <=> Active(s)
                         /\ Serving(s)' <=> Serving(s)
                         /\ Active(s) => slots'[s] = slots[s]
    BY <1>4, <1>5, Zenon DEF Active, Serving
  <2>5. \A s \in Slots : Serving(s) => Active(s)
    BY Zenon DEF Active, Serving
  <2>6. WorkersPaired'
    <3>1. \A s \in Slots : Active(s) => slots[s].conn \in Conns \ {c}
      BY <2>2, ZenonT(40) DEF SessionInv, WorkersPaired
    <3>2. \A s \in Slots : Active(s)' =>
            /\ slots'[s].conn \in Conns
            /\ server'[slots'[s].conn] \in {"open", "shut"}
      <4>1. \A s \in Slots : Active(s) => server[slots[s].conn] \in {"open", "shut"}
        BY Zenon DEF SessionInv, WorkersPaired
      <4> QED
        BY <2>2, <2>4, <3>1, <4>1, ZenonT(40)
    <3>3. \A s, t \in Slots :
            Active(s)' /\ Active(t)' /\ slots'[s].conn = slots'[t].conn => s = t
      BY <2>4 DEF SessionInv, WorkersPaired
    <3>4. \A d \in Conns : server'[d] \in {"open", "shut"} =>
            server[d] \in {"open", "shut"}
      BY <2>2, Zenon
    <3>5. \A d \in Conns : server'[d] \in {"open", "shut"} =>
            \E s \in Slots : Active(s)' /\ slots'[s].conn = d
      BY <2>4, <3>4, Zenon DEF SessionInv, WorkersPaired
    <3>6. \A s \in Slots : Serving(s)' => slots'[s].job \in Request
      BY <2>4, <2>5, Zenon DEF SessionInv, WorkersPaired
    <3> QED
      BY <1>1, <3>2, <3>3, <3>5, <3>6 DEF WorkersPaired
  <2> QED
    BY <1>1, <2>2, <2>3, <2>4, <2>5, <2>6, Bystanders, Zenon
<1>6. CASE /\ free # {} /\ server' = [server EXCEPT ![Head(backlog)] = "open"]
           /\ slots' = [reaped EXCEPT ![CHOOSE s \in free : \A t \in free : s <= t]
                          = worker(Head(backlog))]
  <2>1. PICK c \in Conns :
          /\ c = Head(backlog) /\ server[c] = "queued" /\ server'[c] = "open"
          /\ server' \in [Conns -> {"none", "queued", "open", "shut", "closed"}]
          /\ \A d \in Conns \ {c} : server'[d] = server[d]
          /\ backlog' \in Seq(Conns) /\ BacklogSound'
    BY <1>1, <1>2, <1>6, OldestTaken, Zenon
  <2>2. free \subseteq Slots
    OBVIOUS
  <2>3. PICK s \in free : s = CHOOSE t \in free : \A u \in free : t <= u
    BY <1>6, <2>2, FreeSlotFound, Zenon
  <2>4. s \in Slots /\ reaped[s].phase = "free"
    BY <2>3, Zenon
  <2>5. slots' = [reaped EXCEPT ![s] = worker(c)]
    BY <1>6, <2>1, <2>3, Zenon
  <2>6. worker(c) \in SlotState /\ worker(c).conn = c /\ worker(c).phase = "receive"
    BY Zenon DEF SlotState
  <2> HIDE DEF worker, free
  <2>7. /\ slots' \in [Slots -> SlotState]
        /\ slots'[s].conn = c /\ slots'[s].phase = "receive"
        /\ \A t \in Slots \ {s} : slots'[t] = reaped[t]
    BY <1>4, <2>4, <2>5, <2>6, Zenon
  <2>8. TypeOK'
    BY <1>1, <2>1, <2>7, Zenon DEF SessionInv, TypeOK, pvars
  <2>9. ~Active(s) /\ Active(s)' /\ ~Serving(s)'
    BY <1>4, <2>4, <2>7, Zenon DEF Active, Serving
  <2>10. \A t \in Slots \ {s} : /\ Active(t)' <=> Active(t)
                                /\ Serving(t)' <=> Serving(t)
                                /\ Active(t) => slots'[t] = slots[t]
    BY <1>4, <2>7, Zenon DEF Active, Serving
  <2>11. \A t \in Slots : Serving(t) => Active(t)
    BY Zenon DEF Active, Serving
  <2>12. WorkersPaired'
    <3>1. \A t \in Slots : Active(t) => slots[t].conn \in Conns \ {c}
      BY <2>1, ZenonT(40) DEF SessionInv, WorkersPaired
    <3>2. \A t \in Slots : Active(t)' =>
            /\ slots'[t].conn \in Conns
            /\ server'[slots'[t].conn] \in {"open", "shut"}
      <4>1. \A t \in Slots : Active(t) => server[slots[t].conn] \in {"open", "shut"}
        BY Zenon DEF SessionInv, WorkersPaired
      <4>2. ASSUME NEW t \in Slots, Active(t)', t # s
            PROVE  /\ slots'[t].conn \in Conns
                   /\ server'[slots'[t].conn] \in {"open", "shut"}
        BY <2>1, <2>10, <3>1, <4>1, <4>2, ZenonT(40)
      <4> QED
        BY <2>1, <2>7, <4>2, ZenonT(40)
    <3>3. \A t, u \in Slots :
            Active(t)' /\ Active(u)' /\ slots'[t].conn = slots'[u].conn => t = u
      <4>1. \A t, u \in Slots :
              Active(t) /\ Active(u) /\ slots[t].conn = slots[u].conn => t = u
        BY Zenon DEF SessionInv, WorkersPaired
      <4>2. \A t \in Slots \ {s} : Active(t)' =>
              Active(t) /\ slots'[t].conn = slots[t].conn /\ slots'[t].conn # c
        BY <2>10, <3>1, Zenon
      <4>3. ASSUME NEW t \in Slots, NEW u \in Slots, Active(t)', Active(u)',
                   slots'[t].conn = slots'[u].conn
            PROVE  t = u
        <5>1. CASE t = s \/ u = s
          BY <2>7, <4>2, <4>3, <5>1, ZenonT(40)
        <5>2. CASE t # s /\ u # s
          BY <4>1, <4>2, <4>3, <5>2, ZenonT(40)
        <5> QED
          BY <5>1, <5>2, Zenon
      <4> QED
        BY <4>3, Zenon
    <3>4. \A d \in Conns : server'[d] \in {"open", "shut"} =>
            \E t \in Slots : Active(t)' /\ slots'[t].conn = d
      <4> SUFFICES ASSUME NEW d \in Conns, server'[d] \in {"open", "shut"}
          PROVE  \E t \in Slots : Active(t)' /\ slots'[t].conn = d
        OBVIOUS
      <4>1. CASE d = c
        BY <2>4, <2>7, <2>9, <4>1, Zenon
      <4>2. CASE d # c
        <5>1. PICK t \in Slots : Active(t) /\ slots[t].conn = d
          BY <2>1, <4>2, Zenon DEF SessionInv, WorkersPaired
        <5>2. t # s
          BY <2>9, <5>1, Zenon
        <5> QED
          BY <2>10, <5>1, <5>2, Zenon
      <4> QED
        BY <4>1, <4>2, Zenon
    <3>5. \A t \in Slots : Serving(t)' => slots'[t].job \in Request
      BY <2>9, <2>10, <2>11, Zenon DEF SessionInv, WorkersPaired
    <3> QED
      BY <1>1, <3>2, <3>3, <3>4, <3>5, Zenon DEF WorkersPaired
  <2> QED
    BY <1>1, <2>1, <2>8, <2>9, <2>10, <2>11, <2>12, Bystanders, Zenon
<1> QED
  BY <1>5, <1>6, Zenon DEF accept_client, reaped

\* The workers are told to stop.
LEMMA StopWorkers == ASSUME SessionInv, stop_workers PROVE SessionInv'
<1>1. /\ daemon = "stop" /\ daemon' = "join"
      /\ server' = [c \in Conns |-> IF shut(c) THEN "shut" ELSE server[c]]
      /\ UNCHANGED <<signal, path, backlog, slots, ends, peer, inbox, outbox,
                     pvars, performed>>
  BY Zenon DEF stop_workers
<1>2. server \in [Conns -> {"none", "queued", "open", "shut", "closed"}]
  BY Zenon DEF SessionInv, TypeOK
<1>3. /\ server' \in [Conns -> {"none", "queued", "open", "shut", "closed"}]
      /\ \A c \in Conns : /\ server'[c] \in {"open", "shut"} <=>
                               server[c] \in {"open", "shut"}
                          /\ server'[c] = "queued" <=> server[c] = "queued"
  BY <1>1, <1>2, Zenon DEF shut
<1>4. TypeOK'
  BY <1>1, <1>3, Zenon DEF SessionInv, TypeOK, pvars
<1>5. BacklogSound'
  <2>1. backlog = <<>>
    BY <1>1, Zenon DEF SessionInv, BacklogSound
  <2> QED
    BY <1>1, <2>1 DEF BacklogSound
<1>6. \A s \in Slots : (Active(s)' <=> Active(s)) /\ (Serving(s)' <=> Serving(s))
  BY <1>1, Zenon DEF Active, Serving
<1>7. WorkersPaired'
  BY <1>1, <1>3, <1>6, Zenon DEF SessionInv, WorkersPaired
<1> QED
  BY <1>1, <1>4, <1>5, <1>7, Bystanders, Zenon

\* A daemon without workers has no connection, and may end.
LEMMA NobodyWorks ==
  ASSUME SessionInv, UNCHANGED <<ends, peer, inbox, outbox, pvars, performed>>,
         \A s \in Slots : ~Active(s)', slots' \in [Slots -> SlotState],
         server' \in [Conns -> {"none", "queued", "open", "shut", "closed"}],
         \A c \in Conns : server'[c] \notin {"open", "shut"},
         daemon' \in {"unlink", "down"}, backlog' = <<>>,
         signal' \in BOOLEAN, path' \in BOOLEAN
  PROVE  SessionInv'
<1>1. TypeOK'
  BY DEF SessionInv, TypeOK, pvars
<1>2. BacklogSound'
  BY DEF BacklogSound
<1>3. \A s \in Slots : ~Serving(s)'
  BY Zenon DEF Active, Serving
<1>4. WorkersPaired'
  BY <1>3, Zenon DEF WorkersPaired
<1> QED
  BY <1>1, <1>2, <1>3, <1>4, Bystanders, Zenon

\* The daemon joins its workers, ends, or is killed.
LEMMA DaemonEnds ==
  ASSUME SessionInv, join_workers \/ exit_main \/ Kill PROVE SessionInv'
<1>1. /\ server \in [Conns -> {"none", "queued", "open", "shut", "closed"}]
      /\ signal \in BOOLEAN /\ path \in BOOLEAN /\ slots \in [Slots -> SlotState]
  BY DEF SessionInv, TypeOK
<1>2. FreeSlot \in SlotState /\ FreeSlot.phase = "free"
  BY DEF FreeSlot, SlotState
<1>3. CASE join_workers
  <2>1. /\ daemon = "join" /\ \A s \in Slots : joined(s)
        /\ daemon' = "unlink" /\ slots' = [s \in Slots |-> FreeSlot]
        /\ UNCHANGED <<backlog, ends, server, peer, inbox, outbox, pvars,
                       performed>>
        /\ UNCHANGED <<signal, path>>
    BY <1>3, Zenon DEF join_workers, svars
  <2>2. \A s \in Slots : ~Active(s) /\ ~Active(s)'
    BY <1>2, <2>1, Zenon DEF Active, joined
  <2>3. \A c \in Conns : server[c] \notin {"open", "shut"}
    BY <2>2, Zenon DEF SessionInv, WorkersPaired
  <2>4. backlog = <<>>
    BY <2>1, Zenon DEF SessionInv, BacklogSound
  <2>5. slots' \in [Slots -> SlotState]
    BY <1>2, <2>1, Zenon
  <2> QED
    BY <1>1, <2>1, <2>2, <2>3, <2>4, <2>5, NobodyWorks, Zenon
<1>4. ASSUME server' = [c \in Conns |->
                IF server[c] = "none" THEN "none" ELSE "closed"]
      PROVE  /\ server' \in [Conns -> {"none", "queued", "open", "shut", "closed"}]
             /\ \A c \in Conns : server'[c] \notin {"open", "shut"}
  BY <1>1, <1>4, Zenon
<1>5. CASE exit_main
  <2>1. /\ daemon = "unlink" /\ daemon' = "down"
        /\ server' = [c \in Conns |->
             IF server[c] = "none" THEN "none" ELSE "closed"]
        /\ UNCHANGED <<backlog, slots, ends, peer, inbox, outbox, pvars,
                       performed>>
    BY <1>5, Zenon DEF exit_main
  <2>2. signal' \in BOOLEAN /\ path' \in BOOLEAN
    BY <1>5, Zenon DEF exit_main
  <2>3. \A s \in Slots : ~Active(s)'
    BY <2>1, Zenon DEF SessionInv, WorkersPaired, Active
  <2>4. backlog = <<>>
    BY <2>1, Zenon DEF SessionInv, BacklogSound
  <2> QED
    BY <1>1, <1>4, <2>1, <2>2, <2>3, <2>4, NobodyWorks, Zenon
<1>6. CASE Kill
  <2>1. /\ daemon' = "down" /\ backlog' = <<>>
        /\ slots' = [s \in Slots |-> FreeSlot]
        /\ server' = [c \in Conns |->
             IF server[c] = "none" THEN "none" ELSE "closed"]
        /\ UNCHANGED <<ends, peer, inbox, outbox, pvars, performed>>
    BY <1>6, Zenon DEF Kill
  <2>2. path' = path
    BY <1>6, Zenon DEF Kill
  <2>3. signal' \in BOOLEAN
    BY <1>6, Zenon DEF Kill
  <2>4. \A s \in Slots : ~Active(s)'
    BY <1>2, <2>1, Zenon DEF Active
  <2>5. slots' \in [Slots -> SlotState]
    BY <1>2, <2>1, Zenon
  <2> QED
    BY <1>1, <1>4, <2>1, <2>2, <2>3, <2>4, <2>5, NobodyWorks, Zenon
<1> QED
  BY <1>3, <1>5, <1>6, Zenon

-----------------------------------------------------------------------------
(* The theorems.                                                           *)

\* Every step of every process, worker and the daemon keeps the invariant.
LEMMA NextKeeps == ASSUME SessionInv, Next PROVE SessionInv'
<1>1. ASSUME NEW p \in Procs, Process(p) PROVE SessionInv'
  <2>1. ASSUME NEW k \in Kinds, ensure_connection(p, k) PROVE SessionInv'
    BY <2>1, EnsureConnection, Zenon
  <2>2. ASSUME NEW q \in Procs, Fork(p, q) PROVE SessionInv'
    BY <2>2, ForkKeeps, Zenon
  <2>3. CASE receive_eof(p) \/ receive_interrupted(p)
    BY <2>3, ReceiveFails, Zenon
  <2> QED
    BY <1>1, <2>1, <2>2, <2>3, SendRequest, ReceiveResponse, CloseThreadClient,
       ExitKeeps, Zenon DEF Process
<1>2. ASSUME NEW s \in Slots, Worker(s) PROVE SessionInv'
  <2>1. CASE serve_unblocks(s) \/ serve_abandons(s)
    BY <2>1, ServeBlocked, Zenon
  <2> QED
    BY <1>2, <2>1, ServeRequest, SendResponse, ServeEof, ServeDone, Zenon DEF Worker
<1>3. CASE Main \/ accept_fails
  <2>1. CASE poll \/ accept_fails
    BY <2>1, PollReturns, Zenon
  <2>2. CASE join_workers \/ exit_main
    BY <2>2, DaemonEnds, Zenon
  <2> QED
    BY <1>3, <2>1, <2>2, AcceptClient, StopWorkers, Zenon DEF Main
<1>4. CASE remove_stale_socket \/ start \/ Terminate
  BY <1>4, OutsideTheLoop, Zenon
<1>5. CASE Kill
  BY <1>5, DaemonEnds, Zenon
<1> QED
  BY <1>1, <1>2, <1>3, <1>4, <1>5, Zenon DEF Next

\* The invariant depends on the variables only.
LEMMA StutterKeeps == ASSUME SessionInv, UNCHANGED vars PROVE SessionInv'
<1>1. UNCHANGED <<ends, peer, inbox, outbox, pvars, performed, daemon, signal,
                  path, backlog, slots, server>>
  BY Zenon DEF vars, dvars, svars
<1>2. TypeOK'
  BY <1>1, ZenonT(40) DEF SessionInv, TypeOK, pvars
<1>3. BacklogSound' /\ WorkersPaired'
  BY <1>1 DEF SessionInv, BacklogSound, WorkersPaired, Active, Serving
<1> QED
  BY <1>1, <1>2, <1>3, Bystanders, Zenon

\* Connections, workers and calls fit together in every reachable state, for
\* any number of processes that fork, call, are interrupted and end, of worker
\* slots and of connections, and with request numbers that wrap around.
THEOREM SessionInvariant == Spec => []SessionInv
<1>1. SessionInv /\ [Next]_vars => SessionInv'
  BY NextKeeps, StutterKeeps
<1> QED
  BY InitHolds, <1>1, PTL DEF Spec

\* The variables keep their types, and only running processes hold connections.
THEOREM SessionTypes == Spec => []TypeOK
<1>1. SessionInv => TypeOK
  BY Zenon DEF SessionInv
<1> QED
  BY SessionInvariant, <1>1, PTL

\* A response answers the call that waits for it, and the number check of
\* exchange never fails.
THEOREM AnswersAreMine == Spec => []AnswerIsMine
<1>1. SessionInv => AnswerIsMine
  BY Zenon DEF SessionInv
<1> QED
  BY SessionInvariant, <1>1, PTL

\* The credentials of a connection are those of the process that calls.
THEOREM CallersAreServed == Spec => []ServedAsCaller
<1>1. SessionInv => ServedAsCaller
  BY DEF SessionInv
<1> QED
  BY SessionInvariant, <1>1, PTL

\* An accepted connection has exactly one worker.
THEOREM ConnectionsAreOwned == Spec => []WorkerOwnsConnection
<1>1. ASSUME SessionInv PROVE WorkerOwnsConnection
  <2> SUFFICES ASSUME NEW c \in Conns, server[c] \in {"open", "shut"}
      PROVE  \E s \in Slots :
               {t \in Slots :
                  /\ slots[t].conn = c
                  /\ slots[t].phase \in {"receive", "blocked", "send"}} = {s}
    BY Zenon DEF WorkerOwnsConnection
  <2>1. PICK s \in Slots : Active(s) /\ slots[s].conn = c
    BY <1>1, Zenon DEF SessionInv, WorkersPaired
  <2>2. \A t \in Slots : Active(t) /\ slots[t].conn = c => t = s
    BY <1>1, <2>1, Zenon DEF SessionInv, WorkersPaired
  <2> QED
    BY <2>1, <2>2, Zenon DEF Active
<1> QED
  BY SessionInvariant, <1>1, PTL

\* Only accept_client goes from accept4 back to poll.
LEMMA OnlyAcceptReturns ==
  ASSUME Next, daemon = "accept", daemon' = "poll" PROVE accept_client
<1>1. ASSUME NEW p \in Procs, Process(p) PROVE FALSE
  <2>1. daemon' = daemon
    BY <1>1, Zenon DEF Process, ensure_connection, send_request, receive_response,
                receive_eof, receive_interrupted, close_thread_client, Fork,
                Exit, dvars
  <2> QED
    BY <2>1, Zenon
<1>2. ASSUME NEW s \in Slots, Worker(s) PROVE FALSE
  <2>1. daemon' = daemon
    BY <1>2, Zenon DEF Worker, serve_request, serve_unblocks, serve_abandons,
                send_response, serve_eof, serve_done, dvars
  <2> QED
    BY <2>1, Zenon
<1>3. ~poll /\ ~accept_fails
  BY DEF poll, accept_fails, LeaveLoop
<1>4. ~stop_workers /\ ~join_workers /\ ~exit_main
  BY Zenon DEF stop_workers, join_workers, exit_main
<1>5. ~remove_stale_socket /\ ~start /\ ~Terminate /\ ~Kill
  BY DEF remove_stale_socket, start, Terminate, Kill
<1> QED
  BY <1>1, <1>2, <1>3, <1>4, <1>5, Zenon DEF Next, Main

\* As long as threads can be created, nobody is refused while a slot is free
\* or its worker is finished.
THEOREM SlotsDoNotLeak == ASSUME ~CanStop PROVE Spec => RefusedOnlyWhenFull
<1>1. ASSUME SessionInv, Next, daemon = "accept", daemon' = "poll",
             server'[Head(backlog)] = "closed", NEW s \in Slots
      PROVE  slots[s].phase \notin {"free", "done"}
  <2> DEFINE reaped == reap_finished_workers(slots)
             free == {t \in Slots : reaped[t].phase = "free"}
  <2>1. accept_client
    BY <1>1, OnlyAcceptReturns, Zenon
  <2>2. backlog # <<>> /\ backlog' = Tail(backlog)
    BY <1>1, <2>1, Zenon DEF SessionInv, BacklogSound, accept_client
  <2>3. ~(server' = [server EXCEPT ![Head(backlog)] = "open"])
    <3> SUFFICES ASSUME server' = [server EXCEPT ![Head(backlog)] = "open"]
        PROVE  FALSE
      BY Zenon
    <3>1. server'[Head(backlog)] = "open"
      BY <1>1, <2>2, OldestTaken, Zenon
    <3> QED
      BY <1>1, <3>1, Zenon
  <2>4. free = {}
    BY <2>1, <2>3, Zenon DEF accept_client
  <2>5. slots \in [Slots -> SlotState]
    BY <1>1, Zenon DEF SessionInv, TypeOK
  <2>6. IF slots[s].phase = "done" THEN reaped[s].phase = "free"
                                   ELSE reaped[s] = slots[s]
    BY <2>5, Reaped, Zenon
  <2> HIDE DEF reaped
  <2> QED
    BY <2>4, <2>6
<1>2. SessionInv /\ [Next]_vars =>
        [daemon = "accept" /\ daemon' = "poll"
           /\ server'[Head(backlog)] = "closed"
         => \A s \in Slots : slots[s].phase \notin {"free", "done"}]_vars
  BY <1>1
<1> QED
  BY SessionInvariant, <1>2, PTL DEF Spec, RefusedOnlyWhenFull
=============================================================================
