---------------------------- MODULE MCSteamBridge ----------------------------
(***************************************************************************)
(* The bridge with three clients: the proxy, which also asks for tickets   *)
(* and takes callbacks, client.c, and one of another user or version; a    *)
(* job gives calls to some of them.  The sizes are the code's, but 2^29    *)
(* stands for 2^32, for TLC's integers.  The callbacks lie on both sides   *)
(* of the range HTML's have and of the largest size, one has no data; the  *)
(* native client reports sizes up to one more than a message holds.        *)
(***************************************************************************)
EXTENDS SteamBridge

MCCallback(id, size, data) == [id |-> id, size |-> size, data |-> data]

MCFirst == MCCallback(4502, 0, FALSE)
MCLast == MCCallback(4527, 0, FALSE)
MCLargest == MCCallback(4501, 8192, TRUE)
MCTooLarge == MCCallback(4528, 8193, TRUE)
MCNoData == MCCallback(4528, 4, FALSE)

MCCallbacks == {MCFirst, MCLast, MCLargest, MCTooLarge, MCNoData}

MCSizes == {0, 2048, 2049}

MCTicket(size, app, steam, signature, length, matches) ==
  [returned_size |-> size, app_id_offset |-> app, steam_id_offset |-> steam,
   signature_offset |-> signature, signature_size |-> length,
   app_id_matches |-> matches, steam_id_matches |-> TRUE]

\* A good one, one of the largest size, one too large, one whose signature
\* would end inside it only if the sum wrapped, and one of another application.
MCTickets == {MCTicket(64, 0, 4, 12, 52, TRUE),
              MCTicket(2048, 2044, 2036, 0, 2048, TRUE),
              MCTicket(2049, 0, 4, 12, 52, TRUE),
              MCTicket(64, 0, 4, 12, Word - 8, TRUE),
              MCTicket(64, 0, 4, 12, 52, FALSE)}

MCCall(program, opcode, one, two) ==
  [opcode |-> opcode, by |-> program, item |-> <<one, two>>]
MCTool(opcodes) == {MCCall("tool", o, 0, 0) : o \in opcodes}
MCProxy(opcodes) == {MCCall("proxy", o, 0, 0) : o \in opcodes}

MCJob(proxy, tool, other, foreign, mortal, queued, found) ==
  [calls |-> [proxy |-> proxy, tool |-> tool, other |-> other],
   foreign |-> foreign, outdated |-> {"other"} \ foreign, mortal |-> mortal,
   queued |-> queued, posts |-> 2, ifaces |-> found]

\* Callbacks of both pipes; all callbacks and a client that is killed; tickets
\* and blobs for callers with buffers of several sizes; the calls of an
\* interface; the handles of the game server and of HTML; a client of another
\* user, and one of another version.
MCJobs ==
  {MCJob(MCProxy({"GET_CALLBACK", "GAME_SERVER_CALL"}), MCTool({"FREE_CALLBACK"}),
         {}, {}, {}, {MCLargest}, {{"client"}}),
   MCJob(MCProxy({"GET_CALLBACK"}), MCTool({"FREE_CALLBACK"}), {}, {}, {"proxy"},
         MCCallbacks, {{}}),
   MCJob({MCCall("proxy", o, n, 0) :
            o \in {"GET_AUTH_TICKET", "INIT_GAME_CONNECTION"}, n \in {0, 64, 4096}}
         \cup {MCCall("proxy", "APP_TICKET_CALL", 1, n) : n \in {0, 64, 4096}}
         \cup {MCCall("proxy", "GET_API_CALL_RESULT", n, 0) : n \in {4, 8193}},
         MCTool({"GET_AUTH_TICKET", "GET_API_CALL_RESULT"}),
         {}, {}, {"proxy"}, {}, {{}, {"client", "user"}, {"client", "ticket"}}),
   MCJob(MCProxy({"VOICE_CALL", "NETWORK_SOCKETS_CALL"}),
         MCTool({"UGC_CALL", "MATCHMAKING_CALL"}), {}, {}, Clients, {},
         {{}, {"client"}}),
   MCJob(MCProxy({"GAME_SERVER_CALL"}),
         MCTool({"HTML_CALL", "GAME_SERVER_STATS_CALL"}), {}, {}, {"tool"}, {},
         {{}, {"client"}})} \cup
  {MCJob({}, MCTool({"STOP"}), MCTool({"STATUS"}), foreign, Clients, {}, {{}}) :
     foreign \in {{}, {"other"}}}
=============================================================================
