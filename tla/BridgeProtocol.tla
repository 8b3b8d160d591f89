--------------------------- MODULE BridgeProtocol ---------------------------
(***************************************************************************)
(* The messages of the Steam bridge (steam-bridge/protocol.h), and what    *)
(* the two programs that use it ask for and make of an answer: the command *)
(* line tool (steam-bridge/client.c) and the proxy inside Wine (the patch  *)
(* to lsteamclient).  The bytes of a payload are left out; a message is    *)
(* its structure, its header, its status and the size it gives for the     *)
(* payload.  The socket is SOCK_SEQPACKET: a receive takes one message and *)
(* cuts it to the size of the buffer.                                      *)
(***************************************************************************)
EXTENDS AppTicket

EAGAIN == 11
ENOENT == 2

MAGIC == "LSPB"
VERSION == 5
MaxCallback == 8192     \* LSTEAM_BRIDGE_MAX_CALLBACK
MaxVoice == 65536       \* LSTEAM_BRIDGE_MAX_VOICE
MMDataSize == 1024      \* LSTEAM_BRIDGE_MM_DATA_SIZE

\* The structures of protocol.h, with the sizes its assertions fix; the four
\* it fixes none for have the size of the common ABI of both sides.
sizeof ==
  [request |-> 12, response |-> 48, ticket_response |-> 2072,
   game_connection_request |-> 24, blob_response |-> 2068,
   app_ticket_request |-> 8, app_ticket_response |-> 2084,
   callback_response |-> 8224,
   api_call_request |-> 16, api_call_response |-> 8216,
   mm_request |-> 8212, mm_response |-> 1068,
   game_server_request |-> 3112, game_server_response |-> 2096,
   voice_request |-> 65560, voice_response |-> 65568]

InterfaceCalls ==
  {"CLIENT_CALL", "USER_CALL", "FRIENDS_CALL", "UTILS_CALL",
   "REMOTE_STORAGE_CALL", "NETWORKING_CALL", "GAME_SERVER_STATS_CALL",
   "USER_STATS_CALL", "UGC_CALL", "APPS_CALL", "HTTP_CALL", "INVENTORY_CALL",
   "GAME_SEARCH_CALL", "APP_LIST_CALL", "VIDEO_CALL", "PARENTAL_CALL",
   "NETWORK_MESSAGES_CALL", "NETWORK_SOCKETS_CALL", "NETWORK_UTILS_CALL",
   "HTML_CALL", "LOBBY_CALL"}

MatchmakingCalls == {"MATCHMAKING_REQUEST", "MATCHMAKING_CALL"}

Opcodes ==
  {"PING", "STATUS", "STOP", "GET_AUTH_TICKET", "INIT_GAME_CONNECTION",
   "GAME_SERVER_CALL", "GET_CALLBACK", "FREE_CALLBACK", "GET_API_CALL_RESULT",
   "VOICE_CALL", "APP_TICKET_CALL"} \cup InterfaceCalls \cup MatchmakingCalls

-----------------------------------------------------------------------------
(* Who sends and expects what.                                             *)

NoBody == "none"

\* The second message of a request, for the opcodes that have one.
body_struct(opcode) ==
  CASE opcode \in MatchmakingCalls -> "mm_request"
    [] opcode \in InterfaceCalls \cup {"GAME_SERVER_CALL"} ->
         "game_server_request"
    [] opcode = "GET_API_CALL_RESULT" -> "api_call_request"
    [] opcode = "APP_TICKET_CALL" -> "app_ticket_request"
    [] opcode = "INIT_GAME_CONNECTION" -> "game_connection_request"
    [] opcode = "VOICE_CALL" -> "voice_request"
    [] OTHER -> NoBody

\* Mutant of answer_struct: the callback is answered by the short structure.
answer_short(opcode) ==
  CASE opcode \in MatchmakingCalls -> "mm_response"
    [] opcode \in InterfaceCalls \cup {"GAME_SERVER_CALL"} ->
         "game_server_response"
    [] OTHER -> "response"

\* The structure the server answers with.
answer_struct(opcode) ==
  CASE opcode = "GET_AUTH_TICKET" -> "ticket_response"
    [] opcode \in MatchmakingCalls -> "mm_response"
    [] opcode \in InterfaceCalls \cup {"GAME_SERVER_CALL"} ->
         "game_server_response"
    [] opcode = "GET_CALLBACK" -> "callback_response"
    [] opcode = "GET_API_CALL_RESULT" -> "api_call_response"
    [] opcode = "APP_TICKET_CALL" -> "app_ticket_response"
    [] opcode = "INIT_GAME_CONNECTION" -> "blob_response"
    [] opcode = "VOICE_CALL" -> "voice_response"
    [] OTHER -> "response"

\* The length of the array a structure carries its payload in.
payload ==
  [response |-> 0, ticket_response |-> MaxTicket, blob_response |-> MaxTicket,
   app_ticket_response |-> MaxTicket, game_server_response |-> MaxTicket,
   mm_response |-> MMDataSize, callback_response |-> MaxCallback,
   api_call_response |-> MaxCallback, voice_response |-> MaxVoice]

header(opcode, sequence) ==
  [magic |-> MAGIC, version |-> VERSION, opcode |-> opcode,
   sequence |-> sequence]

\* recv into a buffer of structure s fills all of it.
fills(message, s) == sizeof[message.struct] >= sizeof[s]

-----------------------------------------------------------------------------
(* A call: the program that makes it, its opcode and the numbers of its    *)
(* caller (for a ticket or a blob the size of the caller's buffer, for an  *)
(* ownership ticket the application and that size, for the result of a     *)
(* call its size).                                                         *)

Programs == {"tool", "proxy"}

ToolOpcodes == Opcodes \ {"APP_TICKET_CALL", "INIT_GAME_CONNECTION",
                          "VOICE_CALL", "NETWORK_SOCKETS_CALL",
                          "NETWORK_UTILS_CALL"}
ProxyOpcodes == Opcodes \ {"PING", "STOP", "HTML_CALL"}

sends(program) == IF program = "tool" THEN ToolOpcodes ELSE ProxyOpcodes

\* The proxy sends nothing for a call without a buffer, or for a result larger
\* than any.
proxy_asks(call) ==
  CASE call.opcode = "APP_TICKET_CALL" -> call.item[1] # 0 /\ call.item[2] # 0
    [] call.opcode \in {"GET_AUTH_TICKET", "INIT_GAME_CONNECTION"} ->
         call.item[1] # 0
    [] call.opcode = "GET_API_CALL_RESULT" -> call.item[1] <= MaxCallback
    [] OTHER -> TRUE

\* The numbers sent: the proxy offers no more than a message holds for an
\* ownership ticket, and the tool asks for the result of call 1, 16 bytes.
sent_item(call) ==
  CASE call.opcode = "APP_TICKET_CALL" ->
         <<call.item[1], native_capacity(call.item[2])>>
    [] call.opcode = "GET_API_CALL_RESULT" /\ call.by = "tool" -> <<16, 703>>
    [] OTHER -> call.item

-----------------------------------------------------------------------------
(* What client.c makes of an answer.                                       *)

tool_struct(opcode) ==
  CASE opcode = "GET_AUTH_TICKET" -> "ticket_response"
    [] opcode \in MatchmakingCalls -> "mm_response"
    [] opcode \in (InterfaceCalls \ {"NETWORK_SOCKETS_CALL"})
                    \cup {"GAME_SERVER_CALL"} -> "game_server_response"
    [] opcode = "GET_CALLBACK" -> "callback_response"
    [] opcode = "GET_API_CALL_RESULT" -> "api_call_response"
    [] OTHER -> "response"

\* The payload is said to be larger than the message is.
tool_oversized(opcode, size) ==
  \/ opcode \in InterfaceCalls \cup {"GET_AUTH_TICKET"} /\ size > MaxTicket
  \/ opcode = "GET_API_CALL_RESULT" /\ size > MaxCallback

\* Too short, not an answer to the request, or the status.  Only the calls of
\* an interface check the opcode; no callback is no error.
tool_report(call, answer) ==
  IF ~fills(answer, tool_struct(call.opcode)) THEN "short"
  ELSE IF \/ answer.magic # MAGIC \/ answer.version # VERSION
          \/ answer.sequence # 1
          \/ call.opcode \in InterfaceCalls /\ answer.opcode # call.opcode
          \/ tool_oversized(call.opcode, answer.size) THEN "invalid"
  ELSE IF \/ answer.status = 0
          \/ call.opcode = "GET_CALLBACK" /\ answer.status = -EAGAIN
  THEN "ok" ELSE "error"

-----------------------------------------------------------------------------
(* What the proxy makes of an answer.                                      *)

proxy_struct(opcode) ==
  CASE opcode = "GET_AUTH_TICKET" -> "ticket_response"
    [] opcode = "INIT_GAME_CONNECTION" -> "blob_response"
    [] opcode = "APP_TICKET_CALL" -> "app_ticket_response"
    [] opcode = "VOICE_CALL" -> "voice_response"
    [] opcode = "GET_CALLBACK" -> "callback_response"
    [] opcode = "GET_API_CALL_RESULT" -> "api_call_response"
    [] opcode \in MatchmakingCalls -> "mm_response"
    [] opcode \in InterfaceCalls \cup {"GAME_SERVER_CALL"} ->
         "game_server_response"
    [] OTHER -> "response"

proxy_range_valid(offset, size, total) ==
  offset <= total /\ size <= minus(total, offset)

\* An ownership ticket: it fits the buffer and holds its parts.
proxy_takes_ticket(t, capacity) ==
  /\ t.returned_size # 0
  /\ t.returned_size <= native_capacity(capacity)
  /\ t.returned_size <= capacity
  /\ t.returned_size <= MaxTicket
  /\ proxy_range_valid(t.app_id_offset, AppIdSize, t.returned_size)
  /\ proxy_range_valid(t.steam_id_offset, SteamIdSize, t.returned_size)
  /\ t.signature_size # 0
  /\ proxy_range_valid(t.signature_offset, t.signature_size, t.returned_size)

proxy_takes_size(call, answer) ==
  CASE call.opcode \in {"GET_AUTH_TICKET", "INIT_GAME_CONNECTION"} ->
         answer.size <= MaxTicket /\ answer.size <= call.item[1]
    [] call.opcode = "APP_TICKET_CALL" ->
         proxy_takes_ticket(answer.item, call.item[2])
    [] call.opcode \in InterfaceCalls -> answer.size <= MaxTicket
    [] call.opcode \in MatchmakingCalls -> answer.size <= MMDataSize
    [] call.opcode = "VOICE_CALL" -> answer.size <= MaxVoice
    [] call.opcode = "GET_CALLBACK" -> answer.size <= MaxCallback
    [] call.opcode = "GET_API_CALL_RESULT" -> answer.size = call.item[1]
    [] OTHER -> TRUE

\* Four of its calls do not look at the opcode and the sequence.
Unnumbered == {"STATUS", "GET_AUTH_TICKET", "INIT_GAME_CONNECTION",
               "FREE_CALLBACK"}

proxy_report(call, answer) ==
  IF /\ fills(answer, proxy_struct(call.opcode))
     /\ answer.magic = MAGIC /\ answer.version = VERSION
     /\ \/ call.opcode \in Unnumbered
        \/ answer.opcode = call.opcode /\ answer.sequence = 1
     /\ answer.status = 0
     /\ proxy_takes_size(call, answer)
  THEN "ok" ELSE "refused"
=============================================================================
