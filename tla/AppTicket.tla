------------------------------ MODULE AppTicket ------------------------------
(***************************************************************************)
(* The ownership ticket the bridge server asks the native Steam client     *)
(* for (steam-bridge/server.cpp, APP_TICKET_CALL), as operators: what the  *)
(* server makes of the sizes and offsets the native call reports.  All of  *)
(* them are uint32_t, so a subtraction wraps at Word.                      *)
(***************************************************************************)
EXTENDS Integers

CONSTANTS Word,         \* 2^32
          MaxTicket,    \* LSTEAM_BRIDGE_MAX_TICKET
          AppIdSize,    \* sizeof(uint32_t)
          SteamIdSize   \* sizeof(uint64_t)

ASSUME TicketAssumptions ==
  /\ Word \in Nat /\ MaxTicket \in Nat /\ MaxTicket < Word
  /\ AppIdSize \in Nat \ {0} /\ SteamIdSize \in Nat \ {0}

EIO == 5
ENODEV == 19
EINVAL == 22
EPROTO == 71
EOVERFLOW == 75

UInt == 0 .. Word - 1

\* What GetAppOwnershipTicketData reports, and whether the bytes at the two
\* offsets are the ids that were asked for.
NativeTicket == [returned_size : UInt, app_id_offset : UInt,
                 steam_id_offset : UInt, signature_offset : UInt,
                 signature_size : UInt, app_id_matches : BOOLEAN,
                 steam_id_matches : BOOLEAN]

\* Unsigned subtraction.
minus(a, b) == IF a >= b THEN a - b ELSE a - b + Word

\* Mutant of app_ticket_range_valid: the sum is compared, and it wraps.
app_ticket_sum_valid(offset, size, total) ==
  (IF offset + size >= Word THEN offset + size - Word ELSE offset + size)
    <= total

app_ticket_range_valid(offset, size, total) ==
  offset <= total /\ size <= minus(total, offset)

native_capacity(capacity) ==
  IF capacity > MaxTicket THEN MaxTicket ELSE capacity

ticket_ranges_valid(t) ==
  /\ app_ticket_range_valid(t.app_id_offset, AppIdSize, t.returned_size)
  /\ app_ticket_range_valid(t.steam_id_offset, SteamIdSize, t.returned_size)
  /\ t.signature_size # 0
  /\ app_ticket_range_valid(t.signature_offset, t.signature_size,
                            t.returned_size)

\* knows_id: the server learnt its own Steam id at start.
ticket_status(t, capacity, knows_id) ==
  IF t.returned_size = 0 THEN -EIO
  ELSE IF \/ t.returned_size > native_capacity(capacity)
          \/ t.returned_size > MaxTicket THEN -EOVERFLOW
  ELSE IF ~ticket_ranges_valid(t) THEN -EPROTO
  ELSE IF t.app_id_matches /\ (knows_id => t.steam_id_matches) THEN 0
  ELSE -EPROTO

TicketFields(size, app, steam, signature, length) ==
  [returned_size |-> size, app_id_offset |-> app, steam_id_offset |-> steam,
   signature_offset |-> signature, signature_size |-> length]

NoTicket == TicketFields(0, 0, 0, 0, 0)

\* The answer: a ticket that failed a check leaves no field and no byte of it.
app_ticket(app_id, capacity, has_iface, t, knows_id) ==
  LET status == IF app_id = 0 \/ capacity = 0 THEN -EINVAL
                ELSE IF ~has_iface THEN -ENODEV
                ELSE ticket_status(t, capacity, knows_id)
  IN  [status |-> status,
       ticket |-> IF status # 0 THEN NoTicket
                  ELSE TicketFields(t.returned_size, t.app_id_offset,
                                    t.steam_id_offset, t.signature_offset,
                                    t.signature_size)]

-----------------------------------------------------------------------------
\* In true arithmetic: a part of a ticket lies inside the bytes returned.
Inside(offset, size, total) == offset + size <= total

\* What the receiver may rely on: a ticket it is given fits the buffer it
\* offered and the message, and its ids and its signature lie inside it.
TicketSafe(a, capacity) ==
  IF a.status # 0 THEN a.ticket = NoTicket
  ELSE /\ a.ticket.returned_size \in 1 .. MaxTicket
       /\ a.ticket.returned_size <= capacity
       /\ Inside(a.ticket.app_id_offset, AppIdSize, a.ticket.returned_size)
       /\ Inside(a.ticket.steam_id_offset, SteamIdSize, a.ticket.returned_size)
       /\ a.ticket.signature_size > 0
       /\ Inside(a.ticket.signature_offset, a.ticket.signature_size,
                 a.ticket.returned_size)
=============================================================================
