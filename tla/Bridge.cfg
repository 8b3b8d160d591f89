SPECIFICATION BridgeSpec
CONSTANTS
  Word = 536870912
  MaxTicket = 2048
  AppIdSize = 4
  SteamIdSize = 8
  Clients = {"proxy", "tool", "other"}
  Jobs <- MCJobs
  Backlog = 0
  Attempts = 2
  Callbacks <- MCCallbacks
  NativeTickets <- MCTickets
  NativeSizes <- MCSizes
INVARIANTS
  TicketsAreSafe
  ExchangeAgrees
  HtmlNeverDelivered
  HandlesReleased
PROPERTIES
  NothingLost
  ClientsReturn
CHECK_DEADLOCK FALSE
