\* A client approved in the dashboard.
SPECIFICATION Spec
CONSTANTS
  Clients = {c1}
  Addresses = {a1}
  Deciders = {"dashboard"}
  Gated = TRUE
  OneTime = FALSE
  MaxRequests = 1
  MaxRooms = 0
  MaxRounds = 0
  MaxMoves = 0
  MaxFaults = 0
  MaxKicks = 0
INVARIANT PayloadsReadable
CHECK_DEADLOCK FALSE
