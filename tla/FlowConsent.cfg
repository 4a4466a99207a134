\* Two clients that may share an address, and a menu and a chat page that decide.
SPECIFICATION Spec
CONSTANTS
  Clients = {c1, c2}
  Addresses = {a1, a2}
  Deciders = {"page"}
  Gated = TRUE
  OneTime = FALSE
  MaxRequests = 2
  MaxRooms = 1
  MaxRounds = 0
  MaxMoves = 1
  MaxFaults = 0
  MaxKicks = 1
INVARIANTS ServedByConsent PayloadsReadable
SYMMETRY Symmetry
CHECK_DEADLOCK FALSE
