\* One client that looks for the chat room twice, and is kicked.
SPECIFICATION FairSpec
CONSTANTS
  Clients = {c1}
  Addresses = {a1, a2}
  Deciders = {"page"}
  Gated = TRUE
  OneTime = FALSE
  MaxRequests = 2
  MaxRooms = 1
  MaxRounds = 2
  MaxMoves = 0
  MaxFaults = 1
  MaxKicks = 1
PROPERTIES HonestDisconnect KickedLeaves
CHECK_DEADLOCK FALSE
