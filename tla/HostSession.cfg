\* Every way a session ends; overlapping and single registrations; a network that
\* loses calls and a broker that forgets.
SPECIFICATION FairSpec
CONSTANTS
  Chats = {c1}
  MaxSpawns = 2
  MaxMenu = 1
  MaxLosses = 1
  Faulty = TRUE
INVARIANTS SerialUrlCurrent SerialTokenKept SerialEndRevoked
PROPERTIES SignalEnds WaitsEnd
CHECK_DEADLOCK FALSE
