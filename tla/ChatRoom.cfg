\* Two pages that come, talk, leave and ask to close the room.
SPECIFICATION FairSpec
CONSTANTS
  host = host
  guest = guest
  Pages <- TwoPages
  TokenPages <- TwoPages
  HostPages <- HostOnly
  LocalPages <- TwoPages
  Oversized <- LongMessages
  MaxSent = 1
INVARIANTS SidebarsAgree EverythingShown ClosedByHost
PROPERTY ClosedRoomEmpties
CHECK_DEADLOCK FALSE
