\* Two processes, each logging and cleaning up, and disks that fail.
SPECIFICATION FairLogSpec
CONSTANTS
  Processes = {p1, p2}
  Sizes = {1, 2}
  MaxSession = 3
  MaxHistory = 3
  FlushBytes = 2
  MaxLines = 2
  MaxCleanups = 1
INVARIANTS SessionCapped ClosedLogIsGone
PROPERTY Flushed
CHECK_DEADLOCK FALSE
