\* Two tabs of which one gets the only stream; one change, one failure, one broken connection.
SPECIFICATION FairSpec
CONSTANTS
  Pages = {p1, p2}
  Streams = {c1, c2}
  MaxStreams = 1
  Polls = {k1}
  MaxChanges = 1
  MaxFailures = 1
  MaxDrops = 1
  MaxOpens = 2
INVARIANT StreamAgrees
PROPERTIES CatchesUp EndsWithPages
CHECK_DEADLOCK FALSE
