\* Ages: expiry, adjustment, pruning, bans.
SPECIFICATION Spec
CONSTANTS
  Ips = {i1}
  ViolationThreshold = 2
  MaxViolations = 2
  ViolationTTL = 2
  StartTime = 3
  MaxClock = 8
  MaxCount = 2
  Uids = {u1}
  Tokens = {t1}
  NoToken = NoToken
  Sizes = {1}
  Minutes <- MCMinutes
  NaN = NaN
  Unparsable = TRUE
  Everyone = Everyone
  TTL = 3
  MinRemaining = 1
  MaxAdjust = 5
  ApprovalTTL = 3
  TelemetryTTL = 1
  MaxUids = 1
  MaxResolves = 2
  MaxApprovals = 1
  MaxClients = 1
  MaxBytes = 9
  MaxSerial = 1
INVARIANTS TypeOK RemainingWithinTTL BansMatchViolations
CHECK_DEADLOCK FALSE
