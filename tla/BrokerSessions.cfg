\* Memory, consent, one-time records and limits of two sessions; time stands still.
SPECIFICATION Spec
CONSTANTS
  Ips = {i1}
  ViolationThreshold = 1
  MaxViolations = 2
  ViolationTTL = 0
  StartTime = 1
  MaxClock = 1
  MaxCount = 2
  Uids = {u1,u2}
  Tokens = {t1,t2}
  NoToken = NoToken
  Sizes = {1,2}
  Minutes = {}
  NaN = NaN
  Unparsable = FALSE
  Everyone = Everyone
  TTL = 1
  MinRemaining = 1
  MaxAdjust = 0
  ApprovalTTL = 0
  TelemetryTTL = 0
  MaxUids = 2
  MaxResolves = 2
  MaxApprovals = 1
  MaxClients = 1
  MaxBytes = 3
  MaxSerial = 2
INVARIANTS BytesCovered CheckedBytesBounded OneTimeDeliveredOnce
PROPERTIES SlackOnlyFromKick ImplementsGate
SYMMETRY Symmetry
CHECK_DEADLOCK FALSE
