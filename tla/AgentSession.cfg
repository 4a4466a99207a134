SPECIFICATION FairSpec
CONSTANTS
  MaxDepth = 2
  HomeDepth = 1
  DropDepth = 2
  CwdDepth = 1
  Offers <- MCOffers
  AgentOffers <- MCAgentOffers
  MaxSessions = 2
  MaxLog = 2
  MaxFaults = 1
  MaxSteps = 2
  MaxSize = 2
  MaxCalls = 2
  MaxKept = 0
  MaxBefore = 0
  Transfer = 9
INVARIANTS KeysRemoved ConversationSound
PROPERTIES LogCaughtUp ComesBack
CHECK_DEADLOCK FALSE
