CONSTANTS
  Paths = {p1, p2}
  NoPath = none
  MaxGamepads = 2
  BackoffMin = 1
  BackoffMax = 2
  MaxFactor = 2
  PollInterval = 1
  Configs <- MCConfigs
  MaxEvents = 2
  MaxFaults = 1
SPECIFICATION FairSpec
INVARIANT TypeOK
INVARIANT ReceiversKnow
INVARIANT OneIdPerNode
INVARIANT RetryIsArmed
INVARIANT KnowsWhatIsPlugged
PROPERTY KeepsPromise
PROPERTY EndsUpOpen
