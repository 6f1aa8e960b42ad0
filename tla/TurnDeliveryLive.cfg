SPECIFICATION FairSpec
CONSTANTS
  Turns = 2
  Misreported = {}
  ClaimLimit = 1
  MaxFaults = 1
  Retriable = {}
PROPERTY
  DeferredIsSent
