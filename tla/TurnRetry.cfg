SPECIFICATION FairSpec
CONSTANTS
  Turns = 1
  Misreported = {}
  ClaimLimit = 1
  MaxFaults = 0
  Retriable = {1}
PROPERTY
  RetryIsSent
