SPECIFICATION Spec
CONSTANTS
  Turns = 2
  Misreported = {1, 2}
  ClaimLimit = 2
  MaxFaults = 1
  Retriable = {1}
INVARIANTS
  SingleExecution
  SentOnceUnlessRetried
  PendingHasOwner
  RunningWasExecuted
