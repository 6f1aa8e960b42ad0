SPECIFICATION Spec
CONSTANTS
  r1 = r1
  r2 = r2
  A = A
  B = B
  cA = cA
  cB = cB
  NoRequest = NoRequest
  Request <- MCRequest
  Agent = {A}
  Conversation = {cA}
  AgentOf <- MCOne
  MaxId = 0
  MaxLives = 2
  MaxFaults = 1
SYMMETRY MCSymmetry
INVARIANTS
  WaitingIsFiled
  RouteIsLive
PROPERTY
  ClosedIsOver
CHECK_DEADLOCK FALSE
