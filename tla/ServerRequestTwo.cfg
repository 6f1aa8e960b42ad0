SPECIFICATION Spec
CONSTANTS
  r1 = r1
  r2 = r2
  A = A
  B = B
  cA = cA
  cB = cB
  NoRequest = NoRequest
  Request <- MCRequest
  Agent <- MCAgents
  Conversation <- MCConversations
  AgentOf <- MCTwo
  MaxId = 1
  MaxLives = 1
  MaxFaults = 0
SYMMETRY MCSymmetry
INVARIANT AnsweredOnOwnAgent
CHECK_DEADLOCK FALSE
