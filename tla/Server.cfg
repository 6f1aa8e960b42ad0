SPECIFICATION FairSpec
CONSTANTS
  other = other
  user = user
  stranger = stranger
  Codes = {code}
  Phones = {phone1, phone2, other}
  Users = {user, stranger}
  None = None
  MaxAttempts = 2
  MaxBroken = 1
  MaxEvents = 2
  MaxDeliveries = 2
  MaxCheckouts = 2
  PairingCodes = {c1, c2}
  Registrations = {r1, r2}
  Conversations = {v1, v2}
  FreeAgents = 1
  PaidAgents = 2
  MaxPlanWrites = 2
  LiveTurns = {l1}
  MaxHydrations = 2
  MaxTurns = 2
  Final = {"completed"}
  Calls = {pc1, pc2}
  Notices = {n1}
  MaxToken = 2
  MaxSignIns = 2
  MaxChanges = 1
  Items = {i1}
  Turn = Turn
  MaxLinks = 2
  MaxSelects = 1
INVARIANTS
  TypeOK
  KeyHolderSignsIn
  PeerHoldsKey
  PlanMatchesLimit
  SessionIsMapped
  AgentsWithinLimit
  OneActiveConversation
  ShownOnce
  StartedIsShown
  RegistrationFollowsSignIn
  EndIsShown
PROPERTY
  ApprovedIsRedeemed
CHECK_DEADLOCK FALSE
