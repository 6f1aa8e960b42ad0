SPECIFICATION FairSpec
CONSTANTS
  t1 = t1
  t2 = t2
  cA = cA
  cB = cB
  th1 = th1
  th2 = th2
  NoTurn = NoTurn
  NoThread = NoThread
  NoConversation = NoConversation
  Turn <- MCTurn
  Conversation <- MCConversation
  Thread <- MCThread
  InitialOwner <- MCInitialOwner
  ConversationOf <- MCApart
INVARIANTS
  Isolation
PROPERTY
  StartReports
