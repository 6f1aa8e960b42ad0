SPECIFICATION Spec
CONSTANTS
  MaxToken = 3
  MaxAged = 1
  MaxSeq = 2
  MaxCrashes = 1
  Commands = {c1, c2}
  Pids = {p1, p2}
  NoPid = NoPid
  MaxCommands = 3
  MaxExits = 1
  MaxBreaks = 1
  Sessions = {s1}
  Turns = {t1, t2}
  MaxSpawns = 2
  MaxLosses = 2
  Agents = {a1, a2}
  Owner = a1
  Unsteady = {a1}
  Https = {h1}
  Sockets = {w1}
  LastHost = 3
  None = None
  MaxConns = 3
  MaxRequests = 1
  TokenRequests = {q1, q2, q3}
  MaxTokens = 4
  MaxEnvelopes = 3
  MaxScans = 1
  MaxFaults = 1
  Callers = {f1, f2}
  MaxCodexes = 2
  MaxId = 4
  Threads = {th1, th2}
  Syncs = {y1, y2}
  MaxConversations = 2
INVARIANTS
  TypeOK
  TokensInStep
  UsedSeqIsOnFile
  DaemonIsOnFile
  AwakeOnlyForWork
  RowFollowsSession
  ServedByOneAgent
  LocalIsRouted
  CachedTokenWorks
  PromptNumbersGrow
  RefusedWasOvertaken
  CallsGetTheirAnswers
  RunningIsChild
  BoundOnce
CHECK_DEADLOCK FALSE
