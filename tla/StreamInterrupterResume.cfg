\* The docstring of resume_stream against the code.
CONSTANTS
  Parts = {"interrupter"}
  p1 = p1
  c1 = c1
  Producers = {p1}
  Consumers = {c1}
  MaxSize = 1
  TokenBound = 1
  InterrupterStreams = {"s1", "s2"}
  MaxAge = 1
  InterrupterTokens = 2
  TimeBound = 3
  BusAgents = {"a1"}
  Monitor = "monitor"
  None = None
  MaxQueue = 1
  MaxMissed = 1
  MaxRequests = 1
  MaxSent = 1
  Keys = {"k1"}
  MaxWrites = 1
  MaxRemovals = 1
  Callers = {"c1"}
  Sizes = {1}
  MaxStmTokens = 1
  SafetyTurns = 1
  MaxStmMessages = 1
  MaxMessages = 1
  MaxClears = 1
  AgentCount = 1
  MaxTracked = 0
  Tags = {"t1"}
  MaxRecentTokens = 1
  RecentTurns = 1
  MaxEpisodes = 1
  MaxMemories = 1
  MaxCalls = 0
  ToolNames = {"t1", "t2", "t3"}
  Dependencies <- MCDependencies
  Conflicts <- MCConflicts
  Category <- MCCategory
  MaxRetries = 1
  MaxExecutions = 2
  Servers = {"s1", "s2"}
  Offered <- MCOffered
  Searchers = {"w1", "w2"}
  MaxSearches = 2
  MaxServed = 3
  Actions = {"fetch", "file", "other"}
  Limited <- MCLimited
  MaxOperations = 2
  HistoryKept = 4
  LoopThreshold = 2
  MaxHistory = 8
  BatchSize = 2
  MaxAudited = 6
SPECIFICATION PatientSpec
PROPERTY ResumeReturns
CHECK_DEADLOCK FALSE
