\* Two producers and two consumers around a queue of two places; two streams that are
\* interrupted for every reason; two agents and the monitor on the bus, and at a blackboard
\* of one key; three agents that ask each other; two callers of one conversation; the
\* memory of an agent with two tags and one episode; three tools, two callers and two
\* searchers of them.
CONSTANTS
  Parts = {"queue", "interrupter", "bus", "blackboard", "detector", "conversation", "memory", "tools"}
  p1 = p1
  p2 = p2
  c1 = c1
  c2 = c2
  Producers = {p1, p2}
  Consumers = {c1, c2}
  MaxSize = 2
  TokenBound = 4
  InterrupterStreams = {"s1", "s2"}
  MaxAge = 1
  InterrupterTokens = 2
  TimeBound = 3
  BusAgents = {"a1", "a2"}
  Monitor = "monitor"
  None = None
  MaxQueue = 2
  MaxMissed = 2
  MaxRequests = 2
  MaxSent = 2
  Keys = {"k1"}
  MaxWrites = 3
  MaxRemovals = 1
  Callers = {"c1", "c2"}
  Sizes = {1, 6}
  MaxStmTokens = 8
  SafetyTurns = 3
  MaxStmMessages = 4
  MaxMessages = 5
  MaxClears = 1
  AgentCount = 3
  MaxTracked = 4
  Tags = {"t1", "t2"}
  MaxRecentTokens = 3
  RecentTurns = 2
  MaxEpisodes = 1
  MaxMemories = 2
  MaxCalls = 4
  ToolNames = {"t1", "t2", "t3"}
  Dependencies <- MCDependencies
  Conflicts <- MCConflicts
  Category <- MCCategory
  MaxRetries = 1
  MaxExecutions = 2
  Servers = {"s1", "s2"}
  Offered <- MCOffered
  Searchers = {"w1", "w2"}
  MaxSearches = 2
  MaxServed = 3
  Actions = {"fetch", "file", "other"}
  Limited <- MCLimited
  MaxOperations = 2
  HistoryKept = 4
  LoopThreshold = 2
  MaxHistory = 8
  BatchSize = 2
  MaxAudited = 6
SPECIFICATION PartsFairSpec
INVARIANTS QueueInv InterrupterInv BusInv BlackboardInv DetectorInv SearchIsExact MemoriesInv ToolsInv
PROPERTIES IsBoundedFifo CloseReleases NonResumableStays
CHECK_DEADLOCK FALSE
