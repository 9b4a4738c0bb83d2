CONSTANTS
  Parts = {"limiter", "reclaimer", "runs", "sessions", "access", "records", "orchestration"}
  free = free
  pro = pro
  Instances = {i1}
  Endpoints = {chat}
  Tiers = {free, pro}
  DefaultTier = free
  Waiters = {w1}
  RpsRate <- MCRpsRate
  RpsCap <- MCRpsCap
  DayRate <- MCDayRate
  DayCap <- MCDayCap
  Cost = 2
  Second = 2
  WaitTimeout = 3
  TokenBound = 2
  TimeBound = 5
  Ids = {"i1", "i2"}
  Rounds = {"r1", "r2"}
  MaxRegistered = 4
  Tools = {"t1", "t2"}
  MaxSteps = 4
  LoopThreshold = 2
  MaxPlan = 3
  MaxReplans = 2
  MaxReflections = 3
  MaxCalls = 2
  Servers = {"s1", "s2"}
  Callers = {"c1", "c2"}
  Cleaners = {"c1"}
  MaxConnections = 1
  MaxRetries = 1
  MaxRegistrations = 1
  MaxOpened = 2
  Roles = {"viewer", "own"}
  Permissions <- MCPermissions
  BuiltIn <- MCBuiltIn
  Policies <- MCPolicies
  Attributes = {"role", "time"}
  MaxPolicies = 3
  Ttl = 2
  Approvals = {"a1", "a2", "a3"}
  Timeout = 1
  MaxTime = 3
  Loggers = {"l1"}
  MaxDay = 2
  MaxEntries = 5
  MaxRestarts = 1
  MaxTampering = 1
  Aborts = {"b1", "b2"}
  MaxOperations = 2
  MaxSnapshots = 2
  MaxSaves = 4
  AgentCount = 2
  MaxDelegations = 2
  MaxBidRounds = 2
  MaxRounds = 2
  MaxHandoffs = 3
  MaxCycles = 2
  MaxWorkerCalls = 2
SPECIFICATION PartsFairSpec
INVARIANTS BucketInv ReclaimerInv RunsInv SessionsInv AccessInv RecordsInv
PROPERTIES WaitersReturn ExpiredGo
CHECK_DEADLOCK FALSE
