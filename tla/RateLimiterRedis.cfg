CONSTANTS
  Parts = {"limiter"}
  free = free
  pro = pro
  Instances = {i1, i2}
  Endpoints = {chat}
  Tiers = {free}
  DefaultTier = free
  Waiters = {}
  RpsRate <- MCRpsRate
  RpsCap <- MCRpsCap
  DayRate <- MCDayRate
  DayCap <- MCDayCap
  Cost = 2
  Second = 2
  WaitTimeout = 3
  TokenBound = 1
  TimeBound = 8
  Ids = {"i1"}
  Rounds = {"r1"}
  MaxRegistered = 1
  Tools = {"t1"}
  MaxSteps = 1
  LoopThreshold = 1
  MaxPlan = 1
  MaxReplans = 1
  MaxReflections = 1
  MaxCalls = 1
  Servers = {"s1"}
  Callers = {"c1"}
  Cleaners = {"c1"}
  MaxConnections = 1
  MaxRetries = 1
  MaxRegistrations = 1
  MaxOpened = 1
  Roles = {}
  Permissions = {}
  BuiltIn <- MCBuiltIn
  Policies = {}
  Attributes = {}
  MaxPolicies = 0
  Ttl = 1
  Approvals = {}
  Timeout = 1
  MaxTime = 1
  Loggers = {}
  MaxDay = 1
  MaxEntries = 0
  MaxRestarts = 0
  MaxTampering = 0
  Aborts = {}
  MaxOperations = 0
  MaxSnapshots = 0
  MaxSaves = 0
  AgentCount = 1
  MaxDelegations = 1
  MaxBidRounds = 1
  MaxRounds = 1
  MaxHandoffs = 1
  MaxCycles = 1
  MaxWorkerCalls = 1
SPECIFICATION PartsSpec
INVARIANT SharedBudget
CHECK_DEADLOCK FALSE
