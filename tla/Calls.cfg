\* Each component that calls out, one after the other: three routed calls and a
\* streaming one at a breaker that three failures in the window open, two callers of the
\* sessions and of the pipe, two servers in the registry,
\* three providers, two ids of providers, streams and a chat of two calls.
CONSTANTS
  Parts = {"breaker", "sessions", "pipe", "registry", "providers"}
  c1 = c1
  c2 = c2
  c3 = c3
  s1 = s1
  Calls = {c1, c2, c3, s1}
  Streams = {s1}
  FailureThreshold = 3
  FailureWindow = 2
  Timeout = 1
  MaxTimeout = 4
  HalfOpenMax = 2
  SuccessThreshold = 2
  OpenCap = 3
  Servers = {"s1", "s2"}
  Callers = {"c1", "c2"}
  Cleaners = {"c1"}
  MaxConnections = 1
  MaxRetries = 1
  MaxRegistrations = 1
  MaxOpened = 1
  Clients = {"c1", "c2"}
  MaxLines = 5
  Names = {"p1", "p2", "p3"}
  Weightings <- MCWeightings
  DefaultWeight = 1
  WindowSize = 2
  MinSamples = 1
  Latencies = {1, 4}
  MaxSelections = 5
  Ids = {"a", "b"}
  Models = {"m1"}
  MaxObjects = 3
  CallIds <- MCCallIds
  MaxFragments = 2
  MaxStreams = 2
  MaxChats = 1
SPECIFICATION PartsFairSpec
INVARIANTS BreakerInv ProvidersInv PipeInv
PROPERTIES BackoffGrows KeepsProtocol StatesAreLeft CallsReturn Recovers
CHECK_DEADLOCK FALSE
