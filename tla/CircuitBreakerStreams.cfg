\* The docstring of route_stream against the code.
CONSTANTS
  Parts = {"breaker"}
  c1 = c1
  s1 = s1
  Calls = {c1, s1}
  Streams = {s1}
  FailureThreshold = 1
  FailureWindow = 1
  Timeout = 1
  MaxTimeout = 1
  HalfOpenMax = 1
  SuccessThreshold = 2
  OpenCap = 2
  Servers = {"s1"}
  Callers = {"c1"}
  Cleaners = {"c1"}
  MaxConnections = 1
  MaxRetries = 1
  MaxRegistrations = 1
  MaxOpened = 1
  Clients = {"c1"}
  MaxLines = 3
  Names = {"p1"}
  Weightings = {}
  DefaultWeight = 1
  WindowSize = 1
  MinSamples = 1
  Latencies = {1}
  MaxSelections = 1
  Ids = {"a"}
  Models = {"m1"}
  MaxObjects = 1
  CallIds = {}
  MaxFragments = 1
  MaxStreams = 1
  MaxChats = 1
SPECIFICATION PartsSpec
PROPERTIES StreamsAreChecked
