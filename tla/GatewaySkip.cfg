CONSTANTS
  m1 = m1
  m2 = m2
  m3 = m3
  m4 = m4
  p1 = p1
  p2 = p2
  None = None
  Requests = {r1, r2}
  Models = {m1, m2, m3, m4}
  Providers = {p1, p2}
  ProviderOf <- MCProviderOf
  Chain <- UniversalChain
  MaxRetries = 1
  FailureThreshold = 2
  FailureWindow = 1
  Timeout = 1
  MaxTimeout = 1
  HalfOpenMax = 1
  SuccessThreshold = 1
  OpenCap = 2
SPECIFICATION Spec
PROPERTY FailedAreSkipped
CHECK_DEADLOCK FALSE
