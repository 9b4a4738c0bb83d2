SPECIFICATION FairSpec
INVARIANT StreamingInv
PROPERTIES BlockedIsFinal CloseFrees
CHECK_DEADLOCK FALSE
CONSTANTS
  Requests = {r1, r2}
  MaxSize = 2
  Sources = 2
  Answer = 2
  Window = 2
