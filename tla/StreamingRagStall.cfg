SPECIFICATION PatientSpec
PROPERTY StreamsFinish
CHECK_DEADLOCK FALSE
CONSTANTS
  Requests = {r1, r2}
  MaxSize = 3
  Sources = 2
  Answer = 2
  Window = 2
