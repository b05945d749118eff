SPECIFICATION Spec
CONSTANTS
  MaxRequests = 2
  MaxStray = 1
  Timeout = {0, 1, None}
  Buffer = 1
  Unit = 2
  Stall = 2
  MaxAnswers <- FirstTwice
  MaxParts = 1
  None = None
INVARIANTS QuorumReturns
CHECK_DEADLOCK FALSE
