SPECIFICATION FairSpec
CONSTANTS
  MaxRequests = 2
  MaxStray = 1
  Timeout = {0, 1, None}
  Buffer = 1
  Unit = 2
  Stall = 2
  MaxAnswers <- FirstTwice
  MaxParts = 1
  None = None
INVARIANTS TypeOK WaitsForMissing DeadlineKept
PROPERTIES ReceivedKept ReturnsAsked PatientUntilDeadline ElapsedWhenOver PatientGets TimedMethodsEnd
CHECK_DEADLOCK FALSE
