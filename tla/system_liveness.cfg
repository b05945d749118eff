SPECIFICATION FairSpec
CONSTANTS
  i1 = i1
  i2 = i2
  s1 = s1
  s2 = s2
  w1 = w1
  private1 = private1
  private2 = private2
  Loopback = loopback
  None = None
  Client = {c1}
  Worker = {w1}
  Service = {s1}
  Serves <- OneService
  Instance = {i1}
  Found <- OneHost
  Private = {private1, private2}
  ClientQueueMax = 1
  ServiceQueueMax = 2
  MaxRequests = 2
  MaxMishaps = 2
  Ghost = {}
INVARIANTS LossHasCause DuplicateNeedsCut NoOvertaking
PROPERTIES AcceptedAnswered HeldAnswered
CHECK_DEADLOCK FALSE
