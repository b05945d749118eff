SPECIFICATION Spec
CONSTANTS
  i1 = i1
  i2 = i2
  s1 = s1
  s2 = s2
  w1 = w1
  private1 = private1
  private2 = private2
  Loopback = loopback
  None = None
  Client = {c1, c2}
  Worker = {w1}
  Service = {s1, s2}
  Serves <- OneService
  Instance = {i1, i2}
  Found <- TwoHosts
  Private = {private1, private2}
  ClientQueueMax = 1
  ServiceQueueMax = 1
  MaxRequests = 1
  MaxMishaps = 1
  Ghost = {g1}
INVARIANTS TypeOK Affinity LossHasCause DuplicateNeedsCut
PROPERTIES ImplementsRendezvous
SYMMETRY Symmetry
