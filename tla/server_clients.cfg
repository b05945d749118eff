SPECIFICATION Spec
CONSTANTS
  Client = {c1, c2}
  Service = {s1}
  Request = {r1}
  Handler = {h1, h2}
  Entry = {e1, e2, e3}
  ClientQueueMax = 1
  ServiceQueueMax = 1
  MaxTimeout = 1
  Threshold = 3
  BatchSize = 1
  TicksPerSweep = 2
  BodyMax = 1
  Lag = 1
  TimeoutArg = {0, NoTimeout, 2}
  BlockArg = {TRUE, FALSE}
  Leaver = {}
  NoTimeout = NoTimeout
  None = None
SYMMETRY ClientSymmetry
INVARIANTS OnePlace HandedOutOnce
