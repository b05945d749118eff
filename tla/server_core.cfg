SPECIFICATION Spec
CONSTANTS
  Client = {c1}
  Service = {s1}
  Request = {r1, r2}
  Handler = {h1, h2, h3}
  Entry = {e1, e2, e3}
  ClientQueueMax = 1
  ServiceQueueMax = 1
  MaxTimeout = 1
  Threshold = 3
  BatchSize = 1
  TicksPerSweep = 2
  BodyMax = 1
  Lag = 1
  TimeoutArg = {0, 1, 2}
  BlockArg = {TRUE, FALSE}
  Leaver = {c1}
  NoTimeout = NoTimeout
  None = None
SYMMETRY Symmetry
INVARIANTS TypeOK LiveCallKeepsEntry BusyClientIsFresh AcceptedKept
PROPERTIES CallsReturnFresh BlockLeavesWindow
