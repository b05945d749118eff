SPECIFICATION FullQueuesSpec
CONSTANTS
  Client = {c1}
  Service = {s1}
  Request = {r1, r2, r3, r4}
  Handler = {h1, h2}
  Entry = {e1, e2}
  ClientQueueMax = 1
  ServiceQueueMax = 1
  MaxTimeout = 1
  Threshold = 2
  BatchSize = 1
  TicksPerSweep = 2
  BodyMax = 1
  Lag = 0
  TimeoutArg = {0, 1}
  BlockArg = {TRUE, FALSE}
  Leaver = {c1}
  NoTimeout = NoTimeout
  None = None
PROPERTIES CallsReturn
