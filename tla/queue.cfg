SPECIFICATION FairSpec
CONSTANTS
  Getter = {g1, g2}
  Putter = {p1, p2, p3}
  Item = {x1, x2, x3, x4}
  MaxSize = 2
  None = None
INVARIANTS TypeOK NoLostWakeup Fifo RefusedStaysOut
PROPERTIES ImplementsBoundedQueue SleepersServed
