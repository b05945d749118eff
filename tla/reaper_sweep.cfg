SPECIFICATION Spec
CONSTANTS
  Client = {c1, c2, c3, c4, c5}
  Threshold = 1
  BatchSize = 1
  TicksPerSweep = 2
  MaxAge = 12
SYMMETRY Symmetry
INVARIANTS TypeOK SweepWithinTargetUnlessShrunk SweepProgress EvictedInTime
