SPECIFICATION SceneSpec
CONSTANTS
  i1 = i1  i2 = i2  near = near  far = far
  Instances = {i1, i2}
  Detectors = {i1, i2}
  Interval = 2  LockTtl = 1
  MaxClock = 3
  MaxSkew = 1
  DayLength = 2
  Ips = {near, far}
  Ranks = {1, 2}
  BaselineDays = 2
  Threshold = 9
  Pasts <- SomePasts
  MaxAlerts = 1
INVARIANTS StartsApart TickNotRepeated IdempotentAlone FirstSeenReported
SYMMETRY InstanceSymmetry
CHECK_DEADLOCK FALSE
