CONSTANTS
  h1 = h1
  h2 = h2
  a = a
  b = b
  c = c
  d = d
  Household = {h1, h2}
  Call = {a, b, c, d}
  LaneOf <- MCLaneOf
  Burst = 1
  MaxInFlight = 2
  MaxQueuedPerLane = 2
  MaxQueued = 4
  QueueTimeout = 2
  MaxRetryAfter = 1
SPECIFICATION FairSpec
INVARIANTS Accounted NoLostWakeup
PROPERTIES OneTurnEach EveryCallEnds
