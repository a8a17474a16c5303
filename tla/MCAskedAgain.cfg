CONSTANTS
  u1 = u1
  u2 = u2
  h1 = h1
  h2 = h2
  Member = {u1, u2}
  Household = {h1, h2}
  Homes <- MCHomes
  Managers = {u2}
  MaxRequests = 2
  MaxCrashes = 0
SPECIFICATION Spec
CONSTRAINT Explored
INVARIANTS AskedAgainJoins
CHECK_DEADLOCK FALSE
