CONSTANTS
  u1 = u1
  u2 = u2
  h1 = h1
  h2 = h2
  Member = {u1, u2}
  Household = {h1, h2}
  NoMember = NoMember
  Homes <- MCHomes
  Refresher = {f1}
  MaxCalls = 2
  MaxDirect = 1
  MaxDeclined = 1
  MaxReplaced = 1
  MaxCrashes = 1
SPECIFICATION Spec
CONSTRAINT Explored
INVARIANTS NeverPrivate Protected OnlyAskers InterestReadyIsHeld
CHECK_DEADLOCK FALSE
