CONSTANTS
  u1 = u1
  u2 = u2
  h1 = h1
  h2 = h2
  Member = {u1}
  Household = {h1}
  NoMember = NoMember
  Homes <- Alone
  Refresher = {f1}
  MaxCalls = 1
  MaxDirect = 0
  MaxDeclined = 0
  MaxReplaced = 0
  MaxCrashes = 0
SPECIFICATION Spec
INVARIANTS SettledFirst
CHECK_DEADLOCK FALSE
