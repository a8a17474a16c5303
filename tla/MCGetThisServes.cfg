CONSTANTS
  u1 = u1
  u2 = u2
  h1 = h1
  h2 = h2
  Member = {u1, u2}
  Household = {h1}
  NoMember = NoMember
  Homes <- OneOutside
  Refresher = {f1}
  MaxCalls = 1
  MaxDirect = 1
  MaxDeclined = 0
  MaxReplaced = 0
  MaxCrashes = 0
SPECIFICATION FairSpec
PROPERTIES IntentsEnd Served
CHECK_DEADLOCK FALSE
