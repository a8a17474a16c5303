CONSTANTS
  u1 = u1
  u2 = u2
  h1 = h1
  h2 = h2
  Member = {u1, u2}
  Household = {h1, h2}
  Homes <- MCHomes
  Managers = {u2}
  MaxRequests = 2
  MaxCrashes = 1
SPECIFICATION FairSpec
CONSTRAINT Explored
INVARIANTS InAgreement
PROPERTIES GivenOnlyWhoAsk FollowersKept DecidedAtLast
CHECK_DEADLOCK FALSE
