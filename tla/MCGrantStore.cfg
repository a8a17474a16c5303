CONSTANTS
  u1 = u1
  u2 = u2
  r1 = r1
  r2 = r2
  i1 = i1
  i2 = i2
  i3 = i3
  Item = {i1, i2, i3}
  User = {u1, u2}
  Group = {g1}
  Request = {r1, r2}
  Requester <- MCRequester
  NoItem = NoItem
  MaxGiven = 3
  MaxTaken = 2
SPECIFICATION Spec
SYMMETRY ItemSymmetry
CONSTRAINT Explored
INVARIANTS TypeOK RevokedStaysOff NoDanglingGroups ManualUnmarked RecomputedAlike
PROPERTIES NoQuietReturn NoResurrection WithdrawnGivesNobody MovesKeepAudience
