CONSTANTS
  Item = {i1, i2}
  User = {u1}
  NoItem = NoItem
  MaxChanges = 2
  MaxEdits = 1
  MaxFailures = 1
SPECIFICATION FairSpec
INVARIANTS JellyfinAgrees
PROPERTIES Converges StaysPrivate
CHECK_DEADLOCK FALSE
