CONSTANTS
  r1 = r1
  r2 = r2
  r3 = r3
  t1 = t1
  t2 = t2
  u1 = u1
  u2 = u2
  h1 = h1
  h2 = h2
  h3 = h3
  Request = {r1, r2, r3}
  Token = {t1, t2}
  Cred <- MCCred
  User = {u1, u2}
  OwnerOf <- MCOwnerOf
  Household = {h1, h2, h3}
  Members <- MCMembers
  MaxSignOuts = 2
  MaxSignOutsHere = 1
  MaxTracked = 1
  MaxRevoked = 1
SYMMETRY Alike
CONSTRAINT Explored
SPECIFICATION Spec
INVARIANTS RevokedNotTrusted OwnersFollow SocketsStayClosed

