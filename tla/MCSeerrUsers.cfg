CONSTANTS
  m1 = m1
  m2 = m2
  s1 = s1
  s2 = s2
  c1 = c1
  c2 = c2
  Member = {m1, m2}
  SeerrUser = {s1, s2}
  Call = {c1, c2}
  MemberOf <- MCMemberOf
  First <- MCFirst
  MaxEntries = 1
  MaxRelinks = 2
  MaxInvalidations = 2
SPECIFICATION Spec
SYMMETRY Alike
PROPERTIES LookupsFollow RefusedForCause
