SPECIFICATION Spec
CONSTANTS
  m1 = m1
  m2 = m2
  l1 = l1
  l2 = l2
  l3 = l3
  d1 = d1
  d2 = d2
  h1 = h1
  h2 = h2
  bare = bare
  Worker = {w1}
  Listing = {l1, l2, l3}
  Detail = {d1}
  Member = {m1, m2}
  Payload = {h1, h2, bare}
  ListOnly = bare
  NoRecord = NoRecord
  Unread = Unread
  Nobody = Nobody
  Methods = {"FILE"}
  MinRecords = 0
  Roster <- MCRoster
  Data <- MCData
INVARIANT NewVersionIsRegistrable
