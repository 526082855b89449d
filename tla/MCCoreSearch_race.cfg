SPECIFICATION BothSpec
CONSTANTS
  m1 = m1
  p1 = p1
  Txn = {t1, t2}
  Member = {m1, m2}
  Payload = {p1, p2}
  MaxInput = 2
  NoRow = NoRow
  SearchMember = {x1, x2}
  Hash = {h1, h2}
  Syncer = {s1, s2}
  BatchSize = 1
  NoDoc = NoDoc
  MaxId = 4
  MaxSync = 2
SYMMETRY SearchSymmetry
INVARIANTS ContiguousVersions SyncedIsCurrent
PROPERTIES CommitPublishesFile AloneIsSerial ListedIsNeverRemoved
CHECK_DEADLOCK FALSE
