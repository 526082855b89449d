SPECIFICATION MCSpec
CONSTANTS
  a = a
  b = b
  c = c
  p1 = p1
  low = low
  high = high
  Subject = {s1}
  Payload = {p1}
  Model = {a, b, c}
  Result = {low, high}
  Verdict <- MCVerdict
  LastDay = 2
  MaxRows = 2
  MaxSwitch = 2
INVARIANTS NoDuplicates NothingLost
PROPERTIES NeverDisplaced Drains
