SPECIFICATION DaysSpec
CONSTANTS
  m1 = m1
  m2 = m2
  names = names
  aliases = aliases
  r1 = r1
  r2 = r2
  Member = {m1, m2}
  Table = {names, aliases}
  NameTable = names
  AliasTable = aliases
  Runner = {r1, r2}
  ToolDays = 2
  ToolRows = 2
  LastDay = 3
  MaxRows = 3
SYMMETRY Symmetry
INVARIANTS SpokesAgree RunDelivers DeltaIsNetEffect
PROPERTIES SpokesNeverRegress SearchKeepsCurrent
