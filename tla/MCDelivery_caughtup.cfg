SPECIFICATION JobSpec
CONSTANTS
  m1 = m1
  m2 = m2
  names = names
  aliases = aliases
  r1 = r1
  r2 = r2
  Member = {m1}
  Table = {names, aliases}
  NameTable = names
  AliasTable = aliases
  Runner = {r1}
  LastDay = 2
  ToolDays = 2
  ToolRows = 2
  MaxRows = 2
SYMMETRY Symmetry
INVARIANT CaughtUp
