SPECIFICATION DirSpec
CONSTANTS
  d = d
  df = df
  k = k
  l = l
  q = q
  r = r
  rf = rf
  x = x
  Order <- MCOrder
  Root = Root
  Parent <- MCParent
  Kind <- MCKind
  Dotted <- MCDotted
  ReadOnly <- MCReadOnly
  None = None
  MaxOpen = 8
  MaxChanges = 0
  MaxTries = 1
INVARIANTS
  DirectoryComesBack
CHECK_DEADLOCK FALSE
