SPECIFICATION DirSpec
CONSTANTS
  d = d
  df = df
  k = k
  l = l
  q = q
  r = r
  rf = rf
  x = x
  Order <- MCOrder
  Root = Root
  Parent <- MCParent
  Kind <- MCKind
  Dotted <- MCDotted
  ReadOnly <- MCReadOnly
  None = None
  MaxOpen = 3
  MaxChanges = 2
  MaxTries = 2
INVARIANTS
  DirTypeOK
  StoredIsComplete
  PushLeavesNothing
  UnpackedIsComplete
  UnpackFailsForAReason
CHECK_DEADLOCK FALSE
