SPECIFICATION PullSpec
CONSTANTS
  Uploads = {u1, u2}
  Directories = {}
  Workers = 2
  Faults = {}
  ChunkSize = 2
  OldSize = 0
  Empty = {}
  Key = k1
  None = None
  Hole = Hole
  Old = Old
  Keys <- MCKeys
  Target <- MCTarget
  Below <- MCBelow
  IsDir <- MCIsDir
  Size <- MCSize
INVARIANTS
  HashsumIsChecked
