SPECIFICATION FairPullSpec
CONSTANTS
  Uploads = {u1, u2}
  Directories = {u2}
  Workers = 2
  Faults = {"io", "cancel"}
  ChunkSize = 2
  OldSize = 4
  Empty = {}
  Key = k1
  None = None
  Hole = Hole
  Old = Old
  Keys <- MCKeys
  Target <- MCTarget
  Below <- MCBelow
  IsDir <- MCIsDir
  Size <- MCSize
INVARIANTS
  PullTypeOK
  NoHoles
  DeliveredIsWhole
  TempFilesAreRemoved
PROPERTIES
  PullReturns
  PullSucceeds
