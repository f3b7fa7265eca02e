SPECIFICATION FileSpec
CONSTANTS
  Half = 8
  MaxSize = 3
  MaxEdits = 2
  ServerChunk = 2
  Sealing <- MCSealing
  None = None
INVARIANTS
  FileTypeOK
  SuccessStores
  StoredInPlace
  StoredMatchesHash
  PulledIsStored
CHECK_DEADLOCK FALSE
