SPECIFICATION SystemSpec
CONSTANTS
  Uploads = {u1, u2}
  Buckets = {b1}
  Key = k1
  None = None
  Hole = Hole
  Old = Old
  FileSize = 2
  WorkerCounts = {1}
  Faults = {"io", "client"}
  ChunkSize = 1
  PullWorkers = 1
  PullFaults = {}
  OldSize = 0
  Keys <- MCKeys
  Calls <- MCCalls
  CallUpload <- MCCallUpload
  CallSeq <- MCCallSeq
  Total <- MCTotal
  Target <- MCTarget
  BucketOf <- MCBucketOf
  Below <- MCBelow
  PartsBelow <- MCPartsBelow
  Size <- MCSize
  IsDir <- MCIsDir
SYMMETRY MCSymmetry
INVARIANTS
  PulledIsPushed
PROPERTIES
  PullSeesStore
CHECK_DEADLOCK FALSE
