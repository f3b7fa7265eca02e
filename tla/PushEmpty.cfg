SPECIFICATION PushSpec
CONSTANTS
  Uploads = {u1}
  EmptyUploads = {u1}
  Keys = {k1}
  Buckets = {b1}
  Top = top
  None = None
  Chunks = 2
  WorkerCounts = {2}
  Faults = {}
  Calls <- MCCalls
  CallUpload <- MCCallUpload
  CallSeq <- MCCallSeq
  Total <- MCTotal
  Target <- MCTarget
  BucketOf <- MCBucketOf
  Below <- MCBelow
  PartsBelow <- MCPartsBelow
INVARIANTS
  EveryPushIsStored
