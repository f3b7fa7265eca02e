SPECIFICATION FairPushSpec
CONSTANTS
  Uploads = {u1}
  EmptyUploads = {}
  Keys = {k1, top}
  Buckets = {b1}
  Top = top
  None = None
  Chunks = 2
  WorkerCounts = {1, 2}
  Faults = {"client", "cancel", "crash", "expiry"}
  Calls <- MCCalls
  CallUpload <- MCCallUpload
  CallSeq <- MCCallSeq
  Total <- MCTotal
  Target <- MCTarget
  BucketOf <- MCBucketOf
  Below <- MCBelow
  PartsBelow <- MCPartsBelow
INVARIANTS
  PushTypeOK
  PushedIsStored
  SuccessLeavesNothing
PROPERTIES
  NoWriteAfterSuccess
  PushReturns
  UploadIsAssembled
  ImplementsStore
