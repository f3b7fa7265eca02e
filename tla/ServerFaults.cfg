SPECIFICATION Spec
CONSTANTS
  Uploads = {u1}
  Keys = {k1, top}
  Buckets = {b1}
  Top = top
  None = None
  Chunks = 2
  Faults = {"io", "cancel", "crash", "expiry"}
  Calls <- CallsRepeated
  CallUpload <- MCCallUpload
  CallSeq <- MCCallSeq
  Total <- MCTotal
  Target <- MCTarget
  BucketOf <- MCBucketOf
  Below <- MCBelow
  PartsBelow <- MCPartsBelow
INVARIANTS
  TypeOK
  PartsKeptUntilAssembled
  CompletedIsAssembled
  ArtifactsAreWhole
  SessionEndsForAReason
  BitmapHasTTL
