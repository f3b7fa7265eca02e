SPECIFICATION Spec
CONSTANTS
  Uploads = {u1}
  Keys = {k1}
  Buckets = {b1}
  Top = top
  None = None
  Chunks = 2
  Faults = {}
  Calls <- CallsOnce
  CallUpload <- MCCallUpload
  CallSeq <- MCCallSeq
  Total <- MCTotal
  Target <- MCTarget
  BucketOf <- MCBucketOf
  Below <- MCBelow
  PartsBelow <- MCPartsBelow
INVARIANTS
  AssemblyFindsItsParts
