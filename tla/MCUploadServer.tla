--------------------------- MODULE MCUploadServer ---------------------------
(***************************************************************************)
(* Instances of UploadServer for TLC.  A call is a record that names its   *)
(* upload, its chunk and, for a chunk that is sent twice, the attempt.     *)
(***************************************************************************)
EXTENDS UploadServer

CONSTANTS
  Chunks,  \* the number of chunks of each upload
  Top      \* a name above all others

Call(u, i, n) == [upload |-> u, seq |-> i, attempt |-> n]

\* Each chunk is sent once.
CallsOnce == {Call(u, i, 1) : u \in Uploads, i \in 0 .. Chunks - 1}

\* The first chunk is sent twice, and a chunk beyond the last one once.
CallsRepeated ==
  CallsOnce \union {Call(u, 0, 2) : u \in Uploads}
            \union {Call(u, Chunks, 1) : u \in Uploads}

MCCallUpload == [c \in Calls |-> c.upload]
MCCallSeq == [c \in Calls |-> c.seq]
MCTotal == [u \in Uploads |-> Chunks]

\* All uploads of the instance ask for the same object.
OneKey == CHOOSE k \in Keys : k # Top
MCTarget == [u \in Uploads |-> OneKey]
MCBucketOf == [k \in Keys |-> CHOOSE b \in Buckets : TRUE]

\* Under Top lie all objects and all parts, under another name nothing else.
MCBelow == [k \in Keys |-> IF k = Top THEN Keys ELSE {k}]
MCPartsBelow ==
  [k \in Keys |-> [u \in Uploads |-> IF k = Top THEN Segments(u) ELSE {}]]
=============================================================================
