------------------------------- MODULE MCPush -------------------------------
(***************************************************************************)
(* Instances of Push for TLC: a call is a pair of an upload and a chunk,   *)
(* and all uploads of an instance are pushed to the same bucket.           *)
(***************************************************************************)
EXTENDS Push

CONSTANTS Chunks  \* the number of chunks of each upload that is not empty

CONSTANTS EmptyUploads  \* the uploads of empty files

CONSTANTS Top  \* a name above all others

MCCalls == {<<u, i>> : u \in Uploads \ EmptyUploads, i \in 0 .. Chunks - 1}
MCCallUpload == [c \in Calls |-> c[1]]
MCCallSeq == [c \in Calls |-> c[2]]
MCTotal == [u \in Uploads |-> IF u \in EmptyUploads THEN 0 ELSE Chunks]

\* All uploads ask for the same object, so that they overwrite each other.
MCTarget == [u \in Uploads |-> CHOOSE k \in Keys : k # Top]
MCBucketOf == [k \in Keys |-> CHOOSE b \in Buckets : TRUE]

\* Under Top lie all objects and all parts, under another name nothing else.
MCBelow == [k \in Keys |-> IF k = Top THEN Keys ELSE {k}]
MCPartsBelow ==
  [k \in Keys |-> [u \in Uploads |-> IF k = Top THEN Segments(u) ELSE {}]]
=============================================================================
