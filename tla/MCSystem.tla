------------------------------ MODULE MCSystem ------------------------------
(***************************************************************************)
(* Instances of System for TLC: all uploads are files of one size, pushed  *)
(* in one chunk to the key that is pulled, in ranges of ChunkSize.         *)
(***************************************************************************)
EXTENDS System, TLC

CONSTANTS FileSize  \* the size of the files

MCCalls == Uploads
MCCallUpload == [c \in Calls |-> c]
MCCallSeq == [c \in Calls |-> 0]
MCTotal == [u \in Uploads |-> 1]
MCKeys == {Key}
MCBelow == [k \in Keys |-> {k}]
MCPartsBelow == [k \in Keys |-> [u \in Uploads |-> {}]]
MCTarget == [u \in Uploads |-> Key]
MCBucketOf == [k \in Keys |-> CHOOSE b \in Buckets : TRUE]
MCSize == [u \in Uploads |-> FileSize]
MCIsDir == [u \in Uploads |-> FALSE]
MCSymmetry == Permutations(Uploads)
=============================================================================
