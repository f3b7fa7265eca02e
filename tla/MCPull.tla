------------------------------- MODULE MCPull -------------------------------
(***************************************************************************)
(* Instances of Pull for TLC: all uploads are pushed to the key that is    *)
(* pulled, so that they replace each other during the download.            *)
(***************************************************************************)
EXTENDS Pull

CONSTANTS
  Directories  \* the uploads that are zipped directories, and have five bytes;
               \* the others have three

MCKeys == {Key}
MCBelow == [k \in Keys |-> {k}]
MCTarget == [u \in Uploads |-> Key]
MCIsDir == [u \in Uploads |-> u \in Directories]
MCSize == [u \in Uploads |-> IF u \in Directories THEN 5 ELSE 3]
=============================================================================
