------------------------------- MODULE System -------------------------------
(***************************************************************************)
(* Pushes and a pull on one server.  They share nothing but the objects in *)
(* MinIO: a pull sees what the handlers of the pushes have written, and a  *)
(* Delete, and changes nothing.                                            *)
(*                                                                         *)
(* Pull describes the download on top of the abstract store.  Here it runs *)
(* on top of the sessions, parts, goroutines and failures of Push.         *)
(***************************************************************************)
EXTENDS Push

CONSTANTS
  Key, Size, IsDir, ChunkSize, PullWorkers, PullFaults, Hole, Old, OldSize  \* as in Pull

\* Without a chunk there is no byte, and the other way round.
ASSUME SystemAssumption ==
  /\ Key \in Keys
  /\ Size \in [Uploads -> Nat]
  /\ \A u \in Uploads : Size[u] = 0 <=> Total[u] = 0
  /\ IsDir \in [Uploads -> BOOLEAN]
  /\ ChunkSize \in Nat \ {0}
  /\ PullWorkers \in Nat
  /\ PullFaults \subseteq {"io", "cancel"}
  /\ OldSize \in Nat
  /\ {None, Hole, Old} \intersect Uploads = {}

VARIABLES
  keyed, pull, info, file, truncated, tempFiles, stuck, produced, puller, job, data,
  cancelled, disturbed, faulted  \* as in Pull; puller is its worker

Puller == INSTANCE Pull WITH
  artifact <- Content,
  outcome <- Outcome,
  committed <- assembled,
  Empty <- {u \in Uploads : Total[u] = 0},
  Workers <- PullWorkers,
  Faults <- PullFaults,
  worker <- puller

systemVars == <<pushVars, Puller!pullVars>>

SystemInit == PushInit /\ Puller!DownloadInit

SystemNext ==
  \/ PushNext /\ Puller!Disturb
  \/ UNCHANGED pushVars /\ Puller!DownloadNext

SystemSpec == SystemInit /\ [][SystemNext]_systemVars

-----------------------------------------------------------------------------
(* Properties *)

\* The pull meets what Pull takes for granted of the store, step by step: the
\* two assemblies of a push, parts that are missing, an expiry or a crash show
\* in nothing that GetFileInfo and DownloadRange return.
PullSeesStore == Puller!PullSpec

\* What a pull delivers, encrypted or undisturbed, is the file of one push,
\* whose client has sent every chunk of it; and it is what the key holds, if
\* that did not change since GetFileInfo.
PulledIsPushed ==
  pull = "ok" /\ (keyed \/ (~disturbed /\ (truncated \/ IsDir[info]))) =>
    \E u \in Uploads :
      /\ Puller!IsWholeOf(file, u)
      /\ ~disturbed => Content[Key] = u
      /\ \A i \in Segments(u) : \E c \in CallsOf(u) : CallSeq[c] = i /\ Requested(c)
=============================================================================
