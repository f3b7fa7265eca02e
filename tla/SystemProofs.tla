---------------------------- MODULE SystemProofs -----------------------------
(***************************************************************************)
(* Proofs about System: a pull on top of the sessions, parts, handlers and *)
(* failures of the pushes is a pull on top of the abstract store, so that  *)
(* what was proved of Pull holds of it, and what it delivers is what the   *)
(* client of one push has sent.                                            *)
(***************************************************************************)
EXTENDS System, PushProofs

\* The theorems about Pull, for this pull.
Proved == INSTANCE PullProofs WITH
  artifact <- Content,
  outcome <- Outcome,
  committed <- assembled,
  Empty <- {u \in Uploads : Total[u] = 0},
  Workers <- PullWorkers,
  Faults <- PullFaults,
  worker <- puller

\* What Pull assumes of its constants follows from what System assumes.
LEMMA PullAssumptionHolds == Proved!PullAssumption
BY ServerAssumption, SystemAssumption DEF Proved!PullAssumption

-----------------------------------------------------------------------------
(* Puller and Proved are two instances of one module, with one substitution: *)
(* expanded, they say the same.                                              *)

\* The pull starts in the same states.
LEMMA SameInit == Puller!DownloadInit <=> Proved!DownloadInit
BY DEF Puller!DownloadInit, Proved!DownloadInit, Puller!Pool, Proved!Pool

\* The pull makes the same steps.
LEMMA SameDownload == Puller!DownloadNext <=> Proved!DownloadNext
BY
  DEF Puller!DownloadNext, Proved!DownloadNext, Puller!Client, Proved!Client,
      Puller!Goroutine, Proved!Goroutine, Puller!GetInfo, Proved!GetInfo,
      Puller!PrepareOutput, Proved!PrepareOutput, Puller!Close, Proved!Close,
      Puller!GiveUp, Proved!GiveUp, Puller!Wait, Proved!Wait, Puller!Decrypt,
      Proved!Decrypt, Puller!Unpack, Proved!Unpack, Puller!Deliver, Proved!Deliver,
      Puller!PrepareFails, Proved!PrepareFails, Puller!TruncateFails,
      Proved!TruncateFails, Puller!DecryptFails, Proved!DecryptFails,
      Puller!SaveDecryptedFails, Proved!SaveDecryptedFails, Puller!RejectArchive,
      Proved!RejectArchive, Puller!Unpacking, Proved!Unpacking, Puller!RemoveFiles,
      Proved!RemoveFiles, Puller!UnpackFails, Proved!UnpackFails, Puller!HandOut, Proved!HandOut,
      Puller!Exit, Proved!Exit, Puller!StatRange, Proved!StatRange, Puller!ReadRange,
      Proved!ReadRange, Puller!WriteRange, Proved!WriteRange, Puller!RangeFails,
      Proved!RangeFails, Puller!WriteFails, Proved!WriteFails, Puller!Interrupt,
      Proved!Interrupt, Puller!FileInfo, Proved!FileInfo, Puller!Opened, Proved!Opened,
      Puller!OutputTemp, Proved!OutputTemp, Puller!Resized, Proved!Resized,
      Puller!StartDownload, Proved!StartDownload, Puller!WorkerStep, Proved!WorkerStep,
      Puller!InRange, Proved!InRange, Puller!FileIsOpen, Proved!FileIsOpen,
      Puller!Written, Proved!Written, Puller!WorkerFails, Proved!WorkerFails,
      Puller!FailsFor, Proved!FailsFor, Puller!IsWholeOf, Proved!IsWholeOf,
      Puller!IsWhole, Proved!IsWhole, Puller!IsArchive, Proved!IsArchive,
      Puller!outputVars, Proved!outputVars, Puller!groupVars, Proved!groupVars,
      Puller!fixedVars, Proved!fixedVars, Puller!vars, Proved!vars, Puller!Segments,
      Proved!Segments, Puller!Offset, Proved!Offset, Puller!Limit, Proved!Limit,
      Puller!ByteRange, Proved!ByteRange, Puller!Bytes, Proved!Bytes, Puller!Active,
      Proved!Active, Puller!Pool, Proved!Pool, Puller!Max, Proved!Max

\* What others do to the abstract store, with what it is for the pull.
LEMMA SameOthers ==
  /\ Store!Init => Puller!Init /\ Proved!Init
  /\ Store!Next => Puller!Next /\ Proved!Next
  /\ Puller!Disturb <=> Proved!Disturb
BY DEF Store!Init, Puller!Init, Proved!Init, Store!Next, Puller!Next, Proved!Next,
       Store!Start, Store!Commit, Store!Succeed, Store!Fail, Store!Remove, Puller!Start,
       Puller!Commit, Puller!Succeed, Puller!Fail, Puller!Remove, Proved!Start,
       Proved!Commit, Proved!Succeed, Proved!Fail, Proved!Remove, Puller!Disturb,
       Proved!Disturb, Puller!outputVars, Proved!outputVars, Puller!groupVars,
       Proved!groupVars

\* A step that changes no variable of one changes none of the others.
LEMMA SameVars ==
  ASSUME UNCHANGED Store!vars, UNCHANGED Puller!pullVars
  PROVE  /\ UNCHANGED <<Puller!vars, Puller!pullVars>>
         /\ UNCHANGED <<Proved!vars, Proved!pullVars>>
BY DEF Store!vars, Puller!vars, Proved!vars, Puller!pullVars, Proved!pullVars,
       Puller!outputVars, Proved!outputVars, Puller!groupVars, Proved!groupVars,
       Puller!fixedVars, Proved!fixedVars

-----------------------------------------------------------------------------
(* A step of the system is a step of the pull on the abstract store. *)

\* The system starts as a pull does.
LEMMA SystemInitIsPullInit == SystemInit => Puller!PullInit /\ Proved!PullInit
BY StoreInit, SameInit, SameOthers DEF SystemInit, Puller!PullInit, Proved!PullInit

\* Every step of a push is a step of the abstract store, or none; steps of the
\* pull leave the store alone.
LEMMA SystemStepIsPullStep ==
  ASSUME PushInv, disturbed \in BOOLEAN, [SystemNext]_systemVars
  PROVE  /\ [Puller!PullNext]_<<Puller!vars, Puller!pullVars>>
         /\ [Proved!PullNext]_<<Proved!vars, Proved!pullVars>>
<1>1. CASE PushNext /\ Puller!Disturb
  <2>1. [Store!Next]_(Store!vars)
    BY <1>1, StoreStep
  <2>2. CASE Store!Next
    BY <1>1, <2>2, SameOthers
    DEF Puller!PullNext, Puller!Others, Proved!PullNext, Proved!Others
  <2>3. CASE UNCHANGED Store!vars
    <3>1. UNCHANGED Content
      BY <2>3 DEF Store!vars
    <3>2. UNCHANGED Puller!pullVars
      BY <1>1, <3>1
      DEF Puller!Disturb, Puller!pullVars, Puller!outputVars, Puller!groupVars,
          Puller!fixedVars
    <3> QED BY <2>3, <3>2, SameVars
  <2> QED BY <2>1, <2>2, <2>3
<1>2. CASE UNCHANGED pushVars /\ Puller!DownloadNext
  BY <1>2, SameDownload DEF Puller!PullNext, Proved!PullNext
<1>3. CASE UNCHANGED systemVars
  <2>1. UNCHANGED Store!vars
    BY <1>3
    DEF systemVars, pushVars, clientVars, vars, minioVars, historyVars, Store!vars,
        Content, Outcome
  <2>2. UNCHANGED Puller!pullVars
    BY <1>3 DEF systemVars
  <2> QED BY <2>1, <2>2, SameVars
<1> QED BY <1>1, <1>2, <1>3 DEF SystemNext

\* The pull does nothing to the pushes.
LEMMA SystemStepIsPushStep == [SystemNext]_systemVars => [PushNext]_pushVars
BY DEF SystemNext, systemVars

-----------------------------------------------------------------------------
(* What was sent *)

\* The chunks of an upload that its client has sent.
SentOf(u) == {CallSeq[c] : c \in {d \in CallsOf(u) : Requested(d)}}

\* Parts, what handlers have copied of them, and final objects are made of
\* chunks that were sent.
SentInv ==
  /\ \A u \in Uploads : parts[u] \subseteq SentOf(u)
  /\ \A c \in Calls : copied[c] \subseteq SentOf(CallUpload[c])
  /\ \A u \in assembled : Segments(u) \subseteq SentOf(u)

\* What was sent stays sent.
LEMMA SentGrows ==
  ASSUME PushInv, [PushNext]_pushVars, NEW u \in Uploads
  PROVE  SentOf(u) \subseteq SentOf(u)'
<1>1. \A c \in Calls : Requested(c) => Requested(c)'
  BY DEF PushInv, PushTypeOK, Requested, PushNext, pushVars, clientVars, Client,
     ClientFails, StartPush, InitiateReply, Finish, PrepareFails, InitiateAbandoned,
     OpenFileFails, PushStep, Interrupt, DeadlinePasses, SessionExpires, Worker, Spawn,
     SendPart, Acknowledged, Rejected, NotSent, CancelRest, ReadOrReplyLost, WorkerFails,
     WorkerStep, Server
<1> QED BY <1>1 DEF SentOf, CallsOf

\* A handler stores what was sent to it, and copies and assembles what is stored.
LEMMA HandlerKeepsSent ==
  ASSUME PushInv, SentInv, NEW c \in Calls, Requested(c), UploadPart(c),
         UNCHANGED clientVars
  PROVE  SentInv'
<1> DEFINE u == CallUpload[c]
<1>1. u \in Uploads /\ CallSeq[c] \in SentOf(u)
  BY ServerAssumption DEF SentOf, CallsOf
<1>2. \A v : SentOf(v)' = SentOf(v)
  BY DEF SentOf, CallsOf, Requested, clientVars
<1>3. /\ parts \in [Uploads -> SUBSET Nat] /\ copied \in [Calls -> SUBSET Nat]
      /\ assembled \subseteq Uploads
  BY DEF PushInv, IInv, TypeOK
<1> USE <1>3 DEF PartStep, ResetLocals, minioVars, historyVars
<1>4. \A v \in Uploads : parts'[v] \subseteq parts[v] \union SentOf(v)
  BY <1>1
  DEF UploadPart, PartProgress, GetSession, PutPart, SetBit, BitCount, ReadPart,
      ReadMissingPart, PutFinal, RemovePart, DelSession, DelSessionFails, PartFails
<1>5. \A d \in Calls : copied'[d] \subseteq copied[d] \union parts[CallUpload[d]]
  BY DEF UploadPart, PartProgress, GetSession, PutPart, SetBit, BitCount, ReadPart,
      ReadMissingPart, PutFinal, RemovePart, DelSession, DelSessionFails, PartFails
<1>6. \A v \in assembled' : v \in assembled \/ (v = u /\ copied[c] = Segments(u))
  <2>1. CASE \E to \in {"cleanup", "err"} : PutFinal(c, to)
    <3>1. pc[c] = "assemble" /\ next[c] = Total[u] /\ assembled' = assembled \union {u}
      BY <2>1 DEF PutFinal
    <3> QED BY <3>1 DEF PushInv, IInv, CopiedInOrder, Segments
  <2>2. CASE ~\E to \in {"cleanup", "err"} : PutFinal(c, to)
    BY <2>2
    DEF UploadPart, PartProgress, GetSession, PutPart, SetBit, BitCount, ReadPart,
        ReadMissingPart, RemovePart, DelSession, DelSessionFails, PartFails
  <2> QED BY <2>1, <2>2
<1>7. \A v : Segments(v)' = Segments(v)
  BY DEF Segments
<1> HIDE DEF u
<1> QED BY <1>1, <1>2, <1>4, <1>5, <1>6, <1>7, ServerAssumption DEF SentInv, u

\* A step of anybody else stores, copies and assembles nothing.
LEMMA PushKeepsSent ==
  ASSUME PushInv, SentInv, [PushNext]_pushVars
  PROVE  SentInv'
<1>1. ASSUME NEW c \in Calls, Requested(c), UploadPart(c), UNCHANGED clientVars
      PROVE  SentInv'
  BY <1>1, HandlerKeepsSent
<1>2. ASSUME UNCHANGED assembled, \A u \in Uploads : parts'[u] \subseteq parts[u],
             \A c \in Calls : copied'[c] \subseteq copied[c]
      PROVE  SentInv'
  <2>1. \A u \in Uploads : SentOf(u) \subseteq SentOf(u)' /\ Segments(u)' = Segments(u)
    BY SentGrows DEF Segments
  <2>2. assembled \subseteq Uploads
    BY DEF PushInv, IInv, TypeOK
  <2> QED BY <1>2, <2>1, <2>2, ServerAssumption DEF SentInv
<1>3. CASE Crash
  BY <1>2, <1>3 DEF Crash, minioVars, historyVars
<1>4. ASSUME NEW k \in Keys, Delete(k)
      PROVE  SentInv'
  BY <1>2, <1>4 DEF Delete, handlerVars
<1>5. \/ UNCHANGED <<parts, assembled, copied>>
      \/ Crash
      \/ \E k \in Keys : Delete(k)
      \/ \E c \in Calls : Requested(c) /\ UploadPart(c) /\ UNCHANGED clientVars
  BY DEF PushNext, pushVars, Client, ClientFails, StartPush, InitiateReply, Finish,
     PrepareFails, InitiateAbandoned, OpenFileFails, PushStep, Interrupt, DeadlinePasses,
     SessionExpires, Worker, Spawn, SendPart, Acknowledged, Rejected, NotSent,
     CancelRest, ReadOrReplyLost, WorkerFails, Cancel, Expire, Server, Initiate,
     CheckBucket, MakeBucket, SaveSession, InitiateFails, InitiateStep, vars, minioVars,
     handlerVars, historyVars
<1> QED BY <1>1, <1>2, <1>3, <1>4, <1>5

-----------------------------------------------------------------------------
(* Theorems *)

\* What is invariant of the pushes, of what they have sent, and of the pull.
SystemInv == PushInv /\ SentInv /\ Proved!PullInv

\* The invariants of pushes and of the pull hold side by side.
THEOREM SystemInvariant == SystemSpec => []SystemInv
<1>1. SystemInit => SystemInv
  <2> SUFFICES ASSUME SystemInit PROVE SystemInv
    OBVIOUS
  <2>1. PushInv
    BY PushInitInvariant DEF SystemInit
  <2>2. SentInv
    BY ServerAssumption DEF SystemInit, PushInit, Init, SentInv
  <2>3. Proved!PullInv
    BY SystemInitIsPullInit, PullAssumptionHolds, Proved!InitInvariant
  <2> QED BY <2>1, <2>2, <2>3 DEF SystemInv
<1>2. SystemInv /\ [SystemNext]_systemVars => SystemInv'
  <2> SUFFICES ASSUME SystemInv, [SystemNext]_systemVars PROVE SystemInv'
    OBVIOUS
  <2>1. [PushNext]_pushVars
    BY SystemStepIsPushStep
  <2>2. PushInv' /\ SentInv'
    BY <2>1, PushNextInvariant, PushKeepsSent DEF SystemInv
  <2>3. disturbed \in BOOLEAN
    BY DEF SystemInv, Proved!PullInv, Proved!PullTypes
  <2>4. [Proved!PullNext]_<<Proved!vars, Proved!pullVars>>
    BY <2>3, SystemStepIsPullStep DEF SystemInv
  <2>5. Proved!PullInv'
    BY <2>4, PullAssumptionHolds, Proved!PullNextInvariant DEF SystemInv
  <2> QED BY <2>2, <2>5 DEF SystemInv
<1> QED BY <1>1, <1>2, PTL DEF SystemSpec

\* A pull on top of pushes with all their sessions, parts, handlers and
\* failures is a pull on top of the abstract store: all that holds of Pull
\* holds of it.
THEOREM PullRunsOnStore == SystemSpec => PullSeesStore
<1>1. SystemInv /\ [SystemNext]_systemVars
      => [Puller!PullNext]_<<Puller!vars, Puller!pullVars>>
  BY SystemStepIsPullStep DEF SystemInv, Proved!PullInv, Proved!PullTypes
<1> QED
  BY <1>1, SystemInvariant, SystemInitIsPullInit, PTL
  DEF SystemSpec, PullSeesStore, Puller!PullSpec

\* What a pull delivers is the file of one push, all of whose chunks were sent.
THEOREM PulledWasPushed == SystemSpec => []PulledIsPushed
<1>1. SystemInv => PulledIsPushed
  <2> SUFFICES ASSUME SystemInv, pull = "ok",
                      keyed \/ (~disturbed /\ (truncated \/ IsDir[info]))
               PROVE  \E u \in Uploads :
                        /\ Puller!IsWholeOf(file, u)
                        /\ ~disturbed => Content[Key] = u
                        /\ \A i \in Segments(u) :
                             \E c \in CallsOf(u) : CallSeq[c] = i /\ Requested(c)
    BY DEF PulledIsPushed
  <2>1. PICK u \in assembled :
          Proved!IsWholeOf(file, u) /\ (~disturbed => Content[Key] = u)
    BY PullAssumptionHolds, Proved!DeliveredArtifact DEF SystemInv
  <2>2. u \in Uploads /\ Segments(u) \subseteq SentOf(u)
    BY DEF SystemInv, SentInv, PushInv, IInv, TypeOK
  <2>3. Puller!IsWholeOf(file, u)
    BY <2>1 DEF Puller!IsWholeOf, Proved!IsWholeOf, Puller!Bytes, Proved!Bytes
  <2>4. \A i \in Segments(u) : \E c \in CallsOf(u) : CallSeq[c] = i /\ Requested(c)
    BY <2>2 DEF SentOf
  <2> QED BY <2>1, <2>2, <2>3, <2>4
<1> QED BY <1>1, SystemInvariant, PTL
=============================================================================
