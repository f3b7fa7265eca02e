----------------------------- MODULE PushProofs -----------------------------
(***************************************************************************)
(* Proofs about Push, for every set of uploads, number of chunks, number   *)
(* of workers and combination of failures: a push that reports success has *)
(* stored its artifact, it leaves nothing behind if no call of a store     *)
(* fails by itself, and pushes implement the abstract artifact store.      *)
(***************************************************************************)
EXTENDS Push, UploadServerProofs

-----------------------------------------------------------------------------
(* The inductive invariant *)

\* A goroutine goes by the answer of the handler, which does not change.
AckedIsAnswered == \A c \in Calls : worker[c] = "acked" => pc[c] = "ok"

\* Handlers run for requests that were sent, and goroutines for pushes that
\* have a session.
OnlyRequested ==
  \A c \in Calls :
    /\ pc[c] # "idle" => Requested(c)
    /\ worker[c] # "none" => push[CallUpload[c]] \in {"uploading", "ok", "err"}

\* The client has given up on a session before it expires.
DeadlineBeforeExpiry == lapsed \subseteq pastDeadline /\ pastDeadline \subseteq gone

\* The last acknowledgement of an upload comes after its assembly.
AckedIsAssembled ==
  \A u \in Uploads : Total[u] > 0 /\ AllAcked(u) => u \in assembled

SuccessIsAcked == \A u \in Uploads : push[u] = "ok" => AllAcked(u)

PushInv ==
  /\ IInv
  /\ PushTypeOK
  /\ AckedIsAnswered
  /\ OnlyRequested
  /\ DeadlineBeforeExpiry
  /\ AckedIsAssembled
  /\ SuccessIsAcked

-----------------------------------------------------------------------------
(* What the client sees of a step of the server *)

\* A handler moves no program counter but its own, never takes back an answer
\* or an assembly, and neither cancels an upload nor lets it expire.
LEMMA HandlerFrame ==
  ASSUME IInv, NEW c \in Calls, UploadPart(c)
  PROVE  /\ \A d \in Calls \ {c} : pc'[d] = pc[d]
         /\ \A d \in Calls : pc[d] = "ok" => pc'[d] = "ok"
         /\ assembled \subseteq assembled'
         /\ UNCHANGED <<lapsed, gone>>
<1>1. pc \in [Calls -> PartStates]
  BY DEF IInv, TypeOK
<1> USE <1>1 DEF UploadPart, PartProgress, PartStep, historyVars
<1>2. \A d \in Calls \ {c} : pc'[d] = pc[d]
  BY DEF GetSession, PutPart, SetBit, BitCount, ReadPart, ReadMissingPart, PutFinal,
         RemovePart, DelSession, DelSessionFails, PartFails
<1>3. pc[c] # "ok"
  BY DEF GetSession, PutPart, SetBit, BitCount, ReadPart, ReadMissingPart, PutFinal,
         RemovePart, DelSession, DelSessionFails, PartFails
<1>4. assembled \subseteq assembled' /\ UNCHANGED <<lapsed, gone>>
  BY DEF GetSession, PutPart, SetBit, BitCount, ReadPart, ReadMissingPart, PutFinal,
         RemovePart, DelSession, DelSessionFails, PartFails
<1> QED BY <1>2, <1>3, <1>4

\* Opening a session concerns no call and no artifact.
LEMMA InitiateFrame ==
  ASSUME NEW u \in Uploads, Initiate(u)
  PROVE  UNCHANGED <<pc, assembled, lapsed, gone, artifact>>
BY DEF Initiate, CheckBucket, MakeBucket, SaveSession, InitiateFails, InitiateStep,
       historyVars, minioVars

\* The death of the server ends handlers that are at work and touches no other.
LEMMA CrashFrame ==
  ASSUME IInv, Crash
  PROVE  /\ \A d \in Calls : pc[d] \in {"idle", "ok"} => pc'[d] = pc[d]
         /\ \A d \in Calls : pc'[d] # "idle" => pc[d] # "idle"
         /\ UNCHANGED <<assembled, lapsed, gone, artifact>>
BY DEF IInv, TypeOK, Crash, Running, Finished, historyVars, minioVars

-----------------------------------------------------------------------------
(* The invariant *)

\* Before anything is pushed, no chunk of a non-empty upload is acknowledged.
LEMMA PushInitInvariant == PushInit => PushInv
<1> SUFFICES ASSUME PushInit PROVE PushInv
  OBVIOUS
<1>1. IInv
  BY InitInvariant DEF PushInit
<1>2. \A u \in Uploads : Total[u] > 0 => ~AllAcked(u)
  <2> SUFFICES ASSUME NEW u \in Uploads, Total[u] > 0 PROVE ~AllAcked(u)
    OBVIOUS
  <2>1. Total[u] \in Nat /\ 0 \in Segments(u)
    BY ServerAssumption DEF Segments
  <2>2. PICK c \in CallsOf(u) : CallSeq[c] = 0
    BY <2>1, PushAssumption
  <2>3. c \in Calls /\ CallSeq[c] < Total[u] /\ worker[c] = "none"
    BY <2>1, <2>2 DEF PushInit, CallsOf
  <2> QED BY <2>2, <2>3 DEF AllAcked
<1> QED
  BY <1>1, <1>2
  DEF PushInit, Init, PushInv, PushTypeOK, AckedIsAnswered, OnlyRequested,
      DeadlineBeforeExpiry, AckedIsAssembled, SuccessIsAcked, PushStates, WorkerStates

\* Every step of a push is, for the server, one of its own or none.
LEMMA PushKeepsServer ==
  ASSUME IInv, [PushNext]_pushVars
  PROVE  IInv'
<1>1. \/ \E u \in Uploads : Initiate(u)
      \/ \E c \in Calls : UploadPart(c)
      \/ \E k \in Keys : Delete(k)
      \/ \E u \in Uploads : Expire(u) \/ Cancel(u)
      \/ Crash
      \/ UNCHANGED vars
  BY ServerAssumption
  DEF PushNext, pushVars, Client, ClientFails, StartPush, InitiateReply, Finish,
      PrepareFails, InitiateAbandoned, OpenFileFails, Interrupt, DeadlinePasses,
      SessionExpires, Worker, Spawn, SendPart, Acknowledged, Rejected, NotSent,
      CancelRest, ReadOrReplyLost, WorkerFails, Server
<1> QED BY <1>1, InitiateInvariant, PartInvariant, EnvironmentInvariant

\* Every step of a push keeps the inductive invariant.
LEMMA PushNextInvariant == PushInv /\ [PushNext]_pushVars => PushInv'
<1> SUFFICES ASSUME PushInv, [PushNext]_pushVars PROVE PushInv'
  OBVIOUS
<1>0. IInv /\ IInv'
  BY PushKeepsServer DEF PushInv
<1> USE ServerAssumption, <1>0
    DEF PushInv, PushTypeOK, AckedIsAnswered, OnlyRequested, DeadlineBeforeExpiry,
        AckedIsAssembled, SuccessIsAcked, PushStates, WorkerStates, Requested,
        AllAcked, CallsOf
<1>1. ASSUME NEW u \in Uploads, Client(u) \/ ClientFails(u)
      PROVE  PushInv'
  <2>1. CASE StartPush(u)
    BY <2>1 DEF StartPush, PushStep, vars, handlerVars, historyVars
  <2>2. CASE InitiateReply(u)
    BY <2>2 DEF InitiateReply, PushStep, vars, handlerVars, historyVars
  <2>3. CASE Finish(u)
    BY <2>3 DEF Finish, PushStep, vars, handlerVars, historyVars
  <2>4. CASE PrepareFails(u)
    BY <2>4 DEF PrepareFails, PushStep, vars, handlerVars, historyVars
  <2>5. CASE InitiateAbandoned(u)
    BY <2>5 DEF InitiateAbandoned, PushStep, vars, handlerVars, historyVars
  <2>6. CASE OpenFileFails(u)
    BY <2>6 DEF OpenFileFails, PushStep, vars, handlerVars, historyVars
  <2>7. CASE Interrupt(u)
    BY <2>7 DEF Interrupt, Cancel, clientVars, historyVars
  <2> QED BY <1>1, <2>1, <2>2, <2>3, <2>4, <2>5, <2>6, <2>7 DEF Client, ClientFails
<1>2. ASSUME NEW u \in Uploads, DeadlinePasses(u)
      PROVE  PushInv'
  BY <1>2 DEF DeadlinePasses, Cancel, historyVars
<1>3. ASSUME NEW u \in Uploads, SessionExpires(u)
      PROVE  PushInv'
  BY <1>3 DEF SessionExpires, Expire, clientVars, handlerVars
<1>4. ASSUME NEW c \in Calls, Worker(c) \/ ReadOrReplyLost(c)
      PROVE  PushInv'
  <2>1. CASE Spawn(c)
    <3> USE <2>1 DEF Spawn, WorkerStep, vars, handlerVars, historyVars
    <3>1. PushTypeOK'
      OBVIOUS
    <3>2. \A d \in Calls : worker'[d] = "acked" <=> worker[d] = "acked"
      OBVIOUS
    <3>3. AckedIsAnswered' /\ DeadlineBeforeExpiry'
      BY <3>2
    <3>4. OnlyRequested'
      OBVIOUS
    <3>5. AckedIsAssembled' /\ SuccessIsAcked'
      BY <3>2
    <3> QED BY <3>1, <3>3, <3>4, <3>5
  <2>2. CASE SendPart(c)
    BY <2>2 DEF SendPart, WorkerStep, vars, handlerVars, historyVars
  <2>3. CASE Acknowledged(c)
    <3> USE <2>3 DEF Acknowledged, WorkerStep, vars, handlerVars, historyVars
    <3>1. /\ PushTypeOK' /\ AckedIsAnswered' /\ OnlyRequested'
          /\ DeadlineBeforeExpiry' /\ SuccessIsAcked'
      OBVIOUS
    \* The upload is not cancelled, so its session has not expired, and every
    \* chunk has been answered OK.
    <3>2. AckedIsAssembled'
      <4> SUFFICES ASSUME NEW u \in Uploads, Total[u] > 0, AllAcked(u)'
                   PROVE  u \in assembled
        OBVIOUS
      <4>1. CASE AllAcked(u)
        BY <4>1
      <4>2. CASE ~AllAcked(u)
        <5>1. u = CallUpload[c] /\ u \notin lapsed
          BY <4>2
        <5>2. \A d \in CallsOf(u) : CallSeq[d] < Total[u] => pc[d] = "ok"
          OBVIOUS
        <5>3. \A i \in Segments(u) : \E d \in CallsOf(u) : CallSeq[d] = i /\ pc[d] = "ok"
          BY <5>2, PushAssumption DEF Segments
        <5> QED BY <5>1, <5>3 DEF IInv, CompletedIsAssembled
      <4> QED BY <4>1, <4>2
    <3> QED BY <3>1, <3>2
  <2>4. CASE Rejected(c) \/ NotSent(c) \/ ReadOrReplyLost(c)
    <3>1. PICK from \in {"reading", "sent"}, to \in {"unsent", "failed"} :
            /\ WorkerFails(c, from, to)
            /\ from = "sent" => to = "failed"
            /\ from = "reading" => to = "unsent"
      BY <2>4 DEF Rejected, NotSent, ReadOrReplyLost
    <3> USE <3>1 DEF WorkerFails, WorkerStep, vars, handlerVars, historyVars
    <3>2. PushTypeOK'
      OBVIOUS
    <3>3. \A d \in Calls : worker'[d] = "acked" <=> worker[d] = "acked"
      OBVIOUS
    <3>4. AckedIsAnswered' /\ DeadlineBeforeExpiry'
      BY <3>3
    <3>5. OnlyRequested'
      <4>1. worker[c] = from /\ worker' = [worker EXCEPT ![c] = to]
            /\ UNCHANGED <<pc, push>>
        OBVIOUS
      <4>2. pc[c] # "idle" => from = "sent"
        BY <4>1
      <4> QED BY <4>1, <4>2
    <3>6. AckedIsAssembled' /\ SuccessIsAcked'
      BY <3>3
    <3> QED BY <3>2, <3>4, <3>5, <3>6
  <2>5. CASE CancelRest(c)
    BY <2>5 DEF CancelRest, Cancel, clientVars, handlerVars, historyVars
  <2> QED BY <1>4, <2>1, <2>2, <2>3, <2>4, <2>5 DEF Worker
<1>5. ASSUME Server
      PROVE  PushInv'
  <2>1. ASSUME NEW u \in Uploads, Initiate(u), UNCHANGED clientVars
        PROVE  PushInv'
    BY <2>1, InitiateFrame DEF clientVars
  <2>2. ASSUME NEW c \in Calls, Requested(c), UploadPart(c), UNCHANGED clientVars
        PROVE  PushInv'
    <3> USE <2>2, HandlerFrame DEF clientVars
    <3>1. PushTypeOK' /\ DeadlineBeforeExpiry'
      OBVIOUS
    <3>2. AckedIsAnswered' /\ OnlyRequested'
      <4>1. /\ \A d \in Calls \ {c} : pc'[d] = pc[d]
            /\ \A d \in Calls : pc[d] = "ok" => pc'[d] = "ok"
        OBVIOUS
      <4>2. UNCHANGED <<worker, push>>
        OBVIOUS
      <4>3. AckedIsAnswered'
        BY <4>1, <4>2
      <4>4. OnlyRequested'
        BY <4>1, <4>2
      <4> QED BY <4>3, <4>4
    <3>3. AckedIsAssembled' /\ SuccessIsAcked'
      OBVIOUS
    <3> QED BY <3>1, <3>2, <3>3
  <2>3. ASSUME NEW k \in Keys, Delete(k), UNCHANGED clientVars
        PROVE  PushInv'
    BY <2>3 DEF Delete, clientVars, handlerVars, historyVars
  <2>4. CASE Crash /\ UNCHANGED clientVars
    BY <2>4, CrashFrame DEF clientVars
  <2> QED BY <1>5, <2>1, <2>2, <2>3, <2>4 DEF Server
<1>6. CASE UNCHANGED pushVars
  BY <1>6 DEF pushVars, clientVars, vars, handlerVars, historyVars
<1> QED BY <1>1, <1>2, <1>3, <1>4, <1>5, <1>6 DEF PushNext

\* The strengthened invariant of a push is an invariant.
THEOREM PushInvariant == PushSpec => []PushInv
BY PushInitInvariant, PushNextInvariant, PTL DEF PushSpec

\* The client's variables keep their types.
THEOREM PushTypeCorrect == PushSpec => []PushTypeOK
<1>1. PushInv => PushTypeOK
  BY DEF PushInv
<1> QED BY <1>1, PushInvariant, PTL

\* A push that returned no error has stored its artifact, if it is not empty.
THEOREM SuccessIsStored == PushSpec => []PushedIsStored
<1>1. PushInv => PushedIsStored
  BY DEF PushInv, SuccessIsAcked, AckedIsAssembled, PushedIsStored
<1> QED BY <1>1, PushInvariant, PTL

-----------------------------------------------------------------------------
(***************************************************************************)
(* What a successful push leaves behind.                                   *)
(*                                                                         *)
(* Several handlers may see the bitmap full, assemble and clean up.  What  *)
(* makes that safe is the order of each handler: by the time one of them   *)
(* finds all the bits set, every part has been put and every bit set, so   *)
(* that nothing of what it removes can come back.                          *)
(***************************************************************************)

\* The handlers of the chunks of an upload, and those that have set their bit.
HandlersOf(u) == {c \in CallsOf(u) : CallSeq[c] < Total[u]}
HasSetBit(c) == pc[c] \in {"count", "assemble", "cleanup", "ok"}
AllSetBits(u) == \A c \in HandlersOf(u) : HasSetBit(c)

\* Nobody has cancelled the upload, and no handler of it has failed.
Untroubled(u) == u \notin gone /\ \A c \in HandlersOf(u) : pc[c] # "err"

Clean(u) == parts[u] = {} /\ u \notin session /\ bitmapKey[u] = "absent"

\* A bit that was set is still there, unless the upload has been cleaned up.
BitsRemain(u) ==
  \A c \in HandlersOf(u) :
    HasSetBit(c) => CallSeq[c] \in bits[u] \/ (Clean(u) /\ AllSetBits(u))

BitsAreSet(u) == \A c \in HandlersOf(u) : CallSeq[c] \in bits[u] => HasSetBit(c)

\* Whoever assembles is behind the last PutObject and SETBIT of the others.
AssemblyIsLast(u) ==
  \A c \in HandlersOf(u) : pc[c] \in {"assemble", "cleanup"} => AllSetBits(u)

RemovedSoFar(u) ==
  \A c \in HandlersOf(u) : pc[c] = "cleanup" => parts[u] \intersect 0 .. next[c] - 1 = {}

AnsweredIsClean(u) ==
  Total[u] > 0 /\ (\A c \in HandlersOf(u) : pc[c] = "ok") => Clean(u)

CleanupInv ==
  \A u \in Uploads : Untroubled(u) =>
    BitsRemain(u) /\ BitsAreSet(u) /\ AssemblyIsLast(u) /\ RemovedSoFar(u)
    /\ AnsweredIsClean(u)

AckedIsClean == \A u \in Uploads : Total[u] > 0 /\ AllAcked(u) => Clean(u)

-----------------------------------------------------------------------------
(* Lemmas *)

\* An upload with chunks has a handler.
LEMMA SomeHandler ==
  ASSUME NEW u \in Uploads, Total[u] > 0
  PROVE  \E c \in HandlersOf(u) : CallSeq[c] = 0
<1>1. Total[u] \in Nat /\ 0 \in Segments(u)
  BY ServerAssumption DEF Segments
<1>2. PICK c \in CallsOf(u) : CallSeq[c] = 0
  BY <1>1, PushAssumption
<1> QED BY <1>1, <1>2 DEF HandlersOf

\* A handler that finds the bitmap full does so with the bits of all chunks.
LEMMA AllPresentIsFullBitmap ==
  ASSUME NEW u \in Uploads, bits[u] \subseteq Segments(u), AllPresent(u)
  PROVE  bits[u] = Segments(u)
<1>1. IsFiniteSet(Segments(u)) /\ Cardinality(bits[u]) = Cardinality(Segments(u))
  BY SegmentsCardinality DEF AllPresent
<1> QED BY <1>1, FS_Subset

\* A handler's chunk exists.
LEMMA HandlerSegment ==
  ASSUME NEW u \in Uploads, NEW c \in HandlersOf(u)
  PROVE  CallSeq[c] \in Segments(u)
BY ServerAssumption DEF HandlersOf, CallsOf, Segments

\* No two handlers are for the same chunk.
LEMMA OneHandlerEach ==
  ASSUME NEW u \in Uploads, NEW c \in HandlersOf(u), NEW d \in HandlersOf(u),
         CallSeq[c] = CallSeq[d]
  PROVE  c = d
<1>1. CallSeq[c] \in Segments(u) /\ c \in CallsOf(u) /\ d \in CallsOf(u)
  BY ServerAssumption DEF HandlersOf, CallsOf, Segments
<1>2. PICK e \in CallsOf(u) :
        \A f \in CallsOf(u) : CallSeq[f] = CallSeq[c] => f = e
  BY <1>1, PushAssumption
<1> QED BY <1>1, <1>2

\* A step that leaves an upload's keys, parts and handlers alone.
LEMMA UploadUntouched ==
  ASSUME NEW u \in Uploads,
         parts'[u] = parts[u], bits'[u] = bits[u], bitmapKey'[u] = bitmapKey[u],
         u \in session' <=> u \in session, gone \subseteq gone',
         \A c \in HandlersOf(u) : pc'[c] = pc[c] /\ next'[c] = next[c],
         CleanupInv, Untroubled(u)'
  PROVE  (BitsRemain(u) /\ BitsAreSet(u) /\ AssemblyIsLast(u) /\ RemovedSoFar(u)
          /\ AnsweredIsClean(u))'
<1>1. Untroubled(u)
  BY DEF Untroubled, HandlersOf, CallsOf
<1>2. Clean(u)' <=> Clean(u)
  BY DEF Clean
<1>3. \A c \in HandlersOf(u) : HasSetBit(c)' <=> HasSetBit(c)
  BY DEF HasSetBit
<1>4. HandlersOf(u)' = HandlersOf(u)
  BY DEF HandlersOf, CallsOf
<1>5. AllSetBits(u)' <=> AllSetBits(u)
  BY <1>3, <1>4 DEF AllSetBits
<1>6. BitsRemain(u)' /\ BitsAreSet(u)'
  BY <1>1, <1>2, <1>3, <1>4, <1>5 DEF CleanupInv, BitsRemain, BitsAreSet
<1>7. AssemblyIsLast(u)' /\ RemovedSoFar(u)'
  BY <1>1, <1>4, <1>5 DEF CleanupInv, AssemblyIsLast, RemovedSoFar
<1>8. AnsweredIsClean(u)'
  BY <1>1, <1>2, <1>4 DEF CleanupInv, AnsweredIsClean
<1> QED BY <1>6, <1>7, <1>8

-----------------------------------------------------------------------------
(* The steps of the server *)

\* A handler that is at work has been started for a chunk that exists.
LEMMA AtWorkIsHandler ==
  ASSUME IInv, NEW c \in Calls, pc[c] \notin {"idle", "err"}
  PROVE  c \in HandlersOf(CallUpload[c])
BY DEF IInv, SeqInRange, HandlersOf, CallsOf

\* A handler touches nothing that belongs to another upload.
LEMMA OtherUpload ==
  ASSUME IInv, NEW c \in Calls, UploadPart(c), NEW u \in Uploads, u # CallUpload[c]
  PROVE  /\ parts'[u] = parts[u] /\ bits'[u] = bits[u] /\ bitmapKey'[u] = bitmapKey[u]
         /\ u \in session' <=> u \in session
         /\ \A d \in HandlersOf(u) : pc'[d] = pc[d] /\ next'[d] = next[d]
<1> USE DEF UploadPart, PartProgress, PartStep, ResetLocals, IInv, TypeOK, HandlersOf,
            CallsOf, minioVars, redisVars, historyVars
<1>1. CASE GetSession(c) \/ PutPart(c) \/ SetBit(c) \/ BitCount(c)
  BY <1>1 DEF GetSession, PutPart, SetBit, BitCount
<1>2. CASE ReadPart(c) \/ ReadMissingPart(c) \/ (\E to \in {"cleanup", "err"} : PutFinal(c, to))
  BY <1>2 DEF ReadPart, ReadMissingPart, PutFinal
<1>3. CASE RemovePart(c, TRUE) \/ RemovePart(c, FALSE) \/ DelSession(c)
  BY <1>3 DEF RemovePart, DelSession
<1>4. CASE DelSessionFails(c) \/ PartFails(c)
  BY <1>4 DEF DelSessionFails, PartFails
<1> QED BY <1>1, <1>2, <1>3, <1>4

\* A handler keeps the cleanliness of its upload.
LEMMA HandlerKeepsCleanup ==
  ASSUME IInv, IInv', CleanupInv, "io" \notin Faults, NEW c \in Calls, UploadPart(c)
  PROVE  CleanupInv'
<1> DEFINE u == CallUpload[c]
           Inv(v) == /\ BitsRemain(v) /\ BitsAreSet(v) /\ AssemblyIsLast(v)
                     /\ RemovedSoFar(v) /\ AnsweredIsClean(v)
<1>0. /\ u \in Uploads /\ Total[u] \in Nat
      /\ c \in CallsOf(u) /\ CallSeq[c] \in Nat
  BY ServerAssumption DEF CallsOf
<1>1. UNCHANGED gone
  BY HandlerFrame
<1>2. ASSUME NEW v \in Uploads, v # u, Untroubled(v)'
      PROVE  Inv(v)'
  BY <1>1, <1>2, OtherUpload, UploadUntouched
<1>3. ASSUME Untroubled(u)'
      PROVE  Inv(u)'
  <2>1. HandlersOf(u)' = HandlersOf(u) /\ HandlersOf(u) \subseteq Calls
    BY DEF HandlersOf, CallsOf
  <2>2. u \notin gone /\ ~MayFail(u) /\ \A d \in HandlersOf(u) : pc'[d] # "err"
    BY <1>1, <1>3, <2>1 DEF Untroubled, MayFail
  <2>3. \A d \in HandlersOf(u) : d # c => pc'[d] = pc[d] /\ next'[d] = next[d]
    <3>1. next' = [next EXCEPT ![c] = next'[c]] /\ pc' = [pc EXCEPT ![c] = pc'[c]]
      BY DEF UploadPart, PartProgress, PartStep, ResetLocals, GetSession, PutPart,
             SetBit, BitCount, ReadPart, ReadMissingPart, PutFinal, RemovePart,
             DelSession, DelSessionFails, PartFails, IInv, TypeOK
    <3> QED BY <2>1, <3>1 DEF IInv, TypeOK
  <2>4. pc[c] # "err" /\ (pc'[c] = "err" => c \notin HandlersOf(u))
    BY <2>2 DEF UploadPart, PartProgress, PartStep, GetSession, PutPart,
             SetBit, BitCount, ReadPart, ReadMissingPart, PutFinal, RemovePart,
             DelSession, DelSessionFails, PartFails
  <2>5. Inv(u)
    BY <1>0, <1>1, <1>3, <2>1, <2>2, <2>3, <2>4 DEF Untroubled, CleanupInv
  <2>6. pc[c] # "idle" => c \in HandlersOf(u)
    BY <2>4, AtWorkIsHandler
  <2> USE <1>0, <2>1, <2>2, <2>3, <2>5, <2>6
      DEF BitsRemain, BitsAreSet, AssemblyIsLast, RemovedSoFar, AnsweredIsClean,
          HasSetBit, AllSetBits, Clean, IInv, TypeOK, PartStep, minioVars, redisVars
  <2>7. CASE GetSession(c)
    BY <2>7 DEF GetSession
  \* Nobody assembles yet, and the upload is not clean.
  <2>8. CASE PutPart(c)
    BY <2>8 DEF PutPart
  \* No other handler is for this bit.
  <2>9. CASE SetBit(c)
    <3>1. \A d \in HandlersOf(u) : CallSeq[d] = CallSeq[c] => d = c
      BY <2>9, OneHandlerEach DEF SetBit
    <3> USE <2>9 DEF SetBit
    <3>2. c \in HandlersOf(u) /\ ~AllSetBits(u) /\ pc'[c] = "count"
      OBVIOUS
    <3>3. bits'[u] = bits[u] \union {CallSeq[c]}
      OBVIOUS
    <3>4. BitsRemain(u)'
      BY <3>2, <3>3
    <3>5. BitsAreSet(u)'
      BY <3>1, <3>2, <3>3
    <3>6. AssemblyIsLast(u)' /\ RemovedSoFar(u)' /\ AnsweredIsClean(u)'
      BY <3>2
    <3> QED BY <3>4, <3>5, <3>6
  <2>10. CASE BitCount(c)
    <3> USE <2>10 DEF BitCount, ResetLocals
    <3>1. CASE AllPresent(u)
      <4>1. bits[u] = Segments(u)
        BY <3>1, AllPresentIsFullBitmap
      <4>2. \A d \in HandlersOf(u) : CallSeq[d] \in Segments(u)
        BY HandlerSegment
      <4>3. AllSetBits(u)
        BY <4>1, <4>2
      <4> QED BY <3>1, <4>3
    <3>2. CASE ~AllPresent(u)
      <4>1. AllSetBits(u) => Clean(u)
        <5>1. ~(Segments(u) \subseteq bits[u])
          BY <3>2, FullBitmapIsAllPresent
        <5>2. PICK i \in Segments(u) : i \notin bits[u]
          BY <5>1
        <5>3. PICK d \in CallsOf(u) : CallSeq[d] = i
          BY <5>2, PushAssumption
        <5>4. d \in HandlersOf(u)
          BY <5>2, <5>3 DEF HandlersOf, Segments
        <5> QED BY <5>2, <5>3, <5>4
      <4> QED BY <3>2, <4>1
    <3> QED BY <3>1, <3>2
  <2>11. CASE ReadPart(c) \/ PutFinal(c, "cleanup")
    BY <2>11 DEF ReadPart, PutFinal, ResetLocals
  <2>12. CASE RemovePart(c, TRUE)
    BY <2>12 DEF RemovePart
  \* All parts are removed, and nobody can put one any more.
  <2>13. CASE DelSession(c)
    <3> USE <2>13 DEF DelSession, ResetLocals
    <3>1. parts[u] = {}
      BY DEF Segments
    <3>2. AllSetBits(u)
      OBVIOUS
    <3>3. Clean(u)' /\ AllSetBits(u)'
      BY <3>1, <3>2
    <3> QED BY <3>3
  <2>14. CASE \/ ReadMissingPart(c) \/ PutFinal(c, "err") \/ RemovePart(c, FALSE)
              \/ DelSessionFails(c) \/ PartFails(c)
    <3>1. CASE ReadMissingPart(c)
      <4>1. pc[c] = "assemble" /\ pc'[c] = "err"
        BY <3>1 DEF ReadMissingPart, PartStep, IInv, TypeOK
      <4> QED BY <2>2, <2>6, <4>1
    <3>2. CASE ~ReadMissingPart(c)
      BY <2>2, <2>14, <3>2 DEF PutFinal, RemovePart, DelSessionFails, PartFails
    <3> QED BY <3>1, <3>2
  <2> QED BY <2>7, <2>8, <2>9, <2>10, <2>11, <2>12, <2>13, <2>14 DEF UploadPart, PartProgress
<1> QED BY <1>2, <1>3 DEF CleanupInv

\* A session is opened before any chunk of the upload is handled.
LEMMA InitiateKeepsCleanup ==
  ASSUME IInv, CleanupInv, NEW u \in Uploads, Initiate(u)
  PROVE  CleanupInv'
<1> DEFINE Inv(v) == /\ BitsRemain(v) /\ BitsAreSet(v) /\ AssemblyIsLast(v)
                     /\ RemovedSoFar(v) /\ AnsweredIsClean(v)
<1> USE DEF IInv, TypeOK, InitiateStep, minioVars, redisVars, historyVars
<1>1. CASE CheckBucket(u) \/ MakeBucket(u) \/ InitiateFails(u)
  <2>1. UNCHANGED <<parts, session, bits, bitmapKey, pc, next, gone>>
    BY <1>1 DEF CheckBucket, MakeBucket, InitiateFails
  <2> QED BY <2>1, UploadUntouched DEF CleanupInv
<1>2. ASSUME NEW reply \in {"ok", "err"}, SaveSession(u, reply)
      PROVE  CleanupInv'
  <2>1. /\ UNCHANGED <<parts, pc, next, gone>>
        /\ \A v \in Uploads : v # u => /\ bits'[v] = bits[v]
                                       /\ bitmapKey'[v] = bitmapKey[v]
                                       /\ v \in session' <=> v \in session
    BY <1>2 DEF SaveSession
  <2>2. ASSUME NEW v \in Uploads, v # u, Untroubled(v)'
        PROVE  Inv(v)'
    BY <2>1, <2>2, UploadUntouched
  <2>3. ASSUME Untroubled(u)'
        PROVE  Inv(u)'
    <3>1. HandlersOf(u)' = HandlersOf(u) /\ HandlersOf(u) \subseteq Calls
      BY DEF HandlersOf, CallsOf
    <3>2. \A c \in HandlersOf(u) : pc[c] = "idle" /\ pc'[c] = "idle"
      BY <1>2, <2>1, <2>3, <3>1
      DEF SaveSession, SessionIsOlder, Finished, HandlersOf, CallsOf, Untroubled
    <3>3. bits'[u] = {}
      BY <1>2 DEF SaveSession
    <3>4. BitsRemain(u)' /\ BitsAreSet(u)' /\ AssemblyIsLast(u)' /\ RemovedSoFar(u)'
      BY <3>1, <3>2, <3>3
      DEF BitsRemain, BitsAreSet, AssemblyIsLast, RemovedSoFar, HasSetBit
    <3>5. AnsweredIsClean(u)'
      BY <3>1, <3>2, SomeHandler DEF AnsweredIsClean
    <3> QED BY <3>4, <3>5
  <2> QED BY <2>2, <2>3 DEF CleanupInv
<1> QED BY <1>1, <1>2 DEF Initiate

\* The death of the server fails the handlers that are at work.
LEMMA CrashKeepsCleanup ==
  ASSUME IInv, CleanupInv, Crash
  PROVE  CleanupInv'
<1> SUFFICES ASSUME NEW u \in Uploads, Untroubled(u)'
             PROVE  (BitsRemain(u) /\ BitsAreSet(u) /\ AssemblyIsLast(u)
                     /\ RemovedSoFar(u) /\ AnsweredIsClean(u))'
  BY DEF CleanupInv
<1>1. UNCHANGED <<parts, session, bits, bitmapKey, gone>>
  BY DEF Crash, minioVars, redisVars
<1>2. \A c \in HandlersOf(u) : pc'[c] = pc[c] /\ next'[c] = next[c]
  BY DEF Crash, Untroubled, HandlersOf, CallsOf
<1> QED BY <1>1, <1>2, UploadUntouched

\* An expiry concerns uploads that were cancelled at their deadline.
LEMMA ExpiryKeepsCleanup ==
  ASSUME IInv, CleanupInv, NEW u \in gone, Expire(u)
  PROVE  CleanupInv'
<1> SUFFICES ASSUME NEW v \in Uploads, Untroubled(v)'
             PROVE  (BitsRemain(v) /\ BitsAreSet(v) /\ AssemblyIsLast(v)
                     /\ RemovedSoFar(v) /\ AnsweredIsClean(v))'
  BY DEF CleanupInv
<1>1. v # u /\ UNCHANGED <<parts, pc, next, gone>>
  BY DEF Expire, Untroubled, minioVars, handlerVars
<1>2. bits'[v] = bits[v] /\ bitmapKey'[v] = bitmapKey[v] /\ (v \in session' <=> v \in session)
  BY <1>1 DEF Expire, IInv, TypeOK
<1> QED BY <1>1, <1>2, UploadUntouched

-----------------------------------------------------------------------------
(* The steps of a push *)

\* Before anything is pushed there is nothing to clean up.
LEMMA CleanupInitially == PushInit => CleanupInv
<1> SUFFICES ASSUME PushInit, NEW u \in Uploads
             PROVE  BitsRemain(u) /\ BitsAreSet(u) /\ AssemblyIsLast(u)
                    /\ RemovedSoFar(u) /\ AnsweredIsClean(u)
  BY DEF CleanupInv
<1>1. \A c \in HandlersOf(u) : pc[c] = "idle"
  BY DEF PushInit, Init, HandlersOf, CallsOf
<1>2. bits[u] = {}
  BY DEF PushInit, Init
<1>3. BitsRemain(u) /\ BitsAreSet(u) /\ AssemblyIsLast(u) /\ RemovedSoFar(u)
  BY <1>1, <1>2 DEF BitsRemain, BitsAreSet, AssemblyIsLast, RemovedSoFar, HasSetBit
<1>4. AnsweredIsClean(u)
  BY <1>1, SomeHandler DEF AnsweredIsClean
<1> QED BY <1>3, <1>4

\* What a deletion removes of an upload does not come back, and nothing says that
\* it is there.
LEMMA DeletionKeepsCleanup ==
  ASSUME IInv, CleanupInv, NEW k \in Keys, Delete(k)
  PROVE  CleanupInv'
<1>1. UNCHANGED <<session, bits, bitmapKey, pc, next, gone>>
  BY DEF Delete, redisVars, handlerVars
<1>2. \A u \in Uploads : parts'[u] \subseteq parts[u]
  BY DEF Delete
<1> SUFFICES ASSUME NEW u \in Uploads, Untroubled(u)'
             PROVE  /\ BitsRemain(u)' /\ BitsAreSet(u)' /\ AssemblyIsLast(u)'
                    /\ RemovedSoFar(u)' /\ AnsweredIsClean(u)'
  BY DEF CleanupInv
<1>3. HandlersOf(u)' = HandlersOf(u)
  BY DEF HandlersOf, CallsOf
<1>4. Untroubled(u)
  BY <1>1, <1>3 DEF Untroubled
<1>5. Clean(u) => Clean(u)'
  BY <1>1, <1>2 DEF Clean
<1>6. \A c \in HandlersOf(u) : HasSetBit(c)' <=> HasSetBit(c)
  BY <1>1 DEF HasSetBit
<1>7. AllSetBits(u)' <=> AllSetBits(u)
  BY <1>3, <1>6 DEF AllSetBits
<1>8. BitsRemain(u)' /\ BitsAreSet(u)'
  BY <1>1, <1>3, <1>4, <1>5, <1>6, <1>7 DEF CleanupInv, BitsRemain, BitsAreSet
<1>9. AssemblyIsLast(u)' /\ RemovedSoFar(u)'
  BY <1>1, <1>2, <1>3, <1>4, <1>7 DEF CleanupInv, AssemblyIsLast, RemovedSoFar
<1>10. AnsweredIsClean(u)'
  BY <1>1, <1>3, <1>4, <1>5 DEF CleanupInv, AnsweredIsClean
<1> QED BY <1>8, <1>9, <1>10

\* Every step of a push keeps the cleanliness of its uploads.
LEMMA PushKeepsCleanup ==
  ASSUME PushInv, PushInv', CleanupInv, "io" \notin Faults, [PushNext]_pushVars
  PROVE  CleanupInv'
<1>0. IInv /\ IInv'
  BY DEF PushInv
<1>1. ASSUME UNCHANGED <<parts, session, bits, bitmapKey, pc, next>>, gone \subseteq gone'
      PROVE  CleanupInv'
  BY <1>1, UploadUntouched DEF CleanupInv
<1>2. ASSUME NEW u \in Uploads, Client(u) \/ ClientFails(u) \/ DeadlinePasses(u)
      PROVE  CleanupInv'
  BY <1>1, <1>2
  DEF Client, ClientFails, StartPush, InitiateReply, Finish, PrepareFails,
      InitiateAbandoned, OpenFileFails, Interrupt, DeadlinePasses, Cancel,
      vars, minioVars, redisVars, handlerVars
<1>3. ASSUME NEW u \in Uploads, SessionExpires(u)
      PROVE  CleanupInv'
  BY <1>0, <1>3, ExpiryKeepsCleanup DEF SessionExpires, PushInv, DeadlineBeforeExpiry
<1>4. ASSUME NEW c \in Calls, Worker(c) \/ ReadOrReplyLost(c)
      PROVE  CleanupInv'
  BY <1>1, <1>4
  DEF Worker, Spawn, SendPart, Acknowledged, Rejected, NotSent, CancelRest,
      ReadOrReplyLost, WorkerFails, Cancel, vars, minioVars, redisVars, handlerVars
<1>5. ASSUME NEW k \in Keys, Delete(k)
      PROVE  CleanupInv'
  BY <1>0, <1>5, DeletionKeepsCleanup
<1>6. CASE Server
  BY <1>0, <1>5, <1>6, InitiateKeepsCleanup, HandlerKeepsCleanup, CrashKeepsCleanup DEF Server
<1>7. CASE UNCHANGED pushVars
  BY <1>1, <1>7 DEF pushVars, vars, minioVars, redisVars, handlerVars
<1> QED BY <1>2, <1>3, <1>4, <1>6, <1>7 DEF PushNext

\* An acknowledged upload has no handler at work.
LEMMA AckedHandlers ==
  ASSUME PushInv, NEW u \in Uploads, AllAcked(u)
  PROVE  \A c \in HandlersOf(u) : pc[c] = "ok"
BY DEF PushInv, AckedIsAnswered, AllAcked, HandlersOf, CallsOf

\* What has been cleaned up stays so once all chunks are acknowledged.
LEMMA AckedStaysClean ==
  ASSUME PushInv, NEW u \in Uploads, Total[u] > 0, AllAcked(u), Clean(u),
         [PushNext]_pushVars
  PROVE  Clean(u)'
<1>0. IInv
  BY DEF PushInv
<1>1. \A c \in HandlersOf(u) : pc[c] = "ok"
  BY AckedHandlers
<1>2. ASSUME UNCHANGED <<parts, session, bitmapKey>>
      PROVE  Clean(u)'
  BY <1>2 DEF Clean
<1>3. ASSUME NEW v \in Uploads, Client(v) \/ ClientFails(v) \/ DeadlinePasses(v)
      PROVE  Clean(u)'
  BY <1>2, <1>3
  DEF Client, ClientFails, StartPush, InitiateReply, Finish, PrepareFails,
      InitiateAbandoned, OpenFileFails, Interrupt, DeadlinePasses, Cancel,
      vars, minioVars, redisVars
<1>4. ASSUME NEW v \in Uploads, SessionExpires(v)
      PROVE  Clean(u)'
  BY <1>0, <1>4 DEF SessionExpires, Expire, Clean, IInv, TypeOK, minioVars
<1>5. ASSUME NEW c \in Calls, Worker(c) \/ ReadOrReplyLost(c)
      PROVE  Clean(u)'
  BY <1>2, <1>5
  DEF Worker, Spawn, SendPart, Acknowledged, Rejected, NotSent, CancelRest,
      ReadOrReplyLost, WorkerFails, Cancel, vars, minioVars, redisVars
<1>6. ASSUME NEW v \in Uploads, Initiate(v)
      PROVE  Clean(u)'
  <2> USE <1>6 DEF Initiate, InitiateStep, minioVars, redisVars
  <2>1. CASE \E reply \in {"ok", "err"} : SaveSession(v, reply)
    <3>1. initPc[v] = "save"
      BY <2>1 DEF SaveSession
    <3>2. PICK c \in HandlersOf(u) : pc[c] = "ok"
      BY <1>1, SomeHandler
    <3>3. v # u
      BY <1>0, <3>1, <3>2 DEF IInv, SessionIsOlder, Finished, HandlersOf, CallsOf
    <3> QED BY <1>0, <2>1, <3>3 DEF SaveSession, Clean, IInv, TypeOK
  <2>2. CASE ~\E reply \in {"ok", "err"} : SaveSession(v, reply)
    BY <1>2, <2>2 DEF CheckBucket, MakeBucket, InitiateFails
  <2> QED BY <2>1, <2>2
<1>7. ASSUME NEW c \in Calls, UploadPart(c)
      PROVE  Clean(u)'
  <2>1. CASE CallUpload[c] # u
    BY <1>0, <1>7, <2>1, OtherUpload DEF Clean
  <2>2. CASE CallUpload[c] = u
    <3>1. pc[c] \in {"idle", "err", "ok"}
      BY <1>0, <1>1, <2>2, AtWorkIsHandler
    <3>2. GetSession(c) \/ PartFails(c)
      BY <1>7, <3>1
      DEF UploadPart, PartProgress, PartStep, PutPart, SetBit, BitCount, ReadPart,
          ReadMissingPart, PutFinal, RemovePart, DelSession, DelSessionFails
    <3> QED BY <1>2, <3>2 DEF GetSession, PartFails, minioVars, redisVars
  <2> QED BY <2>1, <2>2
<1>8. ASSUME (\E k \in Keys : Delete(k)) \/ Crash
      PROVE  Clean(u)'
  <2>1. CASE Crash
    BY <1>2, <2>1 DEF Crash, minioVars, redisVars
  <2>2. ASSUME NEW k \in Keys, Delete(k) PROVE Clean(u)'
    BY <2>2 DEF Delete, Clean, redisVars
  <2> QED BY <1>8, <2>1, <2>2
<1>9. CASE UNCHANGED pushVars
  BY <1>2, <1>9 DEF pushVars, vars, minioVars, redisVars
<1> QED BY <1>3, <1>4, <1>5, <1>6, <1>7, <1>8, <1>9 DEF PushNext, Server

\* The last acknowledgement comes from an upload that is not cancelled and has
\* been cleaned up.
LEMMA AckedCleanStep ==
  ASSUME PushInv, CleanupInv, AckedIsClean, [PushNext]_pushVars
  PROVE  AckedIsClean'
<1> SUFFICES ASSUME NEW u \in Uploads, Total[u] > 0, AllAcked(u)'
             PROVE  Clean(u)'
  BY DEF AckedIsClean
<1>1. CASE AllAcked(u)
  BY <1>1, AckedStaysClean DEF AckedIsClean
<1>2. CASE ~AllAcked(u)
  <2>1. PICK c \in CallsOf(u) : worker[c] # "acked" /\ worker'[c] = "acked"
    BY <1>2 DEF AllAcked, CallsOf
  <2>2. c \in Calls /\ worker \in [Calls -> WorkerStates]
    BY DEF CallsOf, PushInv, PushTypeOK
  <2>3. Acknowledged(c)
    <3>1. ASSUME UNCHANGED worker PROVE FALSE
      BY <2>1, <3>1
    <3>2. PICK d \in Calls : Worker(d) \/ ReadOrReplyLost(d)
      BY <3>1
      DEF PushNext, Server, Client, ClientFails, StartPush, InitiateReply, Finish,
          PrepareFails, InitiateAbandoned, OpenFileFails, Interrupt, PushStep,
          DeadlinePasses, SessionExpires, clientVars, pushVars
    <3>3. Acknowledged(d)
      BY <2>1, <2>2, <3>2
      DEF Worker, Spawn, SendPart, Rejected, NotSent, CancelRest, ReadOrReplyLost,
          WorkerFails, WorkerStep, clientVars
    <3>4. d = c
      BY <2>1, <2>2, <3>3 DEF Acknowledged, WorkerStep
    <3> QED BY <3>3, <3>4
  <2>4. UNCHANGED vars /\ u \notin gone
    BY <2>1, <2>3 DEF Acknowledged, CallsOf
  <2>5. \A d \in HandlersOf(u) : pc[d] = "ok"
    <3> SUFFICES ASSUME NEW d \in HandlersOf(u) PROVE pc[d] = "ok"
      OBVIOUS
    <3>1. CASE d = c
      BY <2>3, <3>1 DEF Acknowledged
    <3>2. CASE d # c
      <4>1. worker[d] = "acked"
        BY <2>2, <2>3, <3>2 DEF Acknowledged, WorkerStep, AllAcked, HandlersOf, CallsOf
      <4> QED BY <4>1 DEF PushInv, AckedIsAnswered, HandlersOf, CallsOf
    <3> QED BY <3>1, <3>2
  <2>6. Clean(u)
    BY <2>4, <2>5 DEF CleanupInv, Untroubled, AnsweredIsClean
  <2> QED BY <2>4, <2>6 DEF Clean, vars, minioVars, redisVars
<1> QED BY <1>1, <1>2

-----------------------------------------------------------------------------
\* Unless a call of a store fails by itself, a push that returned no error has
\* left no part, no session and no bitmap, for any number of handlers that
\* clean up at the same time.
THEOREM SuccessIsClean == PushSpec => []SuccessLeavesNothing
<1>1. CASE "io" \in Faults
  <2>1. SuccessLeavesNothing
    BY <1>1 DEF SuccessLeavesNothing
  <2> QED BY <2>1, PTL
<1>2. CASE "io" \notin Faults
  <2>1. PushInit => AckedIsClean
    <3> SUFFICES ASSUME PushInit, NEW u \in Uploads, Total[u] > 0 PROVE ~AllAcked(u)
      BY DEF AckedIsClean
    <3>1. PICK c \in HandlersOf(u) : TRUE
      BY SomeHandler
    <3> QED BY <3>1 DEF PushInit, AllAcked, HandlersOf, CallsOf
  <2>2. PushInv /\ PushInv' /\ CleanupInv /\ AckedIsClean /\ [PushNext]_pushVars
        => CleanupInv' /\ AckedIsClean'
    BY <1>2, PushKeepsCleanup, AckedCleanStep
  <2>3. PushInv /\ AckedIsClean => SuccessLeavesNothing
    BY DEF PushInv, SuccessIsAcked, AckedIsClean, SuccessLeavesNothing, Clean
  <2> QED BY <2>1, <2>2, <2>3, CleanupInitially, PushInvariant, PTL DEF PushSpec
<1> QED BY <1>1, <1>2

-----------------------------------------------------------------------------
(* The refinement *)

USE DEF Store!Start, Store!Commit, Store!Succeed, Store!Fail, Store!Remove

\* An upload is empty or it is not.
LEMMA EmptyOrNot == ASSUME NEW u \in Uploads PROVE Total[u] = 0 \/ Total[u] > 0
BY ServerAssumption

\* The abstract store starts empty as well.
LEMMA StoreInit == PushInit => Store!Init
BY DEF PushInit, Init, Store!Init, Content, Outcome

\* A handler that is still at work belongs to a push that has not succeeded,
\* and the object it writes is whole.
LEMMA FinalWriteIsCommit ==
  ASSUME PushInv, NEW c \in Calls, NEW to \in {"cleanup", "err"}, PutFinal(c, to),
         Requested(c), UNCHANGED clientVars
  PROVE  Store!Commit(CallUpload[c])
<1> DEFINE u == CallUpload[c]
<1>1. u \in Uploads /\ Target[u] \in Keys /\ None \notin Objects
  BY ServerAssumption DEF Objects
<1>2. pc[c] = "assemble" /\ next[c] = Total[u] /\ CallSeq[c] < Total[u]
  BY DEF PutFinal, PartStep, PushInv, IInv, SeqInRange
<1>3. copied[c] = Segments(u)
  BY <1>2 DEF PushInv, IInv, CopiedInOrder, Segments
<1>4. push[u] \in {"uploading", "err"}
  <2>1. worker[c] # "none" /\ worker[c] # "acked"
    BY <1>2 DEF Requested, PushInv, AckedIsAnswered
  <2>2. push[u] # "ok"
    BY <1>1, <1>2, <2>1 DEF PushInv, SuccessIsAcked, AllAcked, CallsOf
  <2> QED BY <2>1, <2>2 DEF PushInv, OnlyRequested
<1>5. Outcome[u] \in {"pending", "failed"} /\ Outcome' = Outcome
  BY <1>1, <1>4 DEF Outcome, clientVars
<1>6. artifact' = [artifact EXCEPT ![Target[u]] = [upload |-> u, chunks |-> Segments(u)]]
  BY <1>3 DEF PutFinal
<1>7. Content' = [Content EXCEPT ![Target[u]] = u]
  <2>1. artifact \in [Keys -> Objects \union {None}]
    BY DEF PushInv, IInv, TypeOK
  <2>2. [upload |-> u, chunks |-> Segments(u)] # None
    BY <1>1, ServerAssumption DEF Objects, Segments
  <2>3. Content'[Target[u]] = u
    BY <1>1, <1>6, <2>1, <2>2 DEF Content
  <2>4. \A k \in Keys \ {Target[u]} : Content'[k] = Content[k]
    BY <1>6, <2>1 DEF Content
  <2> HIDE DEF u
  <2> QED BY <1>1, <2>3, <2>4 DEF Content
<1>8. assembled' = assembled \union {u}
  BY DEF PutFinal
<1>9. Total[u] # 0
  BY <1>1, <1>2, ServerAssumption
<1> QED BY <1>1, <1>5, <1>7, <1>8, <1>9

\* Every step of a push is a step of the abstract store, or leaves it alone.
LEMMA StoreStep == PushInv /\ [PushNext]_pushVars => [Store!Next]_(Store!vars)
<1> SUFFICES ASSUME PushInv, [PushNext]_pushVars PROVE [Store!Next]_(Store!vars)
  OBVIOUS
<1> USE DEF Store!vars, Store!Next
<1>0. push \in [Uploads -> PushStates] /\ artifact \in [Keys -> Objects \union {None}]
  BY DEF PushInv, PushTypeOK, IInv, TypeOK
<1>1. ASSUME UNCHANGED <<artifact, push, assembled>>
      PROVE  UNCHANGED Store!vars
  BY <1>1 DEF Content, Outcome
<1>2. ASSUME NEW u \in Uploads, NEW from \in PushStates, NEW to \in PushStates,
             PushStep(u, from, to), UNCHANGED vars
      PROVE  /\ Content' = Content /\ assembled' = assembled
             /\ Outcome' = [Outcome EXCEPT ![u] = Outcome'[u]]
  BY <1>0, <1>2 DEF PushStep, Content, Outcome, vars, minioVars, historyVars, PushStates
<1>3. ASSUME NEW u \in Uploads, Client(u) \/ ClientFails(u)
      PROVE  [Store!Next]_(Store!vars)
  <2> USE <1>0, <1>2 DEF Outcome, PushStep, PushStates
  <2>1. CASE StartPush(u)
    <3>1. Store!Start(u)
      BY <2>1 DEF StartPush
    <3> QED BY <3>1
  <2>2. CASE InitiateReply(u)
    BY <2>2 DEF InitiateReply
  <2>3. CASE Finish(u)
    <3>1. CASE AllAcked(u)
      <4> DEFINE Empty == {v \in Uploads : Total[v] = 0}
      <4>1. u \in assembled \union Empty
        <5>1. Total[u] > 0 => u \in assembled
          BY <3>1 DEF PushInv, AckedIsAssembled
        <5>2. Total[u] = 0 => u \in Empty
          OBVIOUS
        <5> HIDE DEF Empty
        <5> QED BY <5>1, <5>2, EmptyOrNot
      <4>2. Store!Succeed(u)
        BY <2>3, <3>1, <4>1 DEF Finish
      <4> QED BY <4>2
    <3>2. CASE ~AllAcked(u)
      <4>1. Store!Fail(u)
        BY <2>3, <3>2 DEF Finish
      <4> QED BY <4>1
    <3> QED BY <3>1, <3>2
  <2>4. CASE PrepareFails(u) \/ InitiateAbandoned(u) \/ OpenFileFails(u)
    <3>1. Store!Fail(u)
      BY <2>4 DEF PrepareFails, InitiateAbandoned, OpenFileFails
    <3> QED BY <3>1
  <2>5. CASE Interrupt(u)
    BY <2>5, <1>1 DEF Interrupt, Cancel, clientVars, historyVars, minioVars
  <2> QED BY <1>3, <2>1, <2>2, <2>3, <2>4, <2>5 DEF Client, ClientFails
<1>4. ASSUME NEW u \in Uploads, DeadlinePasses(u) \/ SessionExpires(u)
      PROVE  UNCHANGED Store!vars
  BY <1>1, <1>4
  DEF DeadlinePasses, SessionExpires, Cancel, Expire, clientVars, historyVars, minioVars
<1>5. ASSUME NEW c \in Calls, Worker(c) \/ ReadOrReplyLost(c)
      PROVE  UNCHANGED Store!vars
  BY <1>1, <1>5
  DEF Worker, Spawn, SendPart, Acknowledged, Rejected, NotSent, CancelRest,
      ReadOrReplyLost, WorkerFails, WorkerStep, Cancel, clientVars, vars, historyVars,
      minioVars
<1>6. ASSUME NEW u \in Uploads, Initiate(u), UNCHANGED clientVars
      PROVE  UNCHANGED Store!vars
  BY <1>1, <1>6, InitiateFrame DEF clientVars
<1>7. ASSUME NEW c \in Calls, Requested(c), UploadPart(c), UNCHANGED clientVars
      PROVE  [Store!Next]_(Store!vars)
  <2>1. CASE \E to \in {"cleanup", "err"} : PutFinal(c, to)
    <3>1. Store!Commit(CallUpload[c])
      BY <1>7, <2>1, FinalWriteIsCommit
    <3> QED BY <3>1, ServerAssumption
  <2>2. CASE ~\E to \in {"cleanup", "err"} : PutFinal(c, to)
    <3>1. UNCHANGED <<artifact, assembled>>
      BY <1>7, <2>2
      DEF UploadPart, PartProgress, GetSession, PutPart, SetBit, BitCount, ReadPart,
          ReadMissingPart, RemovePart, DelSession, DelSessionFails, PartFails,
          historyVars, minioVars
    <3> QED BY <1>1, <1>7, <3>1 DEF clientVars
  <2> QED BY <2>1, <2>2
<1>8. ASSUME NEW k \in Keys, Delete(k), UNCHANGED clientVars
      PROVE  [Store!Next]_(Store!vars)
  <2>1. artifact' = [j \in Keys |-> IF j \in Below[k] THEN None ELSE artifact[j]]
    BY <1>8 DEF Delete
  <2>2. Content' = [j \in Keys |-> IF j \in Below[k] THEN None ELSE Content[j]]
    BY <1>0, <2>1 DEF Content
  <2>3. Outcome' = Outcome /\ assembled' = assembled
    BY <1>8 DEF Delete, Outcome, clientVars, historyVars
  <2> QED BY <2>2, <2>3
<1>9. ASSUME Crash, UNCHANGED clientVars
      PROVE  UNCHANGED Store!vars
  BY <1>1, <1>9, CrashFrame DEF PushInv, clientVars
<1>10. CASE UNCHANGED pushVars
  BY <1>1, <1>10 DEF pushVars, clientVars, vars, minioVars, historyVars
<1> QED
  BY <1>3, <1>4, <1>5, <1>6, <1>7, <1>8, <1>9, <1>10 DEF PushNext, Server

\* Pushes, with all their sessions, parts, handlers and failures, implement an
\* atomic artifact store.
THEOREM PushImplementsStore == PushSpec => ImplementsStore
BY StoreInit, StoreStep, PushInvariant, PTL DEF PushSpec, ImplementsStore, Store!Spec

\* After a push has returned no error its content does not appear again.
THEOREM SuccessIsFinal == PushSpec => NoWriteAfterSuccess
<1>1. ASSUME PushInv, [Store!Next]_(Store!vars),
             NEW u \in Uploads, NEW k \in Keys, push[u] = "ok", Content[k] # u
      PROVE  Content'[k] # u
  <2>1. Outcome[u] = "stored"
    BY <1>1 DEF Outcome
  <2>2. Content = [j \in Keys |-> Content[j]]
    BY DEF Content
  <2>3. u # None
    BY ServerAssumption
  <2> QED BY <1>1, <2>1, <2>2, <2>3 DEF Store!Next, Store!vars
<1>2. PushInv /\ [PushNext]_pushVars
      => [\A u \in Uploads : \A k \in Keys :
            push[u] = "ok" /\ Content[k] # u => Content'[k] # u]_pushVars
  BY <1>1, StoreStep
<1> QED BY <1>2, PushInvariant, PTL DEF PushSpec, NoWriteAfterSuccess
=============================================================================
