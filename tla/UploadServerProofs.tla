------------------------- MODULE UploadServerProofs -------------------------
(***************************************************************************)
(* Proofs about UploadServer, for every set of uploads and calls, every    *)
(* number of chunks and every combination of failures.                     *)
(***************************************************************************)
EXTENDS UploadServer, FiniteSetTheorems, TLAPS

-----------------------------------------------------------------------------
(* The inductive invariant *)

\* Only chunks that exist get past the check of the sequence number.
SeqInRange ==
  \A c \in Calls : pc[c] \notin {"idle", "err"} => CallSeq[c] < Total[CallUpload[c]]

\* A session exists only once SaveSession is through, and no part is handled
\* before: the handler cannot be past its GET of the session otherwise.
SessionIsOlder ==
  /\ \A u \in session : initPc[u] \in Finished
  /\ \A c \in Calls : pc[c] \notin {"idle", "err"} => initPc[CallUpload[c]] \in Finished

\* A part is stored before its bit is set, and its bit is set before the bits
\* are counted.
PartThenBitThenCount ==
  \A c \in Calls :
    LET u == CallUpload[c]
    IN  /\ pc[c] = "setBit" /\ u \notin assembled \union wiped => CallSeq[c] \in parts[u]
        /\ /\ pc[c] \in {"count", "assemble", "cleanup", "ok"}
           /\ u \notin assembled \union lapsed
           => CallSeq[c] \in bits[u]

CleanupAfterAssembly ==
  \A c \in Calls : pc[c] = "cleanup" => CallUpload[c] \in assembled

\* The pipe holds the parts in order and without gaps.
CopiedInOrder ==
  \A c \in Calls : pc[c] = "assemble" => copied[c] = 0 .. next[c] - 1

IInv ==
  /\ TypeOK
  /\ SeqInRange
  /\ SessionIsOlder
  /\ PartThenBitThenCount
  /\ CleanupAfterAssembly
  /\ CopiedInOrder
  /\ PartsKeptUntilAssembled
  /\ CompletedIsAssembled
  /\ ArtifactsAreWhole
  /\ SessionEndsForAReason

-----------------------------------------------------------------------------
(* Lemmas *)

\* An upload has as many chunks as the server computes.
LEMMA SegmentsCardinality ==
  ASSUME NEW u \in Uploads
  PROVE  IsFiniteSet(Segments(u)) /\ Cardinality(Segments(u)) = Total[u]
<1>1. Total[u] \in Nat /\ 0 \in Int /\ Total[u] - 1 \in Int
  BY ServerAssumption
<1>2. Cardinality(0 .. Total[u] - 1) = IF 0 > Total[u] - 1 THEN 0 ELSE Total[u] - 1 - 0 + 1
  BY <1>1, FS_Interval
<1>3. IsFiniteSet(0 .. Total[u] - 1)
  BY <1>1, FS_Interval
<1> QED BY <1>1, <1>2, <1>3 DEF Segments

\* A handler whose upload has the bits of all chunks finds the bitmap full.
LEMMA FullBitmapIsAllPresent ==
  ASSUME NEW u \in Uploads, bits[u] \subseteq Segments(u), Segments(u) \subseteq bits[u]
  PROVE  AllPresent(u)
<1>1. bits[u] = Segments(u)
  OBVIOUS
<1> QED BY <1>1, SegmentsCardinality DEF AllPresent

\* The parts before the next one, with the next one.
LEMMA NextPart ==
  ASSUME NEW n \in Nat
  PROVE  (0 .. n - 1) \union {n} = 0 .. (n + 1) - 1
OBVIOUS

\* The inductive invariant holds when the server and its stores are empty.
LEMMA InitInvariant == Init => IInv
<1> SUFFICES ASSUME Init PROVE IInv
  OBVIOUS
<1> USE DEF Init
<1>1. TypeOK
  BY DEF TypeOK, InitiateStates, PartStates
<1>2. PartsKeptUntilAssembled /\ ArtifactsAreWhole /\ SessionEndsForAReason
  BY DEF PartsKeptUntilAssembled, ArtifactsAreWhole, SessionEndsForAReason
<1>3. SeqInRange /\ SessionIsOlder /\ PartThenBitThenCount
  BY DEF SeqInRange, SessionIsOlder, PartThenBitThenCount
<1>4. CleanupAfterAssembly /\ CopiedInOrder
  BY DEF CleanupAfterAssembly, CopiedInOrder
<1>5. CompletedIsAssembled
  <2> SUFFICES ASSUME NEW u \in Uploads, Total[u] > 0
               PROVE  ~\A i \in Segments(u) :
                          \E c \in CallsOf(u) : CallSeq[c] = i /\ pc[c] = "ok"
    BY DEF CompletedIsAssembled
  <2>1. 0 \in Segments(u)
    BY ServerAssumption DEF Segments
  <2> QED BY <2>1 DEF CallsOf
<1> QED BY <1>1, <1>2, <1>3, <1>4, <1>5 DEF IInv

\* InitiateUpload keeps the inductive invariant: it makes the session of an
\* upload no part of which is handled yet.
LEMMA InitiateInvariant ==
  ASSUME IInv, NEW u \in Uploads, Initiate(u)
  PROVE  IInv'
<1> USE ServerAssumption DEF IInv, TypeOK, SeqInRange, SessionIsOlder,
    PartThenBitThenCount, CleanupAfterAssembly, CopiedInOrder,
    PartsKeptUntilAssembled, CompletedIsAssembled, ArtifactsAreWhole,
    SessionEndsForAReason,
    Segments, CallsOf, InitiateStates, PartStates, Finished, Objects,
    vars, minioVars, redisVars, handlerVars, historyVars, MayFail, ResetLocals
<1>1. CASE CheckBucket(u)
  BY <1>1 DEF CheckBucket, InitiateStep, BucketFor
<1>2. CASE MakeBucket(u)
  BY <1>2 DEF MakeBucket, InitiateStep, BucketFor
<1>3. ASSUME NEW reply \in {"ok", "err"}, SaveSession(u, reply)
      PROVE  IInv'
  <2> USE <1>3 DEF SaveSession, InitiateStep
  <2>1. \A c \in CallsOf(u) : pc[c] \in {"idle", "err"}
    OBVIOUS
  <2>2. TypeOK'
    OBVIOUS
  <2>3. SeqInRange' /\ SessionIsOlder'
    OBVIOUS
  <2>4. PartThenBitThenCount'
    BY <2>1
  <2>5. CleanupAfterAssembly' /\ CopiedInOrder' /\ ArtifactsAreWhole'
    OBVIOUS
  <2>6. PartsKeptUntilAssembled' /\ SessionEndsForAReason'
    OBVIOUS
  <2>7. CompletedIsAssembled'
    OBVIOUS
  <2> QED BY <2>2, <2>3, <2>4, <2>5, <2>6, <2>7
<1>4. CASE InitiateFails(u)
  BY <1>4 DEF InitiateFails, InitiateStep
<1> QED BY <1>1, <1>2, <1>3, <1>4 DEF Initiate

\* UploadPart keeps the inductive invariant.
LEMMA PartInvariant ==
  ASSUME IInv, NEW c \in Calls, UploadPart(c)
  PROVE  IInv'
<1> USE ServerAssumption DEF IInv, TypeOK, SeqInRange, SessionIsOlder,
    PartThenBitThenCount, CleanupAfterAssembly, CopiedInOrder,
    PartsKeptUntilAssembled, CompletedIsAssembled, ArtifactsAreWhole,
    SessionEndsForAReason,
    Segments, CallsOf, InitiateStates, PartStates, Finished, Objects,
    vars, minioVars, redisVars, handlerVars, historyVars, MayFail, ResetLocals
<1>1. CASE GetSession(c)
  BY <1>1 DEF GetSession, PartStep
<1>2. CASE PutPart(c)
  <2> USE <1>2 DEF PutPart, PartStep
  <2>0. CallUpload[c] \in Uploads /\ CallSeq[c] \in Segments(CallUpload[c])
    <3>1. CallSeq[c] < Total[CallUpload[c]]
      OBVIOUS
    <3>2. CallUpload[c] \in Uploads /\ CallSeq[c] \in Nat /\ Total[CallUpload[c]] \in Nat
      BY ONLY ServerAssumption, c \in Calls
    <3> QED BY ONLY <3>1, <3>2 DEF Segments
  <2>1. TypeOK'
    <3>1. \A u \in Uploads : bits'[u] \union parts'[u] \subseteq Segments(u)
      BY <2>0
    <3> QED BY <2>0, <3>1
  <2>2. PartThenBitThenCount'
    OBVIOUS
  <2>3. PartsKeptUntilAssembled' /\ CompletedIsAssembled'
    OBVIOUS
  <2>4. /\ SeqInRange' /\ SessionIsOlder' /\ CleanupAfterAssembly' /\ CopiedInOrder'
        /\ ArtifactsAreWhole' /\ SessionEndsForAReason'
    OBVIOUS
  <2> QED BY <2>1, <2>2, <2>3, <2>4
<1>3. CASE SetBit(c)
  <2> USE <1>3 DEF SetBit, PartStep
  <2>0. CallUpload[c] \in Uploads /\ CallSeq[c] \in Segments(CallUpload[c])
    <3>1. CallSeq[c] < Total[CallUpload[c]]
      OBVIOUS
    <3>2. CallUpload[c] \in Uploads /\ CallSeq[c] \in Nat /\ Total[CallUpload[c]] \in Nat
      BY ONLY ServerAssumption, c \in Calls
    <3> QED BY ONLY <3>1, <3>2 DEF Segments
  <2>1. TypeOK'
    <3>1. \A u \in Uploads : bits'[u] \union parts'[u] \subseteq Segments(u)
      BY <2>0
    <3> QED BY <2>0, <3>1
  <2>2. PartThenBitThenCount'
    OBVIOUS
  <2>3. PartsKeptUntilAssembled' /\ CompletedIsAssembled'
    OBVIOUS
  <2>4. /\ SeqInRange' /\ SessionIsOlder' /\ CleanupAfterAssembly' /\ CopiedInOrder'
        /\ ArtifactsAreWhole' /\ SessionEndsForAReason'
    OBVIOUS
  <2> QED BY <2>1, <2>2, <2>3, <2>4
<1>4. CASE BitCount(c)
  <2> USE <1>4 DEF BitCount, PartStep
  <2>1. TypeOK' /\ SeqInRange' /\ SessionIsOlder' /\ CleanupAfterAssembly'
    OBVIOUS
  <2>2. PartThenBitThenCount'
    OBVIOUS
  <2>3. CopiedInOrder' /\ ArtifactsAreWhole'
    OBVIOUS
  <2>4. PartsKeptUntilAssembled' /\ SessionEndsForAReason'
    OBVIOUS
  \* If this was the last call to answer OK, every bit is set, and it would
  \* have gone on to assemble.
  <2>5. CompletedIsAssembled'
    <3> SUFFICES ASSUME NEW u \in Uploads,
                        u \notin lapsed', u \notin assembled', Total[u] > 0,
                        \A i \in Segments(u) :
                          \E d \in CallsOf(u) : CallSeq[d] = i /\ pc'[d] = "ok"
                 PROVE  FALSE
      OBVIOUS
    <3>1. \A d \in CallsOf(u) : pc'[d] = "ok" => CallSeq[d] \in bits[u]
      OBVIOUS
    <3>2. AllPresent(u)
      <4>1. u \in Uploads /\ bits[u] \subseteq Segments(u)
        OBVIOUS
      <4>2. Segments(u) \subseteq bits[u]
        BY <3>1
      <4> HIDE DEF Segments, IInv
      <4> QED BY <4>1, <4>2, FullBitmapIsAllPresent
    <3>3. u = CallUpload[c] => pc'[c] = "assemble"
      BY <3>2
    <3>4. \A d \in CallsOf(u) : pc'[d] = "ok" => pc[d] = "ok"
      BY <3>3
    <3> QED BY <3>4
  <2> QED BY <2>1, <2>2, <2>3, <2>4, <2>5
<1>5. CASE ReadPart(c)
  <2> USE <1>5 DEF ReadPart, PartStep
  <2>1. TypeOK'
    OBVIOUS
  <2>2. CopiedInOrder'
    <3>1. copied[c] = 0 .. next[c] - 1 /\ next[c] \in Nat
      OBVIOUS
    <3>2. copied'[c] = 0 .. next'[c] - 1
      BY <3>1, NextPart
    <3>3. ASSUME NEW d \in Calls, d # c, pc'[d] = "assemble"
          PROVE  copied'[d] = 0 .. next'[d] - 1
      <4>1. pc[d] = "assemble" /\ copied'[d] = copied[d] /\ next'[d] = next[d]
        BY <3>3
      <4>2. copied[d] = 0 .. next[d] - 1
        BY <4>1
      <4> QED BY <4>1, <4>2
    <3> HIDE <1>5 DEF ReadPart, IInv
    <3> QED BY <3>2, <3>3
  <2>3. /\ SeqInRange' /\ SessionIsOlder' /\ PartThenBitThenCount'
        /\ CleanupAfterAssembly' /\ PartsKeptUntilAssembled'
        /\ CompletedIsAssembled' /\ ArtifactsAreWhole' /\ SessionEndsForAReason'
    OBVIOUS
  <2> QED BY <2>1, <2>2, <2>3
<1>6. CASE ReadMissingPart(c)
  BY <1>6 DEF ReadMissingPart, PartStep
<1>7. ASSUME NEW to \in {"cleanup", "err"}, PutFinal(c, to)
      PROVE  IInv'
  <2> USE <1>7 DEF PutFinal, PartStep
  <2>1. TypeOK' /\ SeqInRange' /\ SessionIsOlder'
    OBVIOUS
  <2>2. PartThenBitThenCount'
    OBVIOUS
  <2>3. CleanupAfterAssembly' /\ CopiedInOrder'
    OBVIOUS
  <2>4. PartsKeptUntilAssembled' /\ CompletedIsAssembled' /\ SessionEndsForAReason'
    OBVIOUS
  <2>5. ArtifactsAreWhole'
    OBVIOUS
  <2> QED BY <2>1, <2>2, <2>3, <2>4, <2>5
<1>8. ASSUME NEW removed \in BOOLEAN, RemovePart(c, removed)
      PROVE  IInv'
  BY <1>8 DEF RemovePart, PartStep
<1>9. CASE DelSession(c)
  <2> USE <1>9 DEF DelSession, PartStep
  <2>1. CallUpload[c] \in assembled /\ assembled' = assembled
    OBVIOUS
  <2>2. TypeOK' /\ SeqInRange' /\ SessionIsOlder'
    OBVIOUS
  <2>3. PartThenBitThenCount'
    BY <2>1
  <2>4. CleanupAfterAssembly' /\ CopiedInOrder'
    OBVIOUS
  <2>5. PartsKeptUntilAssembled' /\ SessionEndsForAReason'
    BY <2>1
  <2>6. CompletedIsAssembled'
    BY <2>1
  <2>7. ArtifactsAreWhole'
    OBVIOUS
  <2> QED BY <2>2, <2>3, <2>4, <2>5, <2>6, <2>7
<1>10. CASE DelSessionFails(c)
  BY <1>10 DEF DelSessionFails, PartStep
<1>11. CASE PartFails(c)
  BY <1>11 DEF PartFails, PartStep
<1> QED
  BY <1>1, <1>2, <1>3, <1>4, <1>5, <1>6, <1>7, <1>8, <1>9, <1>10, <1>11
  DEF UploadPart, PartProgress

\* Nothing that happens between the steps of the handlers disturbs it: the
\* deletion of an artifact, the expiry of a session, a cancellation whatever its
\* reason, the death of the server.
LEMMA EnvironmentInvariant ==
  ASSUME IInv,
         \/ \E k \in Keys : Delete(k)
         \/ \E u \in Uploads : Expire(u) \/ Cancel(u)
         \/ Crash
         \/ UNCHANGED vars
  PROVE  IInv'
<1> USE ServerAssumption DEF IInv, TypeOK, SeqInRange, SessionIsOlder,
    PartThenBitThenCount, CleanupAfterAssembly, CopiedInOrder,
    PartsKeptUntilAssembled, CompletedIsAssembled, ArtifactsAreWhole,
    SessionEndsForAReason,
    Segments, CallsOf, InitiateStates, PartStates, Finished, Objects,
    vars, minioVars, redisVars, handlerVars, historyVars, MayFail, ResetLocals
<1>1. ASSUME NEW k \in Keys, Delete(k) PROVE IInv'
  <2> USE <1>1 DEF Delete
  <2>1. TypeOK'
    OBVIOUS
  <2>2. ArtifactsAreWhole'
    OBVIOUS
  <2>3. \A u \in Uploads : u \notin wiped' => parts'[u] = parts[u] /\ u \notin wiped
    OBVIOUS
  <2>4. PartThenBitThenCount' /\ PartsKeptUntilAssembled'
    BY <2>3
  <2>5. /\ SeqInRange' /\ SessionIsOlder' /\ CleanupAfterAssembly' /\ CopiedInOrder'
        /\ CompletedIsAssembled' /\ SessionEndsForAReason'
    OBVIOUS
  <2> QED BY <2>1, <2>2, <2>4, <2>5
<1>2. ASSUME NEW u \in Uploads, Expire(u) PROVE IInv'
  BY <1>2 DEF Expire
<1>3. ASSUME NEW u \in Uploads, Cancel(u) PROVE IInv'
  BY <1>3 DEF Cancel
<1>4. CASE Crash
  BY <1>4 DEF Crash, Running
<1>5. CASE UNCHANGED vars
  BY <1>5
<1> QED BY <1>1, <1>2, <1>3, <1>4, <1>5

\* Every step of the system keeps the inductive invariant.
LEMMA NextInvariant == IInv /\ [Next]_vars => IInv'
BY InitiateInvariant, PartInvariant, EnvironmentInvariant DEF Next

-----------------------------------------------------------------------------
(* The TTL of the bitmap *)

\* As long as its upload is neither assembled nor lapsed, the bitmap that was
\* made with the session is there for the handlers that have seen the session.
BitmapIsThere ==
  \A u \in Uploads :
    /\ u \notin assembled \union lapsed
    /\ u \in session \/ \E c \in CallsOf(u) : pc[c] \notin {"idle", "err"}
    => bitmapKey[u] # "absent"

\* Only SETBIT makes a bitmap without a TTL, and finds one with a TTL unless
\* its upload is assembled or lapsed.
LEMMA BitmapStep ==
  ASSUME IInv, BitmapIsThere, BitmapHasTTL, [Next]_vars
  PROVE  BitmapIsThere' /\ BitmapHasTTL'
<1> USE ServerAssumption DEF BitmapIsThere, BitmapHasTTL, IInv, TypeOK,
    SessionIsOlder, CleanupAfterAssembly, CallsOf, InitiateStates, PartStates, Finished,
    vars, minioVars, redisVars, handlerVars, historyVars, ResetLocals
<1>1. ASSUME NEW u \in Uploads, Initiate(u)
      PROVE  BitmapIsThere' /\ BitmapHasTTL'
  <2>1. CASE CheckBucket(u)
    BY <2>1 DEF CheckBucket, InitiateStep
  <2>2. CASE MakeBucket(u)
    BY <2>2 DEF MakeBucket, InitiateStep
  <2>3. ASSUME NEW reply \in {"ok", "err"}, SaveSession(u, reply)
        PROVE  BitmapIsThere' /\ BitmapHasTTL'
    BY <2>3 DEF SaveSession, InitiateStep
  <2>4. CASE InitiateFails(u)
    BY <2>4 DEF InitiateFails, InitiateStep
  <2> QED BY <1>1, <2>1, <2>2, <2>3, <2>4 DEF Initiate
<1>2. ASSUME NEW c \in Calls, UploadPart(c)
      PROVE  BitmapIsThere' /\ BitmapHasTTL'
  <2>1. CASE GetSession(c)
    <3> USE <2>1 DEF GetSession, PartStep
    <3>1. BitmapIsThere'
      OBVIOUS
    <3>2. BitmapHasTTL'
      OBVIOUS
    <3> QED BY <3>1, <3>2
  <2>2. CASE PutPart(c)
    <3> USE <2>2 DEF PutPart, PartStep
    <3>1. BitmapIsThere'
      OBVIOUS
    <3>2. BitmapHasTTL'
      OBVIOUS
    <3> QED BY <3>1, <3>2
  <2>3. CASE SetBit(c)
    <3> USE <2>3 DEF SetBit, PartStep
    <3>1. BitmapIsThere'
      OBVIOUS
    <3>2. BitmapHasTTL'
      OBVIOUS
    <3> QED BY <3>1, <3>2
  <2>4. CASE BitCount(c)
    <3> USE <2>4 DEF BitCount, PartStep
    <3>1. BitmapIsThere'
      OBVIOUS
    <3>2. BitmapHasTTL'
      OBVIOUS
    <3> QED BY <3>1, <3>2
  <2>5. CASE ReadPart(c) \/ ReadMissingPart(c)
    <3> USE <2>5 DEF ReadPart, ReadMissingPart, PartStep
    <3>1. BitmapIsThere'
      OBVIOUS
    <3>2. BitmapHasTTL'
      OBVIOUS
    <3> QED BY <3>1, <3>2
  <2>6. ASSUME NEW to \in {"cleanup", "err"}, PutFinal(c, to)
        PROVE  BitmapIsThere' /\ BitmapHasTTL'
    <3> USE <2>6 DEF PutFinal, PartStep
    <3>1. BitmapIsThere'
      OBVIOUS
    <3>2. BitmapHasTTL'
      OBVIOUS
    <3> QED BY <3>1, <3>2
  <2>7. ASSUME NEW removed \in BOOLEAN, RemovePart(c, removed)
        PROVE  BitmapIsThere' /\ BitmapHasTTL'
    <3> USE <2>7 DEF RemovePart, PartStep
    <3>1. BitmapIsThere'
      OBVIOUS
    <3>2. BitmapHasTTL'
      OBVIOUS
    <3> QED BY <3>1, <3>2
  <2>8. CASE DelSession(c)
    <3> USE <2>8 DEF DelSession, PartStep
    <3>1. BitmapIsThere'
      OBVIOUS
    <3>2. BitmapHasTTL'
      OBVIOUS
    <3> QED BY <3>1, <3>2
  <2>9. CASE DelSessionFails(c) \/ PartFails(c)
    <3> USE <2>9 DEF DelSessionFails, PartFails, PartStep
    <3>1. BitmapIsThere'
      <4>1. \A d \in Calls : pc'[d] \notin {"idle", "err"} => pc[d] \notin {"idle", "err"}
        OBVIOUS
      <4>2. UNCHANGED <<session, bitmapKey, assembled, lapsed>>
        OBVIOUS
      <4> QED BY ONLY <4>1, <4>2, BitmapIsThere DEF BitmapIsThere, CallsOf
    <3>2. BitmapHasTTL'
      OBVIOUS
    <3> QED BY <3>1, <3>2
  <2> QED
    BY <1>2, <2>1, <2>2, <2>3, <2>4, <2>5, <2>6, <2>7, <2>8, <2>9
    DEF UploadPart, PartProgress
<1>3. ASSUME NEW k \in Keys, Delete(k)
      PROVE  BitmapIsThere' /\ BitmapHasTTL'
  BY <1>3 DEF Delete
<1>4. ASSUME NEW u \in Uploads, Expire(u) \/ Cancel(u)
      PROVE  BitmapIsThere' /\ BitmapHasTTL'
  BY <1>4 DEF Expire, Cancel
<1>5. CASE Crash
  BY <1>5 DEF Crash, Running
<1>6. CASE UNCHANGED vars
  BY <1>6
<1> QED BY <1>1, <1>2, <1>3, <1>4, <1>5, <1>6 DEF Next

-----------------------------------------------------------------------------
(* Theorems *)

\* The strengthened invariant of the server's handlers is an invariant.
THEOREM ServerInvariant == Spec => []IInv
BY InitInvariant, NextInvariant, PTL DEF Spec

\* Every variable keeps its type, whatever fails.
THEOREM TypeCorrect == Spec => []TypeOK
<1>1. IInv => TypeOK
  BY DEF IInv
<1> QED BY <1>1, ServerInvariant, PTL

\* No part that the bitmap counts is removed before the final object exists.
THEOREM PartsKept == Spec => []PartsKeptUntilAssembled
<1>1. IInv => PartsKeptUntilAssembled
  BY DEF IInv
<1> QED BY <1>1, ServerInvariant, PTL

\* An upload every chunk of which was answered OK while its session lived has
\* a final object.
THEOREM CompletedAssembled == Spec => []CompletedIsAssembled
<1>1. IInv => CompletedIsAssembled
  BY DEF IInv
<1> QED BY <1>1, ServerInvariant, PTL

\* A final object holds every chunk of the upload that wrote it.
THEOREM ArtifactsWhole == Spec => []ArtifactsAreWhole
<1>1. IInv => ArtifactsAreWhole
  BY DEF IInv
<1> QED BY <1>1, ServerInvariant, PTL

\* A session goes away only with its final object or its TTL.
THEOREM SessionEnds == Spec => []SessionEndsForAReason
<1>1. IInv => SessionEndsForAReason
  BY DEF IInv
<1> QED BY <1>1, ServerInvariant, PTL

\* A bitmap without a TTL is left only after the end of its session.
THEOREM BitmapTTL == Spec => []BitmapHasTTL
<1>1. Init => BitmapIsThere /\ BitmapHasTTL
  BY DEF Init, BitmapIsThere, BitmapHasTTL, CallsOf
<1>2. /\ IInv /\ BitmapIsThere /\ BitmapHasTTL /\ [Next]_vars
      => BitmapIsThere' /\ BitmapHasTTL'
  BY BitmapStep
<1> QED BY <1>1, <1>2, ServerInvariant, PTL DEF Spec
=============================================================================
