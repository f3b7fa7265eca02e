---------------------------- MODULE UploadServer ----------------------------
(***************************************************************************)
(* The write side of StorageGRPCServer (internal/server/storage.go): the   *)
(* handlers InitiateUpload, UploadPart and Delete, which share nothing but *)
(* Redis (one session key and one bitmap key per upload) and MinIO (the    *)
(* temporary parts and the final objects of a bucket).                     *)
(*                                                                         *)
(* Every unary RPC runs in a goroutine of its own, so a handler is a       *)
(* program counter and each of its calls to Redis or MinIO is one step:    *)
(* between two of them every other handler, the expiry of a key and the    *)
(* death of the server may intervene.                                      *)
(***************************************************************************)
EXTENDS Integers, FiniteSets

CONSTANTS
  Uploads,     \* upload ids, uuid.NewString() makes each one fresh
  Keys,        \* final objects: pairs of a bucket and a prefix
  Buckets,     \* the users' buckets
  Calls,       \* UploadPart RPCs
  BucketOf,    \* the bucket of a final object
  Target,      \* the final object an upload asks for
  Total,       \* totalChunks of an upload, 0 for an empty file
  CallUpload,  \* req.GetUploadId() of a call
  CallSeq,     \* req.GetSeq() of a call
  Below,       \* the final objects whose names lie under that of another
  PartsBelow,  \* the parts of each upload whose names do
  Faults,      \* the kinds of failure that happen
  None         \* no object under a key

ASSUME ServerAssumption ==
  /\ BucketOf \in [Keys -> Buckets]
  /\ Target \in [Uploads -> Keys]
  /\ Total \in [Uploads -> Nat]
  /\ CallUpload \in [Calls -> Uploads]
  /\ CallSeq \in [Calls -> Nat]
  /\ Below \in [Keys -> SUBSET Keys] /\ \A k \in Keys : k \in Below[k]
  /\ PartsBelow \in [Keys -> [Uploads -> SUBSET Nat]]
  /\ Faults \subseteq {"io", "client", "cancel", "crash", "expiry"}
  /\ None \notin Uploads \union [upload : Uploads, chunks : SUBSET Nat]

VARIABLES
  buckets,     \* MinIO: the buckets that exist
  parts,       \* MinIO: uploads/<id>/<seq>, the parts of each upload
  artifact,    \* MinIO: whose metadata a final object has, and which chunks
  session,     \* Redis: the uploads whose meta key exists
  bits,        \* Redis: the bits set in an upload's bitmap
  bitmapKey,   \* Redis: whether the bitmap key exists, and has a TTL
  initPc,      \* InitiateUpload: where the handler of an upload is
  pc,          \* UploadPart: where the handler of a call is
  next,        \* UploadPart: i of its loops over the parts
  copied,      \* UploadPart: the parts that are in the pipe
  gone,        \* the uploads whose client has cancelled its requests
  assembled,   \* history: the uploads whose final object was ever written
  lapsed,      \* history: the uploads whose TTL ran out
  wiped        \* history: the uploads whose parts a Delete reached

minioVars   == <<buckets, parts, artifact>>
redisVars   == <<session, bits, bitmapKey>>
handlerVars == <<initPc, pc, next, copied, gone>>
historyVars == <<assembled, lapsed, wiped>>
vars == <<minioVars, redisVars, handlerVars, historyVars>>

Segments(u) == 0 .. Total[u] - 1
BucketFor(u) == BucketOf[Target[u]]
CallsOf(u) == {c \in Calls : CallUpload[c] = u}

InitiateStates == {"idle", "make", "save", "ok", "err"}
PartStates ==
  {"idle", "put", "setBit", "count", "assemble", "cleanup", "ok", "err"}
Finished == {"ok", "err"}
Objects == [upload : Uploads, chunks : SUBSET Nat]

Init ==
  /\ buckets = {}
  /\ parts = [u \in Uploads |-> {}]
  /\ artifact = [k \in Keys |-> None]
  /\ session = {}
  /\ bits = [u \in Uploads |-> {}]
  /\ bitmapKey = [u \in Uploads |-> "absent"]
  /\ initPc = [u \in Uploads |-> "idle"]
  /\ pc = [c \in Calls |-> "idle"]
  /\ next = [c \in Calls |-> 0]
  /\ copied = [c \in Calls |-> {}]
  /\ gone = {}
  /\ assembled = {}
  /\ lapsed = {}
  /\ wiped = {}

\* A call to Redis or MinIO fails on its own, or because gRPC has cancelled
\* the context of the handler after the client cancelled the request.
MayFail(u) == "io" \in Faults \/ u \in gone

-----------------------------------------------------------------------------
(* InitiateUpload *)

InitiateStep(u, from, to) ==
  /\ initPc[u] = from
  /\ initPc' = [initPc EXCEPT ![u] = to]
  /\ UNCHANGED <<pc, next, copied, gone, historyVars>>

\* checkBucket, first call: BucketExists.
CheckBucket(u) ==
  /\ InitiateStep(u, "idle", IF BucketFor(u) \in buckets THEN "save" ELSE "make")
  /\ UNCHANGED <<minioVars, redisVars>>

\* checkBucket, second call: MakeBucket with ForceCreate, which accepts a
\* bucket that a concurrent InitiateUpload has made in between.
MakeBucket(u) ==
  /\ InitiateStep(u, "make", "save")
  /\ buckets' = buckets \union {BucketFor(u)}
  /\ UNCHANGED <<parts, artifact, redisVars>>

\* Mutant of SaveSession: the bitmap is set without a TTL.
SaveBitmapWithoutTTL(u, reply) ==
  /\ reply = "err" => MayFail(u)
  /\ InitiateStep(u, "save", reply)
  /\ session' = session \union {u}
  /\ bits' = [bits EXCEPT ![u] = {}]
  /\ bitmapKey' = [bitmapKey EXCEPT ![u] = "persistent"]
  /\ UNCHANGED minioVars

\* The transaction of two SETs with the upload TTL.  The reply may be lost
\* after it took effect: the session then exists and the client has an error.
SaveSession(u, reply) ==
  /\ reply = "err" => MayFail(u)
  /\ InitiateStep(u, "save", reply)
  /\ session' = session \union {u}
  /\ bits' = [bits EXCEPT ![u] = {}]
  /\ bitmapKey' = [bitmapKey EXCEPT ![u] = "expiring"]
  /\ UNCHANGED minioVars

\* A call to MinIO or Redis fails.
InitiateFails(u) ==
  /\ MayFail(u)
  /\ \E from \in {"idle", "make", "save"} : InitiateStep(u, from, "err")
  /\ UNCHANGED <<minioVars, redisVars>>

-----------------------------------------------------------------------------
(* UploadPart *)

PartStep(c, from, to) ==
  /\ pc[c] = from
  /\ pc' = [pc EXCEPT ![c] = to]
  /\ UNCHANGED <<initPc, gone>>

\* Mutant of GetSession: the sequence number is not checked.
GetSessionUnchecked(c) ==
  /\ PartStep(c, "idle", IF CallUpload[c] \in session THEN "put" ELSE "err")
  /\ UNCHANGED <<minioVars, redisVars, next, copied, historyVars>>

\* The locals of a loop start, or end, with their initial values.
ResetLocals(c) ==
  /\ next' = [next EXCEPT ![c] = 0]
  /\ copied' = [copied EXCEPT ![c] = {}]

\* GET of the session, then the check of the sequence number.  Nothing of it
\* is read again, so the session may disappear under the rest of the handler.
GetSession(c) ==
  LET u == CallUpload[c]
      accepted == u \in session /\ CallSeq[c] < Total[u]
  IN  /\ PartStep(c, "idle", IF accepted THEN "put" ELSE "err")
      /\ UNCHANGED <<minioVars, redisVars, next, copied, historyVars>>

PutPart(c) ==
  LET u == CallUpload[c]
  IN  /\ BucketFor(u) \in buckets
      /\ PartStep(c, "put", "setBit")
      /\ parts' = [parts EXCEPT ![u] = @ \union {CallSeq[c]}]
      /\ UNCHANGED <<buckets, artifact, redisVars, next, copied, historyVars>>

\* SETBIT creates a key that is not there, and gives it no TTL.
SetBit(c) ==
  LET u == CallUpload[c]
  IN  /\ PartStep(c, "setBit", "count")
      /\ bits' = [bits EXCEPT ![u] = @ \union {CallSeq[c]}]
      /\ bitmapKey' = [bitmapKey EXCEPT ![u] =
                         IF @ = "absent" THEN "persistent" ELSE @]
      /\ UNCHANGED <<session, minioVars, next, copied, historyVars>>

\* Mutant of AllPresent: one chunk short.
AllButOnePresent(u) == Cardinality(bits[u]) = Total[u] - 1

\* BITCOUNT, and the comparison that decides who assembles.
AllPresent(u) == Cardinality(bits[u]) = Total[u]

\* Mutant of BitCount: the handler of the last chunk is to assemble.
BitCountOfLastChunk(c) ==
  LET u == CallUpload[c]
      last == AllPresent(u) /\ CallSeq[c] = Total[u] - 1
  IN  /\ PartStep(c, "count", IF last THEN "assemble" ELSE "ok")
      /\ ResetLocals(c)
      /\ UNCHANGED <<minioVars, redisVars, historyVars>>

BitCount(c) ==
  /\ PartStep(c, "count", IF AllPresent(CallUpload[c]) THEN "assemble" ELSE "ok")
  /\ ResetLocals(c)
  /\ UNCHANGED <<minioVars, redisVars, historyVars>>

\* Mutant of ReadPart: a part is removed as soon as it is copied.
ReadPartAndRemoveIt(c) ==
  LET u == CallUpload[c]
  IN  /\ next[c] < Total[u]
      /\ next[c] \in parts[u]
      /\ PartStep(c, "assemble", "assemble")
      /\ next' = [next EXCEPT ![c] = @ + 1]
      /\ copied' = [copied EXCEPT ![c] = @ \union {next[c]}]
      /\ parts' = [parts EXCEPT ![u] = @ \ {next[c]}]
      /\ UNCHANGED <<buckets, artifact, redisVars, historyVars>>

\* The goroutine behind the pipe copies the parts in order.  A part that is
\* gone closes the pipe with an error, and the PutObject at its other end and
\* the handler fail with it.
ReadPart(c) ==
  /\ next[c] < Total[CallUpload[c]]
  /\ next[c] \in parts[CallUpload[c]]
  /\ PartStep(c, "assemble", "assemble")
  /\ next' = [next EXCEPT ![c] = @ + 1]
  /\ copied' = [copied EXCEPT ![c] = @ \union {next[c]}]
  /\ UNCHANGED <<minioVars, redisVars, historyVars>>

\* Mutant of ReadMissingPart: the pipe is closed without the error, and the
\* size of the final object is not given to PutObject.
SkipMissingPart(c) ==
  /\ next[c] < Total[CallUpload[c]]
  /\ next[c] \notin parts[CallUpload[c]]
  /\ PartStep(c, "assemble", "assemble")
  /\ next' = [next EXCEPT ![c] = @ + 1]
  /\ UNCHANGED <<minioVars, redisVars, copied, historyVars>>

ReadMissingPart(c) ==
  /\ next[c] < Total[CallUpload[c]]
  /\ next[c] \notin parts[CallUpload[c]]
  /\ PartStep(c, "assemble", "err")
  /\ ResetLocals(c)
  /\ UNCHANGED <<minioVars, redisVars, historyVars>>

\* PutObject of the final object: content and metadata appear at once, when
\* all of the pipe has been read.  Its reply may be lost.
PutFinal(c, to) ==
  LET u == CallUpload[c]
  IN  /\ to = "err" => MayFail(u)
      /\ next[c] = Total[u]
      /\ PartStep(c, "assemble", to)
      /\ ResetLocals(c)
      /\ artifact' = [artifact EXCEPT ![Target[u]] = [upload |-> u, chunks |-> copied[c]]]
      /\ assembled' = assembled \union {u}
      /\ UNCHANGED <<buckets, parts, redisVars, lapsed, wiped>>

\* A failure of RemoveObject or DEL is logged and otherwise ignored.
RemovePart(c, removed) ==
  LET u == CallUpload[c]
  IN  /\ removed \/ MayFail(u)
      /\ next[c] < Total[u]
      /\ PartStep(c, "cleanup", "cleanup")
      /\ next' = [next EXCEPT ![c] = @ + 1]
      /\ parts' = [parts EXCEPT ![u] = IF removed THEN @ \ {next[c]} ELSE @]
      /\ UNCHANGED <<buckets, artifact, redisVars, copied, historyVars>>

DelSession(c) ==
  LET u == CallUpload[c]
  IN  /\ next[c] = Total[u]
      /\ PartStep(c, "cleanup", "ok")
      /\ session' = session \ {u}
      /\ bits' = [bits EXCEPT ![u] = {}]
      /\ bitmapKey' = [bitmapKey EXCEPT ![u] = "absent"]
      /\ ResetLocals(c)
      /\ UNCHANGED <<minioVars, historyVars>>

DelSessionFails(c) ==
  /\ MayFail(CallUpload[c])
  /\ next[c] = Total[CallUpload[c]]
  /\ PartStep(c, "cleanup", "ok")
  /\ ResetLocals(c)
  /\ UNCHANGED <<minioVars, redisVars, historyVars>>

\* Mutant of PartFails: the session is dropped with the failed call.
PartFailsWithSession(c) ==
  LET u == CallUpload[c]
  IN  /\ MayFail(u)
      /\ \E from \in {"idle", "put", "setBit", "count", "assemble"} :
           PartStep(c, from, "err")
      /\ session' = session \ {u}
      /\ bits' = [bits EXCEPT ![u] = {}]
      /\ bitmapKey' = [bitmapKey EXCEPT ![u] = "absent"]
      /\ ResetLocals(c)
      /\ UNCHANGED <<minioVars, historyVars>>

\* Any call before the clean-up may fail; what the handler did so far stays.
PartFails(c) ==
  /\ MayFail(CallUpload[c])
  /\ \E from \in {"idle", "put", "setBit", "count", "assemble"} :
       PartStep(c, from, "err")
  /\ ResetLocals(c)
  /\ UNCHANGED <<minioVars, redisVars, historyVars>>

-----------------------------------------------------------------------------
(* Delete, cancellation, the expiry of the session, the death of the server *)

\* RemoveObject with ForceDelete removes the object of that name and all that
\* lies under it as under a directory, parts of uploads under way included.
Delete(k) ==
  /\ artifact' = [j \in Keys |-> IF j \in Below[k] THEN None ELSE artifact[j]]
  /\ parts' = [u \in Uploads |-> parts[u] \ PartsBelow[k][u]]
  /\ wiped' = wiped \union {u \in Uploads : PartsBelow[k][u] # {}}
  /\ UNCHANGED <<buckets, redisVars, handlerVars, assembled, lapsed>>

\* The client cancels its requests: the user interrupts it, its deadline
\* passes, or one of its requests has failed.
Cancel(u) ==
  /\ gone' = gone \union {u}
  /\ UNCHANGED <<minioVars, redisVars, initPc, pc, next, copied, historyVars>>

\* Both keys were set with one TTL by one transaction and expire together; a
\* bitmap that SETBIT made afterwards has no TTL and stays.
Expire(u) ==
  /\ "expiry" \in Faults
  /\ u \in session \/ bitmapKey[u] = "expiring"
  /\ session' = session \ {u}
  /\ bits' = [bits EXCEPT ![u] = IF bitmapKey[u] = "expiring" THEN {} ELSE @]
  /\ bitmapKey' = [bitmapKey EXCEPT ![u] = IF @ = "expiring" THEN "absent" ELSE @]
  /\ lapsed' = lapsed \union {u}
  /\ UNCHANGED <<minioVars, handlerVars, assembled, wiped>>

\* main returns on a signal without waiting for the handlers.
Running(c) == pc[c] \notin {"idle"} \union Finished

Crash ==
  /\ "crash" \in Faults
  /\ initPc' = [u \in Uploads |-> IF initPc[u] \in {"make", "save"}
                                    THEN "err" ELSE initPc[u]]
  /\ pc' = [c \in Calls |-> IF Running(c) THEN "err" ELSE pc[c]]
  /\ next' = [c \in Calls |-> IF Running(c) THEN 0 ELSE next[c]]
  /\ copied' = [c \in Calls |-> IF Running(c) THEN {} ELSE copied[c]]
  /\ UNCHANGED <<minioVars, redisVars, gone, historyVars>>

-----------------------------------------------------------------------------
Initiate(u) ==
  \/ CheckBucket(u)
  \/ MakeBucket(u)
  \/ SaveSession(u, "ok")
  \/ SaveSession(u, "err")
  \/ InitiateFails(u)

\* The steps a handler takes when nothing goes wrong.
PartProgress(c) ==
  \/ GetSession(c)
  \/ PutPart(c)
  \/ SetBit(c)
  \/ BitCount(c)
  \/ ReadPart(c)
  \/ ReadMissingPart(c)
  \/ PutFinal(c, "cleanup")
  \/ RemovePart(c, TRUE)
  \/ DelSession(c)

UploadPart(c) ==
  \/ PartProgress(c)
  \/ PutFinal(c, "err")
  \/ RemovePart(c, FALSE)
  \/ DelSessionFails(c)
  \/ PartFails(c)

Next ==
  \/ \E u \in Uploads : Initiate(u)
  \/ \E c \in Calls : UploadPart(c)
  \/ \E k \in Keys : Delete(k)
  \/ \E u \in Uploads : Expire(u)
  \/ \E u \in Uploads : "cancel" \in Faults /\ Cancel(u)
  \/ Crash

Spec == Init /\ [][Next]_vars

-----------------------------------------------------------------------------
(* Properties *)

\* Every variable keeps its type; an upload's bits and parts are sequence
\* numbers of its chunks.
TypeOK ==
  /\ buckets \subseteq Buckets
  /\ parts \in [Uploads -> SUBSET Nat]
  /\ artifact \in [Keys -> Objects \union {None}]
  /\ session \subseteq Uploads
  /\ bits \in [Uploads -> SUBSET Nat]
  /\ bitmapKey \in [Uploads -> {"absent", "expiring", "persistent"}]
  /\ initPc \in [Uploads -> InitiateStates]
  /\ pc \in [Calls -> PartStates]
  /\ next \in [Calls -> Nat]
  /\ copied \in [Calls -> SUBSET Nat]
  /\ gone \subseteq Uploads
  /\ \A u \in Uploads : bits[u] \union parts[u] \subseteq Segments(u)
  /\ assembled \subseteq Uploads
  /\ lapsed \subseteq Uploads
  /\ wiped \subseteq Uploads

\* No part that the bitmap counts is removed before the final object exists,
\* but by a Delete of a name above it: UploadPart stores a part before its bit
\* and cleans up only after the final PutObject, whatever fails, expires or is
\* called twice in between.
PartsKeptUntilAssembled ==
  \A u \in Uploads : u \notin assembled \union wiped => bits[u] \subseteq parts[u]

\* Some call answered OK for every chunk and the session did not expire: then
\* one of the calls saw the bitmap full and wrote the final object.  None of
\* the concurrent handlers may leave the assembly to another that has already
\* counted.
CompletedIsAssembled ==
  \A u \in Uploads :
    /\ Total[u] > 0
    /\ u \notin lapsed
    /\ \A i \in Segments(u) : \E c \in CallsOf(u) : CallSeq[c] = i /\ pc[c] = "ok"
    => u \in assembled

\* A final object holds every chunk of the upload that wrote it: a handler
\* whose parts are removed by another one while it copies them does not write.
ArtifactsAreWhole ==
  \A k \in Keys :
    artifact[k] # None => artifact[k].chunks = Segments(artifact[k].upload)

\* A session that the client was told about goes away only because its final
\* object was written or because its TTL ran out.
SessionEndsForAReason ==
  \A u \in Uploads :
    initPc[u] = "ok" /\ u \notin session => u \in assembled \union lapsed

\* "all chunks present, assembling" (storage.go:202): an assembling handler
\* still finds every part it has not read yet.
AssemblyFindsItsParts ==
  \A c \in Calls :
    pc[c] = "assemble" => next[c] .. Total[CallUpload[c]] - 1 \subseteq parts[CallUpload[c]]

\* "Redis is used for TTL" (README.md:62).  A bitmap without a TTL, which
\* nothing removes, is left only by a SETBIT that came after the end of the
\* session: after its expiry or after the DEL of an assembling handler.
BitmapHasTTL ==
  \A u \in Uploads : bitmapKey[u] = "persistent" => u \in assembled \union lapsed
=============================================================================
