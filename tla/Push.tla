-------------------------------- MODULE Push --------------------------------
(***************************************************************************)
(* A push, end to end: UploadArtifact and uploadChunks of the client       *)
(* (internal/client/storage.go) on top of the server's handlers.           *)
(*                                                                         *)
(* The client opens a session, then runs one goroutine per chunk, at most  *)
(* --workers of them at a time, each of which reads its chunk and sends    *)
(* one UploadPart.  The first failure cancels the context of the others,   *)
(* the loop that starts goroutines goes on regardless, and the push is     *)
(* successful when all of them were.                                       *)
(*                                                                         *)
(* The context ends at expires_at_unix, which the server computes before   *)
(* it sets the TTL and rounds down to a second.  The clocks of client and  *)
(* server agree: a session does not expire before its client's deadline.   *)
(***************************************************************************)
EXTENDS UploadServer

CONSTANTS WorkerCounts  \* the values of --workers that are used

ASSUME PushAssumption ==
  /\ WorkerCounts \subseteq Nat
  /\ IsFiniteSet(Calls)
  /\ \A u \in Uploads : \A i \in Segments(u) :
       \E c \in CallsOf(u) : CallSeq[c] = i /\ \A d \in CallsOf(u) : CallSeq[d] = i => d = c

VARIABLES
  push,         \* UploadArtifact of each upload
  spawned,      \* the number of goroutines that uploadChunks has started
  slots,        \* the capacity of the semaphore: --workers of each push
  worker,       \* the goroutine of each chunk
  pastDeadline  \* the uploads whose expires_at_unix has passed

clientVars == <<push, spawned, slots, worker, pastDeadline>>
pushVars == <<vars, clientVars>>

PushStates == {"idle", "initiating", "uploading", "ok", "err"}
WorkerStates == {"none", "reading", "unsent", "sent", "acked", "failed"}

PushInit ==
  /\ Init
  /\ push = [u \in Uploads |-> "idle"]
  /\ spawned = [u \in Uploads |-> 0]
  /\ slots \in [Uploads -> WorkerCounts]
  /\ worker = [c \in Calls |-> "none"]
  /\ pastDeadline = {}

-----------------------------------------------------------------------------
(* UploadArtifact *)

PushStep(u, from, to) ==
  /\ push[u] = from
  /\ push' = [push EXCEPT ![u] = to]
  /\ UNCHANGED <<spawned, slots, worker, pastDeadline>>

\* The artifact is hashed, zipped and encrypted as need be, and the request
\* to open a session goes out.
StartPush(u) ==
  /\ PushStep(u, "idle", "initiating")
  /\ UNCHANGED vars

PrepareFails(u) ==
  /\ "client" \in Faults
  /\ PushStep(u, "idle", "err")
  /\ UNCHANGED vars

InitiateReply(u) ==
  /\ initPc[u] \in Finished
  /\ PushStep(u, "initiating", IF initPc[u] = "ok" THEN "uploading" ELSE "err")
  /\ UNCHANGED vars

\* The reply is lost or the user interrupts: the session may exist or come
\* into being, but its id is unknown to the client.
InitiateAbandoned(u) ==
  /\ {"client", "cancel"} \intersect Faults # {}
  /\ PushStep(u, "initiating", "err")
  /\ UNCHANGED vars

OpenFileFails(u) ==
  /\ "client" \in Faults
  /\ spawned[u] = 0
  /\ PushStep(u, "uploading", "err")
  /\ UNCHANGED vars

-----------------------------------------------------------------------------
(* uploadChunks *)

\* Mutant of ActiveWorkers: a goroutine that fails keeps its slot.
ActiveOrFailedWorkers(u) ==
  {c \in CallsOf(u) : worker[c] \in {"reading", "sent", "failed"}}

ActiveWorkers(u) == {c \in CallsOf(u) : worker[c] \in {"reading", "sent"}}

WorkerStep(c, from, to) ==
  /\ worker[c] = from
  /\ worker' = [worker EXCEPT ![c] = to]
  /\ UNCHANGED <<push, slots, pastDeadline>>

\* Mutant of Spawn: the chunks are not taken in the order of the loop.
SpawnInAnyOrder(c) ==
  LET u == CallUpload[c]
  IN  /\ push[u] = "uploading"
      /\ spawned[u] < Total[u]
      /\ CallSeq[c] \in Segments(u)
      /\ Cardinality(ActiveWorkers(u)) < slots[u]
      /\ WorkerStep(c, "none", "reading")
      /\ spawned' = [spawned EXCEPT ![u] = @ + 1]
      /\ UNCHANGED vars

\* The semaphore admits the goroutine of the next chunk.
Spawn(c) ==
  LET u == CallUpload[c]
  IN  /\ push[u] = "uploading"
      /\ spawned[u] < Total[u]
      /\ CallSeq[c] = spawned[u]
      /\ Cardinality(ActiveWorkers(u)) < slots[u]
      /\ WorkerStep(c, "none", "reading")
      /\ spawned' = [spawned EXCEPT ![u] = @ + 1]
      /\ UNCHANGED vars

\* A request is not sent at all on a context that is already cancelled.
SendPart(c) ==
  /\ CallUpload[c] \notin gone
  /\ WorkerStep(c, "reading", "sent")
  /\ UNCHANGED <<spawned, vars>>

\* Mutant of Acknowledged: an answer still counts after the cancellation.
AcknowledgedLate(c) ==
  /\ pc[c] = "ok"
  /\ WorkerStep(c, "sent", "acked")
  /\ UNCHANGED <<spawned, vars>>

\* A cancelled request ends with an error at once.  The server learns of it
\* later, so what it answers after that reaches nobody.
Acknowledged(c) ==
  /\ pc[c] = "ok"
  /\ CallUpload[c] \notin gone
  /\ WorkerStep(c, "sent", "acked")
  /\ UNCHANGED <<spawned, vars>>

\* A goroutine that fails frees its slot first, so that the loop may start
\* another and that one may send its chunk before the context is cancelled.
WorkerFails(c, from, to) ==
  /\ WorkerStep(c, from, to)
  /\ UNCHANGED <<spawned, vars>>

Broken(u) == {c \in CallsOf(u) : worker[c] \in {"unsent", "failed"}}

\* Then the first error cancels the context of the rest, and errs.Wait waits
\* for that, too.
CancelRest(c) ==
  /\ c \in Broken(CallUpload[c])
  /\ CallUpload[c] \notin gone
  /\ Cancel(CallUpload[c])
  /\ UNCHANGED clientVars

Rejected(c) ==
  /\ pc[c] = "err" \/ CallUpload[c] \in gone
  /\ WorkerFails(c, "sent", "failed")

NotSent(c) ==
  /\ CallUpload[c] \in gone
  /\ WorkerFails(c, "reading", "unsent")

ReadOrReplyLost(c) ==
  /\ "client" \in Faults
  /\ WorkerFails(c, "reading", "unsent") \/ WorkerFails(c, "sent", "failed")

\* errs.Wait returns once all goroutines have: nil, or the first error.
AllAcked(u) == \A c \in CallsOf(u) : CallSeq[c] < Total[u] => worker[c] = "acked"

\* Mutant of Finish: the push returns when the object is there.
FinishOnObject(u) ==
  /\ u \in assembled
  /\ PushStep(u, "uploading", "ok")
  /\ UNCHANGED vars

\* Mutant of Finish: the error of errs.Wait is dropped.
FinishWithoutError(u) ==
  /\ spawned[u] = Total[u]
  /\ ActiveWorkers(u) = {}
  /\ PushStep(u, "uploading", "ok")
  /\ UNCHANGED vars

Finish(u) ==
  /\ spawned[u] = Total[u]
  /\ ActiveWorkers(u) = {}
  /\ Broken(u) # {} => u \in gone
  /\ PushStep(u, "uploading", IF AllAcked(u) THEN "ok" ELSE "err")
  /\ UNCHANGED vars

-----------------------------------------------------------------------------
(* The environment of a push *)

Interrupt(u) ==
  /\ "cancel" \in Faults
  /\ push[u] \in {"initiating", "uploading"}
  /\ Cancel(u)
  /\ UNCHANGED clientVars

\* Mutant of DeadlinePasses: the uploads run on a context without deadline.
DeadlineIsIgnored(u) ==
  /\ "expiry" \in Faults
  /\ initPc[u] = "ok" \/ u \in session
  /\ pastDeadline' = pastDeadline \union {u}
  /\ UNCHANGED <<push, spawned, slots, worker, vars>>

DeadlinePasses(u) ==
  /\ "expiry" \in Faults
  /\ initPc[u] = "ok" \/ u \in session
  /\ pastDeadline' = pastDeadline \union {u}
  /\ Cancel(u)
  /\ UNCHANGED <<push, spawned, slots, worker>>

SessionExpires(u) ==
  /\ u \in pastDeadline
  /\ Expire(u)
  /\ UNCHANGED clientVars

Requested(c) == worker[c] \in {"sent", "acked", "failed"}

Client(u) ==
  \/ StartPush(u)
  \/ InitiateReply(u)
  \/ Finish(u)

ClientFails(u) ==
  \/ PrepareFails(u)
  \/ InitiateAbandoned(u)
  \/ OpenFileFails(u)
  \/ Interrupt(u)

Worker(c) ==
  \/ Spawn(c)
  \/ SendPart(c)
  \/ Acknowledged(c)
  \/ Rejected(c)
  \/ NotSent(c)
  \/ CancelRest(c)

Server ==
  \/ \E u \in Uploads : push[u] # "idle" /\ Initiate(u) /\ UNCHANGED clientVars
  \/ \E c \in Calls : Requested(c) /\ UploadPart(c) /\ UNCHANGED clientVars
  \/ \E k \in Keys : Delete(k) /\ UNCHANGED clientVars
  \/ Crash /\ UNCHANGED clientVars

PushNext ==
  \/ \E u \in Uploads : Client(u) \/ ClientFails(u)
  \/ \E u \in Uploads : DeadlinePasses(u) \/ SessionExpires(u)
  \/ \E c \in Calls : Worker(c) \/ ReadOrReplyLost(c)
  \/ Server

PushSpec == PushInit /\ [][PushNext]_pushVars

\* A goroutine that can run does, in the client and in the server, and the
\* replies of Redis and MinIO arrive.  Failures, users and clocks are not fair.
Fairness ==
  /\ \A u \in Uploads : WF_pushVars(InitiateReply(u) \/ Finish(u))
  /\ \A u \in Uploads : WF_pushVars(push[u] # "idle" /\ Initiate(u) /\ UNCHANGED clientVars)
  /\ \A c \in Calls : WF_pushVars(Worker(c))
  /\ \A c \in Calls : WF_pushVars(Requested(c) /\ PartProgress(c) /\ UNCHANGED clientVars)

FairPushSpec == PushSpec /\ Fairness

-----------------------------------------------------------------------------
(* Properties *)

\* The client's variables keep their types, and no goroutine exists for a
\* chunk that the loop has not reached.
PushTypeOK ==
  /\ push \in [Uploads -> PushStates]
  /\ spawned \in [Uploads -> Nat]
  /\ slots \in [Uploads -> WorkerCounts]
  /\ worker \in [Calls -> WorkerStates]
  /\ pastDeadline \subseteq Uploads
  /\ \A c \in Calls : worker[c] # "none" => CallSeq[c] < spawned[CallUpload[c]]

\* A push of a non-empty file that returned no error has written its final
\* object: the acknowledgements of the parts are all the client goes by, and
\* no expiry, cancellation, crash or lost reply makes them lie.
PushedIsStored ==
  \A u \in Uploads : push[u] = "ok" /\ Total[u] > 0 => u \in assembled

\* "the server receives [artifacts] and puts them into the store" (README.md:3):
\* a push that returned no error has written its final object, whatever the
\* size of the file.
EveryPushIsStored == \A u \in Uploads : push[u] = "ok" => u \in assembled

\* What a reader of a key gets: the whole of an upload or nothing.  A torn
\* object would be itself, and no content of the abstract store.
Content ==
  [k \in Keys |->
     IF artifact[k] = None THEN None
     ELSE IF artifact[k].chunks = Segments(artifact[k].upload)
       THEN artifact[k].upload
       ELSE artifact[k]]

\* After a push has returned no error nobody writes its content again, so that
\* it can neither bring back an object that was deleted since nor overwrite one
\* that was pushed since: two handlers may both assemble an upload, but the
\* push waits for the slower one.
NoWriteAfterSuccess ==
  [][\A u \in Uploads : \A k \in Keys :
       push[u] = "ok" /\ Content[k] # u => Content'[k] # u]_pushVars

\* A successful push leaves no part in MinIO and no key in Redis, unless a
\* removal failed on its own; whatever fails at the client.
SuccessLeavesNothing ==
  "io" \notin Faults =>
    \A u \in Uploads :
      push[u] = "ok" /\ Total[u] > 0 =>
        parts[u] = {} /\ u \notin session /\ bitmapKey[u] = "absent"

\* Every push returns, if it has a worker: no failure, cancellation or
\* full semaphore leaves it waiting.
PushReturns ==
  0 \notin WorkerCounts =>
    \A u \in Uploads :
      push[u] \in {"initiating", "uploading"} ~> push[u] \in {"ok", "err"}

\* Every upload of a non-empty file is assembled, unless its requests were
\* cancelled, its file could not be opened or a Delete reached its parts: one of
\* its handlers finds the bitmap full and writes the final object, even if
\* others of them find the parts gone and fail.
UploadIsAssembled ==
  \A u \in Uploads :
    push[u] = "uploading" /\ Total[u] > 0
    ~> u \in assembled \union gone \union wiped \/ (push[u] = "err" /\ spawned[u] = 0)

\* The end-to-end behaviour is that of an artifact store.
Outcome ==
  [u \in Uploads |->
     CASE push[u] = "idle" -> "new"
       [] push[u] \in {"initiating", "uploading"} -> "pending"
       [] push[u] = "ok" -> "stored"
       [] push[u] = "err" -> "failed"]

Store == INSTANCE ArtifactStore WITH
  artifact <- Content,
  outcome <- Outcome,
  committed <- assembled,
  Empty <- {u \in Uploads : Total[u] = 0}

ImplementsStore == Store!Spec
=============================================================================
