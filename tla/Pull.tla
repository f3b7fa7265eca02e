-------------------------------- MODULE Pull --------------------------------
(***************************************************************************)
(* A pull: DownloadArtifact and downloadChunks of the client               *)
(* (internal/client/storage.go) with the GetFileInfo and DownloadRange     *)
(* handlers behind them, while other clients go on pushing and deleting.   *)
(* What those do to the store is the abstract specification that Push      *)
(* implements.                                                             *)
(*                                                                         *)
(* The client reads size and kind of the artifact, opens its output,       *)
(* starts the workers and hands out one job per range over an unbuffered   *)
(* channel.  Each range is a request of its own, so two ranges may come    *)
(* from two artifacts.                                                     *)
(***************************************************************************)
EXTENDS ArtifactStore, Integers, FiniteSetsExt

CONSTANTS
  Key,        \* the prefix that is pulled
  Size,       \* the size of each artifact as it is stored
  IsDir,      \* whether an artifact is a zipped directory
  ChunkSize,  \* --chunk-size
  Workers,    \* --workers
  Faults,     \* the kinds of failure that happen
  Hole,       \* what a byte is that was never written
  Old,        \* what a byte is that the destination held before the pull
  OldSize     \* the size of the destination before the pull

ASSUME PullAssumption ==
  /\ Key \in Keys
  /\ Target \in [Uploads -> Keys]
  /\ Size \in [Uploads -> Nat]
  /\ IsDir \in [Uploads -> BOOLEAN]
  /\ Empty = {u \in Uploads : Size[u] = 0}
  /\ ChunkSize \in Nat \ {0}
  /\ Workers \in Nat
  /\ Faults \subseteq {"io", "cancel"}
  /\ OldSize \in Nat
  /\ {None, Hole, Old} \intersect Uploads = {}

VARIABLES
  keyed,      \* whether pushes and the pull use a cipher key
  pull,       \* DownloadArtifact
  info,       \* the artifact whose GetFileInfo it goes by
  file,       \* the output: the artifact that each byte comes from
  truncated,  \* whether the output got the size of the artifact
  tempFiles,  \* the temporary files that exist
  stuck,      \* history: those whose removal failed
  produced,   \* i of the loop that hands out the jobs
  worker,     \* the goroutines of downloadChunks
  job,        \* the job of each goroutine
  data,       \* the artifact that the handler of its request reads
  cancelled,  \* whether the context of the goroutines is done
  disturbed,  \* history: whether Key changed since GetFileInfo
  faulted     \* history: whether anything failed by itself, or the user did

groupVars == <<produced, worker, job, data>>
outputVars == <<file, truncated, tempFiles, stuck>>
fixedVars == <<keyed, disturbed>>
pullVars ==
  <<pull, info, outputVars, groupVars, cancelled, fixedVars, faulted>>

PullStates ==
  {"idle", "informed", "producing", "waiting", "downloaded", "decrypted", "ok", "err"}
Active == {"ready", "asking", "reading", "writing"}
WorkerStates == Active \union {"none", "exited", "failed"}
Pool == 1 .. Workers

Segments(u) == (Size[u] + ChunkSize - 1) \div ChunkSize
Offset(i) == i * ChunkSize

\* Mutant of Limit: the last range is as long as the others.
WholeChunk(u, i) == ChunkSize

Limit(u, i) ==
  IF Offset(i) + ChunkSize > Size[u] THEN Size[u] - Offset(i) ELSE ChunkSize

ByteRange(u, i) == Offset(i) .. Offset(i) + Limit(u, i) - 1
Bytes(u) == 0 .. Size[u] - 1

DownloadInit ==
  /\ keyed \in BOOLEAN
  /\ pull = "idle"
  /\ info = None
  /\ file = [b \in 0 .. OldSize - 1 |-> Old]
  /\ truncated = FALSE
  /\ tempFiles = {}
  /\ stuck = {}
  /\ produced = 0
  /\ worker = [w \in Pool |-> "none"]
  /\ job = [w \in Pool |-> 0]
  /\ data = [w \in Pool |-> None]
  /\ cancelled = FALSE
  /\ disturbed = FALSE
  /\ faulted = FALSE

PullInit == Init /\ DownloadInit

-----------------------------------------------------------------------------
(* DownloadArtifact, up to the download *)

\* The handler GetFileInfo: what the key holds now.
FileInfo == artifact[Key]

\* An artifact of size zero is an error, as is a missing one.
GetInfo ==
  /\ pull = "idle"
  /\ IF FileInfo \in {None} \union Empty
       THEN pull' = "err" /\ UNCHANGED info
       ELSE pull' = "informed" /\ info' = FileInfo
  /\ UNCHANGED <<outputVars, groupVars, cancelled, fixedVars, faulted, vars>>

\* prepareOutputFile: the destination as it is, or an empty temporary file
\* for an archive.
Opened == IF IsDir[info] THEN <<>> ELSE file
OutputTemp == IF IsDir[info] THEN {"zip"} ELSE {}

Resized(f, size) ==
  [b \in 0 .. size - 1 |-> IF b \in DOMAIN f THEN f[b] ELSE Hole]

StartDownload ==
  /\ pull = "informed"
  /\ pull' = "producing"
  /\ tempFiles' = OutputTemp
  /\ worker' = [w \in Pool |-> IF w <= Segments(info) THEN "ready" ELSE "none"]
  /\ UNCHANGED <<info, stuck, produced, job, data, cancelled, fixedVars, vars>>

\* Mutant of PrepareOutput: the file is sized in whole chunks.
PrepareWholeChunks ==
  /\ StartDownload
  /\ truncated' = TRUE
  /\ file' = Resized(Opened, Segments(info) * ChunkSize)
  /\ UNCHANGED faulted

\* The output is truncated to the size of the artifact.  Then downloadChunks
\* starts its workers, no more than there are jobs.
PrepareOutput ==
  /\ StartDownload
  /\ truncated' = TRUE
  /\ file' = Resized(Opened, Size[info])
  /\ UNCHANGED faulted

\* A Truncate that fails is logged, and the download goes on.
TruncateFails ==
  /\ "io" \in Faults
  /\ StartDownload
  /\ file' = Opened
  /\ faulted' = TRUE
  /\ UNCHANGED truncated

PrepareFails ==
  /\ \/ pull = "idle" /\ Faults # {}
     \/ pull = "informed" /\ "io" \in Faults
  /\ pull' = "err"
  /\ faulted' = TRUE
  /\ UNCHANGED <<info, outputVars, groupVars, cancelled, fixedVars, vars>>

-----------------------------------------------------------------------------
(* downloadChunks: the loop that hands out the jobs *)

\* os.Remove of temporary files.  An error of it leaves the file.
RemoveFiles(files) ==
  \E left \in SUBSET (files \intersect tempFiles) :
    /\ left # {} => "io" \in Faults
    /\ tempFiles' = (tempFiles \ files) \union left
    /\ stuck' = stuck \union left
    /\ faulted' = (faulted \/ left # {})

HandOut(w) ==
  /\ pull = "producing"
  /\ produced < Segments(info)
  /\ worker[w] = "ready"
  /\ worker' = [worker EXCEPT ![w] = "asking"]
  /\ job' = [job EXCEPT ![w] = produced]
  /\ produced' = produced + 1
  /\ UNCHANGED <<pull, info, outputVars, data, cancelled, fixedVars, faulted, vars>>

Close ==
  /\ pull = "producing"
  /\ produced = Segments(info)
  /\ pull' = "waiting"
  /\ UNCHANGED <<info, outputVars, groupVars, cancelled, fixedVars, faulted, vars>>

\* The loop closes the channel, gives up and waits for nobody: goroutines that
\* are at work go on after DownloadArtifact has removed and closed the file.
GiveUp ==
  /\ pull = "producing"
  /\ produced < Segments(info)
  /\ cancelled
  /\ pull' = "err"
  /\ RemoveFiles({"zip"})
  /\ UNCHANGED <<info, file, truncated, groupVars, cancelled, fixedVars, vars>>

\* Mutant of Wait: the error is read without waiting.
WaitForNobody ==
  /\ pull = "waiting"
  /\ IF \E w \in Pool : worker[w] = "failed"
       THEN pull' = "err" /\ RemoveFiles({"zip"})
       ELSE pull' = "downloaded" /\ UNCHANGED <<tempFiles, stuck, faulted>>
  /\ UNCHANGED <<info, file, truncated, groupVars, cancelled, fixedVars, vars>>

\* errs.Wait.
Wait ==
  /\ pull = "waiting"
  /\ \A w \in Pool : worker[w] \notin Active
  /\ IF \E w \in Pool : worker[w] = "failed"
       THEN pull' = "err" /\ RemoveFiles({"zip"})
       ELSE pull' = "downloaded" /\ UNCHANGED <<tempFiles, stuck, faulted>>
  /\ UNCHANGED <<info, file, truncated, groupVars, cancelled, fixedVars, vars>>

-----------------------------------------------------------------------------
(* downloadChunks: the goroutines, and DownloadRange *)

WorkerStep(w, from, to) ==
  /\ worker[w] = from
  /\ worker' = [worker EXCEPT ![w] = to]
  /\ UNCHANGED <<pull, info, truncated, tempFiles, stuck, produced, job, fixedVars, vars>>

\* Mutant of Exit: a download that gives up leaves the channel open.
ExitAfterClose(w) ==
  /\ pull \notin {"producing", "err"}
  /\ WorkerStep(w, "ready", "exited")
  /\ UNCHANGED <<file, data, cancelled, faulted>>

\* The channel is closed and empty.
Exit(w) ==
  /\ pull # "producing"
  /\ WorkerStep(w, "ready", "exited")
  /\ UNCHANGED <<file, data, cancelled, faulted>>

\* The handler's Stat fixes the artifact by its ETag.
StatRange(w) ==
  /\ artifact[Key] # None
  /\ WorkerStep(w, "asking", "reading")
  /\ data' = [data EXCEPT ![w] = artifact[Key]]
  /\ UNCHANGED <<file, cancelled, faulted>>

\* ReadAt under that ETag returns what there is of the range, and the client
\* accepts all of it or nothing.
InRange(w) == Offset(job[w]) + Limit(info, job[w]) <= Size[data[w]]

ReadRange(w) ==
  /\ worker[w] = "reading"
  /\ artifact[Key] = data[w]
  /\ InRange(w)
  /\ WorkerStep(w, "reading", "writing")
  /\ UNCHANGED <<file, data, cancelled, faulted>>

FileIsOpen == pull \in {"producing", "waiting"}

\* WriteAt overwrites bytes, and appends those behind the end of the file.
Written(f, range, u) ==
  [b \in DOMAIN f \union 0 .. Max(range) |->
     IF b \in range THEN u ELSE IF b \in DOMAIN f THEN f[b] ELSE Hole]

WriteRange(w) ==
  /\ FileIsOpen
  /\ WorkerStep(w, "writing", "ready")
  /\ file' = Written(file, ByteRange(info, job[w]), data[w])
  /\ UNCHANGED <<data, cancelled, faulted>>

\* Mutant of WorkerFails: the error is logged and the next job taken.
SkipFailedRange(w, from) ==
  /\ WorkerStep(w, from, "ready")
  /\ UNCHANGED <<file, data, cancelled>>

\* An error of a goroutine ends it and the context of all of them.
WorkerFails(w, from) ==
  /\ WorkerStep(w, from, "failed")
  /\ cancelled' = TRUE
  /\ UNCHANGED <<file, data>>

\* A call fails for a reason that the model has, or by itself.
FailsFor(reason) ==
  \/ reason /\ UNCHANGED faulted
  \/ "io" \in Faults /\ faulted' = TRUE

RangeFails(w) ==
  \/ /\ worker[w] = "asking"
     /\ FailsFor(artifact[Key] = None \/ cancelled)
     /\ WorkerFails(w, "asking")
  \/ /\ worker[w] = "reading"
     /\ FailsFor(artifact[Key] # data[w] \/ ~InRange(w) \/ cancelled)
     /\ WorkerFails(w, "reading")

WriteFails(w) ==
  /\ FailsFor(~FileIsOpen)
  /\ WorkerFails(w, "writing")

-----------------------------------------------------------------------------
(* DownloadArtifact, after the download *)

\* The file is the whole of one artifact, or of a directory's archive.
IsWholeOf(f, u) == f = [b \in Bytes(u) |-> u]
IsWhole(f) == \E u \in Uploads : IsWholeOf(f, u)
IsArchive(f) == \E u \in Uploads : IsDir[u] /\ IsWholeOf(f, u)

\* Mutant of Decrypt: a cipher without authentication.
DecryptUnauthenticated ==
  /\ pull = "downloaded" /\ keyed
  /\ IF IsDir[info]
       THEN pull' = "decrypted" /\ tempFiles' = tempFiles \union {"dec"}
       ELSE pull' = "ok" /\ UNCHANGED tempFiles
  /\ UNCHANGED <<info, file, truncated, stuck, groupVars, cancelled, fixedVars, faulted, vars>>

\* AES-GCM opens what was sealed and nothing else.  The plain text of a file
\* replaces it, that of a directory goes to a second temporary file.
Decrypt ==
  /\ pull = "downloaded" /\ keyed
  /\ IsWhole(file)
  /\ IF IsDir[info]
       THEN pull' = "decrypted" /\ tempFiles' = tempFiles \union {"dec"}
       ELSE pull' = "ok" /\ UNCHANGED tempFiles
  /\ UNCHANGED <<info, file, truncated, stuck, groupVars, cancelled, fixedVars, faulted, vars>>

DecryptFails ==
  /\ pull = "downloaded" /\ keyed
  /\ FailsFor(~IsWhole(file))
  /\ pull' = "err"
  /\ UNCHANGED <<info, outputVars, groupVars, cancelled, fixedVars, vars>>

\* The plain text of an archive cannot be written: its file, if it was made at
\* all, is removed as well as may be.
SaveDecryptedFails ==
  /\ "io" \in Faults
  /\ pull = "downloaded" /\ keyed /\ IsDir[info]
  /\ pull' = "err"
  /\ tempFiles' \in {tempFiles, tempFiles \union {"dec"}}
  /\ stuck' = stuck \union (tempFiles' \ tempFiles)
  /\ faulted' = TRUE
  /\ UNCHANGED <<info, file, truncated, groupVars, cancelled, fixedVars, vars>>

\* unpackArchive has the archive, or what was decrypted of it.
Unpacking ==
  \/ pull = "decrypted"
  \/ pull = "downloaded" /\ ~keyed /\ IsDir[info]

\* Mutant of Unpack: with a key, the archive itself is not removed.
UnpackAndKeepArchive ==
  /\ Unpacking
  /\ RemoveFiles({IF keyed THEN "dec" ELSE "zip"})
  /\ pull' = IF ~keyed /\ "zip" \in tempFiles' THEN "err" ELSE "ok"
  /\ UNCHANGED <<info, file, truncated, groupVars, cancelled, fixedVars, vars>>

\* unpackArchive, and the removal of the temporary files.  Only without a key
\* does an error of the removal fail the pull.
Unpack ==
  /\ Unpacking
  /\ RemoveFiles({"zip", "dec"})
  /\ pull' = IF ~keyed /\ "zip" \in tempFiles' THEN "err" ELSE "ok"
  /\ UNCHANGED <<info, file, truncated, groupVars, cancelled, fixedVars, vars>>

\* What is no archive, or is put together from two, unpackArchive may reject.
\* The archive stays, what was decrypted of it is removed.
RejectArchive ==
  /\ Unpacking
  /\ ~IsArchive(file)
  /\ pull' = "err"
  /\ RemoveFiles({"dec"})
  /\ UNCHANGED <<info, file, truncated, groupVars, cancelled, fixedVars, vars>>

UnpackFails ==
  /\ "io" \in Faults
  /\ Unpacking
  /\ pull' = "err"
  /\ tempFiles' \in {tempFiles, tempFiles \ {"dec"}}
  /\ stuck' = stuck \union (tempFiles' \intersect {"dec"})
  /\ faulted' = TRUE
  /\ UNCHANGED <<info, file, truncated, groupVars, cancelled, fixedVars, vars>>

\* A plain file is taken as it is: the check of its hash is commented out.
Deliver ==
  /\ pull = "downloaded" /\ ~keyed /\ ~IsDir[info]
  /\ pull' = "ok"
  /\ UNCHANGED <<info, outputVars, groupVars, cancelled, fixedVars, faulted, vars>>

-----------------------------------------------------------------------------
Interrupt ==
  /\ "cancel" \in Faults
  /\ pull \in {"informed", "producing", "waiting"}
  /\ cancelled' = TRUE
  /\ faulted' = TRUE
  /\ UNCHANGED <<pull, info, outputVars, groupVars, fixedVars, vars>>

\* What a step of others is for the pull.
Disturb ==
  /\ disturbed' = (disturbed \/ (pull # "idle" /\ artifact'[Key] # artifact[Key]))
  /\ UNCHANGED <<pull, info, outputVars, groupVars, cancelled, keyed, faulted>>

\* The other clients.
Others == Next /\ Disturb

Client ==
  \/ GetInfo
  \/ PrepareOutput
  \/ Close
  \/ GiveUp
  \/ Wait
  \/ Decrypt
  \/ Unpack
  \/ Deliver

Goroutine(w) ==
  \/ HandOut(w)
  \/ Exit(w)
  \/ StatRange(w)
  \/ ReadRange(w)
  \/ WriteRange(w)
  \/ RangeFails(w)
  \/ WriteFails(w)

DownloadNext ==
  \/ Client
  \/ PrepareFails \/ TruncateFails
  \/ DecryptFails \/ SaveDecryptedFails \/ RejectArchive \/ UnpackFails
  \/ \E w \in Pool : Goroutine(w)
  \/ Interrupt

PullNext == DownloadNext \/ Others

PullSpec == PullInit /\ [][PullNext]_<<vars, pullVars>>

\* The client does not stop while one of its goroutines can run or one of its
\* requests can be answered.  Which of them does is left open.
PullFairness ==
  WF_<<vars, pullVars>>(Client \/ DecryptFails \/ \E w \in Pool : Goroutine(w))

FairPullSpec == PullSpec /\ PullFairness

-----------------------------------------------------------------------------
(* Properties *)

\* Every variable keeps its type, and jobs are ranges of the artifact.
PullTypeOK ==
  /\ pull \in PullStates
  /\ info \in Uploads \union {None}
  /\ pull \notin {"idle", "err"} => info \in Uploads
  /\ file \in [0 .. Cardinality(DOMAIN file) - 1 -> Uploads \union {Hole, Old}]
  /\ FileIsOpen /\ truncated => DOMAIN file = Bytes(info)
  /\ keyed \in BOOLEAN
  /\ truncated \in BOOLEAN
  /\ faulted \in BOOLEAN
  /\ tempFiles \subseteq {"zip", "dec"}
  /\ stuck \subseteq tempFiles
  /\ produced \in Nat
  /\ worker \in [Pool -> WorkerStates]
  /\ job \in [Pool -> Nat]
  /\ data \in [Pool -> Uploads \union {None}]
  /\ cancelled \in BOOLEAN
  /\ disturbed \in BOOLEAN

\* A download that reports no error has written every byte of the output:
\* no job is lost between the loop, the workers and a failing request, also
\* when the artifact is replaced by a shorter one meanwhile.
Downloaded == pull \in {"downloaded", "decrypted", "ok"}

NoHoles ==
  Downloaded => \A b \in Bytes(info) : b \in DOMAIN file /\ file[b] \in committed

\* What a pull delivers is one whole artifact that was pushed, and nothing of
\* what its destination held before, if it was encrypted, or if nobody replaced
\* it meanwhile and the destination could be truncated.
DeliveredIsWhole ==
  pull = "ok" /\ (keyed \/ (~disturbed /\ (truncated \/ IsDir[info]))) =>
    \E u \in committed : IsWholeOf(file, u)

\* "check artifact hashsum" (internal/client/storage.go:122): whatever others
\* push meanwhile, what a pull delivers is one whole artifact.
HashsumIsChecked == pull = "ok" => IsWhole(file)

\* Every range was handed out and no goroutine has failed.
DownloadIsComplete ==
  /\ info # None /\ produced = Segments(info)
  /\ \A w \in Pool : worker[w] # "failed"

\* A pull that has returned leaves no temporary file whose removal has not
\* failed, whichever way it ended, but for the archive of a whole download that
\* could not be decrypted or unpacked.
TempFilesAreRemoved ==
  pull \in {"ok", "err"} =>
    tempFiles \subseteq
      stuck \union (IF pull = "err" /\ DownloadIsComplete THEN {"zip"} ELSE {})

\* A pull that nothing fails and nobody disturbs delivers.
PullSucceeds == pull = "informed" ~> pull = "ok" \/ disturbed \/ faulted

Ended(w) == worker[w] \in {"none", "exited", "failed"}

\* Every pull returns, if it has a worker, and leaves no goroutine for ever: when
\* all workers have failed, the loop does not wait for one to take the next job;
\* when it gives up, it closes the channel on which the idle ones wait, and the
\* others get their answer or their error.
PullReturns ==
  Workers > 0 =>
    (pull = "informed" ~> pull \in {"ok", "err"} /\ \A w \in Pool : Ended(w))
=============================================================================
