# Verification of gorbage

gorbage is a client and a server for artifacts (files and directories). The
client (`cmd/client`, `internal/client`) zips and encrypts locally and talks
gRPC over mutual TLS to the server (`cmd/server`, `internal/server`,
`pkg/interceptor`), which keeps upload sessions in Redis and objects in MinIO.
This directory holds TLA+ models of that program, TLC runs on small instances
and TLAPS proofs for all instances.

## Inventory

| Part | State | Operations | Talks to |
|---|---|---|---|
| Upload handlers, `internal/server/storage.go` | none of its own; Redis: `uploads:<id>:meta` and a bitmap, both with a TTL; MinIO: `uploads/<id>/<seq>` and the final objects | `InitiateUpload`, `UploadPart`, `Delete`, `checkBucket` | Redis, MinIO |
| Read handlers, same file | none | `DownloadRange`, `List`, `GetFileInfo` | MinIO |
| Upload client, `internal/client/storage.go` | a semaphore, an `errgroup`, a context with deadline | `UploadArtifact`, `uploadChunks` | the handlers |
| Download client, same file | a job channel, workers, the output file | `DownloadArtifact`, `downloadChunks` | the handlers, files |
| Client files, `internal/client/file.go` | temporary files | `prepareUploadArtifact`, `zipDirToFile`, `prepareOutputFile`, `unpackArchive` | file system |
| Gateway, `pkg/interceptor`, `internal/server/grpc.go` | trusted networks, per call a context | logging, trusted address, certificate, unary and streaming | the handlers |
| Server process, `cmd/server/main.go`, `Run` | listener, signal context | start, graceful stop | all of it |
| Command line, `internal/client/cli.go`, `view.go` | none | dispatch, printing | the clients |
| Chunk arithmetic, in both storage files | none | number, offset and length of chunks, in `int64` and `uint64` | both ends |
| Configuration, `internal/config` | none | environment, flags | the mains |
| Cipher, hash, connections | none | pure functions and constructors | |
| `internal/proto`, mocks | generated | | |

The hard part is the upload. A push is one `InitiateUpload` and one concurrent
`UploadPart` per chunk; every handler stores its part, sets its bit and counts
the bits, and whoever counts them all assembles the final object, removes the
parts and deletes the session. The handlers share no lock and no transaction:
between two of their calls to Redis and MinIO any other handler runs, the keys
may expire, the client may go away and the process may be killed.

What makes each part correct:

* upload handlers: no part is removed before it is in the final object; a final
  object is whole; if all parts were acknowledged someone assembles; nothing is
  left behind;
* upload client: success means stored, and stored for good; the push returns;
* download client: what it reports as downloaded is one whole artifact; it
  returns, its goroutines end, and it removes its temporary files;
* client files: no temporary file outlives the command unless it cannot be
  removed; what is stored of a directory is complete although it may change
  meanwhile, what is stored of a plain file has its bytes in their places, and
  unpacking fails only for a fault, for the number of files, or for what is in
  the way;
* chunk arithmetic: both ends agree on the chunks, and these are the file;
* gateway: no handler runs without a trusted address, for another user than the
  one of its connection, or without what it asserts of its context;
* server process: it serves only under a configuration that holds, and a signal
  ends it.

`PROJECT.json` lists, under `hazards`, the lines at which these can go wrong.

## Modules

```
UploadServer <- Push ......implements......> ArtifactStore <- Pull
                  ^                                             ^
                  System ..............implements................
Chunks <- ChunkedFile        Directory        Gateway <- ServerProcess
```

(`A <- B`: B extends A.) Each of `MCUploadServer`, `MCPush`, `MCPull`,
`MCSystem`, `MCServerProcess`, `MCChunkedFile` and `MCDirectory` names the
calls, sizes and trees of the instances that TLC checks. The proofs about `M`
are in `MProofs`.

### UploadServer

The upload side of the server. Variables are the contents of MinIO (`buckets`,
`parts`, `artifact`) and Redis (`session`, `bits`, `bitmapKey`), the program
counters and locals of the handlers (`initPc`, `pc`, `next`, `copied`), the
uploads whose client has cancelled (`gone`) and three history variables
(`assembled`, `lapsed`, `wiped`) that properties talk about.

| Action | Code |
|---|---|
| `CheckBucket`, `MakeBucket`, `SaveSession`, `InitiateFails` | `checkBucket`, `InitiateUpload` |
| `GetSession`, `PutPart`, `SetBit`, `BitCount` | `UploadPart` up to the comparison of the count |
| `ReadPart`, `ReadMissingPart`, `PutFinal` | the pipe goroutine and the `PutObject` it feeds |
| `RemovePart`, `DelSession`, `DelSessionFails` | the clean-up, whose errors are ignored |
| `PartFails` | the error returns of `UploadPart` |
| `Delete` | `Delete`: the object of that name and, `ForceDelete` being set, all that lies under it |
| `Cancel`, `Expire`, `Crash` | cancellation by gRPC, the TTL in Redis, the end of `run` |

A call that fails after it took effect (a lost reply) is the success step
followed by the failure of the next one, or a disjunct of its own where no step
follows (`SaveSession(u, "err")`, `PutFinal(c, "err")`). The constant `Faults`
says which kinds of failure an instance has: `io` (a call to a store fails by
itself), `client` (the client's files or its network do; used in `Push`),
`cancel` (the user interrupts), `crash`, `expiry`. A cancelled client makes the
calls of its handlers fail whatever `Faults` says, because gRPC cancels their
context.

Abstractions: a part is its sequence number, an artifact the set of chunks it
was made of and the upload whose metadata it has; `totalChunks` is a number
(`ChunksProofs` proves when client and server compute the same one); an upload
belongs to one user, who makes all its calls, so parts and final object are in
one bucket; no final object has the name of a part; a `Delete` that reaches
several objects removes them in one step; `MakeBucket` with `ForceCreate` accepts
an existing bucket; `PutObject` makes an object appear at once. What lies under a
name is given by two constants: `Below`, the final objects, and `PartsBelow`, the
parts of each upload, so that a `Delete` of `uploads/<id>` or of a name above it
takes the parts of an upload from its handlers. A redelivered call is a second
call with the same chunk.

### Push

`UploadArtifact` and `uploadChunks` on top of `UploadServer`: the state of the
push, the loop (`spawned`), one goroutine per chunk (`worker`) under a semaphore
(`slots`, the `--workers` of each push), the `errgroup` that cancels the others
on the first error, and the deadline. A goroutine that fails gives its slot back
by a deferred call, which runs before the `errgroup` learns of the error; hence
`WorkerFails` and `CancelRest` are two steps, between which the loop may start
and send another chunk. Every server action is taken as it is, and only for
calls that were sent. The client and the server have the same clock, and the
server computes `expires_at_unix` before it sets the TTL, so a session does not
expire before its client's deadline (`SessionExpires`).

### ArtifactStore

What a push promises: under a key there is nothing or one whole artifact, a push
that was reported as successful has been stored, and does not write again. A
push that was reported as failed may still take effect later: this is what the
code does when a reply is lost after the assembly began, and the specification
says so. `Push!ImplementsStore` is the refinement. Its mapping (`Content`) sends
a torn object to a value that the abstract store does not know.

### Pull

`DownloadArtifact` and `downloadChunks` on top of `ArtifactStore`: what the
other clients do to the key is the abstract specification (`Others`), which is
sound because pushes implement it; `System` says so formally. `DownloadInit` and
`DownloadNext` are the pull alone, `Disturb` is what a step of others is for it.
Variables are the state of the pull, the artifact whose size and kind it goes by
(`info`), the output byte by byte (`file`, each byte being the artifact it comes
from, or one of what the destination held before, or a hole), whether it could
be truncated, the temporary files, those that could not be removed (`stuck`),
the loop over the jobs (`produced`) and, per goroutine, its state, its job and
the artifact its request reads. `keyed` is chosen at the beginning, so that one
run has pulls with and without a cipher key.

| Action | Code |
|---|---|
| `GetInfo`, `PrepareOutput`, `PrepareFails`, `TruncateFails` | `DownloadArtifact` up to `downloadChunks`, with `GetFileInfo` and `prepareOutputFile`; a failed `Truncate` is only logged |
| `HandOut`, `Close`, `GiveUp`, `Wait` | the loop with its `select`, and `errs.Wait` |
| `StatRange`, `ReadRange`, `RangeFails` | one `DownloadRange`, whose `ReadAt` is bound to the ETag that `Stat` saw |
| `WriteRange`, `WriteFails`, `Exit` | the rest of a goroutine |
| `Decrypt`, `Unpack`, `Deliver`, `DecryptFails`, `SaveDecryptedFails`, `RejectArchive`, `UnpackFails` | `DownloadArtifact` after the download |
| `RemoveFiles`, a part of the steps above | each `os.Remove`, which may fail; only a pull of an archive without a key returns that error |

Assumptions: AES-GCM opens what was sealed under the key and nothing else; a
put-together archive may or may not be rejected by `unpackArchive`; all pushes
use the same key.

### System

Pushes and a pull on one server: `Push` and an instance of `Pull` whose store is
what the pushes' handlers have put into MinIO (`artifact <- Content`). They
share nothing else. A step of a push (`PushNext`) takes the place of the
abstract store's; a step of the pull (`DownloadNext`) changes nothing of the
pushes. `PullSeesStore` says that this is still `Pull`, so that everything that
holds there holds on top of sessions, parts and double assemblies as well.
`PulledIsPushed` goes from one end to the other: the bytes in the file of the
one client were sent, every chunk of them, by another one.

Assumption: the sizes in MinIO have a byte if and only if the push has a chunk.
How many bytes each chunk has is the subject of `ChunkedFile`, and the pull's
chunk size is its own.

### Chunks and ChunkedFile

`Chunks` is the arithmetic with which both ends cut a file, in wrapping integers
of width `2 * Half`: `ClientChunks`, `Offset` and `Limit` in `int64`,
`ServerChunks` in `uint64`, with the conversions between them and the division
of Go. `Representable` names the sizes with which nothing wraps.

`ChunkedFile` follows the bytes of one push and one pull through it: `Measure`
and `Encrypt` (`prepareUploadArtifact`, `UploadArtifact`), `OpenSession`
(`InitiateUpload` and the semaphore), `SendChunk` in any order, `CopyPart` for
each turn of the goroutine behind the pipe, `Assemble` for the `PutObject` at
its end, `Return`, and `PullWith` with any chunk size, while `Edit` changes the
file. A plain file is read where it is, after it was measured and hashed; an
archive or an encrypted artifact is a copy. `seen` is the history of the file:
which byte it has held at which place. A pull whose client computes a range of
negative length makes the server panic (`NegativeRange`: `make` in
`DownloadRange`). Every chunk size that the integers have occurs, as the code
takes any `--chunk-size`. Failures and interleaved handlers are the subject of
`Push` and `Pull` and left out here.

### Directory

`zipDirToFile`, `prepareUploadArtifact` and `unpackArchive` with the temporary
files of `UploadArtifact`. Entries are the nodes of a constant tree, in the
order in which `WalkDir` visits them; the directory is the subset that exists
(`tree`), and others add and remove entries (`Add`, `Remove`) between the steps
of the walk (`StartWalk`, `Visit`, `CloseArchive`, `WalkFails`). `WalkFails` is
what the deferred calls make of an error: if the unfinished archive can be
removed the function returns no error and no path, and only the attempt to hash
a file without a name (`HashFails`) fails the push. `Seal`, `SealFails`,
`CloseSealedFails`, `Send` and `Return` follow the deferred removals of
`UploadArtifact`. The pull opens, makes and writes entry by entry
(`UnpackEntry`, `Reject`, `OpenFails`, `UnpackFails`, `UnpackReturns`), keeps
every file open until it returns, and may be tried again over what a failed
attempt has left. `before` is what the destination held before the first
attempt.

### Gateway and ServerProcess

`Gateway` is the chain of interceptors: per call a stage, its metadata and the
context that the interceptors pass on, up to the type assertions with which stub
and handler take service and user from it. The address is the one that the
client puts into its `x-real-ip` header, as in `checkTrustIP`. Unary and
streaming interceptors are separate actions, as the code has them twice.

`ServerProcess` is the process around it: `run` in `cmd/server/main.go` from
`ParseServerConfig` over the connections to `Shutdown`, `GRPCServer.Run`
(`Listen`, `RequestStop`, `GracefulStop`, `RunReturns`) and the goroutine of
`Serve`. Of the configuration it has what decides whether and whom the server
serves: TTL, chunk size and trusted networks, each from environment and flag.

## Runs

| Run | Instance | Shows |
|---|---|---|
| `server_faults` | 1 upload, 2 chunks, one chunk sent twice, one call out of range, all failures, deletes of its name and of one above it and its parts | `TypeOK`, `PartsKeptUntilAssembled`, `CompletedIsAssembled`, `ArtifactsAreWhole`, `SessionEndsForAReason`, `BitmapHasTTL` |
| `push` | 1 push, 2 chunks, 1 or 2 workers, every failure but those of the stores by themselves, the same deletes, fair | `PushTypeOK`, `PushedIsStored`, `SuccessLeavesNothing`, `NoWriteAfterSuccess`, `ImplementsStore`, `PushReturns`, `UploadIsAssembled` |
| `system` | 2 pushes of one chunk to one key, with failing calls, a delete, and a pull of the key in 2 ranges, with and without cipher | `PulledIsPushed`, `PullSeesStore` |
| `pull` | 1 pull, 2 workers, a file of 3 bytes and an archive of 5 in ranges of 2, over a file of 4, with and without cipher, all failures, fair | `PullTypeOK`, `NoHoles`, `DeliveredIsWhole`, `TempFilesAreRemoved`, `PullReturns`, `PullSucceeds` |
| `chunked_file` | integers of 4 bits, files of up to 3 bytes, two changes, every chunk size, with and without cipher, file and archive | `FileTypeOK`, `SuccessStores`, `StoredInPlace`, `StoredMatchesHash`, `PulledIsStored` |
| `directory` | 8 entries with links, read-only ones and an odd name, 2 changes, 2 attempts to unpack, 3 open files | `DirTypeOK`, `StoredIsComplete`, `PushLeavesNothing`, `UnpackedIsComplete`, `UnpackFailsForAReason` |
| `server_process` | 2 unary calls, one of a user without a name, and a stream; one network; every configuration; fair | `GatewayTypeOK`, `HandlersServeTheirUser`, `ContextSuffices`, `RejectionsAreTraceable`, `ProcessTypeOK`, `ServesAsConfigured`, `SignalEndsProcess` |
| `server_double_assembly` | 1 upload, 2 chunks, no failure | violates `AssemblyFindsItsParts` |
| `push_empty` | 1 empty push, no failure | violates `EveryPushIsStored` |
| `pull_hashsum` | two files of one size, no cipher, no failure | violates `HashsumIsChecked` |
| `server_shutdown` | 1 call | violates `ShutdownIsComplete` |
| `directory_round_trip` | the directory above, no change, one attempt, enough open files | violates `DirectoryComesBack` |

Bounds. Two chunks are the smallest number with two handlers that can both see
the bitmap full; the repeated call of `server_faults` makes a third handler,
which may be behind two assembling ones. With one worker the second chunk waits
for the slot of the first, with two both are on their way when one fails. Two
changes of a file are one before and one after a chunk is read, such as a cut
followed by an append. In `system` two pushes meet each other and the pull only
in the object they overwrite, so one chunk each is enough, and two ranges to
come from both of them; the pushes are alike, hence the symmetry; calls fail,
while crashes, interrupts and expiries are left to `push` and, in any
combination, to the proofs. A pull needs two ranges to come from two artifacts,
two goroutines for one to work on while the other fails, more ranges than
goroutines for the loop to be left with nobody to take a job, a shorter artifact
for a range that ends too late, and a destination longer than the artifact for a
failed `Truncate` to matter. Four bits leave room for a sealed file of four
bytes and for chunk sizes that overflow with it at both ends, negative ones and
zero included. The tree of `directory` has each kind of entry once, a directory
with a file in it, a read-only one, and more files than may be open; two changes
remove an entry and bring it back, two attempts are a failure and what follows.
Two unary calls of two users are what could be mixed up in the chain. The proofs
have none of these bounds. `CHECK_DEADLOCK FALSE` is set where the modelled
activity ends: a process that is gone, a file or directory that has been pulled.

Fairness. `FairPushSpec`: weak fairness of each goroutine of the client and of
each handler, which the Go scheduler and answering stores justify.
`FairPullSpec`: weak fairness of the client as a whole (it does not stop while
one of its goroutines can run or one of its requests can be answered), which is
weaker. `FairProcessSpec`: weak fairness of `main`, of `Run` and of the
goroutine of `Serve`; none of calls, whose handlers may hang, and none of
signals, so that `SignalEndsProcess` holds although `GracefulStop` may wait for
ever. Nothing is assumed of failures, other users and clocks: no fairness of
`Others`, `Interrupt`, `Crash`, `DeadlinePasses`, `SessionExpires`, `Delete`.
`PushReturns` and `PullReturns` need a worker: with `--workers 0` the loop waits
on a semaphore without capacity, or on a channel without a reader, for ever.

Each property of a passing run has a mutant, an operator next to the definition
it replaces, that TLC must find to violate it.

## What the violations mean

* `server_double_assembly`: two handlers set the last two bits before either
  counts. Both log "all chunks present, assembling"; the one that is through
  first removes the parts, and the other one fails with "failed to assemble
  final object". The push reports an error although nothing failed, and the
  cancellation that follows may abort the clean-up of the first handler, whose
  parts and keys then stay.
* `push_empty`: an empty file has no chunks; the client reports success and no
  object is stored.
* `pull_hashsum`: each range is a request of its own, so a push to the same name
  between two of them leaves a file with ranges of both, and the check of its
  hash is commented out. With a cipher key the decryption notices
  (`DeliveredIsWhole` in `pull`); for a directory the archive may.
* `server_shutdown`: `main` and `Run` wait for the same signal, and `main` does
  not wait for `Run`. It may log "Shutdown complete" and end the process while
  `GracefulStop` still waits for handlers, whose uploads are cut off. This is
  the `Crash` of `UploadServer`.
* `directory_round_trip`: `zipDirToFile` stores any name and `unpackArchive`
  rejects every name that has `..` anywhere, so a directory with a file such as
  `a..b` is pushed without an error and can never be pulled.

Behaviour the models have that a reader may not expect, and that the properties
name as their exceptions:

* `BitmapHasTTL`: a handler that read the session before its end may call
  `SETBIT` after, and creates a bitmap that never expires. The property says
  that nothing else does.
* `UploadIsAssembled`: if the file can be hashed and then not be opened, the
  push returns an error and its session stays until its TTL runs out.
* `SuccessStores`: with a `--chunk-size` that overflows, the client may count no
  chunks at all and report success with nothing stored; a pull with such a size
  reports success with a file of zero bytes. A push that comes to a negative
  number of chunks or bytes panics, and so does a pull with `--chunk-size 0`; one
  that asks for a negative number of bytes panics the server.
* `StoredMatchesHash`: a plain file that changes during its push is stored as it
  was read, under the hash it had before.
* `UnpackFailsForAReason`: a directory with more files than a process may open,
  or with files in a read-only directory, cannot be unpacked; nor can a
  read-only file be overwritten, the one that a failed attempt has left
  included: the next attempt fails at it. An archive is merged into what is
  there.
* `TempFilesAreRemoved`: the archive of a download that was complete stays if it
  cannot be decrypted or unpacked, and so does a file that `os.Remove` cannot
  remove, mostly without an error of the pull.
* `PartsKeptUntilAssembled`, `UploadIsAssembled`: a `Delete` of a name above
  `uploads/<id>` removes the parts of an upload under way, whose assembly then
  fails.
* `ServesAsConfigured`: an empty `--cidrs` is one entry that does not parse and
  stops the server, an empty environment variable trusts everybody. A failed
  `Listen` is only logged: the process stays and serves nobody.
* `ContextSuffices` is about the assertions of the context alone. It does not say
  that no handler panics (a range of negative length does it), and with networks
  configured the streaming interceptor passes the context on in place of the
  service, so that the first streaming method of the service would panic.

## Proofs

Every theorem holds for every value of the constants, from the `ASSUME`s of the
modules alone.

`UploadServerProofs`: `TypeOK`, `PartsKeptUntilAssembled`,
`CompletedIsAssembled`, `ArtifactsAreWhole`, `SessionEndsForAReason` and
`BitmapHasTTL` are invariants of `Spec`. None of them is inductive.
`PartsKeptUntilAssembled`, which excepts uploads whose parts a `Delete` has
reached (`wiped`), needs that a handler about to set a bit has stored its
part and that one that cleans up has assembled; `CompletedIsAssembled` needs
that whoever counts has set its bit, unless the upload is assembled or lapsed,
and then, at the last `BitCount`, that a set of all sequence numbers has `Total`
elements (`SegmentsCardinality`); `ArtifactsAreWhole` needs that the pipe holds
the parts in order without gaps. A bit that was set must survive `SaveSession`,
which resets the bitmap: hence `SessionIsOlder`. `IInv` is the conjunction;
`BitmapHasTTL` is added to it with `BitmapIsThere`.

`PushProofs`, from `ServerAssumption` and `PushAssumption` (each chunk of an
upload has exactly one call; the calls are finitely many): `PushTypeOK` and
`PushedIsStored` are invariants of `PushSpec`, `PushSpec` implements
`ArtifactStore` (`PushImplementsStore`), and `NoWriteAfterSuccess` follows from
that (`SuccessIsFinal`). The invariant `PushInv` is `IInv` with the client's
half of the argument: a goroutine that counts as acknowledged belongs to a
handler that answered OK; a session expires only after its client has given up
(`DeadlineBeforeExpiry`); so when the last chunk is acknowledged the session has
not expired, and `CompletedIsAssembled` says that the object is there
(`AckedIsAssembled`). For the refinement, `FinalWriteIsCommit` shows that a
handler which writes the object belongs to a push that has not reported success,
and that what it writes is whole.

`SuccessLeavesNothing` is proved in the same module, with any number of handlers
that assemble and clean up at once and whatever fails at the client.
`CleanupInv` is about uploads that nobody has cancelled and none of whose
handlers has failed: whoever finds all bits set is behind the last `PutObject`
and `SETBIT` of every other handler (`AssemblyIsLast`), so nothing that it
removes comes back; a handler that finds a bit missing after all were set comes
after the clean-up (`BitsRemain`). The last acknowledgement comes from such an
upload (`AckedIsClean`), and what is clean by then stays so although the upload
may be cancelled later.

`PullProofs`, from `PullAssumption` and that of the store: `PullTypeOK`,
`NoHoles`, `DeliveredIsWhole` and `TempFilesAreRemoved` are invariants of
`PullSpec`. For the last, `TempFilesKnown` and `IsOver` say which files exist at
which point and that a download that is through has no failed goroutine. The
core of the others is `NoJobIsLost`: every byte of a range that was handed out
is written, or one goroutine has the range still to do, or one has failed at it;
the ranges cover the artifact (`RangesCover`), so when all goroutines have
exited and none has failed there is no hole. `DataIsStored` says where the bytes
come from, `Extent` that nothing is written beyond the artifact, which is what
makes a truncated output the artifact and nothing else.

`ChunksProofs`: as long as nothing wraps, client and server compute the same
number of chunks (`SameChunks`), and every byte of a file is in exactly one of
them (`ChunksPartitionTheFile`), in integers of any width.
`ChunkedFileProofs` takes `SuccessStores` from that, and `FileTypeOK`, for files
of any size and any changes to them.

`StoredMatchesHash` and `PulledIsStored` are about what is in the chunks. Their
invariant is `BytesInv`. A chunk is sent only if client and server compute with
numbers that fit (`SentIsRepresentable`: with any other chunk size the loop has
no turn, panics or is refused), so it is that part of the text which its offset
and limit say (`PartsAreChunks`). Since the pipe copies the parts in order and
the chunks follow one another (`ChunksFollow`), what it has copied is a prefix
of the text at any time (`PipedIsPrefix`), and after `Total` parts it is all of
it. The text is the one that was hashed, unless it is a plain file that changed
(`ReadableIsDescribed`). What the ranges of a pull fetch is the object, because
they partition it too.

`StoredInPlace` is about plain files, which may change while they are read. Its
invariant `PlacedInv` has, of every part, that its bytes were in the file at the
place where the chunk begins, and of the pipe that what it has copied lies at
its place, or is already too short for the announced size: a part that was read
short before another one shifts what follows, but the total is then below the
size and `Assemble` refuses it.

`SystemProofs`, from the assumptions of `Push` and `SystemAssumption`, which
imply `PullAssumption` for the pull (`PullAssumptionHolds`):
`PullSeesStore` and `PulledIsPushed` hold of `SystemSpec`, for any number of
pushes, chunks, workers and ranges and every combination of failures on both
sides. Nothing is proved twice. `StoreStep` of `PushProofs` makes a step of a
push one of the abstract store, or none, hence one of `Others`
(`SystemStepIsPullStep`); `PushNextInvariant` and, through an instance of
`PullProofs`, `PullNextInvariant` then keep their invariants side by side
(`SystemInvariant`). New is `SentInv`: parts, what is in a pipe and final
objects are made of chunks that were sent.

`DirectoryProofs`: all five properties of `Directory`, for any tree whose
entries come after their directories. `StoredIsComplete` needs `WalkCovers`: an
entry that was there all the time is archived, or listed, or its directory was
there all the time and is not archived yet; when nothing is listed any more, a
first entry that is missing would contradict the order of the tree.
`PushLeavesNothing` needs `TempFilesOwned`, `UnpackFailsForAReason` that what an
attempt finds in the destination was there before the first one, is its own or
was left by an earlier one (`UnpackInv`), and that the open files are at most
the files of the archive (`OpenFilesAreArchived`).

`ServerProcessProofs`: all safety properties of `ServerProcess` and `Gateway`.
`GatewayInv` says what each interceptor has done for the calls that are past it,
`ProcessInv` in which order the goroutines come up and what `main` has checked
by then.

Only model-checked: liveness (`PushReturns`, `UploadIsAssembled`, `PullReturns`,
`PullSucceeds`, `SignalEndsProcess`), because it rests on fairness. Every other
property of the passing runs is a theorem. No liveness is stated of `System`:
push and pull return each by its own run.

## Not modelled

* Generated code: `internal/proto` and the mocks.
* The dispatch of the client's commands and its flags (`cli.go`,
  `ParseClientConfig`): a table of the command line library. `view.go` and
  `List` format what they are given.
* The options of the Redis, MinIO and gRPC clients, TLS, and logging.
* AES-GCM, key derivation and SHA-256: what they are used for is in
  `ChunkedFile` and `Pull`, how they work is the libraries'.

What could still be added: a `List` and a delete of the client with the handlers
behind them as readers of `ArtifactStore`; pushes under several keys and cipher
keys; the `--chunk-size` overflow together with concurrent handlers.
