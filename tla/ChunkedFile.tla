----------------------------- MODULE ChunkedFile -----------------------------
(***************************************************************************)
(* The bytes of a push and of the pull that follows it: what is measured,  *)
(* hashed, cut into chunks, read, put together and cut again                *)
(* (prepareUploadArtifact, UploadArtifact, uploadChunks, downloadChunks,   *)
(* InitiateUpload, UploadPart), while the file that is pushed may change.  *)
(*                                                                         *)
(* A plain file is measured and hashed first, and then read where it is,   *)
(* chunk by chunk.  What is zipped or encrypted is read from a temporary   *)
(* file of the client's own.                                               *)
(*                                                                         *)
(* Failures, cancellation and the protocol of the handlers are Push's and  *)
(* Pull's; here every request is answered, and there are as many workers   *)
(* as chunks, so that these are read in any order.                         *)
(***************************************************************************)
EXTENDS Chunks, Sequences

CONSTANTS
  MaxSize,      \* bound: the bytes of a file
  MaxEdits,     \* bound: the changes to a file while it is pushed
  ServerChunk,  \* the server's --chunk-size
  Sealing,      \* what EncryptBytes adds to a text: nonce and tag
  None          \* no object, no copy, no file

ASSUME FileAssumption ==
  /\ MaxSize \in Nat /\ MaxEdits \in Nat
  /\ ServerChunk \in 1 .. Half - 1
  /\ Sealing \in Seq(Nat) \ {<<>>} /\ MaxSize + Len(Sealing) < Half
  /\ None \notin Seq(Nat)

VARIABLES
  source,    \* the file: every byte that was ever written is another one
  edits,     \* the number of edits
  seen,      \* history: which byte the file has held at which place
  isDir,     \* whether it is the archive of a directory
  keyed,     \* whether there is a --cipher-key
  prefer,    \* --chunk-size of the push
  pc,        \* UploadArtifact
  copy,      \* the client's temporary file, if there is one
  meta,      \* size and sha256 that the server is told
  chunk,     \* the chunk size of the session
  parts,     \* the parts that the server has, by sequence number
  piped,     \* what the pipe of the assembly has passed on of them
  copied,    \* the number of parts that it has copied
  object,    \* the final object
  fetched    \* what a pull has written, byte by byte

userVars == <<isDir, keyed, prefer>>
fileVars == <<source, edits, seen>>
pipeVars == <<piped, copied>>
allVars == <<fileVars, userVars, pc, copy, meta, chunk, parts, pipeVars, object, fetched>>

Pushing == {"start", "measured", "ready", "upload"}
Steps == Pushing \union {"ok", "err", "panic", "pulled"}

\* The bytes of a text, each with its place.
Placed(text) == {<<b, text[b]>> : b \in DOMAIN text}

FileInit ==
  /\ \E n \in 0 .. MaxSize : source = [b \in 1 .. n |-> b]
  /\ edits = 0
  /\ seen = Placed(source)
  /\ isDir \in BOOLEAN
  /\ keyed \in BOOLEAN
  /\ prefer \in Int64
  /\ pc = "start"
  /\ copy = None
  /\ meta = [size |-> 0, sha |-> <<>>]
  /\ chunk = 0
  /\ parts = <<>>
  /\ piped = <<>> /\ copied = 0
  /\ object = None
  /\ fetched = None

\* What the hash of a text is taken of stands for the hash.
Described(text) == [size |-> Unsigned(Len(text)), sha |-> text]

\* Another process overwrites a byte of the file, appends one, or cuts it off.
Edit ==
  /\ pc \in Pushing /\ edits < MaxEdits
  /\ edits' = edits + 1
  /\ \/ \E b \in DOMAIN source : source' = [source EXCEPT ![b] = MaxSize + edits']
     \/ Len(source) < MaxSize /\ source' = Append(source, MaxSize + edits')
     \/ \E n \in 0 .. Len(source) - 1 : source' = SubSeq(source, 1, n)
  /\ seen' = seen \union Placed(source')
  /\ UNCHANGED <<userVars, pc, copy, meta, chunk, parts, pipeVars, object, fetched>>

-----------------------------------------------------------------------------
(* UploadArtifact, up to the chunks *)

\* prepareUploadArtifact.  The archive of a directory is a temporary file.
Measure ==
  /\ pc = "start"
  /\ pc' = IF keyed THEN "measured" ELSE "ready"
  /\ meta' = Described(source)
  /\ copy' = IF isDir THEN source ELSE None
  /\ UNCHANGED <<fileVars, userVars, chunk, parts, pipeVars, object, fetched>>

\* What the client reads from now on: its temporary file, or the file itself.
Readable == IF copy = None THEN source ELSE copy

Sealed(text) == text \o Sealing

\* Mutant of Encrypt: size and hash stay those of the plain text.
EncryptAfterMeasuring ==
  /\ pc = "measured"
  /\ pc' = "ready"
  /\ copy' = Sealed(Readable)
  /\ UNCHANGED <<fileVars, userVars, meta, chunk, parts, pipeVars, object, fetched>>

\* The file is read once more, and what is sealed is measured and hashed anew.
Encrypt ==
  /\ pc = "measured"
  /\ pc' = "ready"
  /\ copy' = Sealed(Readable)
  /\ meta' = Described(copy')
  /\ UNCHANGED <<fileVars, userVars, chunk, parts, pipeVars, object, fetched>>

\* The server takes its own chunk size in place of zero.
SessionChunk(preferred) == IF preferred = 0 THEN ServerChunk ELSE preferred

Size == Signed(meta.size)
Total == ServerChunks(meta.size, Unsigned(chunk))
Segments == ClientChunks(Size, chunk)

\* Mutant of OpenSession: the chunk size of the reply is not converted.
OpenUnsigned ==
  /\ pc = "ready"
  /\ chunk' = SessionChunk(Unsigned(prefer))
  /\ pc' = IF ClientChunks(Size, chunk') < 0 THEN "panic" ELSE "upload"
  /\ UNCHANGED <<fileVars, userVars, copy, meta, parts, pipeVars, object, fetched>>

\* InitiateUpload, then the semaphore, which cannot have a negative capacity.
OpenSession ==
  /\ pc = "ready"
  /\ chunk' = Signed(SessionChunk(Unsigned(prefer)))
  /\ pc' = IF ClientChunks(Size, chunk') < 0 THEN "panic" ELSE "upload"
  /\ UNCHANGED <<fileVars, userVars, copy, meta, parts, pipeVars, object, fetched>>

-----------------------------------------------------------------------------
(* uploadChunks and UploadPart *)

\* ReadAt of what there is of a chunk; the end of the file is no error.
ReadAt(text, i) ==
  LET last == Offset(i, chunk) + Limit(i, Size, chunk)
  IN  SubSeq(text, Offset(i, chunk) + 1, IF last < Len(text) THEN last ELSE Len(text))

Complete == DOMAIN parts = 0 .. Total - 1

Unsent == (0 .. Segments - 1) \ DOMAIN parts

\* A buffer of negative length cannot be made, a sequence number that the
\* server does not expect is an error.
SendChunk(i) ==
  /\ pc = "upload" /\ i \in Unsent
  /\ IF Limit(i, Size, chunk) < 0 THEN pc' = "panic" /\ UNCHANGED parts
     ELSE IF i >= Total THEN pc' = "err" /\ UNCHANGED parts
     ELSE /\ parts' = [j \in DOMAIN parts \union {i} |->
                         IF j = i THEN ReadAt(Readable, i) ELSE parts[j]]
          /\ UNCHANGED pc
  /\ UNCHANGED <<fileVars, userVars, copy, meta, chunk, pipeVars, object, fetched>>

\* All parts are there, and the handler of the last one assembles them.
Assembling == pc = "upload" /\ Total > 0 /\ Complete /\ object = None

\* The goroutine at the other end of the pipe copies one part after the other.
CopyPart ==
  /\ Assembling /\ copied < Total
  /\ piped' = piped \o parts[copied]
  /\ copied' = copied + 1
  /\ UNCHANGED <<fileVars, userVars, pc, copy, meta, chunk, parts, object, fetched>>

\* Mutant of Assemble: the final PutObject takes what the pipe gives it.
AssembleAnySize ==
  /\ Assembling /\ copied = Total
  /\ object' = [bytes |-> piped, sha |-> meta.sha]
  /\ UNCHANGED <<fileVars, userVars, pc, copy, meta, chunk, parts, pipeVars, fetched>>

\* The final PutObject fails unless it is given as many bytes as announced.
Assemble ==
  /\ Assembling /\ copied = Total
  /\ IF Len(piped) = Size
       THEN object' = [bytes |-> piped, sha |-> meta.sha] /\ UNCHANGED pc
       ELSE pc' = "err" /\ UNCHANGED object
  /\ UNCHANGED <<fileVars, userVars, copy, meta, chunk, parts, pipeVars, fetched>>

\* All requests were answered, the one that completed the parts after its
\* handler had assembled them.
Return ==
  /\ pc = "upload" /\ Unsent = {}
  /\ Total > 0 /\ Complete => object # None
  /\ pc' = "ok"
  /\ UNCHANGED <<fileVars, userVars, copy, meta, chunk, parts, pipeVars, object, fetched>>

-----------------------------------------------------------------------------
(* downloadChunks *)

Ranges(n, p) == 0 .. ClientChunks(n, p) - 1

\* The ranges of a pull, each of them as long as it was asked for, over an
\* output that holds as many zero bytes as the object is long.
Fetch(bytes, p) ==
  LET n == Len(bytes)
      covered == UNION {ChunkBytes(i, n, p) : i \in Ranges(n, p)}
  IN  [b \in DOMAIN bytes |-> IF b - 1 \in covered THEN bytes[b] ELSE None]

InRange(n, p) == \A i \in Ranges(n, p) : ChunkBytes(i, n, p) \subseteq 0 .. n - 1

\* DownloadRange makes a buffer of the length that it is asked for.
NegativeRange(n, p) == \E i \in Ranges(n, p) : Limit(i, n, p) < 0

\* A pull of the object, with a --chunk-size of its own.  A size of zero is a
\* division by zero in the client, a range of negative length a panic of the
\* server, one that is not in the object an error; without any range there is
\* nothing to fail.
PullWith(p) ==
  /\ pc = "ok" /\ object # None /\ fetched = None
  /\ LET n == Len(object.bytes)
     IN  \/ /\ p # 0 => NegativeRange(n, p)
            /\ pc' = "panic" /\ UNCHANGED fetched
         \/ /\ p # 0 /\ ~InRange(n, p)
            /\ pc' = "err" /\ UNCHANGED fetched
         \/ /\ p # 0 /\ InRange(n, p) /\ ~NegativeRange(n, p)
            /\ pc' = "pulled"
            /\ fetched' = [chunk |-> p, bytes |-> Fetch(object.bytes, p)]
  /\ UNCHANGED <<fileVars, userVars, copy, meta, chunk, parts, pipeVars, object>>

FileNext ==
  \/ Edit
  \/ Measure \/ Encrypt \/ OpenSession
  \/ pc = "upload" /\ \E i \in Unsent : SendChunk(i)
  \/ CopyPart \/ Assemble \/ Return
  \/ \E p \in Int64 : PullWith(p)

FileSpec == FileInit /\ [][FileNext]_allVars

-----------------------------------------------------------------------------
(* Properties *)

Texts == UNION {[1 .. n -> 0 .. MaxSize + MaxEdits] : n \in 0 .. MaxSize}
Sizes == 0 .. MaxSize + Len(Sealing)

\* A session is for what was measured, and its parts are those of its chunks.
FileTypeOK ==
  /\ source \in Texts /\ edits \in 0 .. MaxEdits
  /\ pc \in Steps
  /\ meta.size \in Sizes /\ Len(meta.sha) = meta.size
  /\ chunk \in Int64
  /\ pc \in Pushing \ {"upload"} => parts = <<>> /\ copied = 0
  /\ parts # <<>> => DOMAIN parts \subseteq 0 .. Total - 1
  /\ copied \in Nat /\ (copied > 0 => copied <= Total)
  /\ object # None => pc \notin Pushing \ {"upload"}

\* A push that returns success has stored its artifact, if there is anything
\* to store and its chunk size does not overflow: client and server, which
\* count the chunks each for itself, come to the same number.
SuccessStores ==
  pc \in {"ok", "pulled"} /\ Size > 0 /\ Representable(Size, chunk) => object # None

\* Every byte of an object is one that the file has held at that very place,
\* although the chunks of a plain file are read while it is cut off, overwritten
\* or appended to: a chunk that was read short does not shift the ones behind it.
StoredInPlace == object # None /\ copy = None => Placed(object.bytes) \subseteq seen

\* An object has the hash that is stored beside it, whatever becomes of the
\* file meanwhile, unless it is a plain file that is read where it is.
StoredMatchesHash ==
  object # None /\ (keyed \/ isDir \/ edits = 0) => object.bytes = object.sha

\* A pull that returns success has every byte of the object in its place, also
\* when its chunk size is not the one of the push.
PulledIsStored ==
  fetched # None /\ Representable(Len(object.bytes), fetched.chunk) =>
    fetched.bytes = object.bytes
=============================================================================
