------------------------------ MODULE PullProofs ------------------------------
(***************************************************************************)
(* Proofs about Pull, for every size of artifacts and ranges, number of    *)
(* workers and combination of failures: a download that reports no error   *)
(* is complete, what is delivered is one whole artifact, if it was         *)
(* encrypted or nobody replaced it meanwhile, and no temporary file is     *)
(* left without a reason.                                                  *)
(***************************************************************************)
EXTENDS Pull, FiniteSetTheorems, TLAPS

-----------------------------------------------------------------------------
(* The inductive invariant *)

\* What the store holds has been stored.
StoreInv ==
  /\ committed \subseteq Uploads \ Empty
  /\ artifact \in [Keys -> committed \union {None}]

FileType == \E n \in Nat : file \in [0 .. n - 1 -> Uploads \union {Hole, Old}]

PullTypes ==
  /\ pull \in PullStates
  /\ info \in Uploads \union {None}
  /\ FileType
  /\ keyed \in BOOLEAN /\ truncated \in BOOLEAN /\ faulted \in BOOLEAN
  /\ tempFiles \subseteq {"zip", "dec"}
  /\ produced \in Nat
  /\ worker \in [Pool -> WorkerStates]
  /\ job \in [Pool -> Nat]
  /\ data \in [Pool -> Uploads \union {None}]
  /\ cancelled \in BOOLEAN /\ disturbed \in BOOLEAN

\* The artifact that the pull goes by is the one under the key, until somebody
\* replaces it.
InfoIsStored ==
  /\ pull = "idle" => ~disturbed
  /\ pull \notin {"idle", "err"} =>
       info \in committed /\ (~disturbed => artifact[Key] = info)

NotStarted ==
  pull \in {"idle", "informed"} =>
    produced = 0 /\ ~truncated /\ \A w \in Pool : worker[w] = "none"

Busy == {"asking", "reading", "writing", "failed"}
InOutput == FileIsOpen \/ Downloaded

JobsInRange ==
  InOutput =>
    /\ produced <= Segments(info)
    /\ pull # "producing" => produced = Segments(info)
    /\ \A w \in Pool : worker[w] \in Busy => job[w] < Segments(info)

\* What a handler reads has been stored, and is the artifact that the pull
\* goes by unless somebody has replaced that.
DataIsStored ==
  \A w \in Pool : worker[w] \in {"reading", "writing"} =>
    data[w] \in committed /\ (InOutput /\ ~disturbed => data[w] = info)

\* A byte that came from the store.
Good(b) ==
  b \in DOMAIN file /\ file[b] \in committed /\ (~disturbed => file[b] = info)

\* The bytes of a range that was handed out are written, or one goroutine has
\* the range still to do, or has failed at it.
NoJobIsLost ==
  InOutput =>
    \A i \in 0 .. produced - 1 :
      \/ \E w \in Pool : job[w] = i /\ worker[w] \in Busy
      \/ \A b \in ByteRange(info, i) : Good(b)

Quiet == Downloaded => \A w \in Pool : worker[w] \in {"none", "exited"}

\* Goroutines write within the size of the artifact only.
Extent ==
  InOutput =>
    /\ truncated => DOMAIN file = Bytes(info)
    /\ IsDir[info] => DOMAIN file \subseteq Bytes(info)

\* A whole download that nobody works for any more.
IsOver ==
  /\ info # None /\ produced = Segments(info)
  /\ \A w \in Pool : worker[w] \in {"none", "exited"}

\* Temporary files are made for a download, and stay behind it if their removal
\* failed, or if what was downloaded is of no use.
TempFilesKnown ==
  /\ pull \in {"idle", "informed"} => tempFiles = {}
  /\ FileIsOpen \/ pull = "downloaded" => tempFiles = OutputTemp
  /\ stuck \subseteq tempFiles
  /\ pull \notin {"ok", "err"} => stuck = {}
  /\ pull = "ok" => tempFiles \subseteq stuck
  /\ pull = "err" => tempFiles \subseteq stuck \union (IF IsOver THEN {"zip"} ELSE {})

DecryptedIsWhole == keyed /\ pull \in {"decrypted", "ok"} => IsWhole(file)

PullInv ==
  /\ StoreInv
  /\ PullTypes
  /\ InfoIsStored
  /\ NotStarted
  /\ JobsInRange
  /\ DataIsStored
  /\ NoJobIsLost
  /\ Quiet
  /\ Extent
  /\ TempFilesKnown
  /\ DecryptedIsWhole

-----------------------------------------------------------------------------
(* The ranges of an artifact *)

\* What division does.
LEMMA DivisionBounds ==
  ASSUME NEW a \in Nat, NEW b \in Nat \ {0}
  PROVE  /\ a \div b \in Nat
         /\ b * (a \div b) <= a /\ a < b * (a \div b) + b
OBVIOUS

\* The ranges of an artifact are just enough.
LEMMA SegmentBounds ==
  ASSUME NEW u \in Uploads
  PROVE  /\ Segments(u) \in Nat
         /\ ChunkSize * Segments(u) < Size[u] + ChunkSize
         /\ Size[u] <= ChunkSize * Segments(u)
<1>1. Size[u] + ChunkSize - 1 \in Nat /\ ChunkSize \in Nat \ {0} /\ Size[u] \in Nat
  BY PullAssumption
<1> DEFINE n == Segments(u)
<1>2. n \in Nat /\ ChunkSize * n <= Size[u] + ChunkSize - 1
      /\ Size[u] + ChunkSize - 1 < ChunkSize * n + ChunkSize
  BY <1>1, DivisionBounds DEF Segments
<1> HIDE DEF n
<1>3. ChunkSize * n \in Nat
  BY <1>1, <1>2
<1>4. n \in Nat /\ ChunkSize * n < Size[u] + ChunkSize /\ Size[u] <= ChunkSize * n
  BY <1>1, <1>2, <1>3
<1> QED BY <1>4 DEF n

\* A range is not empty, and lies within the artifact.
LEMMA RangeIsWithin ==
  ASSUME NEW u \in Uploads, NEW i \in Nat, i < Segments(u)
  PROVE  /\ ByteRange(u, i) \subseteq Bytes(u)
         /\ Max(ByteRange(u, i)) \in Bytes(u)
         /\ \A b \in ByteRange(u, i) : b <= Max(ByteRange(u, i))
<1> DEFINE n == Segments(u)
           o == i * ChunkSize
           last == IF o + ChunkSize > Size[u] THEN Size[u] - 1 ELSE o + ChunkSize - 1
<1>1. ChunkSize \in Nat \ {0} /\ Size[u] \in Nat
  BY PullAssumption
<1>2. n \in Nat /\ ChunkSize * n < Size[u] + ChunkSize
  BY SegmentBounds
<1>3. i + 1 <= n
  BY <1>2
<1> HIDE DEF n
<1>4. ChunkSize * (i + 1) <= ChunkSize * n
  BY <1>1, <1>2, <1>3
<1>5. o \in Nat /\ o + ChunkSize < Size[u] + ChunkSize
  BY <1>1, <1>2, <1>4
<1> HIDE DEF o
<1>6. last \in Nat /\ o <= last /\ last < Size[u]
  BY <1>1, <1>5
<1>7. ByteRange(u, i) = o .. last
  BY <1>1, <1>5 DEF ByteRange, Offset, Limit, o
<1> HIDE DEF last
<1>8. Max(o .. last) \in o .. last /\ \A b \in o .. last : b <= Max(o .. last)
  <2>1. last \in o .. last /\ \A y \in o .. last : last >= y
    BY <1>5, <1>6
  <2> QED BY <2>1 DEF Max
<1> QED BY <1>1, <1>5, <1>6, <1>7, <1>8 DEF Bytes

\* Every byte of an artifact is in one of its ranges.
LEMMA RangesCover ==
  ASSUME NEW u \in Uploads, NEW b \in Bytes(u)
  PROVE  \E i \in 0 .. Segments(u) - 1 : b \in ByteRange(u, i)
<1> DEFINE n == Segments(u)
           q == b \div ChunkSize
<1>1. ChunkSize \in Nat \ {0} /\ Size[u] \in Nat /\ b \in Nat /\ b < Size[u]
  BY PullAssumption DEF Bytes
<1>2. n \in Nat /\ Size[u] <= ChunkSize * n
  BY SegmentBounds
<1>3. q \in Nat /\ ChunkSize * q <= b /\ b < ChunkSize * q + ChunkSize
  BY <1>1, DivisionBounds
<1> HIDE DEF n, q
<1>4. ChunkSize * q < ChunkSize * n
  BY <1>1, <1>2, <1>3
<1>5. q < n
  BY <1>1, <1>2, <1>3, <1>4
<1>6. b \in ByteRange(u, q)
  <2>1. q * ChunkSize = ChunkSize * q /\ ChunkSize * q \in Nat
    BY <1>1, <1>3
  <2> QED BY <1>1, <1>3, <2>1 DEF ByteRange, Offset, Limit
<1> QED BY <1>2, <1>3, <1>5, <1>6 DEF n

-----------------------------------------------------------------------------
(* The output file *)

\* A file that gets a new size is a file of this size.
LEMMA ResizedType ==
  ASSUME NEW n \in Nat, NEW size \in Nat,
         NEW f \in [0 .. n - 1 -> Uploads \union {Hole, Old}]
  PROVE  Resized(f, size) \in [0 .. size - 1 -> Uploads \union {Hole, Old}]
BY DEF Resized

\* A temporary file that was just made has no bytes.
LEMMA EmptyFile ==
  /\ DOMAIN <<>> = {}
  /\ \E n \in Nat : <<>> \in [0 .. n - 1 -> Uploads \union {Hole, Old}]
<1>1. DOMAIN <<>> = {} /\ 0 .. 0 - 1 = {}
  OBVIOUS
<1>2. <<>> \in [0 .. 0 - 1 -> Uploads \union {Hole, Old}]
  BY <1>1
<1> QED BY <1>1, <1>2

\* A write sets the bytes of its range, keeps the others, and makes the file
\* as long as the range needs.
LEMMA WrittenFile ==
  ASSUME NEW n \in Nat, NEW f \in [0 .. n - 1 -> Uploads \union {Hole, Old}],
         NEW u \in Uploads, NEW i \in Nat, i < Segments(u), NEW v \in Uploads,
         NEW g, g = Written(f, ByteRange(u, i), v)
  PROVE  /\ \E m \in Nat : g \in [0 .. m - 1 -> Uploads \union {Hole, Old}]
         /\ \A b \in ByteRange(u, i) : b \in DOMAIN g /\ g[b] = v
         /\ \A b \in DOMAIN f \ ByteRange(u, i) : b \in DOMAIN g /\ g[b] = f[b]
         /\ DOMAIN f \subseteq DOMAIN g
         /\ DOMAIN g \subseteq DOMAIN f \union Bytes(u)
<1> DEFINE range == ByteRange(u, i)
           last == Max(range)
<1>1. range \subseteq Bytes(u) /\ last \in Bytes(u) /\ Size[u] \in Nat
  BY RangeIsWithin, PullAssumption
<1>2. \A b \in range : b \in 0 .. last
  BY <1>1, RangeIsWithin DEF Bytes
<1>3. last \in Nat /\ last < Size[u] /\ Bytes(u) = 0 .. Size[u] - 1
  BY <1>1 DEF Bytes
<1>4. DOMAIN g = 0 .. n - 1 \union 0 .. last
  BY DEF Written
<1>5. \A b \in DOMAIN g :
        g[b] = IF b \in range THEN v ELSE IF b \in DOMAIN f THEN f[b] ELSE Hole
  BY DEF Written
<1>6. g \in [DOMAIN g -> Uploads \union {Hole, Old}]
  <2>1. \A b \in DOMAIN g : g[b] \in Uploads \union {Hole, Old}
    BY <1>5
  <2>2. g = [b \in DOMAIN g |-> g[b]]
    BY DEF Written
  <2> QED BY <2>1, <2>2
<1> HIDE DEF range, last
<1>7. \E m \in Nat : DOMAIN g = 0 .. m - 1
  <2>1. CASE last < n
    BY <1>3, <1>4, <2>1
  <2>2. CASE n <= last
    <3>1. last + 1 \in Nat /\ DOMAIN g = 0 .. (last + 1) - 1
      BY <1>3, <1>4, <2>2
    <3> QED BY <3>1
  <2> QED BY <1>3, <2>1, <2>2
<1>8. DOMAIN f = 0 .. n - 1
  OBVIOUS
<1>9. DOMAIN f \subseteq DOMAIN g /\ DOMAIN g \subseteq DOMAIN f \union Bytes(u)
  <2>1. 0 .. last \subseteq Bytes(u)
    BY <1>1, <1>3
  <2>2. DOMAIN g = DOMAIN f \union 0 .. last
    BY <1>4, <1>8
  <2> QED BY <2>1, <2>2
<1>10. \A b \in range : b \in DOMAIN g /\ g[b] = v
  BY <1>2, <1>4, <1>5
<1>11. \A b \in DOMAIN f \ range : b \in DOMAIN g /\ g[b] = f[b]
  BY <1>5, <1>9
<1>12. \E m \in Nat : g \in [0 .. m - 1 -> Uploads \union {Hole, Old}]
  BY <1>6, <1>7
<1> QED BY <1>9, <1>10, <1>11, <1>12 DEF range

-----------------------------------------------------------------------------
(* Steps of DownloadArtifact *)

\* No download has begun.
LEMMA InitInvariant == PullInit => PullInv
<1> SUFFICES ASSUME PullInit PROVE PullInv
  OBVIOUS
<1> USE DEF PullInit, DownloadInit
<1>1. StoreInv
  BY DEF StoreInv, Init
<1>2. PullTypes
  <2>1. FileType
    BY PullAssumption DEF FileType
  <2> QED BY <2>1, PullAssumption DEF PullTypes, PullStates, WorkerStates, Active
<1>3. ~InOutput
  BY DEF InOutput, FileIsOpen, Downloaded
<1> QED BY <1>1, <1>2, <1>3
  DEF PullInv, InfoIsStored, NotStarted, JobsInRange, DataIsStored, NoJobIsLost, Quiet,
      Extent, TempFilesKnown, DecryptedIsWhole, InOutput, FileIsOpen, Downloaded

\* What is to be removed is gone, or its removal has failed.
LEMMA RemovedFiles ==
  ASSUME PullInv, pull \notin {"ok", "err"}, NEW files, RemoveFiles(files)
  PROVE  /\ tempFiles' \subseteq {"zip", "dec"} /\ stuck' \subseteq tempFiles'
         /\ tempFiles' \subseteq stuck' \union (tempFiles \ files)
         /\ faulted' \in BOOLEAN
<1>1. PICK left \in SUBSET (files \intersect tempFiles) :
        /\ tempFiles' = (tempFiles \ files) \union left
        /\ stuck' = stuck \union left
        /\ faulted' = (faulted \/ left # {})
  BY DEF RemoveFiles
<1>2. stuck = {} /\ tempFiles \subseteq {"zip", "dec"} /\ faulted \in BOOLEAN
  BY DEF PullInv, PullTypes, TempFilesKnown
<1> QED BY <1>1, <1>2

\* After a download that reported no error nobody is at work.
LEMMA DownloadedIsOver ==
  ASSUME PullInv, Downloaded
  PROVE  IsOver
<1>1. InOutput /\ produced = Segments(info)
  BY DEF PullInv, JobsInRange, InOutput, Downloaded
<1>2. info \in Uploads /\ info # None
  BY PullAssumption DEF PullInv, StoreInv, InfoIsStored, Downloaded
<1> QED BY <1>1, <1>2 DEF PullInv, Quiet, IsOver

\* A pull that fails leaves the goroutines and the file as they are.
LEMMA FailureKeepsInvariant ==
  ASSUME PullInv, pull' = "err", faulted' \in BOOLEAN,
         tempFiles' \subseteq {"zip", "dec"}, stuck' \subseteq tempFiles',
         tempFiles' \subseteq stuck' \union (IF IsOver THEN {"zip"} ELSE {}),
         UNCHANGED <<info, file, truncated, groupVars, cancelled, fixedVars, vars>>
  PROVE  PullInv'
<1> USE DEF PullInv, groupVars, fixedVars, vars
<1>1. StoreInv' /\ PullTypes'
  BY DEF StoreInv, PullTypes, FileType, PullStates
<1>2. ~InOutput'
  BY DEF InOutput, FileIsOpen, Downloaded
<1>3. DataIsStored'
  BY <1>2 DEF DataIsStored
<1>4. IsOver' <=> IsOver
  BY DEF IsOver, Segments
<1>5. TempFilesKnown'
  BY <1>4 DEF TempFilesKnown, FileIsOpen
<1> QED BY <1>1, <1>2, <1>3, <1>5
  DEF InfoIsStored, NotStarted, JobsInRange, NoJobIsLost, Quiet, Extent,
      DecryptedIsWhole, InOutput, FileIsOpen, Downloaded

\* A pull that goes on after its download does not touch the file.
LEMMA AfterDownloadKeepsInvariant ==
  ASSUME PullInv, pull \in {"downloaded", "decrypted"}, pull' \in {"decrypted", "ok"},
         tempFiles' \subseteq {"zip", "dec"}, stuck' \subseteq tempFiles',
         pull' = "ok" => tempFiles' \subseteq stuck', pull' # "ok" => stuck' = {},
         keyed => IsWhole(file), faulted' \in BOOLEAN,
         UNCHANGED <<info, file, truncated, groupVars, cancelled, fixedVars, vars>>
  PROVE  PullInv'
<1> USE DEF PullInv, groupVars, fixedVars, vars
<1>1. StoreInv' /\ PullTypes'
  BY DEF StoreInv, PullTypes, FileType, PullStates
<1>2. Downloaded /\ Downloaded' /\ InOutput /\ InOutput' /\ ~FileIsOpen'
  BY DEF Downloaded, InOutput, FileIsOpen
<1>3. InfoIsStored' /\ NotStarted' /\ JobsInRange'
  BY <1>2 DEF InfoIsStored, NotStarted, JobsInRange
<1>4. DataIsStored' /\ NoJobIsLost'
  BY <1>2 DEF DataIsStored, NoJobIsLost, Good
<1>5. Quiet' /\ Extent'
  BY <1>2 DEF Quiet, Extent
<1>6. TempFilesKnown' /\ DecryptedIsWhole'
  BY <1>2 DEF TempFilesKnown, DecryptedIsWhole, IsWhole, IsWholeOf
<1> QED BY <1>1, <1>3, <1>4, <1>5, <1>6

\* What the key holds, if anything, has been stored.
LEMMA GetInfoKeepsInvariant ==
  ASSUME PullInv, GetInfo
  PROVE  PullInv'
<1> USE DEF PullInv, GetInfo, outputVars, groupVars, fixedVars, vars
<1>1. CASE FileInfo \in {None} \union Empty
  <2>1. tempFiles = {} /\ stuck = {}
    BY DEF TempFilesKnown
  <2> QED BY <1>1, <2>1, FailureKeepsInvariant DEF PullTypes
<1>2. CASE FileInfo \notin {None} \union Empty
  <2> USE <1>2
  <2>1. info' = artifact[Key] /\ artifact[Key] \in committed /\ pull' = "informed"
    BY PullAssumption DEF StoreInv, FileInfo
  <2>2. StoreInv' /\ PullTypes'
    BY <2>1 DEF StoreInv, PullTypes, FileType, PullStates
  <2>3. ~InOutput' /\ ~Downloaded' /\ ~FileIsOpen'
    BY <2>1 DEF InOutput, FileIsOpen, Downloaded
  <2>4. InfoIsStored' /\ NotStarted'
    BY <2>1 DEF InfoIsStored, NotStarted
  <2>5. DataIsStored'
    BY <2>3 DEF DataIsStored
  <2> QED BY <2>1, <2>2, <2>3, <2>4, <2>5
    DEF JobsInRange, NoJobIsLost, Quiet, Extent, TempFilesKnown, DecryptedIsWhole
<1> QED BY <1>1, <1>2

\* The download starts with the file in its size, or with an empty one, and
\* without jobs.
LEMMA StartKeepsInvariant ==
  ASSUME PullInv, StartDownload, faulted' \in BOOLEAN,
         \/ truncated' = TRUE /\ file' = Resized(Opened, Size[info])
         \/ UNCHANGED truncated /\ file' = Opened
  PROVE  PullInv'
<1> USE DEF PullInv, StartDownload, groupVars, fixedVars, vars
<1>1. /\ info \in Uploads /\ Size[info] \in Nat /\ Segments(info) \in Nat
      /\ pull' = "producing"
  BY PullAssumption, SegmentBounds DEF StoreInv, InfoIsStored
<1>2. produced = 0 /\ ~truncated /\ \A w \in Pool : worker'[w] \in {"ready", "none"}
  BY DEF NotStarted
<1>3. \E n \in Nat : Opened \in [0 .. n - 1 -> Uploads \union {Hole, Old}]
  BY EmptyFile DEF Opened, PullTypes, FileType
<1>4. FileType'
  BY <1>1, <1>3, ResizedType DEF FileType
<1>5. StoreInv'
  BY DEF StoreInv
<1>6. PullTypes'
  BY <1>1, <1>4 DEF PullTypes, PullStates, WorkerStates, Active, OutputTemp
<1>7. FileIsOpen' /\ ~Downloaded'
  BY <1>1 DEF FileIsOpen, Downloaded
<1>8. InfoIsStored' /\ NotStarted' /\ Quiet'
  BY <1>1, <1>7 DEF InfoIsStored, NotStarted, Quiet
<1>9. JobsInRange'
  BY <1>1, <1>2 DEF JobsInRange, Busy, Segments
<1>10. DataIsStored' /\ NoJobIsLost'
  BY <1>2 DEF DataIsStored, NoJobIsLost
<1>11. Extent'
  <2>1. truncated' => file' = Resized(Opened, Size[info])
    BY <1>2
  <2>2. truncated' => DOMAIN file' = Bytes(info)
    BY <2>1 DEF Resized, Bytes
  <2>3. IsDir[info] /\ ~truncated' => DOMAIN file' \subseteq Bytes(info)
    BY EmptyFile DEF Opened
  <2> QED BY <1>1, <2>2, <2>3 DEF Extent, Bytes
<1>12. TempFilesKnown' /\ DecryptedIsWhole'
  BY <1>1 DEF TempFilesKnown, DecryptedIsWhole, OutputTemp
<1> QED BY <1>5, <1>6, <1>8, <1>9, <1>10, <1>11, <1>12

\* The loop ends when all jobs are handed out.
LEMMA CloseKeepsInvariant ==
  ASSUME PullInv, Close
  PROVE  PullInv'
<1> USE DEF PullInv, Close, outputVars, groupVars, fixedVars, vars
<1>1. InOutput /\ InOutput' /\ FileIsOpen /\ FileIsOpen' /\ ~Downloaded'
  BY DEF InOutput, FileIsOpen, Downloaded
<1>2. StoreInv' /\ PullTypes'
  BY DEF StoreInv, PullTypes, FileType, PullStates
<1>3. InfoIsStored' /\ NotStarted' /\ JobsInRange'
  BY <1>1 DEF InfoIsStored, NotStarted, JobsInRange, Segments
<1>4. DataIsStored' /\ NoJobIsLost'
  BY <1>1 DEF DataIsStored, NoJobIsLost, Good
<1>5. Quiet' /\ Extent' /\ TempFilesKnown' /\ DecryptedIsWhole'
  BY <1>1 DEF Quiet, Extent, TempFilesKnown, DecryptedIsWhole, OutputTemp, Bytes
<1> QED BY <1>2, <1>3, <1>4, <1>5

\* errs.Wait returns when no goroutine is at work, and nil if none has failed.
LEMMA WaitKeepsInvariant ==
  ASSUME PullInv, Wait
  PROVE  PullInv'
<1> USE DEF PullInv, Wait
<1>0. pull \notin {"ok", "err"} /\ tempFiles \subseteq {"zip"}
  BY DEF TempFilesKnown, FileIsOpen, OutputTemp
<1>1. CASE \E w \in Pool : worker[w] = "failed"
  <2>1. RemoveFiles({"zip"}) /\ pull' = "err"
    BY <1>1
  <2>2. /\ tempFiles' \subseteq {"zip", "dec"} /\ stuck' \subseteq tempFiles'
        /\ tempFiles' \subseteq stuck' /\ faulted' \in BOOLEAN
    BY <1>0, <2>1, RemovedFiles
  <2> QED BY <2>1, <2>2, FailureKeepsInvariant
<1>2. CASE ~\E w \in Pool : worker[w] = "failed"
  <2> USE <1>2 DEF groupVars, fixedVars, vars
  <2>1. InOutput /\ InOutput' /\ FileIsOpen /\ Downloaded' /\ pull' = "downloaded"
    BY DEF InOutput, FileIsOpen, Downloaded
  <2>2. StoreInv' /\ PullTypes'
    BY <2>1 DEF StoreInv, PullTypes, FileType, PullStates
  <2>3. InfoIsStored' /\ NotStarted' /\ JobsInRange'
    BY <2>1 DEF InfoIsStored, NotStarted, JobsInRange, Segments
  <2>4. DataIsStored' /\ NoJobIsLost'
    BY <2>1 DEF DataIsStored, NoJobIsLost, Good
  <2>5. Quiet'
    BY DEF Quiet, PullTypes, WorkerStates, Active
  <2>6. Extent' /\ TempFilesKnown' /\ DecryptedIsWhole'
    BY <2>1 DEF Extent, TempFilesKnown, DecryptedIsWhole, OutputTemp, Bytes, FileIsOpen
  <2> QED BY <2>2, <2>3, <2>4, <2>5, <2>6
<1> QED BY <1>1, <1>2

\* The end of a pull whose download is over, good or bad.
LEMMA EndKeepsInvariant ==
  ASSUME PullInv,
         \/ Decrypt \/ DecryptFails \/ SaveDecryptedFails \/ Deliver
         \/ Unpack \/ RejectArchive \/ UnpackFails
  PROVE  PullInv'
<1> USE DEF PullInv
<1>1. faulted \in BOOLEAN /\ tempFiles \subseteq {"zip", "dec"}
  BY DEF PullTypes
<1>2. pull \in {"downloaded", "decrypted"} /\ Downloaded
  BY DEF Decrypt, DecryptFails, SaveDecryptedFails, Deliver, Unpack, RejectArchive,
         UnpackFails, Unpacking, Downloaded
<1>3. IsOver
  BY <1>2, DownloadedIsOver
<1>4. stuck = {} /\ pull \notin {"ok", "err"}
  BY <1>2 DEF TempFilesKnown
<1>5. keyed /\ pull = "decrypted" => IsWhole(file)
  BY DEF DecryptedIsWhole
<1>6. CASE Decrypt
  <2> USE <1>6 DEF Decrypt
  <2>1. pull' = "ok" => tempFiles' = {}
    BY DEF TempFilesKnown, OutputTemp
  <2>2. tempFiles' \subseteq {"zip", "dec"} /\ pull' \in {"decrypted", "ok"}
    BY <1>1
  <2> QED BY <1>1, <1>4, <2>1, <2>2, AfterDownloadKeepsInvariant
<1>7. CASE Deliver
  <2> USE <1>7 DEF Deliver, outputVars
  <2>1. tempFiles' = {}
    BY DEF TempFilesKnown, OutputTemp
  <2> QED BY <1>1, <1>4, <2>1, AfterDownloadKeepsInvariant
<1>8. CASE DecryptFails
  <2>1. tempFiles \subseteq {"zip"}
    BY <1>8 DEF DecryptFails, TempFilesKnown, OutputTemp
  <2> QED
    BY <1>1, <1>3, <1>4, <1>8, <2>1, FailureKeepsInvariant
    DEF DecryptFails, FailsFor, outputVars
<1>9. CASE SaveDecryptedFails
  <2>1. tempFiles \subseteq {"zip"}
    BY <1>9 DEF SaveDecryptedFails, TempFilesKnown, OutputTemp
  <2>2. /\ tempFiles' \subseteq {"zip", "dec"} /\ stuck' \subseteq tempFiles'
        /\ tempFiles' \subseteq stuck' \union {"zip"}
    BY <1>1, <1>4, <1>9, <2>1 DEF SaveDecryptedFails
  <2> QED BY <1>3, <1>9, <2>2, FailureKeepsInvariant DEF SaveDecryptedFails
<1>10. CASE Unpack
  <2> USE <1>10 DEF Unpack
  <2>1. RemoveFiles({"zip", "dec"}) /\ pull' \in {"ok", "err"}
    OBVIOUS
  <2>2. /\ tempFiles' \subseteq {"zip", "dec"} /\ stuck' \subseteq tempFiles'
        /\ tempFiles' \subseteq stuck' /\ faulted' \in BOOLEAN
    BY <1>1, <1>4, <2>1, RemovedFiles
  <2>3. keyed => IsWhole(file)
    BY <1>5 DEF Unpacking
  <2>4. CASE pull' = "ok"
    BY <1>2, <2>2, <2>3, <2>4, AfterDownloadKeepsInvariant
  <2>5. CASE pull' = "err"
    BY <2>2, <2>5, FailureKeepsInvariant
  <2> QED BY <2>1, <2>4, <2>5
<1>11. CASE RejectArchive
  <2> USE <1>11 DEF RejectArchive
  <2>1. /\ tempFiles' \subseteq {"zip", "dec"} /\ stuck' \subseteq tempFiles'
        /\ tempFiles' \subseteq stuck' \union {"zip"} /\ faulted' \in BOOLEAN
    BY <1>1, <1>4, RemovedFiles
  <2> QED BY <1>3, <2>1, FailureKeepsInvariant
<1>12. CASE UnpackFails
  <2> USE <1>12 DEF UnpackFails
  <2>1. /\ tempFiles' \subseteq {"zip", "dec"} /\ stuck' \subseteq tempFiles'
        /\ tempFiles' \subseteq stuck' \union {"zip"}
    BY <1>1, <1>4
  <2> QED BY <1>3, <2>1, FailureKeepsInvariant
<1> QED BY <1>6, <1>7, <1>8, <1>9, <1>10, <1>11, <1>12

\* The client's steps.
LEMMA ClientKeepsInvariant ==
  ASSUME PullInv,
         \/ Client
         \/ PrepareFails \/ TruncateFails
         \/ DecryptFails \/ SaveDecryptedFails \/ RejectArchive \/ UnpackFails
  PROVE  PullInv'
<1>1. faulted \in BOOLEAN /\ tempFiles \subseteq {"zip", "dec"}
  BY DEF PullInv, PullTypes
<1>2. CASE GetInfo
  BY <1>2, GetInfoKeepsInvariant
<1>3. CASE PrepareOutput \/ TruncateFails
  BY <1>1, <1>3, StartKeepsInvariant DEF PrepareOutput, TruncateFails
<1>4. CASE Close
  BY <1>4, CloseKeepsInvariant
<1>5. CASE GiveUp
  <2>1. RemoveFiles({"zip"}) /\ pull = "producing" /\ pull' = "err"
    BY <1>5 DEF GiveUp
  <2>2. tempFiles \subseteq {"zip"}
    BY <2>1 DEF PullInv, TempFilesKnown, FileIsOpen, OutputTemp
  <2>3. /\ tempFiles' \subseteq {"zip", "dec"} /\ stuck' \subseteq tempFiles'
        /\ tempFiles' \subseteq stuck' /\ faulted' \in BOOLEAN
    BY <2>1, <2>2, RemovedFiles
  <2> QED BY <1>5, <2>1, <2>3, FailureKeepsInvariant DEF GiveUp
<1>6. CASE Wait
  BY <1>6, WaitKeepsInvariant
<1>7. CASE PrepareFails
  <2>1. tempFiles = {} /\ stuck = {}
    BY <1>7 DEF PrepareFails, PullInv, TempFilesKnown
  <2> QED BY <1>7, <2>1, FailureKeepsInvariant DEF PrepareFails, outputVars
<1> QED
  BY <1>2, <1>3, <1>4, <1>5, <1>6, <1>7, EndKeepsInvariant DEF Client

-----------------------------------------------------------------------------
(* Steps of others *)

\* What has been stored is what commits have stored.
LEMMA StoreStep ==
  ASSUME StoreInv, Next
  PROVE  StoreInv' /\ committed \subseteq committed'
<1> USE DEF StoreInv
<1>1. ASSUME NEW u \in Uploads, Start(u) \/ Succeed(u) \/ Fail(u)
      PROVE  StoreInv' /\ committed \subseteq committed'
  BY <1>1 DEF Start, Succeed, Fail
<1>2. ASSUME NEW u \in Uploads, Commit(u)
      PROVE  StoreInv' /\ committed \subseteq committed'
  BY <1>2 DEF Commit
<1>3. ASSUME NEW k \in Keys, Remove(k)
      PROVE  StoreInv' /\ committed \subseteq committed'
  BY <1>3 DEF Remove
<1> QED BY <1>1, <1>2, <1>3 DEF Next

\* Others do not unmake what was stored, and disturb a pull when they change
\* what the key holds.
LEMMA OthersKeepInvariant ==
  ASSUME PullInv, Others
  PROVE  PullInv'
<1> USE DEF PullInv, Others, Disturb, outputVars, groupVars
<1>1. StoreInv' /\ committed \subseteq committed'
  BY StoreStep
<1>2. PullTypes'
  BY DEF PullTypes, FileType
<1>3. ~disturbed' => ~disturbed /\ (pull # "idle" => artifact'[Key] = artifact[Key])
  OBVIOUS
<1>4. /\ InOutput' <=> InOutput
      /\ Downloaded' <=> Downloaded
      /\ FileIsOpen' <=> FileIsOpen
  BY DEF InOutput, FileIsOpen, Downloaded
<1>5. InfoIsStored'
  BY <1>1, <1>3 DEF InfoIsStored
<1>6. NotStarted' /\ JobsInRange' /\ Quiet' /\ Extent' /\ TempFilesKnown' /\ DecryptedIsWhole'
  BY <1>4 DEF NotStarted, JobsInRange, Quiet, Extent, TempFilesKnown, DecryptedIsWhole,
     OutputTemp, IsWhole, IsWholeOf, IsOver
<1>7. DataIsStored'
  BY <1>1, <1>3, <1>4 DEF DataIsStored
<1>8. \A b : Good(b) => Good(b)'
  BY <1>1, <1>3 DEF Good
<1>9. NoJobIsLost'
  BY <1>4, <1>8 DEF NoJobIsLost
<1> QED BY <1>1, <1>2, <1>5, <1>6, <1>7, <1>9

\* A step that changes none of what the invariant is about.
LEMMA NothingChangesInvariant ==
  ASSUME PullInv, cancelled' \in BOOLEAN, faulted' \in BOOLEAN,
         UNCHANGED <<pull, info, outputVars, groupVars, fixedVars, vars>>
  PROVE  PullInv'
<1> USE DEF PullInv, outputVars, groupVars, fixedVars, vars
<1>1. StoreInv' /\ PullTypes'
  BY DEF StoreInv, PullTypes, FileType
<1>2. InfoIsStored' /\ NotStarted' /\ JobsInRange'
  BY DEF InfoIsStored, NotStarted, JobsInRange, InOutput, FileIsOpen, Downloaded
<1>3. DataIsStored' /\ NoJobIsLost'
  BY DEF DataIsStored, NoJobIsLost, InOutput, FileIsOpen, Downloaded, Good
<1>4. Quiet' /\ Extent' /\ TempFilesKnown' /\ DecryptedIsWhole'
  BY DEF Quiet, Extent, TempFilesKnown, DecryptedIsWhole, OutputTemp, IsWhole, IsWholeOf,
     IsOver, InOutput, FileIsOpen, Downloaded
<1> QED BY <1>1, <1>2, <1>3, <1>4

-----------------------------------------------------------------------------
(* Steps of the goroutines *)

\* There is no goroutine at work before the download or after it.
LEMMA AtWork ==
  ASSUME PullInv, NEW w \in Pool, worker[w] \in Active
  PROVE  pull \notin {"idle", "informed"} /\ ~Downloaded
BY DEF PullInv, NotStarted, Quiet, Active

\* A goroutine that does not write keeps its range until it has it, or fails.
LEMMA RequestKeepsInvariant ==
  ASSUME PullInv, NEW w \in Pool, NEW from \in Active, NEW to \in WorkerStates,
         WorkerStep(w, from, to), from \in Busy <=> to \in Busy, UNCHANGED file,
         data' \in [Pool -> Uploads \union {None}], DataIsStored',
         cancelled' \in BOOLEAN, faulted' \in BOOLEAN
  PROVE  PullInv'
<1> USE DEF PullInv, WorkerStep, fixedVars, vars
<1>1. pull \notin {"idle", "informed"} /\ ~Downloaded
  BY AtWork
<1>2. StoreInv' /\ PullTypes'
  BY DEF StoreInv, PullTypes, FileType
<1>3. /\ InOutput' <=> InOutput
      /\ ~Downloaded'
      /\ FileIsOpen' <=> FileIsOpen
  BY <1>1 DEF InOutput, FileIsOpen, Downloaded
<1>4. \A v \in Pool : worker'[v] \in Busy <=> worker[v] \in Busy
  BY DEF PullTypes
<1>5. InfoIsStored' /\ NotStarted'
  BY <1>1 DEF InfoIsStored, NotStarted
<1>6. JobsInRange'
  BY <1>3, <1>4 DEF JobsInRange, Segments
<1>7. NoJobIsLost'
  BY <1>3, <1>4 DEF NoJobIsLost, Good
<1>8. Quiet' /\ Extent' /\ DecryptedIsWhole'
  BY <1>3 DEF Quiet, Extent, DecryptedIsWhole, IsWhole, IsWholeOf
<1>9. TempFilesKnown'
  <2>1. ~IsOver
    BY DEF IsOver, Active
  <2> QED BY <1>1, <2>1 DEF TempFilesKnown, OutputTemp, FileIsOpen
<1> QED BY <1>2, <1>5, <1>6, <1>7, <1>8, <1>9

\* A job that is handed out is one that nobody has, and somebody has it then.
LEMMA HandOutKeepsInvariant ==
  ASSUME PullInv, NEW w \in Pool, HandOut(w)
  PROVE  PullInv'
<1> USE DEF PullInv, HandOut, outputVars, fixedVars, vars
<1>1. FileIsOpen /\ FileIsOpen' /\ InOutput /\ InOutput' /\ ~Downloaded'
  BY DEF InOutput, FileIsOpen, Downloaded
<1>2. StoreInv' /\ PullTypes'
  <2>1. StoreInv' /\ FileType'
    BY DEF StoreInv, PullTypes, FileType
  <2>2. produced \in Nat /\ job' \in [Pool -> Nat]
    BY DEF PullTypes
  <2>3. worker' \in [Pool -> WorkerStates]
    BY DEF PullTypes, WorkerStates, Active
  <2> QED BY <2>1, <2>2, <2>3 DEF PullTypes
<1>3. InfoIsStored' /\ NotStarted'
  BY DEF InfoIsStored, NotStarted
<1>4. info \in Uploads /\ Segments(info) \in Nat
  BY SegmentBounds DEF StoreInv, InfoIsStored
<1>5. /\ job'[w] = produced /\ worker'[w] \in Busy
      /\ \A v \in Pool \ {w} : job'[v] = job[v] /\ worker'[v] = worker[v]
      /\ worker[w] \notin Busy
  BY DEF PullTypes, Busy
<1>6. JobsInRange'
  BY <1>1, <1>4, <1>5 DEF JobsInRange, Segments, PullTypes
<1>7. DataIsStored'
  BY <1>1, <1>5 DEF DataIsStored, PullTypes
<1>8. NoJobIsLost'
  <2> SUFFICES ASSUME NEW i \in 0 .. produced'- 1
               PROVE  \/ \E v \in Pool : job'[v] = i /\ worker'[v] \in Busy
                      \/ \A b \in ByteRange(info, i) : Good(b)'
    BY <1>1 DEF NoJobIsLost
  <2>1. CASE i = produced
    BY <1>5, <2>1
  <2>2. CASE i \in 0 .. produced - 1
    BY <1>1, <1>5, <2>2 DEF NoJobIsLost, Good
  <2> QED BY <2>1, <2>2 DEF PullTypes
<1>9. Quiet' /\ Extent' /\ TempFilesKnown' /\ DecryptedIsWhole'
  BY <1>1 DEF Quiet, Extent, TempFilesKnown, DecryptedIsWhole, OutputTemp
<1> QED BY <1>2, <1>3, <1>6, <1>7, <1>8, <1>9

\* What is written are good bytes of one range, and no byte outside of it.
LEMMA WriteKeepsInvariant ==
  ASSUME PullInv, NEW w \in Pool, WriteRange(w)
  PROVE  PullInv'
<1> USE DEF PullInv, WriteRange, WorkerStep, fixedVars, vars
<1>1. FileIsOpen /\ FileIsOpen' /\ InOutput /\ InOutput' /\ ~Downloaded /\ ~Downloaded'
  BY AtWork DEF InOutput, FileIsOpen, Downloaded, Active
<1>2. /\ worker[w] = "writing" /\ job[w] \in Nat /\ job[w] < Segments(info)
      /\ info \in Uploads
      /\ data[w] \in committed /\ data[w] \in Uploads /\ (~disturbed => data[w] = info)
  <2>1. worker[w] = "writing" /\ job[w] \in Nat
    BY DEF PullTypes
  <2>2. job[w] < Segments(info)
    BY <1>1, <2>1 DEF JobsInRange, Busy
  <2>3. data[w] \in committed /\ (~disturbed => data[w] = info)
    BY <1>1, <2>1 DEF DataIsStored
  <2>4. info \in Uploads /\ data[w] \in Uploads
    BY <2>3 DEF StoreInv, InfoIsStored, FileIsOpen
  <2> QED BY <2>1, <2>2, <2>3, <2>4
<1> DEFINE range == ByteRange(info, job[w])
<1>3. PICK n \in Nat : file \in [0 .. n - 1 -> Uploads \union {Hole, Old}]
  BY DEF PullTypes, FileType
<1>4. /\ FileType'
      /\ \A b \in range : b \in DOMAIN file' /\ file'[b] = data[w]
      /\ \A b \in DOMAIN file \ range : b \in DOMAIN file' /\ file'[b] = file[b]
      /\ DOMAIN file \subseteq DOMAIN file'
      /\ DOMAIN file' \subseteq DOMAIN file \union Bytes(info)
  <2> DEFINE i == job[w]
             v == data[w]
             f == file
             g == file'
  <2>1. g = Written(f, ByteRange(info, i), v)
    OBVIOUS
  <2>2. i \in Nat /\ i < Segments(info) /\ info \in Uploads /\ v \in Uploads
    BY <1>2
  <2>3. f \in [0 .. n - 1 -> Uploads \union {Hole, Old}]
    BY <1>3
  <2> HIDE DEF i, v, f, g, FileType, PullInv, WriteRange, WorkerStep, fixedVars, vars
  <2>4. /\ \E m \in Nat : g \in [0 .. m - 1 -> Uploads \union {Hole, Old}]
        /\ \A b \in ByteRange(info, i) : b \in DOMAIN g /\ g[b] = v
        /\ \A b \in DOMAIN f \ ByteRange(info, i) : b \in DOMAIN g /\ g[b] = f[b]
        /\ DOMAIN f \subseteq DOMAIN g
        /\ DOMAIN g \subseteq DOMAIN f \union Bytes(info)
    BY <2>1, <2>2, <2>3, WrittenFile
  <2> QED BY <2>4 DEF i, v, f, g, FileType
<1> HIDE DEF range
<1>5. StoreInv'
  BY DEF StoreInv
<1>6. PullTypes'
  BY <1>4 DEF PullTypes, WorkerStates, Active
<1>7. InfoIsStored' /\ NotStarted'
  BY <1>1 DEF InfoIsStored, NotStarted, FileIsOpen
<1>8. /\ worker'[w] = "ready"
      /\ \A v \in Pool \ {w} : worker'[v] = worker[v]
  BY DEF PullTypes
<1>9. JobsInRange' /\ DataIsStored'
  BY <1>1, <1>8 DEF JobsInRange, DataIsStored, Segments, Busy
<1>10. (\A b \in range : Good(b)') /\ \A b : Good(b) => Good(b)'
  BY <1>2, <1>4 DEF Good
<1>11. NoJobIsLost'
  <2> SUFFICES ASSUME NEW i \in 0 .. produced - 1
               PROVE  \/ \E v \in Pool : job[v] = i /\ worker'[v] \in Busy
                      \/ \A b \in ByteRange(info, i) : Good(b)'
    BY <1>1 DEF NoJobIsLost
  <2>1. CASE \E v \in Pool \ {w} : job[v] = i /\ worker[v] \in Busy
    BY <1>8, <2>1
  <2>2. CASE job[w] = i
    BY <1>10, <2>2 DEF range
  <2>3. CASE \A b \in ByteRange(info, i) : Good(b)
    BY <1>10, <2>3
  <2> QED BY <1>1, <2>1, <2>2, <2>3 DEF NoJobIsLost
<1>12. Extent'
  BY <1>1, <1>4 DEF Extent, Bytes
<1>13. Quiet' /\ TempFilesKnown' /\ DecryptedIsWhole'
  BY <1>1 DEF Quiet, TempFilesKnown, DecryptedIsWhole, OutputTemp, FileIsOpen
<1> QED BY <1>5, <1>6, <1>7, <1>9, <1>11, <1>12, <1>13

\* The steps of a goroutine.
LEMMA GoroutineKeepsInvariant ==
  ASSUME PullInv, NEW w \in Pool, Goroutine(w)
  PROVE  PullInv'
<1> USE DEF PullInv
<1>1. /\ data \in [Pool -> Uploads \union {None}]
      /\ worker \in [Pool -> WorkerStates]
      /\ cancelled \in BOOLEAN /\ faulted \in BOOLEAN
  BY DEF PullTypes
<1>2. CASE HandOut(w)
  BY <1>2, HandOutKeepsInvariant
<1>3. CASE Exit(w)
  <2> USE <1>3 DEF Exit
  <2>1. DataIsStored'
    BY <1>1 DEF DataIsStored, WorkerStep, fixedVars, vars, InOutput, FileIsOpen, Downloaded
  <2> QED
    BY <1>1, <2>1, RequestKeepsInvariant DEF WorkerStates, Active, Busy
<1>4. CASE StatRange(w)
  <2> USE <1>4 DEF StatRange
  <2>1. /\ artifact[Key] \in committed /\ artifact[Key] \in Uploads
        /\ InOutput /\ ~disturbed => artifact[Key] = info
    BY PullAssumption DEF StoreInv, InfoIsStored, InOutput, FileIsOpen, Downloaded
  <2>2. DataIsStored'
    BY <1>1, <2>1 DEF DataIsStored, WorkerStep, fixedVars, vars, InOutput, FileIsOpen, Downloaded
  <2> QED
    BY <1>1, <2>1, <2>2, RequestKeepsInvariant DEF WorkerStates, Active, Busy
<1>5. CASE ReadRange(w)
  <2> USE <1>5 DEF ReadRange
  <2>1. DataIsStored'
    BY <1>1 DEF DataIsStored, WorkerStep, fixedVars, vars, InOutput, FileIsOpen, Downloaded
  <2> QED
    BY <1>1, <2>1, RequestKeepsInvariant DEF WorkerStates, Active, Busy
<1>6. CASE WriteRange(w)
  BY <1>6, WriteKeepsInvariant
<1>7. CASE RangeFails(w) \/ WriteFails(w)
  <2>1. PICK from \in {"asking", "reading", "writing"} :
          WorkerFails(w, from) /\ faulted' \in BOOLEAN
    BY <1>1, <1>7 DEF RangeFails, WriteFails, FailsFor
  <2> USE <2>1 DEF WorkerFails
  <2>2. UNCHANGED data
    BY <1>7 DEF RangeFails, WriteFails
  <2>3. DataIsStored'
    BY <1>1, <2>2 DEF DataIsStored, WorkerStep, fixedVars, vars, InOutput, FileIsOpen, Downloaded
  <2> QED
    BY <1>1, <2>2, <2>3, RequestKeepsInvariant DEF WorkerStates, Active, Busy
<1> QED BY <1>2, <1>3, <1>4, <1>5, <1>6, <1>7 DEF Goroutine

-----------------------------------------------------------------------------
(* Theorems *)

\* The download and everything around it keep the invariant.
LEMMA PullNextInvariant == PullInv /\ [PullNext]_<<vars, pullVars>> => PullInv'
<1> SUFFICES ASSUME PullInv, [PullNext]_<<vars, pullVars>> PROVE PullInv'
  OBVIOUS
<1>1. cancelled \in BOOLEAN /\ faulted \in BOOLEAN
  BY DEF PullInv, PullTypes
<1>2. CASE \/ Client \/ PrepareFails \/ TruncateFails
           \/ DecryptFails \/ SaveDecryptedFails \/ RejectArchive \/ UnpackFails
  BY <1>2, ClientKeepsInvariant
<1>3. CASE \E w \in Pool : Goroutine(w)
  BY <1>3, GoroutineKeepsInvariant
<1>4. CASE Interrupt
  BY <1>1, <1>4, NothingChangesInvariant DEF Interrupt
<1>5. CASE Others
  BY <1>5, OthersKeepInvariant
<1>6. CASE UNCHANGED <<vars, pullVars>>
  BY <1>1, <1>6, NothingChangesInvariant DEF pullVars
<1> QED BY <1>2, <1>3, <1>4, <1>5, <1>6 DEF PullNext, DownloadNext

\* The strengthened invariant of a pull is an invariant.
THEOREM PullInvariant == PullSpec => []PullInv
BY InitInvariant, PullNextInvariant, PTL DEF PullSpec

\* After a download every byte of the artifact has come from the store: all
\* jobs were handed out, no goroutine has one, and the ranges cover it.
LEMMA DownloadedIsGood ==
  ASSUME PullInv, Downloaded
  PROVE  info \in committed /\ info \in Uploads /\ \A b \in Bytes(info) : Good(b)
<1>1. InOutput /\ info \in committed /\ info \in Uploads
  BY DEF PullInv, StoreInv, InfoIsStored, InOutput, Downloaded
<1>2. produced = Segments(info)
  BY <1>1 DEF PullInv, JobsInRange, Downloaded
<1>3. \A w \in Pool : worker[w] \notin Busy
  BY DEF PullInv, Quiet, Busy
<1>4. \A i \in 0 .. Segments(info) - 1 : \A b \in ByteRange(info, i) : Good(b)
  BY <1>1, <1>2, <1>3 DEF PullInv, NoJobIsLost
<1>5. \A b \in Bytes(info) : \E i \in 0 .. Segments(info) - 1 : b \in ByteRange(info, i)
  BY <1>1, RangesCover
<1> QED BY <1>1, <1>4, <1>5

\* Every variable keeps its type, and the output its size.
THEOREM PullTypesCorrect == PullSpec => []PullTypeOK
<1>1. PullInv => PullTypeOK
  <2> SUFFICES ASSUME PullInv PROVE PullTypeOK
    OBVIOUS
  <2> USE DEF PullInv, PullTypes
  <2>1. PICK n \in Nat : file \in [0 .. n - 1 -> Uploads \union {Hole, Old}]
    BY DEF FileType
  <2>2. Cardinality(0 .. n - 1) = n /\ DOMAIN file = 0 .. n - 1
    BY <2>1, FS_Interval
  <2>3. file \in [0 .. Cardinality(DOMAIN file) - 1 -> Uploads \union {Hole, Old}]
    BY <2>1, <2>2
  <2>4. pull \notin {"idle", "err"} => info \in Uploads
    BY DEF StoreInv, InfoIsStored
  <2>5. FileIsOpen /\ truncated => DOMAIN file = Bytes(info)
    BY DEF Extent, InOutput
  <2>6. stuck \subseteq tempFiles
    BY DEF TempFilesKnown
  <2> QED BY <2>3, <2>4, <2>5, <2>6 DEF PullTypeOK
<1> QED BY <1>1, PullInvariant, PTL

\* No byte of a download is missing.
THEOREM DownloadHasNoHoles == PullSpec => []NoHoles
<1>1. PullInv => NoHoles
  BY DownloadedIsGood DEF NoHoles, Good
<1> QED BY <1>1, PullInvariant, PTL

\* A pull that has returned leaves no temporary file but for a reason.
THEOREM TempFilesRemoved == PullSpec => []TempFilesAreRemoved
<1>1. PullInv => TempFilesAreRemoved
  BY DEF PullInv, TempFilesKnown, IsOver, TempFilesAreRemoved, DownloadIsComplete
<1> QED BY <1>1, PullInvariant, PTL

\* What is delivered is one whole artifact, and the one under the key unless
\* somebody replaced that.  If it was encrypted, its first byte says which one;
\* else all bytes are those of the artifact that the pull goes by, and no byte
\* lies behind them.
LEMMA DeliveredArtifact ==
  ASSUME PullInv, pull = "ok", keyed \/ (~disturbed /\ (truncated \/ IsDir[info]))
  PROVE  \E u \in committed : IsWholeOf(file, u) /\ (~disturbed => artifact[Key] = u)
<1>1. Downloaded /\ InOutput
  BY DEF Downloaded, InOutput
<1>2. /\ info \in committed /\ info \in Uploads /\ \A b \in Bytes(info) : Good(b)
      /\ ~disturbed => artifact[Key] = info
  BY <1>1, DownloadedIsGood DEF PullInv, InfoIsStored
<1>3. CASE keyed
  <2>1. PICK u \in Uploads : file = [b \in Bytes(u) |-> u]
    BY <1>3 DEF PullInv, DecryptedIsWhole, IsWhole, IsWholeOf
  <2>2. Size[info] \in Nat \ {0}
    BY <1>2, PullAssumption DEF PullInv, StoreInv
  <2>3. Good(0)
    BY <1>2, <2>2 DEF Bytes
  <2>4. u \in committed /\ (~disturbed => u = info)
    BY <2>1, <2>3 DEF Good
  <2> QED BY <1>2, <2>1, <2>4 DEF IsWholeOf
<1>4. CASE ~disturbed /\ (truncated \/ IsDir[info])
  <2>1. \A b \in Bytes(info) : b \in DOMAIN file /\ file[b] = info
    BY <1>2, <1>4 DEF Good
  <2>2. DOMAIN file = Bytes(info)
    BY <1>1, <1>4, <2>1 DEF PullInv, Extent
  <2>3. file = [b \in DOMAIN file |-> file[b]]
    BY DEF PullInv, PullTypes, FileType
  <2>4. IsWholeOf(file, info)
    BY <2>1, <2>2, <2>3 DEF IsWholeOf
  <2> QED BY <1>2, <2>4
<1> QED BY <1>3, <1>4

\* What a pull delivers, encrypted or undisturbed, is one whole artifact that
\* was pushed, and nothing of what its destination held before.
THEOREM WholeIsDelivered == PullSpec => []DeliveredIsWhole
<1>1. PullInv => DeliveredIsWhole
  BY DeliveredArtifact DEF DeliveredIsWhole
<1> QED BY <1>1, PullInvariant, PTL
=============================================================================
