-------------------------- MODULE ChunkedFileProofs --------------------------
(***************************************************************************)
(* Proofs about ChunkedFile, for integers of any width, files of any size  *)
(* and any changes to them.  FileInv goes by the chunks that exist and by  *)
(* their number, BytesInv by what is in them: what the pipe has copied is  *)
(* always a prefix of the text that was measured and hashed.  PlacedInv is *)
(* about a plain file that changes: what the pipe has copied is never      *)
(* longer than the chunks, and in place if it is as long as they are.      *)
(***************************************************************************)
EXTENDS ChunkedFile, ChunksProofs, SequenceTheorems, TLAPS

-----------------------------------------------------------------------------
(* The inductive invariant *)

\* The user's chunk size is an int64, what UploadArtifact encrypts is no longer
\* than a file may be, and the chunk size of a session is not zero.
InputsInRange ==
  /\ prefer \in Int64
  /\ pc = "measured" => copy = None \/ copy \in Texts
  /\ pc = "upload" => Unsigned(chunk) \in Nat \ {0}

\* A push succeeds with an object, unless there is nothing to store or its
\* chunk size overflows.
FileInv ==
  /\ FileTypeOK
  /\ InputsInRange
  /\ SuccessStores

-----------------------------------------------------------------------------
(* Lemmas *)

\* A text is a sequence that is not too long.
LEMMA TextIsSequence ==
  ASSUME NEW t
  PROVE  t \in Texts <=> t \in Seq(0 .. MaxSize + MaxEdits) /\ Len(t) <= MaxSize
<1> USE FileAssumption
<1>1. ASSUME t \in Texts
      PROVE  t \in Seq(0 .. MaxSize + MaxEdits) /\ Len(t) <= MaxSize
  <2>1. PICK n \in 0 .. MaxSize : t \in [1 .. n -> 0 .. MaxSize + MaxEdits]
    BY <1>1 DEF Texts
  <2> QED BY <2>1
<1>2. ASSUME t \in Seq(0 .. MaxSize + MaxEdits), Len(t) <= MaxSize
      PROVE  t \in Texts
  <2>1. Len(t) \in 0 .. MaxSize /\ t \in [1 .. Len(t) -> 0 .. MaxSize + MaxEdits]
    BY <1>2
  <2> QED BY <2>1 DEF Texts
<1> QED BY <1>1, <1>2

\* The empty sequence, which stands for no parts, has no element.
LEMMA NoParts == DOMAIN <<>> = {}
OBVIOUS

\* A size that fits is what the server is told, and what it tells itself.
LEMMA DescribedSize ==
  ASSUME NEW n \in Sizes
  PROVE  n \in 0 .. Half - 1 /\ Unsigned(n) = n /\ Signed(n) = n
<1>1. Len(Sealing) \in Nat /\ MaxSize \in Nat /\ Half \in Nat
  BY FileAssumption, WidthAssumption
<1>2. n \in 0 .. Half /\ n < Half
  BY <1>1, FileAssumption DEF Sizes
<1> QED BY <1>1, <1>2, NothingWraps

\* One turn around the range of the integers is no change.
LEMMA OneTurn ==
  ASSUME NEW b \in Nat \ {0}, NEW r \in 0 .. b - 1
  PROVE  (r + b) % b = r /\ (r - b) % b = r
OBVIOUS

\* The chunk size of a session, which is not zero, is not zero for the client.
LEMMA ChunkIsNotZero ==
  ASSUME NEW n \in 1 .. 2 * Half - 1
  PROVE  Unsigned(Signed(n)) = n
<1> USE WidthAssumption
<1>1. CASE n < Half
  BY <1>1, NothingWraps
<1>2. CASE n >= Half
  <2>1. 2 * Half \in Nat \ {0} /\ n - Half \in 0 .. 2 * Half - 1 /\ n \in 0 .. 2 * Half - 1
    BY <1>2
  <2>2. (n + Half) % (2 * Half) = n - Half
    <3>1. n + Half = (n - Half) + 2 * Half
      OBVIOUS
    <3> QED BY <2>1, <3>1, OneTurn
  <2>3. Signed(n) = n - 2 * Half
    BY <2>2 DEF Signed
  <2> QED BY <2>1, <2>3, OneTurn DEF Unsigned
<1> QED BY <1>1, <1>2

\* The conversions end in the range of their type.
LEMMA SignedIsInt64 == \A n \in Int : Signed(n) \in Int64
BY WidthAssumption DEF Signed, Int64

\* An upload whose numbers do not overflow has as many chunks for the client as
\* for the server, and at least one.
LEMMA SegmentsAreTotal ==
  ASSUME FileTypeOK, Size > 0, Representable(Size, chunk)
  PROVE  Segments = Total /\ Total \in Nat \ {0}
<1>1. meta.size \in Nat /\ Size = meta.size
  BY DescribedSize DEF FileTypeOK, Size, Sizes
<1>2. chunk \in 0 .. Half /\ chunk \in Nat /\ Unsigned(chunk) = chunk
  BY <1>1, WidthAssumption, NothingWraps DEF FileTypeOK, Int64, Representable
<1>3. Segments = Total
  BY <1>1, <1>2, SameChunks DEF Segments, Total
<1>4. 0 \div chunk \in 0 .. Segments - 1
  BY <1>1, <1>2, ChunksPartitionTheFile DEF Segments
<1>5. Segments \in Nat
  <2>1. Size + chunk - 1 \in Nat /\ chunk \in Nat \ {0}
    BY <1>1, <1>2 DEF Representable
  <2>2. Segments = (Size + chunk - 1) \div chunk
    BY <1>1, <1>2, ChunkCount DEF Segments
  <2> QED BY <2>1, <2>2, DivisionBounds
<1> QED BY <1>3, <1>4, <1>5

\* The server's count of the chunks is a number as soon as there is a session.
LEMMA TotalIsNatural ==
  ASSUME FileTypeOK, InputsInRange, pc = "upload"
  PROVE  Total \in Nat
<1>1. Unsigned(Unsigned(meta.size + Unsigned(chunk)) - 1) \in Nat
  BY WidthAssumption, FileAssumption DEF FileTypeOK, Sizes, Unsigned, Int64
<1>2. Unsigned(chunk) \in Nat \ {0}
  BY DEF InputsInRange
<1> QED BY <1>1, <1>2, DivisionBounds DEF Total, ServerChunks

-----------------------------------------------------------------------------
(* The invariant *)

\* Before the push, nothing is stored.
LEMMA FileInitially == FileInit => FileInv
<1> SUFFICES ASSUME FileInit PROVE FileInv
  OBVIOUS
<1>1. PICK n \in 0 .. MaxSize : source = [b \in 1 .. n |-> b]
  BY DEF FileInit
<1>2. source \in Texts
  BY <1>1, FileAssumption DEF Texts
<1>3. FileTypeOK
  BY <1>2, WidthAssumption, FileAssumption
  DEF FileInit, FileTypeOK, Steps, Pushing, Sizes, Int64
<1> QED BY <1>3 DEF FileInit, FileInv, InputsInRange, SuccessStores

\* A change to the file is no change to what the push has made of it.
LEMMA EditKeepsInvariant == ASSUME FileInv, Edit PROVE FileInv'
<1> USE FileAssumption DEF FileInv, FileTypeOK
<1>0. edits' \in 0 .. MaxEdits /\ MaxSize + edits' \in 0 .. MaxSize + MaxEdits
  <2>1. edits \in 0 .. MaxEdits /\ edits < MaxEdits /\ edits' = edits + 1
    BY DEF Edit
  <2>2. MaxEdits \in Nat /\ MaxSize \in Nat
    OBVIOUS
  <2> HIDE DEF FileInv, FileTypeOK
  <2> QED BY ONLY <2>1, <2>2
<1>1. source \in Seq(0 .. MaxSize + MaxEdits) /\ Len(source) <= MaxSize
  BY TextIsSequence
<1>2. source' \in Seq(0 .. MaxSize + MaxEdits) /\ Len(source') <= MaxSize
  <2>1. CASE \E b \in DOMAIN source : source' = [source EXCEPT ![b] = MaxSize + edits']
    <3> DEFINE S == 0 .. MaxSize + MaxEdits
    <3>1. PICK b \in DOMAIN source : source' = [source EXCEPT ![b] = MaxSize + edits']
      BY <2>1
    <3>2. source \in Seq(S) /\ MaxSize + edits' \in S
      BY <1>0, <1>1
    <3> HIDE DEF S
    <3>3. b \in 1 .. Len(source)
      BY <3>1, <3>2, LenProperties
    <3>4. source' \in Seq(S) /\ Len(source') = Len(source)
      BY <3>1, <3>2, <3>3, ExceptSeq
    <3> QED BY <1>1, <3>4 DEF S
  <2>2. CASE Len(source) < MaxSize /\ source' = Append(source, MaxSize + edits')
    <3> DEFINE S == 0 .. MaxSize + MaxEdits
    <3>1. source \in Seq(S) /\ MaxSize + edits' \in S
      BY <1>0, <1>1
    <3>2. source' \in Seq(S) /\ Len(source') = Len(source) + 1
      <4> HIDE DEF S
      <4> QED BY <2>2, <3>1, AppendProperties
    <3>3. Len(source) + 1 <= MaxSize
      BY <1>1, <2>2
    <3> QED BY <3>2, <3>3
  <2>3. ASSUME NEW n \in 0 .. Len(source) - 1, source' = SubSeq(source, 1, n)
        PROVE  source' \in Seq(0 .. MaxSize + MaxEdits) /\ Len(source') <= MaxSize
    <3>1. n \in Nat /\ n <= Len(source)
      BY <1>1
    <3>2. \A b \in 1 .. n : source[b] \in 0 .. MaxSize + MaxEdits
      BY <1>1, <3>1
    <3> DEFINE S == 0 .. MaxSize + MaxEdits
    <3>4. SubSeq(source, 1, n) \in Seq(S) /\ Len(SubSeq(source, 1, n)) \in {n, 0}
      <4> HIDE DEF S
      <4> QED BY <3>1, <3>2, SubSeqProperties DEF S
    <3> QED BY <1>1, <2>3, <3>1, <3>4
  <2> QED BY <2>1, <2>2, <2>3 DEF Edit
<1>3. source' \in Texts
  BY <1>2, TextIsSequence
<1>4. UNCHANGED <<userVars, pc, copy, meta, chunk, parts, pipeVars, object, fetched>>
  BY DEF Edit
<1> QED
  BY <1>0, <1>3, <1>4
  DEF InputsInRange, SuccessStores, userVars, pipeVars, Total, Size, Texts, Sizes

\* What is measured, sealed and agreed upon keeps its range.
LEMMA PreparationKeepsInvariant ==
  ASSUME FileInv, Measure \/ Encrypt \/ OpenSession
  PROVE  FileInv'
<1> USE FileAssumption, WidthAssumption
    DEF FileInv, FileTypeOK, InputsInRange, SuccessStores,
        Steps, Pushing, userVars, fileVars, pipeVars
<1>0. Len(Sealing) \in Nat /\ MaxSize \in Nat
  OBVIOUS
<1>1. ASSUME NEW text \in Texts
      PROVE  /\ text \in Seq(Nat) /\ Len(text) \in Sizes
             /\ Len(Sealed(text)) \in Sizes
  <2>1. text \in Seq(0 .. MaxSize + MaxEdits) /\ Len(text) <= MaxSize
    BY TextIsSequence
  <2>2. text \in Seq(Nat) /\ Len(text) \in Nat
    BY <2>1
  <2>3. Len(Sealed(text)) = Len(text) + Len(Sealing)
    BY <2>2 DEF Sealed
  <2> QED BY <1>0, <2>1, <2>2, <2>3 DEF Sizes
<1>2. ASSUME NEW text, Len(text) \in Sizes
      PROVE  Described(text).size \in Sizes /\ Len(Described(text).sha) = Described(text).size
  BY <1>2, DescribedSize DEF Described
<1>3. CASE Measure
  <2>1. Len(source) \in Sizes
    BY <1>1
  <2>2. meta'.size \in Sizes /\ Len(meta'.sha) = meta'.size
    BY <1>2, <1>3, <2>1 DEF Measure
  <2>3. parts' = <<>> /\ copied' = 0
    BY <1>3 DEF Measure
  <2>4. FileTypeOK'
    BY <1>3, <2>2, <2>3 DEF Measure
  <2>5. (InputsInRange /\ SuccessStores)'
    BY <1>3 DEF Measure, Texts
  <2> QED BY <2>4, <2>5
<1>4. CASE Encrypt
  <2>1. Readable \in Texts
    BY <1>4 DEF Encrypt, Readable
  <2>2. Len(copy') \in Sizes
    BY <1>1, <1>4, <2>1 DEF Encrypt
  <2>3. meta'.size \in Sizes /\ Len(meta'.sha) = meta'.size
    BY <1>2, <1>4, <2>2 DEF Encrypt
  <2>4. parts' = <<>> /\ copied' = 0
    BY <1>4 DEF Encrypt
  <2>5. FileTypeOK'
    BY <1>4, <2>3, <2>4 DEF Encrypt
  <2>6. (InputsInRange /\ SuccessStores)'
    BY <1>4 DEF Encrypt
  <2> QED BY <2>5, <2>6
<1>5. CASE OpenSession
  <2>1. SessionChunk(Unsigned(prefer)) \in 1 .. 2 * Half - 1
    BY DEF SessionChunk, Unsigned, Int64
  <2>2. chunk' \in Int64 /\ Unsigned(chunk') \in Nat \ {0}
    BY <1>5, <2>1, SignedIsInt64, ChunkIsNotZero DEF OpenSession
  <2>3. FileTypeOK'
    BY <1>5, <2>2 DEF OpenSession, Total, Sizes, Texts
  <2>4. (InputsInRange /\ SuccessStores)'
    BY <1>5, <2>2 DEF OpenSession
  <2> QED BY <2>3, <2>4
<1> QED BY <1>3, <1>4, <1>5

\* The parts of a session are those that it has, and a push returns after its
\* last one has been assembled.
LEMMA UploadKeepsInvariant ==
  ASSUME FileInv, (\E i \in Unsent : SendChunk(i)) \/ CopyPart \/ Assemble \/ Return
  PROVE  FileInv'
<1> USE DEF FileInv, FileTypeOK, InputsInRange, SuccessStores,
        Steps, Pushing, userVars, fileVars, pipeVars
<1>1. ASSUME NEW i \in Unsent, SendChunk(i)
      PROVE  FileInv'
  <2> USE <1>1 DEF SendChunk
  <2>1. pc' \in {"upload", "panic", "err"} /\ pc = "upload"
    OBVIOUS
  <2>2. Total \in Nat
    BY <2>1, TotalIsNatural
  <2>3. Total' = Total
    BY DEF Total
  <2>4. parts' # <<>> => DOMAIN parts' \subseteq 0 .. Total - 1
    <3>1. CASE parts' = parts
      BY <3>1
    <3>2. CASE parts' # parts
      <4>1. DOMAIN parts' = DOMAIN parts \union {i} /\ i < Total
        BY <2>2, <3>2 DEF Unsent
      <4>2. i \in Nat /\ i \in 0 .. Total - 1
        BY <2>2, <4>1 DEF Unsent
      <4> QED BY <4>1, <4>2, NoParts
    <3> QED BY <3>1, <3>2
  <2>5. FileTypeOK'
    BY <2>1, <2>3, <2>4 DEF Texts, Sizes
  <2> QED BY <2>1, <2>5
<1>2. CASE Assemble
  <2> USE <1>2 DEF Assemble, Assembling
  <2> QED BY DEF Total, Texts, Sizes
<1>3. CASE CopyPart
  <2> USE <1>3 DEF CopyPart, Assembling
  <2>1. Total' = Total
    BY DEF Total
  <2>2. copied' \in Nat /\ (copied' > 0 => copied' <= Total')
    <3>1. copied + 1 <= Total
      BY TotalIsNatural
    <3> QED BY <2>1, <3>1
  <2>3. FileTypeOK'
    BY <2>1, <2>2 DEF Texts, Sizes
  <2> QED BY <2>1, <2>3
<1>4. CASE Return
  <2> USE <1>4 DEF Return
  <2>1. ASSUME Size > 0, Representable(Size, chunk)
        PROVE  object # None
    <3>1. Segments = Total /\ Total \in Nat \ {0}
      BY <2>1, SegmentsAreTotal
    <3>2. 0 .. Total - 1 \subseteq DOMAIN parts /\ 0 \in 0 .. Total - 1
      BY <3>1 DEF Unsent
    <3>3. DOMAIN parts = 0 .. Total - 1
      BY <3>2, NoParts
    <3> QED BY <3>1, <3>3 DEF Complete
  <2>2. FileTypeOK'
    BY DEF Total, Texts, Sizes
  <2>3. SuccessStores'
    BY <2>1 DEF Size
  <2> QED BY <2>2, <2>3
<1> QED BY <1>1, <1>2, <1>3, <1>4

\* A pull changes nothing that is stored.
LEMMA PullKeepsInvariant ==
  ASSUME FileInv, NEW p \in Int64, PullWith(p)
  PROVE  FileInv'
BY DEF PullWith, FileInv, FileTypeOK, InputsInRange, SuccessStores,
       Steps, Pushing, userVars, fileVars, pipeVars, Total, Size, Texts, Sizes

\* The strengthened invariant is an invariant.
THEOREM FileInvariant == FileSpec => []FileInv
<1>1. FileInv /\ UNCHANGED allVars => FileInv'
  BY DEF allVars, fileVars, userVars, pipeVars, FileInv, FileTypeOK, InputsInRange,
         SuccessStores, Total, Size, Texts, Sizes
<1>2. FileInv /\ [FileNext]_allVars => FileInv'
  BY <1>1, EditKeepsInvariant, PreparationKeepsInvariant, UploadKeepsInvariant,
     PullKeepsInvariant
  DEF FileNext
<1> QED BY <1>2, FileInitially, PTL DEF FileSpec

-----------------------------------------------------------------------------
(* The bytes *)

\* What is pushed cannot change any more, or has not changed so far.
Frozen == keyed \/ isDir \/ edits = 0

\* The length of the first n chunks.
Before(n) == IF n * chunk > Size THEN Size ELSE n * chunk

\* Whatever is a text is one; None is not.
TextsAreSequences ==
  /\ meta.sha \in Seq(Nat)
  /\ copy = None \/ copy \in Seq(Nat)
  /\ \A i \in DOMAIN parts : parts[i] \in Seq(Nat)
  /\ piped \in Seq(Nat)
  /\ object # None => object.bytes \in Seq(Nat)

\* What the chunks are read from is what the server was told of.
ReadableIsDescribed ==
  /\ pc = "measured" => keyed
  /\ pc \in {"ready", "upload"} =>
       /\ keyed \/ isDir => copy # None
       /\ Frozen => Readable = meta.sha

\* The parts are the chunks of that text, and they exist only where nothing
\* overflows.
PartsAreChunks ==
  /\ Frozen => \A i \in DOMAIN parts : parts[i] = ReadAt(meta.sha, i)
  /\ DOMAIN parts # {} => Representable(Size, chunk)

\* The pipe has passed on a prefix of it.
PipedIsPrefix ==
  /\ copied = 0 => piped = <<>>
  /\ copied > 0 => Complete /\ Total > 0
  /\ Frozen /\ copied > 0 => piped = SubSeq(meta.sha, 1, Before(copied))

\* A pull writes what it reads from the object.
FetchedFromObject ==
  fetched # None =>
    /\ pc = "pulled" /\ object # None
    /\ fetched.chunk \in Int64
    /\ fetched.bytes = Fetch(object.bytes, fetched.chunk)

BytesInv ==
  /\ TextsAreSequences
  /\ ReadableIsDescribed
  /\ PartsAreChunks
  /\ PipedIsPrefix
  /\ StoredMatchesHash
  /\ FetchedFromObject

\* A prefix and what follows it are a prefix.
LEMMA PrefixGrows ==
  ASSUME NEW t \in Seq(Nat), NEW a \in Nat, NEW b \in Nat, a <= b, b <= Len(t)
  PROVE  SubSeq(t, 1, a) \o SubSeq(t, a + 1, b) = SubSeq(t, 1, b)
BY ConcatAdjacentSubSeq

\* The chunks follow one another, from the start of the text to its end.
LEMMA ChunksFollow ==
  ASSUME NEW t \in Seq(Nat), Size \in Nat, Len(t) = Size,
         chunk \in Nat, Representable(Size, chunk)
  PROVE  /\ Before(Segments) = Size
         /\ \A n \in 0 .. Segments - 1 :
              /\ Before(n) \in Nat /\ Before(n + 1) \in Nat
              /\ Before(n) <= Before(n + 1) /\ Before(n + 1) <= Size
              /\ ReadAt(t, n) = SubSeq(t, Before(n) + 1, Before(n + 1))
<1>1. chunk \in Nat \ {0} /\ Size + chunk - 1 \in Nat
  BY DEF Representable
<1>2. Segments = (Size + chunk - 1) \div chunk
  BY ChunkCount DEF Segments
<1>3. /\ Segments \in Nat
      /\ Size + chunk - 1 < chunk * Segments + chunk
  BY <1>1, <1>2, DivisionBounds
<1>4. Segments * chunk = chunk * Segments /\ Segments * chunk \in Nat
  BY <1>1, <1>3
<1>5. Before(Segments) = Size
  BY <1>1, <1>3, <1>4 DEF Before
<1>6. ASSUME NEW n \in 0 .. Segments - 1
      PROVE  /\ Before(n) \in Nat /\ Before(n + 1) \in Nat
             /\ Before(n) <= Before(n + 1) /\ Before(n + 1) <= Size
             /\ ReadAt(t, n) = SubSeq(t, Before(n) + 1, Before(n + 1))
  <2>1. /\ n * chunk < Size
        /\ Offset(n, chunk) = n * chunk
        /\ Offset(n, chunk) + Limit(n, Size, chunk) =
             IF n * chunk + chunk > Size THEN Size ELSE n * chunk + chunk
    BY ChunkIsWhereItBelongs DEF Segments
  <2>2. n * chunk \in Nat /\ (n + 1) * chunk = n * chunk + chunk
    BY <1>1, <1>3
  <2>3. Before(n) = n * chunk
    BY <2>1, <2>2 DEF Before
  <2>4. Before(n + 1) = Offset(n, chunk) + Limit(n, Size, chunk)
    BY <2>1, <2>2 DEF Before
  <2>5. Before(n) <= Before(n + 1) /\ Before(n + 1) <= Size /\ Before(n + 1) \in Nat
    BY <1>1, <2>1, <2>2, <2>3, <2>4
  <2>6. ReadAt(t, n) =
          SubSeq(t, Before(n) + 1, IF Before(n + 1) < Len(t) THEN Before(n + 1) ELSE Len(t))
    BY <2>1, <2>3, <2>4 DEF ReadAt
  <2>7. (IF Before(n + 1) < Len(t) THEN Before(n + 1) ELSE Len(t)) = Before(n + 1)
    BY <2>5
  <2> QED BY <2>2, <2>3, <2>5, <2>6, <2>7
<1> QED BY <1>5, <1>6

\* The size of the session is the length of the text that was hashed.
LEMMA SizeOfText ==
  ASSUME FileTypeOK
  PROVE  Size = meta.size /\ Size \in Nat /\ Size < Half /\ Len(meta.sha) = Size
BY DescribedSize, WidthAssumption DEF FileTypeOK, Size

\* A quotient of numbers of different sign is not positive.
LEMMA QuotientOfSigns ==
  ASSUME NEW a \in Int64, NEW b \in Int64, b # 0, (a < 0) # (b < 0)
  PROVE  Quotient(a, b) \in Int /\ Quotient(a, b) <= 0
<1> USE WidthAssumption DEF Int64
<1> DEFINE q == Abs(a) \div Abs(b)
<1>1. Abs(a) \in 0 .. Half /\ Abs(b) \in Nat \ {0}
  BY DEF Abs
<1>2. q \in 0 .. Half
  BY <1>1, DivisionBounds
<1> HIDE DEF q
<1>3. 2 * Half \in Nat \ {0} /\ (Half - q) \in 0 .. 2 * Half - 1
  BY <1>2
<1>4. (-q + Half) % (2 * Half) = Half - q
  BY <1>2, <1>3, SmallRemainder
<1>5. Signed(-q) = -q
  BY <1>2, <1>4 DEF Signed
<1>6. Quotient(a, b) = Signed(-q)
  BY DEF Quotient, q
<1> QED BY <1>2, <1>5, <1>6

\* What is not out of range stays as it is.
LEMMA InRangeIsKept ==
  ASSUME NEW n \in Int64
  PROVE  Signed(n) = n
<1> USE WidthAssumption
<1>1. 2 * Half \in Nat \ {0} /\ n + Half \in 0 .. 2 * Half - 1
  BY DEF Int64
<1> QED BY <1>1, SmallRemainder DEF Signed, Int64

\* A chunk that the client can read and the server expects is one of a file
\* whose numbers do not overflow: any other loop has no turn or panics in it.
LEMMA SentIsRepresentable ==
  ASSUME FileTypeOK, InputsInRange, pc = "upload",
         NEW i \in 0 .. Segments - 1, Limit(i, Size, chunk) >= 0, i < Total
  PROVE  Representable(Size, chunk)
<1> USE WidthAssumption
<1>0. Total \in Nat
  BY TotalIsNatural
<1>1. /\ Size \in Nat /\ Size < Half /\ Size > 0
      /\ chunk \in -Half .. Half - 1 /\ chunk # 0
  <2>1. i \in Nat /\ Total > 0
    BY <1>0
  <2>2. Size > 0
    BY <2>1, SizeOfText DEF Total, ServerChunks
  <2>3. Unsigned(0) = 0
    BY NothingWraps
  <2> QED BY <2>2, <2>3, SizeOfText DEF FileTypeOK, InputsInRange, Int64
<1>2. ASSUME chunk > 0, Size + chunk > Half
      PROVE  FALSE
  <2> DEFINE m == Size + chunk - 2 * Half
  <2>1. m \in -Half + 1 .. -1 /\ m + Half \in 0 .. 2 * Half - 1
    BY <1>1, <1>2
  <2>2. Signed(Size + chunk) = m
    <3>1. Size + chunk + Half = (m + Half) + 2 * Half /\ 2 * Half \in Nat \ {0}
      BY <1>1
    <3>2. (Size + chunk + Half) % (2 * Half) = m + Half
      <4> HIDE DEF m
      <4> QED BY <2>1, <3>1, OneTurn
    <3> QED BY <2>1, <3>2 DEF Signed
  <2> HIDE DEF m
  <2>3. m - 1 \in Int64 /\ chunk \in Int64
    BY <1>1, <2>1 DEF Int64
  <2>4. Segments = Quotient(m - 1, chunk)
    BY <2>2, <2>3, InRangeIsKept DEF Segments, ClientChunks
  <2>5. (m - 1 < 0) # (chunk < 0)
    BY <1>1, <1>2, <2>1
  <2>6. Segments \in Int /\ Segments <= 0
    BY <1>1, <2>3, <2>4, <2>5, QuotientOfSigns
  <2> QED BY <2>6
<1>3. ASSUME chunk < 0
      PROVE  FALSE
  <2> DEFINE m == Size + chunk - 1
             c == -chunk
  <2>1. m \in Int64 /\ Size + chunk \in Int64 /\ chunk \in Int64 /\ c \in Nat \ {0}
    BY <1>1, <1>3 DEF Int64
  <2>2. Segments = Quotient(m, chunk)
    <3>1. Signed(Size + chunk) = Size + chunk
      BY <2>1, InRangeIsKept
    <3>2. Signed(m) = m
      BY <2>1, InRangeIsKept
    <3>3. Signed(Signed(Size + chunk) - 1) = m
      BY <1>1, <3>1, <3>2
    <3> QED BY <3>3 DEF Segments, ClientChunks
  <2>3. m < 0
    <3> HIDE DEF m
    <3>1. SUFFICES ASSUME m >= 0 PROVE FALSE
      BY <2>1 DEF Int64
    <3>2. (m < 0) # (chunk < 0)
      BY <1>1, <1>3, <2>1, <3>1 DEF Int64
    <3>3. Segments \in Int /\ Segments <= 0
      BY <1>1, <2>1, <2>2, <3>2, QuotientOfSigns
    <3> QED BY <3>3
  <2>4. -m \in Nat /\ -m <= c
    BY <1>1, <2>1, <2>3
  <2>5. (-m) \div c \in {0, 1}
    <3>1. (-m) \div c \in Nat /\ c * ((-m) \div c) <= -m
      BY <2>1, <2>4, DivisionBounds
    <3> DEFINE q == (-m) \div c
    <3> HIDE DEF q, m, c
    <3>2. q \in Nat /\ c * q <= c
      BY <2>1, <2>4, <3>1 DEF q, Int64
    <3>3. q >= 2 => c * q >= c * 2
      BY <2>1, <3>2
    <3> QED BY <2>1, <3>2, <3>3 DEF q
  <2>6. Quotient(m, chunk) = Signed((-m) \div c)
    BY <1>1, <1>3, <2>3 DEF Quotient, Abs
  <2>7. Signed((-m) \div c) <= 1
    <3>1. CASE Half = 1
      BY <2>5, <3>1, SignedIsInt64 DEF Int64
    <3>2. CASE Half > 1
      BY <2>5, <3>2, InRangeIsKept DEF Int64
    <3> QED BY <3>1, <3>2
  <2>8. i = 0
    <3>1. Segments \in Int /\ Segments <= 1
      BY <2>2, <2>5, <2>6, <2>7, SignedIsInt64 DEF Int64
    <3> QED BY <3>1
  <2>9. Offset(i, chunk) = 0 /\ Signed(0 + chunk) = chunk
    BY <1>1, <2>1, <2>8, InRangeIsKept DEF Offset, Int64
  <2>10. Limit(i, Size, chunk) = chunk
    BY <1>1, <1>3, <2>9 DEF Limit
  <2> QED BY <1>1, <1>3, <2>10
<1> QED BY <1>1, <1>2, <1>3 DEF Representable

\* Before the push there are no bytes.
LEMMA BytesInitially == FileInit => BytesInv
<1> SUFFICES ASSUME FileInit PROVE BytesInv
  OBVIOUS
<1>1. <<>> \in Seq(Nat)
  OBVIOUS
<1>2. /\ pc = "start" /\ copy = None /\ meta.sha = <<>> /\ parts = <<>>
      /\ piped = <<>> /\ copied = 0 /\ object = None /\ fetched = None
  BY DEF FileInit
<1> QED
  BY <1>1, <1>2, NoParts
  DEF BytesInv, TextsAreSequences, ReadableIsDescribed, PartsAreChunks, PipedIsPrefix,
      StoredMatchesHash, FetchedFromObject

\* An edit changes what is read only where it is not frozen.
LEMMA EditKeepsBytes == ASSUME FileInv, BytesInv, Edit PROVE BytesInv'
<1> USE DEF BytesInv
<1>1. UNCHANGED <<userVars, pc, copy, meta, chunk, parts, pipeVars, object, fetched>>
  BY DEF Edit
<1>2. UNCHANGED <<Size, Total>> /\ \A t, i : ReadAt(t, i)' = ReadAt(t, i)
  BY <1>1 DEF Size, Total, ReadAt
<1>3. Frozen' => (keyed \/ isDir) /\ Frozen
  BY <1>1 DEF Edit, Frozen, userVars, FileInv, FileTypeOK
<1>4. TextsAreSequences'
  BY <1>1 DEF TextsAreSequences, pipeVars
<1>5. ReadableIsDescribed'
  BY <1>1, <1>3 DEF ReadableIsDescribed, Readable, userVars
<1>6. PartsAreChunks'
  BY <1>1, <1>2, <1>3 DEF PartsAreChunks
<1>7. PipedIsPrefix'
  BY <1>1, <1>2, <1>3 DEF PipedIsPrefix, pipeVars, Complete, Before
<1>8. StoredMatchesHash' /\ FetchedFromObject'
  BY <1>1, <1>3 DEF StoredMatchesHash, FetchedFromObject, Frozen
<1> QED BY <1>4, <1>5, <1>6, <1>7, <1>8

\* What is measured and hashed is what will be read, unless it is a plain file
\* that changes.
LEMMA PreparationKeepsBytes ==
  ASSUME FileInv, BytesInv, Measure \/ Encrypt \/ OpenSession
  PROVE  BytesInv'
<1> USE FileAssumption
<1>1. source \in Seq(Nat)
  <2>1. source \in Seq(0 .. MaxSize + MaxEdits)
    BY TextIsSequence DEF FileInv, FileTypeOK
  <2> QED BY <2>1
<1>2. /\ parts = <<>> /\ parts' = <<>> /\ copied = 0 /\ copied' = 0
      /\ piped = <<>> /\ piped' = <<>>
      /\ object = None /\ object' = None /\ fetched = None /\ fetched' = None
  BY DEF Measure, Encrypt, OpenSession, FileInv, FileTypeOK, Pushing, pipeVars,
         BytesInv, PipedIsPrefix, FetchedFromObject
<1>3. (PartsAreChunks /\ PipedIsPrefix /\ StoredMatchesHash /\ FetchedFromObject)'
  BY <1>2, NoParts DEF PartsAreChunks, PipedIsPrefix, StoredMatchesHash, FetchedFromObject
<1>4. CASE Measure
  <2>1. /\ meta'.sha = source /\ copy' = (IF isDir THEN source ELSE None)
        /\ pc' = (IF keyed THEN "measured" ELSE "ready")
        /\ UNCHANGED <<source, isDir, keyed>>
    BY <1>4 DEF Measure, Described, fileVars, userVars
  <2>2. TextsAreSequences'
    BY <1>1, <1>2, <2>1, NoParts DEF TextsAreSequences
  <2>3. ReadableIsDescribed'
    BY <1>1, <2>1 DEF ReadableIsDescribed, Readable
  <2> QED BY <1>3, <2>2, <2>3 DEF BytesInv
<1>5. CASE Encrypt
  <2>1. Sealed(Readable) \in Seq(Nat)
    BY <1>1 DEF BytesInv, TextsAreSequences, Readable, Sealed
  <2>2. /\ copy' = Sealed(Readable) /\ meta'.sha = copy' /\ pc' = "ready"
    BY <1>5 DEF Encrypt, Described
  <2>3. TextsAreSequences'
    BY <1>2, <2>1, <2>2, NoParts DEF TextsAreSequences
  <2>4. ReadableIsDescribed'
    BY <2>1, <2>2 DEF ReadableIsDescribed, Readable
  <2> QED BY <1>3, <2>3, <2>4 DEF BytesInv
<1>6. CASE OpenSession
  <2>1. /\ UNCHANGED <<source, edits, isDir, keyed, copy, meta>>
        /\ pc = "ready" /\ pc' \in {"panic", "upload"}
    BY <1>6 DEF OpenSession, fileVars, userVars
  <2>2. TextsAreSequences'
    BY <1>2, <2>1, NoParts DEF TextsAreSequences, BytesInv
  <2>3. ReadableIsDescribed'
    BY <2>1 DEF ReadableIsDescribed, Readable, Frozen, BytesInv
  <2> QED BY <1>3, <2>2, <2>3 DEF BytesInv
<1> QED BY <1>4, <1>5, <1>6

\* What is left of a text after some of it is a text.
LEMMA ReadIsText ==
  ASSUME FileTypeOK, Representable(Size, chunk), NEW i \in 0 .. Segments - 1,
         NEW t \in Seq(Nat)
  PROVE  ReadAt(t, i) \in Seq(Nat)
<1>1. Size \in Nat /\ chunk \in Nat
  BY SizeOfText, WidthAssumption DEF FileTypeOK, Representable, Int64
<1>2. Segments \in Nat
  BY <1>1, ChunkCount, DivisionBounds DEF Segments, Representable
<1>3. /\ Offset(i, chunk) = i * chunk /\ Offset(i, chunk) \in Nat
      /\ Offset(i, chunk) + Limit(i, Size, chunk) \in Nat
  <2>1. Offset(i, chunk) = i * chunk /\ i * chunk \in Nat
    BY <1>1, <1>2, ChunkIsWhereItBelongs DEF Segments
  <2>2. Offset(i, chunk) + Limit(i, Size, chunk) \in {Size, i * chunk + chunk}
    BY <1>1, ChunkIsWhereItBelongs DEF Segments
  <2> QED BY <1>1, <2>1, <2>2
<1> DEFINE first == Offset(i, chunk) + 1
           end == Offset(i, chunk) + Limit(i, Size, chunk)
           last == IF end < Len(t) THEN end ELSE Len(t)
<1>4. first \in Nat /\ first >= 1 /\ last \in Nat /\ last <= Len(t)
  BY <1>3
<1>5. ReadAt(t, i) = SubSeq(t, first, last)
  BY DEF ReadAt
<1> HIDE DEF first, end, last
<1> QED BY <1>4, <1>5

\* What is sent is a chunk of what is read, and of a file without overflow.
LEMMA SendingKeepsBytes ==
  ASSUME FileInv, BytesInv, NEW i \in Unsent, SendChunk(i)
  PROVE  BytesInv'
<1> USE DEF BytesInv
<1>1. /\ pc = "upload" /\ UNCHANGED <<fileVars, userVars, copy, meta, chunk, pipeVars, object, fetched>>
      /\ i \in 0 .. Segments - 1
  BY DEF SendChunk, Unsent
<1>2. UNCHANGED <<Size, Total, Frozen>> /\ \A t, j : ReadAt(t, j)' = ReadAt(t, j)
  BY <1>1 DEF Size, Total, ReadAt, Frozen, userVars, fileVars
<1>3. ReadableIsDescribed'
  <2>1. pc' \in {"upload", "panic", "err"}
    BY <1>1 DEF SendChunk
  <2> QED
    BY <1>1, <2>1 DEF ReadableIsDescribed, Readable, Frozen, userVars, fileVars
<1>4. StoredMatchesHash' /\ FetchedFromObject'
  BY <1>1, <1>2 DEF StoredMatchesHash, FetchedFromObject, Frozen, userVars, fileVars
<1>5. CASE parts' = parts
  <2>1. TextsAreSequences'
    BY <1>1, <1>5 DEF TextsAreSequences, pipeVars
  <2>2. PartsAreChunks'
    BY <1>1, <1>2, <1>5 DEF PartsAreChunks
  <2>3. PipedIsPrefix'
    BY <1>1, <1>2, <1>5 DEF PipedIsPrefix, pipeVars, Complete, Before
  <2> QED BY <1>3, <1>4, <2>1, <2>2, <2>3
<1>6. CASE parts' # parts
  <2>1. /\ parts' = [j \in DOMAIN parts \union {i} |->
                       IF j = i THEN ReadAt(Readable, i) ELSE parts[j]]
        /\ ~ (Limit(i, Size, chunk) < 0) /\ ~ (i >= Total)
    BY <1>6 DEF SendChunk
  <2>2. Total \in Nat /\ i \in Int /\ i < Total
    BY <1>1, <2>1, TotalIsNatural DEF FileInv
  <2>3. Limit(i, Size, chunk) \in Int
    <3>1. Size \in Int /\ chunk \in Int /\ i * chunk \in Int
      BY <2>2, SizeOfText, WidthAssumption DEF Int64, FileInv, FileTypeOK
    <3>2. Int64 \subseteq Int
      BY WidthAssumption DEF Int64
    <3>3. Offset(i, chunk) \in Int
      BY <3>1, <3>2, SignedIsInt64 DEF Offset
    <3>4. Signed(Size - Offset(i, chunk)) \in Int
      <4>1. Size - Offset(i, chunk) \in Int
        BY <3>1, <3>3
      <4> QED BY <3>2, <4>1, SignedIsInt64
    <3> QED BY <3>1, <3>4 DEF Limit
  <2>4. Representable(Size, chunk)
    BY <1>1, <2>1, <2>2, <2>3, SentIsRepresentable DEF FileInv
  <2>5. Readable \in Seq(Nat)
    <3>1. source \in Seq(0 .. MaxSize + MaxEdits)
      BY TextIsSequence DEF FileInv, FileTypeOK
    <3>2. source \in Seq(Nat)
      BY <3>1, FileAssumption
    <3> QED BY <3>2 DEF TextsAreSequences, Readable
  <2>6. ReadAt(Readable, i) \in Seq(Nat)
    BY <1>1, <2>4, <2>5, ReadIsText DEF FileInv
  <2>7. TextsAreSequences'
    BY <1>1, <2>1, <2>6 DEF TextsAreSequences, pipeVars
  <2>8. PartsAreChunks'
    <3>1. Frozen => Readable = meta.sha
      BY <1>1 DEF ReadableIsDescribed
    <3>2. Frozen => \A j \in DOMAIN parts' : parts'[j] = ReadAt(meta.sha, j)
      BY <2>1, <3>1 DEF PartsAreChunks
    <3> QED BY <1>1, <1>2, <2>4, <3>2 DEF PartsAreChunks
  <2>9. PipedIsPrefix'
    <3>1. copied = 0
      BY <1>1, <2>2 DEF PipedIsPrefix, Complete, Unsent, FileInv, FileTypeOK
    <3> QED BY <1>1, <3>1 DEF PipedIsPrefix, pipeVars, FileInv, FileTypeOK
  <2> QED BY <1>3, <1>4, <2>7, <2>8, <2>9
<1> QED BY <1>5, <1>6

\* Each part that is copied continues the prefix.
LEMMA CopyingKeepsBytes ==
  ASSUME FileInv, BytesInv, CopyPart
  PROVE  BytesInv'
<1> USE DEF BytesInv
<1>1. /\ pc = "upload" /\ Total > 0 /\ Complete /\ copied < Total
      /\ piped' = piped \o parts[copied] /\ copied' = copied + 1
      /\ UNCHANGED <<fileVars, userVars, pc, copy, meta, chunk, parts, object, fetched>>
  BY DEF CopyPart, Assembling
<1>2. UNCHANGED <<Size, Total, Frozen, Complete>> /\ (\A t, j : ReadAt(t, j)' = ReadAt(t, j))
  BY <1>1 DEF Size, Total, ReadAt, Frozen, Complete, userVars, fileVars
<1>3. Total \in Nat /\ copied \in Nat
  BY <1>1, TotalIsNatural DEF FileInv, FileTypeOK
<1>4. copied \in DOMAIN parts /\ DOMAIN parts # {} /\ parts[copied] \in Seq(Nat)
  <2>1. copied \in 0 .. Total - 1
    BY <1>1, <1>3
  <2>2. copied \in DOMAIN parts
    BY <1>1, <2>1 DEF Complete
  <2> QED BY <2>2 DEF TextsAreSequences
<1>5. TextsAreSequences'
  BY <1>1, <1>4 DEF TextsAreSequences
<1>6. ReadableIsDescribed' /\ PartsAreChunks' /\ StoredMatchesHash' /\ FetchedFromObject'
  BY <1>1, <1>2
  DEF ReadableIsDescribed, Readable, PartsAreChunks, StoredMatchesHash, FetchedFromObject,
      Frozen, userVars, fileVars
<1>7. PipedIsPrefix'
  <2>1. SUFFICES ASSUME Frozen
                 PROVE  piped' = SubSeq(meta.sha, 1, Before(copied + 1))
    <3>1. copied' # 0 /\ Complete' /\ Total' > 0
      BY <1>1, <1>2, <1>3
    <3>2. meta' = meta /\ Before(copied)' = Before(copied + 1) /\ Frozen' = Frozen
      BY <1>1, <1>2 DEF Before
    <3> QED BY <2>1, <3>1, <3>2 DEF PipedIsPrefix
  <2>2. Size \in Nat /\ Size < Half /\ Len(meta.sha) = Size /\ meta.sha \in Seq(Nat)
    BY SizeOfText DEF FileInv, TextsAreSequences
  <2>3. Representable(Size, chunk) /\ chunk \in Nat /\ Size > 0
    <3>1. Representable(Size, chunk)
      BY <1>4 DEF PartsAreChunks
    <3>2. Size > 0
      BY <1>1, <2>2, SizeOfText DEF Total, ServerChunks, FileInv
    <3> QED BY <3>1, <3>2, WidthAssumption DEF Representable, Int64, FileInv, FileTypeOK
  <2>4. Segments = Total
    BY <2>3, SegmentsAreTotal DEF FileInv
  <2>5. /\ Before(copied) \in Nat /\ Before(copied + 1) \in Nat
        /\ Before(copied) <= Before(copied + 1) /\ Before(copied + 1) <= Size
        /\ ReadAt(meta.sha, copied) = SubSeq(meta.sha, Before(copied) + 1, Before(copied + 1))
    <3>1. copied \in 0 .. Segments - 1
      BY <1>1, <1>3, <2>4
    <3> QED BY <2>2, <2>3, <3>1, ChunksFollow
  <2>6. parts[copied] = ReadAt(meta.sha, copied)
    BY <1>4, <2>1 DEF PartsAreChunks
  <2>7. piped = SubSeq(meta.sha, 1, Before(copied))
    <3>1. CASE copied > 0
      BY <2>1, <3>1 DEF PipedIsPrefix
    <3>2. CASE copied = 0
      <4>1. Before(copied) = 0
        BY <2>2, <2>3, <3>2 DEF Before
      <4>2. SubSeq(meta.sha, 1, 0) = <<>>
        BY <2>2
      <4> QED BY <3>2, <4>1, <4>2 DEF PipedIsPrefix
    <3> QED BY <1>3, <3>1, <3>2
  <2>8. piped' = SubSeq(meta.sha, 1, Before(copied))
                   \o SubSeq(meta.sha, Before(copied) + 1, Before(copied + 1))
    BY <1>1, <2>5, <2>6, <2>7
  <2> QED BY <2>2, <2>5, <2>8, PrefixGrows
<1> QED BY <1>5, <1>6, <1>7

\* The prefix that has all parts is the text, and this is what is stored.
LEMMA AssemblingKeepsBytes ==
  ASSUME FileInv, BytesInv, Assemble \/ Return
  PROVE  BytesInv'
<1> USE DEF BytesInv
<1>1. /\ pc = "upload"
      /\ UNCHANGED <<fileVars, userVars, copy, meta, chunk, parts, pipeVars, fetched>>
      /\ pc' \in {"upload", "err", "ok"}
  BY DEF Assemble, Assembling, Return
<1>2. UNCHANGED <<Size, Total, Frozen, Complete>> /\ (\A t, j : ReadAt(t, j)' = ReadAt(t, j))
      /\ Before(copied)' = Before(copied)
  BY <1>1 DEF Size, Total, ReadAt, Frozen, Complete, Before, userVars, fileVars, pipeVars
<1>3. ReadableIsDescribed' /\ PartsAreChunks' /\ PipedIsPrefix'
  BY <1>1, <1>2
  DEF ReadableIsDescribed, Readable, PartsAreChunks, PipedIsPrefix, userVars, fileVars,
      pipeVars
<1>4. FetchedFromObject'
  BY <1>1 DEF FetchedFromObject
<1>5. CASE object' = object
  BY <1>1, <1>2, <1>3, <1>4, <1>5
  DEF TextsAreSequences, StoredMatchesHash, Frozen, userVars, fileVars, pipeVars
<1>6. CASE object' # object
  <2>1. /\ Total > 0 /\ Complete /\ copied = Total
        /\ object' = [bytes |-> piped, sha |-> meta.sha]
    BY <1>6 DEF Assemble, Assembling, Return
  <2>2. TextsAreSequences'
    BY <1>1, <2>1 DEF TextsAreSequences, pipeVars
  <2>3. ASSUME Frozen
        PROVE  piped = meta.sha
    <3>1. Size \in Nat /\ Size < Half /\ Len(meta.sha) = Size /\ meta.sha \in Seq(Nat)
      BY SizeOfText DEF FileInv, TextsAreSequences
    <3>2. 0 \in DOMAIN parts
      BY <1>1, <2>1, TotalIsNatural DEF Complete, FileInv
    <3>3. Representable(Size, chunk) /\ chunk \in Nat /\ Size > 0
      <4>1. Representable(Size, chunk)
        BY <3>2 DEF PartsAreChunks
      <4>2. Size > 0
        BY <2>1, <3>1, SizeOfText DEF Total, ServerChunks, FileInv
      <4> QED BY <4>1, <4>2, WidthAssumption DEF Representable, Int64, FileInv, FileTypeOK
    <3>4. Segments = Total
      BY <3>3, SegmentsAreTotal DEF FileInv
    <3>5. Before(copied) = Size
      BY <2>1, <3>1, <3>3, <3>4, ChunksFollow
    <3>6. piped = SubSeq(meta.sha, 1, Size)
      BY <2>1, <2>3, <3>5 DEF PipedIsPrefix
    <3> QED BY <3>1, <3>6
  <2>4. StoredMatchesHash'
    BY <1>1, <1>2, <2>1, <2>3 DEF StoredMatchesHash, Frozen, userVars, fileVars
  <2> QED BY <1>3, <1>4, <2>2, <2>4
<1> QED BY <1>5, <1>6

\* A pull reads the object and leaves it alone.
LEMMA PullKeepsBytes ==
  ASSUME FileInv, BytesInv, NEW p \in Int64, PullWith(p)
  PROVE  BytesInv'
<1> USE DEF BytesInv
<1>1. /\ pc = "ok" /\ object # None
      /\ UNCHANGED <<fileVars, userVars, copy, meta, chunk, parts, pipeVars, object>>
      /\ pc' \in {"panic", "err", "pulled"}
  BY DEF PullWith
<1>2. UNCHANGED <<Size, Total, Frozen, Complete>> /\ (\A t, j : ReadAt(t, j)' = ReadAt(t, j))
      /\ Before(copied)' = Before(copied)
  BY <1>1 DEF Size, Total, ReadAt, Frozen, Complete, Before, userVars, fileVars, pipeVars
<1>3. TextsAreSequences' /\ ReadableIsDescribed' /\ PartsAreChunks' /\ PipedIsPrefix'
  BY <1>1, <1>2
  DEF TextsAreSequences, ReadableIsDescribed, Readable, PartsAreChunks, PipedIsPrefix,
      userVars, fileVars, pipeVars
<1>4. StoredMatchesHash'
  BY <1>1 DEF StoredMatchesHash, userVars, fileVars
<1>5. FetchedFromObject'
  <2>1. CASE fetched' = fetched
    BY <1>1, <2>1 DEF FetchedFromObject
  <2>2. CASE fetched' # fetched
    BY <1>1, <2>2 DEF FetchedFromObject, PullWith
  <2> QED BY <2>1, <2>2
<1> QED BY <1>3, <1>4, <1>5

\* What the client reads, what the server has and what it stores agree.
THEOREM BytesInvariant == FileSpec => []BytesInv
<1>1. BytesInv /\ UNCHANGED allVars => BytesInv'
  <2> SUFFICES ASSUME BytesInv, UNCHANGED allVars PROVE BytesInv'
    OBVIOUS
  <2>1. UNCHANGED <<Size, Total, Frozen, Complete>>
        /\ (\A t, j : ReadAt(t, j)' = ReadAt(t, j)) /\ Before(copied)' = Before(copied)
    BY DEF allVars, Size, Total, ReadAt, Frozen, Complete, Before, userVars, fileVars,
           pipeVars
  <2> QED
    BY <2>1
    DEF allVars, BytesInv, TextsAreSequences, ReadableIsDescribed, Readable,
        PartsAreChunks, PipedIsPrefix, StoredMatchesHash, FetchedFromObject, userVars,
        fileVars, pipeVars
<1>2. FileInv /\ BytesInv /\ [FileNext]_allVars => BytesInv'
  BY <1>1, EditKeepsBytes, PreparationKeepsBytes, SendingKeepsBytes, CopyingKeepsBytes,
     AssemblingKeepsBytes, PullKeepsBytes
  DEF FileNext
<1> QED BY <1>2, FileInvariant, BytesInitially, PTL DEF FileSpec

-----------------------------------------------------------------------------
(* The places of the bytes of a plain file *)

\* A text of which every byte was in the file, from that place on.
InPlace(text, at) == \A b \in DOMAIN text : <<at + b, text[b]>> \in seen

\* No part is longer than its chunk, and it is where its chunk is.
PartsInPlace ==
  \A i \in DOMAIN parts :
    InPlace(parts[i], Before(i)) /\ Len(parts[i]) <= Before(i + 1) - Before(i)

\* What the pipe has passed on is not longer than the chunks, and in place if it
\* is as long as they are.
PipedInPlace ==
  copied > 0 =>
    /\ Len(piped) <= Before(copied)
    /\ Len(piped) = Before(copied) => InPlace(piped, 0)

PlacedInv ==
  /\ Placed(source) \subseteq seen
  /\ copy = None => PartsInPlace /\ PipedInPlace
  /\ StoredInPlace

\* Where the chunks begin and end, as the client computes it.
LEMMA ChunkBounds ==
  ASSUME FileTypeOK, Representable(Size, chunk), NEW i \in 0 .. Segments - 1
  PROVE  /\ Before(i) \in Nat /\ Before(i + 1) \in Nat
         /\ Before(i) <= Before(i + 1)
         /\ Offset(i, chunk) = Before(i)
         /\ Offset(i, chunk) + Limit(i, Size, chunk) = Before(i + 1)
<1>1. Size \in Nat /\ chunk \in Nat /\ chunk > 0
  BY SizeOfText, WidthAssumption DEF FileTypeOK, Representable, Int64
<1>2. Segments \in Nat
  BY <1>1, ChunkCount, DivisionBounds DEF Segments, Representable
<1>3. /\ i * chunk < Size
      /\ Offset(i, chunk) = i * chunk
      /\ Offset(i, chunk) + Limit(i, Size, chunk) =
           IF i * chunk + chunk > Size THEN Size ELSE i * chunk + chunk
  BY <1>1, ChunkIsWhereItBelongs DEF Segments
<1>4. i * chunk \in Nat /\ (i + 1) * chunk = i * chunk + chunk
  BY <1>1, <1>2
<1>5. Before(i) = i * chunk
  <2>1. ~ (i * chunk > Size)
    BY ONLY <1>1, <1>3, <1>4
  <2> QED BY <2>1 DEF Before
<1>6. Before(i + 1) = IF i * chunk + chunk > Size THEN Size ELSE i * chunk + chunk
  BY <1>4 DEF Before
<1> HIDE DEF Before
<1> QED BY <1>1, <1>3, <1>4, <1>5, <1>6

\* What is read of a chunk is no longer than it, and in its place.
LEMMA ReadInPlace ==
  ASSUME FileTypeOK, Representable(Size, chunk), NEW i \in 0 .. Segments - 1,
         NEW t \in Seq(Nat), Placed(t) \subseteq seen
  PROVE  /\ InPlace(ReadAt(t, i), Before(i))
         /\ Len(ReadAt(t, i)) <= Before(i + 1) - Before(i)
<1> DEFINE a == Before(i)
           e == Before(i + 1)
           last == IF e < Len(t) THEN e ELSE Len(t)
<1>1. a \in Nat /\ e \in Nat /\ a <= e
  BY ChunkBounds
<1>2. ReadAt(t, i) = SubSeq(t, a + 1, last)
  BY ChunkBounds DEF ReadAt
<1> HIDE DEF a, e
<1>3. last \in Nat /\ last <= e /\ last <= Len(t) /\ Len(t) \in Nat
  BY <1>1
<1> HIDE DEF last
<1>4. CASE a + 1 <= last
  <2>1. Len(SubSeq(t, a + 1, last)) = last - a
    BY <1>1, <1>3, <1>4
  <2>2. \A b \in 1 .. last - a : SubSeq(t, a + 1, last)[b] = t[a + b] /\ a + b \in 1 .. Len(t)
    BY <1>1, <1>3, <1>4
  <2>3. \A b \in 1 .. Len(t) : <<b, t[b]>> \in seen
    BY DEF Placed
  <2>4. DOMAIN SubSeq(t, a + 1, last) = 1 .. last - a
    BY <1>1, <1>3, <1>4
  <2>5. InPlace(ReadAt(t, i), a)
    BY <1>2, <2>2, <2>3, <2>4 DEF InPlace
  <2> QED BY <1>1, <1>2, <1>3, <2>1, <2>5 DEF a, e
<1>5. CASE ~ (a + 1 <= last)
  <2>1. SubSeq(t, a + 1, last) = <<>>
    BY <1>1, <1>3, <1>5
  <2>2. DOMAIN <<>> = {} /\ Len(<<>>) = 0
    OBVIOUS
  <2>3. ReadAt(t, i) = <<>>
    BY <1>2, <2>1
  <2>4. InPlace(ReadAt(t, i), a) /\ Len(ReadAt(t, i)) = 0
    BY <2>2, <2>3 DEF InPlace
  <2> QED BY <1>1, <2>4 DEF a, e
<1> QED BY <1>4, <1>5

\* Two texts in their places, one behind the other, are one.
LEMMA JoinInPlace ==
  ASSUME NEW s \in Seq(Nat), NEW t \in Seq(Nat), InPlace(s, 0), InPlace(t, Len(s))
  PROVE  InPlace(s \o t, 0)
<1> SUFFICES ASSUME NEW b \in DOMAIN (s \o t)
             PROVE  <<b, (s \o t)[b]>> \in seen
  BY DEF InPlace
<1>1. b \in 1 .. Len(s) + Len(t) /\ b \in Nat /\ Len(s) \in Nat /\ Len(t) \in Nat
  OBVIOUS
<1>2. CASE b <= Len(s)
  <2>1. b \in DOMAIN s /\ (s \o t)[b] = s[b]
    BY <1>1, <1>2
  <2>2. <<0 + b, s[b]>> \in seen /\ 0 + b = b
    BY <1>1, <2>1 DEF InPlace
  <2> QED BY <2>1, <2>2
<1>3. CASE ~ (b <= Len(s))
  <2>1. b - Len(s) \in DOMAIN t /\ (s \o t)[b] = t[b - Len(s)]
    BY <1>1, <1>3
  <2>2. <<Len(s) + (b - Len(s)), t[b - Len(s)]>> \in seen /\ Len(s) + (b - Len(s)) = b
    BY <1>1, <2>1 DEF InPlace
  <2> QED BY <2>1, <2>2
<1> QED BY <1>2, <1>3

\* The first bytes are in their places, and there is no part.
LEMMA PlacedInitially == FileInit => PlacedInv
<1> SUFFICES ASSUME FileInit PROVE PlacedInv
  OBVIOUS
<1>1. /\ Placed(source) \subseteq seen /\ copied = 0 /\ object = None /\ parts = <<>>
  BY DEF FileInit
<1> QED
  BY <1>1, NoParts DEF PlacedInv, PartsInPlace, PipedInPlace, StoredInPlace

\* What has been in its place has been there after an edit, too.
LEMMA EditKeepsPlaces == ASSUME PlacedInv, Edit PROVE PlacedInv'
<1>1. /\ UNCHANGED <<copy, meta, chunk, parts, piped, copied, object>>
      /\ seen' = seen \union Placed(source')
  BY DEF Edit, pipeVars
<1>2. seen \subseteq seen' /\ Placed(source)' \subseteq seen'
  BY <1>1 DEF Placed
<1>3. \A i : Before(i)' = Before(i)
  BY <1>1 DEF Before, Size
<1>4. \A t, n : InPlace(t, n) => InPlace(t, n)'
  BY <1>2 DEF InPlace
<1>5. PartsInPlace => PartsInPlace'
  BY <1>1, <1>3, <1>4 DEF PartsInPlace
<1>6. PipedInPlace => PipedInPlace'
  BY <1>1, <1>3, <1>4 DEF PipedInPlace
<1>7. StoredInPlace => StoredInPlace'
  BY <1>1, <1>2 DEF StoredInPlace, Placed
<1> QED BY <1>1, <1>2, <1>5, <1>6, <1>7 DEF PlacedInv

\* Before the session is open, nothing has been read for it.
LEMMA PreparationKeepsPlaces ==
  ASSUME FileInv, PlacedInv, Measure \/ Encrypt \/ OpenSession
  PROVE  PlacedInv'
<1>1. /\ parts' = <<>> /\ copied' = 0 /\ object' = None /\ UNCHANGED <<source, seen>>
  BY DEF Measure, Encrypt, OpenSession, FileInv, FileTypeOK, Pushing, pipeVars, fileVars
<1> QED
  BY <1>1, NoParts DEF PlacedInv, PartsInPlace, PipedInPlace, StoredInPlace, Placed

\* What leaves the chunks and the pipe alone, and stores nothing.
LEMMA PlacedFrame ==
  ASSUME PlacedInv, UNCHANGED <<fileVars, copy, meta, chunk, parts, pipeVars, object>>
  PROVE  PlacedInv'
<1>1. UNCHANGED <<source, seen, copy, parts, piped, copied, object>>
      /\ \A i : Before(i)' = Before(i)
  BY DEF fileVars, pipeVars, Before, Size
<1> QED
  BY <1>1 DEF PlacedInv, PartsInPlace, PipedInPlace, StoredInPlace, Placed, InPlace

\* A chunk that is sent was read in its place.
LEMMA SendingKeepsPlaces ==
  ASSUME FileInv, BytesInv, PlacedInv, NEW i \in Unsent, SendChunk(i)
  PROVE  PlacedInv'
<1>1. /\ pc = "upload" /\ UNCHANGED <<fileVars, userVars, copy, meta, chunk, pipeVars, object, fetched>>
      /\ i \in 0 .. Segments - 1
  BY DEF SendChunk, Unsent
<1>2. CASE parts' = parts
  BY <1>1, <1>2, PlacedFrame
<1>3. CASE parts' # parts
  <2>1. /\ parts' = [j \in DOMAIN parts \union {i} |->
                       IF j = i THEN ReadAt(Readable, i) ELSE parts[j]]
        /\ ~ (i >= Total)
    BY <1>3 DEF SendChunk
  <2>2. Representable(Size, chunk)
    <3>1. BytesInv'
      BY SendingKeepsBytes
    <3>2. DOMAIN parts' # {} /\ Size' = Size
      BY <1>1, <2>1 DEF Size
    <3>3. Representable(Size', chunk')
      BY <3>1, <3>2 DEF BytesInv, PartsAreChunks
    <3> QED BY <1>1, <3>2, <3>3
  <2>3. copied = 0
    <3>1. Total \in Nat /\ i \in Int
      BY <1>1, TotalIsNatural DEF FileInv
    <3> QED
      BY <1>1, <2>1, <3>1
      DEF PipedIsPrefix, Complete, Unsent, BytesInv, FileInv, FileTypeOK
  <2>4. UNCHANGED <<source, seen, copy, piped, copied, object>>
        /\ (\A j : Before(j)' = Before(j)) /\ (\A t, n : InPlace(t, n)' = InPlace(t, n))
    BY <1>1 DEF fileVars, pipeVars, Before, Size, InPlace
  <2>5. ASSUME copy = None
        PROVE  /\ InPlace(ReadAt(Readable, i), Before(i))
               /\ Len(ReadAt(Readable, i)) <= Before(i + 1) - Before(i)
    <3>1. Readable = source
      BY <2>5 DEF Readable
    <3>2. source \in Seq(Nat)
      <4>1. source \in Seq(0 .. MaxSize + MaxEdits)
        BY TextIsSequence DEF FileInv, FileTypeOK
      <4> QED BY <4>1, FileAssumption
    <3> QED BY <1>1, <2>2, <3>1, <3>2, ReadInPlace DEF FileInv, PlacedInv
  <2>6. copy = None => PartsInPlace'
    BY <2>1, <2>4, <2>5 DEF PartsInPlace, PlacedInv
  <2>7. PipedInPlace' /\ StoredInPlace' /\ Placed(source)' \subseteq seen'
    BY <2>3, <2>4, FileInv DEF PipedInPlace, StoredInPlace, PlacedInv, Placed, FileInv, FileTypeOK
  <2> QED BY <2>4, <2>6, <2>7 DEF PlacedInv
<1> QED BY <1>2, <1>3

\* What is as long as the chunks that were copied has lost nothing of any of
\* them, so that the next part is where it belongs.
LEMMA CopyingKeepsPlaces ==
  ASSUME FileInv, BytesInv, PlacedInv, CopyPart
  PROVE  PlacedInv'
<1>1. /\ pc = "upload" /\ Total > 0 /\ Complete /\ copied < Total
      /\ piped' = piped \o parts[copied] /\ copied' = copied + 1
      /\ UNCHANGED <<fileVars, userVars, pc, copy, meta, chunk, parts, object, fetched>>
  BY DEF CopyPart, Assembling
<1>2. UNCHANGED <<source, seen, copy, parts, object>>
      /\ (\A j : Before(j)' = Before(j)) /\ (\A t, n : InPlace(t, n)' = InPlace(t, n))
  BY <1>1 DEF fileVars, Before, Size, InPlace
<1>3. Total \in Nat /\ copied \in Nat
  BY <1>1, TotalIsNatural DEF FileInv, FileTypeOK
<1>4. copied \in DOMAIN parts
  <2>1. copied \in 0 .. Total - 1
    BY <1>1, <1>3
  <2> QED BY <1>1, <2>1 DEF Complete
<1>5. /\ parts[copied] \in Seq(Nat) /\ piped \in Seq(Nat)
      /\ Representable(Size, chunk)
  BY <1>4 DEF BytesInv, TextsAreSequences, PartsAreChunks
<1>6. copied \in 0 .. Segments - 1
  <2>1. Size > 0
    BY <1>1, SizeOfText DEF Total, ServerChunks, FileInv
  <2>2. Segments = Total
    BY <1>5, <2>1, SegmentsAreTotal DEF FileInv
  <2> QED BY <1>1, <1>3, <2>2
<1>7. Before(copied) \in Nat /\ Before(copied + 1) \in Nat
  BY <1>5, <1>6, ChunkBounds DEF FileInv
<1>8. ASSUME copy = None
      PROVE  /\ Len(piped') <= Before(copied + 1)
             /\ Len(piped') = Before(copied + 1) => InPlace(piped', 0)
  <2>1. /\ Len(piped) <= Before(copied)
        /\ Len(piped) = Before(copied) => InPlace(piped, 0)
    <3>1. CASE copied > 0
      BY <1>8, <3>1 DEF PlacedInv, PipedInPlace
    <3>2. CASE copied = 0
      <4>1. piped = <<>>
        BY <3>2 DEF BytesInv, PipedIsPrefix
      <4> QED BY <1>7, <4>1, NoParts DEF InPlace
    <3> QED BY <1>3, <3>1, <3>2
  <2>2. /\ InPlace(parts[copied], Before(copied))
        /\ Len(parts[copied]) <= Before(copied + 1) - Before(copied)
    BY <1>4, <1>8 DEF PlacedInv, PartsInPlace
  <2>3. Len(piped') = Len(piped) + Len(parts[copied])
        /\ Len(piped) \in Nat /\ Len(parts[copied]) \in Nat
    BY <1>1, <1>5
  <2>4. Len(piped') <= Before(copied + 1)
    BY <1>7, <2>1, <2>2, <2>3
  <2>5. ASSUME Len(piped') = Before(copied + 1)
        PROVE  InPlace(piped', 0)
    <3>1. Len(piped) = Before(copied)
      BY <1>7, <2>1, <2>2, <2>3, <2>5
    <3> QED BY <1>1, <1>5, <2>1, <2>2, <3>1, JoinInPlace
  <2> QED BY <2>4, <2>5
<1>9. copy = None => PartsInPlace' /\ PipedInPlace'
  BY <1>1, <1>2, <1>8 DEF PlacedInv, PartsInPlace, PipedInPlace
<1> QED BY <1>2, <1>9 DEF PlacedInv, StoredInPlace, Placed

\* All chunks together are as long as the file was said to be, and PutObject
\* takes nothing that is shorter.
LEMMA AssemblingKeepsPlaces ==
  ASSUME FileInv, BytesInv, PlacedInv, Assemble
  PROVE  PlacedInv'
<1>1. /\ pc = "upload" /\ Total > 0 /\ Complete /\ copied = Total
      /\ UNCHANGED <<fileVars, userVars, copy, meta, chunk, parts, pipeVars, fetched>>
  BY DEF Assemble, Assembling
<1>2. CASE object' = object
  BY <1>1, <1>2, PlacedFrame
<1>3. CASE object' # object
  <2>1. object'.bytes = piped /\ Len(piped) = Size
    BY <1>3 DEF Assemble
  <2>2. UNCHANGED <<source, seen, copy, parts, piped, copied>>
        /\ (\A j : Before(j)' = Before(j)) /\ (\A t, n : InPlace(t, n)' = InPlace(t, n))
    BY <1>1 DEF fileVars, pipeVars, Before, Size, InPlace
  <2>3. Total \in Nat /\ copied > 0
    BY <1>1, TotalIsNatural DEF FileInv
  <2>4. Before(copied) = Size
    <3>1. 0 \in DOMAIN parts
      BY <1>1, <2>3 DEF Complete
    <3>2. Size \in Nat /\ Len(meta.sha) = Size /\ meta.sha \in Seq(Nat)
      BY SizeOfText DEF FileInv, BytesInv, TextsAreSequences
    <3>3. Representable(Size, chunk) /\ Size > 0
      BY <1>1, <3>1, SizeOfText
      DEF BytesInv, PartsAreChunks, Total, ServerChunks, FileInv
    <3>4. chunk \in Nat
      BY <3>3, WidthAssumption DEF Representable, Int64, FileInv, FileTypeOK
    <3>5. Segments = Total
      BY <3>3, SegmentsAreTotal DEF FileInv
    <3> QED BY <1>1, <3>2, <3>3, <3>4, <3>5, ChunksFollow
  <2>5. copy = None => InPlace(piped, 0)
    BY <2>1, <2>3, <2>4 DEF PlacedInv, PipedInPlace
  <2>6. piped \in Seq(Nat)
    BY DEF BytesInv, TextsAreSequences
  <2>7. copy = None => Placed(piped) \subseteq seen
    <3>1. \A b \in DOMAIN piped : b \in Nat /\ 0 + b = b
      BY <2>6
    <3> QED BY <2>5, <3>1 DEF InPlace, Placed
  <2>8. StoredInPlace'
    BY <2>1, <2>2, <2>7 DEF StoredInPlace, Placed
  <2> QED BY <2>2, <2>8 DEF PlacedInv, PartsInPlace, PipedInPlace, Placed
<1> QED BY <1>2, <1>3

\* The bytes of a file that is read where it is keep their places.
THEOREM PlacedInvariant == FileSpec => []PlacedInv
<1>1. ASSUME FileInv, BytesInv, PlacedInv, [FileNext]_allVars
      PROVE  PlacedInv'
  <2>1. CASE Return \/ (\E p \in Int64 : PullWith(p)) \/ UNCHANGED allVars
    <3>1. UNCHANGED <<fileVars, copy, meta, chunk, parts, pipeVars, object>>
      BY <2>1 DEF Return, PullWith, allVars
    <3> QED BY <1>1, <3>1, PlacedFrame
  <2> QED
    BY <1>1, <2>1, EditKeepsPlaces, PreparationKeepsPlaces, SendingKeepsPlaces,
       CopyingKeepsPlaces, AssemblingKeepsPlaces
    DEF FileNext
<1> QED BY <1>1, FileInvariant, BytesInvariant, PlacedInitially, PTL DEF FileSpec

-----------------------------------------------------------------------------
\* Every variable keeps its range.
THEOREM FileTypesCorrect == FileSpec => []FileTypeOK
<1>1. FileInv => FileTypeOK
  BY DEF FileInv
<1> QED BY <1>1, FileInvariant, PTL

\* A push that returned success has stored its artifact, unless there is nothing
\* to store or its chunk size overflows: the two counts of the chunks agree.
THEOREM SuccessHasStored == FileSpec => []SuccessStores
<1>1. FileInv => SuccessStores
  BY DEF FileInv
<1> QED BY <1>1, FileInvariant, PTL

\* An object has no byte that the file did not hold at that place, whatever
\* became of the file while it was read, and whatever the chunk size was.
THEOREM StoredIsInPlace == FileSpec => []StoredInPlace
<1>1. PlacedInv => StoredInPlace
  BY DEF PlacedInv, StoredInPlace
<1> QED BY <1>1, PlacedInvariant, PTL

\* An object is the text whose hash is stored beside it, whatever became of the
\* file meanwhile, unless it is a plain file that changed.
THEOREM StoredHasItsHash == FileSpec => []StoredMatchesHash
<1>1. BytesInv => StoredMatchesHash
  BY DEF BytesInv
<1> QED BY <1>1, BytesInvariant, PTL

\* A pull that returns success has every byte of the object in its place, with
\* whatever chunk size.
THEOREM PulledAsStored == FileSpec => []PulledIsStored
<1>1. ASSUME BytesInv, fetched # None, Representable(Len(object.bytes), fetched.chunk)
      PROVE  fetched.bytes = object.bytes
  <2> DEFINE bytes == object.bytes
             n == Len(bytes)
             p == fetched.chunk
             covered == UNION {ChunkBytes(i, n, p) : i \in Ranges(n, p)}
  <2>1. bytes \in Seq(Nat) /\ n \in Nat /\ DOMAIN bytes = 1 .. n
    BY <1>1 DEF BytesInv, TextsAreSequences, FetchedFromObject
  <2>2. p \in Nat
    BY <1>1, WidthAssumption DEF BytesInv, FetchedFromObject, Int64, Representable
  <2>3. ASSUME NEW b \in DOMAIN bytes
        PROVE  b - 1 \in covered
    <3> DEFINE i == (b - 1) \div p
    <3>1. b - 1 \in 0 .. n - 1
      BY <2>1
    <3>2. i \in 0 .. ClientChunks(n, p) - 1 /\ b - 1 \in ChunkBytes(i, n, p)
      <4> HIDE DEF n, p
      <4> QED BY <1>1, <2>1, <2>2, <3>1, ChunksPartitionTheFile DEF n, p
    <3> QED BY <3>2 DEF Ranges
  <2>4. fetched.bytes = [b \in DOMAIN bytes |-> IF b - 1 \in covered THEN bytes[b] ELSE None]
    BY <1>1 DEF BytesInv, FetchedFromObject, Fetch
  <2> HIDE DEF covered
  <2>5. fetched.bytes = [b \in DOMAIN bytes |-> bytes[b]]
    BY <2>3, <2>4
  <2> QED BY <2>1, <2>5
<1>2. BytesInv => PulledIsStored
  BY <1>1 DEF PulledIsStored
<1> QED BY <1>2, BytesInvariant, PTL
=============================================================================
