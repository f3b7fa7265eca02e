------------------------------- MODULE Chunks -------------------------------
(***************************************************************************)
(* The arithmetic with which client and server cut an artifact into        *)
(* chunks.  The client computes in int64 (internal/client/storage.go), the *)
(* server in uint64 (internal/server/storage.go), and the chunk size is    *)
(* whatever the user gave as --chunk-size, so that sums may wrap and the   *)
(* two may disagree.                                                       *)
(***************************************************************************)
EXTENDS Integers

CONSTANT Half  \* 2^63: the integers are -Half .. Half - 1 and 0 .. 2 * Half - 1

ASSUME WidthAssumption == Half \in Nat \ {0}

Int64 == -Half .. Half - 1

\* The conversions int64(n) and uint64(n), and every result of + - *.
Signed(n) == ((n + Half) % (2 * Half)) - Half
Unsigned(n) == n % (2 * Half)

Abs(n) == IF n < 0 THEN -n ELSE n

\* Division rounds towards zero.
Quotient(a, b) ==
  LET q == Abs(a) \div Abs(b)
  IN  Signed(IF (a < 0) = (b < 0) THEN q ELSE -q)

\* Mutant of ClientChunks: the division is not rounded up.
WholeChunks(size, chunk) == Quotient(size, chunk)

\* segs of uploadChunks and downloadChunks, in int64.
ClientChunks(size, chunk) == Quotient(Signed(Signed(size + chunk) - 1), chunk)

\* offset and limit of their loops.
Offset(i, chunk) == Signed(i * chunk)

Limit(i, size, chunk) ==
  LET offset == Offset(i, chunk)
  IN  IF Signed(offset + chunk) > size THEN Signed(size - offset) ELSE chunk

ChunkBytes(i, size, chunk) ==
  Offset(i, chunk) .. Offset(i, chunk) + Limit(i, size, chunk) - 1

\* totalChunks of InitiateUpload and UploadPart, in uint64.
ServerChunks(size, chunk) ==
  IF size > 0 THEN Unsigned(Unsigned(size + chunk) - 1) \div chunk ELSE 0

\* Chunk sizes with which nothing wraps.
Representable(size, chunk) == chunk > 0 /\ size >= 0 /\ size + chunk <= Half
=============================================================================
