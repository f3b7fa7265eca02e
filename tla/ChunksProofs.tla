---------------------------- MODULE ChunksProofs ----------------------------
(***************************************************************************)
(* Proofs about Chunks, for integers of every width, every size and every  *)
(* chunk size with which nothing wraps.                                    *)
(***************************************************************************)
EXTENDS Chunks, TLAPS

\* Remainders of what is smaller than the modulus.
LEMMA SmallRemainder ==
  ASSUME NEW b \in Nat \ {0}, NEW a \in 0 .. b - 1
  PROVE  a % b = a
OBVIOUS

\* Numbers that int64 and uint64 have are not changed.
LEMMA NothingWraps ==
  ASSUME NEW n \in 0 .. Half
  PROVE  /\ Unsigned(n) = n
         /\ n < Half => Signed(n) = n
<1> USE WidthAssumption
<1>1. 2 * Half \in Nat \ {0}
  OBVIOUS
<1>2. n \in 0 .. 2 * Half - 1
  OBVIOUS
<1>3. n < Half => n + Half \in 0 .. 2 * Half - 1
  OBVIOUS
<1>4. n % (2 * Half) = n
  BY <1>1, <1>2, SmallRemainder
<1>5. n < Half => (n + Half) % (2 * Half) = n + Half
  BY <1>1, <1>3, SmallRemainder
<1> QED BY <1>4, <1>5 DEF Unsigned, Signed

\* The sum of size and chunk size may be 2^63, which int64 does not have: that
\* it becomes negative does not matter after the subtraction.
LEMMA SumMinusOne ==
  ASSUME NEW n \in 1 .. Half
  PROVE  /\ Signed(Signed(n) - 1) = n - 1
         /\ Unsigned(Unsigned(n) - 1) = n - 1
<1> USE WidthAssumption
<1>1. Unsigned(n) = n /\ Unsigned(n - 1) = n - 1
  BY NothingWraps
<1>2. CASE n < Half
  BY <1>1, <1>2, NothingWraps
<1>3. CASE n = Half
  <2>1. 2 * Half \in Nat \ {0} /\ Half + Half = 2 * Half
    OBVIOUS
  <2>2. (2 * Half) % (2 * Half) = 0
    BY <2>1
  <2>3. Signed(n) = - Half
    BY <1>3, <2>1, <2>2 DEF Signed
  <2>4. (-1) % (2 * Half) = 2 * Half - 1
    BY <2>1
  <2>5. Signed(- Half - 1) = Half - 1
    BY <2>4 DEF Signed
  <2> QED BY <1>1, <1>3, <2>3, <2>5
<1> QED BY <1>2, <1>3

\* What division does.
LEMMA DivisionBounds ==
  ASSUME NEW a \in Nat, NEW b \in Nat \ {0}
  PROVE  /\ a \div b \in Nat /\ a \div b <= a
         /\ b * (a \div b) <= a /\ a < b * (a \div b) + b
OBVIOUS

\* The number of chunks that both ends come to.
LEMMA ChunkCount ==
  ASSUME NEW size \in Nat, NEW chunk \in Nat, Representable(size, chunk)
  PROVE  /\ ClientChunks(size, chunk) = (size + chunk - 1) \div chunk
         /\ ServerChunks(size, chunk) = (size + chunk - 1) \div chunk
<1> USE WidthAssumption
<1> DEFINE n == size + chunk
<1>1. /\ n \in 1 .. Half /\ n - 1 \in Nat /\ n - 1 < Half
      /\ chunk \in Nat \ {0}
  BY DEF Representable
<1>2. (n - 1) \div chunk \in Nat /\ (n - 1) \div chunk <= n - 1
  BY <1>1, DivisionBounds
<1>3. Signed((n - 1) \div chunk) = (n - 1) \div chunk
  BY <1>1, <1>2, NothingWraps
<1>4. Quotient(n - 1, chunk) = (n - 1) \div chunk
  BY <1>1, <1>3 DEF Quotient, Abs
<1>5. ClientChunks(size, chunk) = (n - 1) \div chunk
  BY <1>1, <1>4, SumMinusOne DEF ClientChunks
<1>6. CASE size > 0
  BY <1>1, <1>5, <1>6, SumMinusOne DEF ServerChunks
<1>7. CASE size = 0
  <2>1. chunk * ((chunk - 1) \div chunk) <= chunk - 1 /\ (chunk - 1) \div chunk \in Nat
    BY <1>1, <1>7, DivisionBounds
  <2>2. (chunk - 1) \div chunk = 0
    BY <1>1, <2>1
  <2> QED BY <1>5, <1>7, <2>2 DEF ServerChunks
<1> QED BY <1>1, <1>5, <1>6, <1>7

\* Client and server count the same chunks: the client sends every part that
\* the server waits for, and no other.
THEOREM SameChunks ==
  ASSUME NEW size \in Nat, NEW chunk \in Nat, Representable(size, chunk)
  PROVE  ClientChunks(size, chunk) = ServerChunks(size, chunk)
BY ChunkCount

\* A chunk is where its sequence number says, and ends with the next one or
\* with the file.
LEMMA ChunkIsWhereItBelongs ==
  ASSUME NEW size \in Nat, NEW chunk \in Nat, Representable(size, chunk),
         NEW i \in 0 .. ClientChunks(size, chunk) - 1
  PROVE  /\ i * chunk < size
         /\ Offset(i, chunk) = i * chunk
         /\ Offset(i, chunk) + Limit(i, size, chunk) =
              IF i * chunk + chunk > size THEN size ELSE i * chunk + chunk
         /\ ChunkBytes(i, size, chunk) =
              i * chunk .. (IF i * chunk + chunk > size THEN size ELSE i * chunk + chunk) - 1
<1> USE WidthAssumption
<1> DEFINE n == (size + chunk - 1) \div chunk
<1>1. /\ chunk \in Nat \ {0} /\ size + chunk <= Half
      /\ size + chunk - 1 \in Nat
  BY DEF Representable
<1>2. n \in Nat /\ chunk * n <= size + chunk - 1
  BY <1>1, DivisionBounds
<1>3. i \in Nat /\ i + 1 <= n
  BY <1>2, ChunkCount
<1>4. chunk * (i + 1) <= chunk * n
  BY <1>1, <1>2, <1>3
<1>5. i * chunk + chunk <= size + chunk - 1 /\ i * chunk \in Nat
  BY <1>1, <1>2, <1>3, <1>4
<1>6. Offset(i, chunk) = i * chunk
  BY <1>1, <1>5, NothingWraps DEF Offset
<1>7. Signed(i * chunk + chunk) = i * chunk + chunk
  BY <1>1, <1>5, NothingWraps
<1>8. Signed(size - i * chunk) = size - i * chunk
  BY <1>1, <1>5, NothingWraps
<1> HIDE DEF n
<1> QED BY <1>1, <1>5, <1>6, <1>7, <1>8 DEF ChunkBytes, Limit

\* Every byte of a file is in exactly one chunk, and no chunk reaches beyond
\* the file: what is put together from all chunks is the file, and the ranges
\* of a pull cover it.
THEOREM ChunksPartitionTheFile ==
  ASSUME NEW size \in Nat, NEW chunk \in Nat, Representable(size, chunk)
  PROVE  /\ \A i \in 0 .. ClientChunks(size, chunk) - 1 :
              ChunkBytes(i, size, chunk) \subseteq 0 .. size - 1
         /\ \A b \in 0 .. size - 1 :
              \A i \in 0 .. ClientChunks(size, chunk) - 1 :
                b \in ChunkBytes(i, size, chunk) <=> i = b \div chunk
         /\ \A b \in 0 .. size - 1 : b \div chunk \in 0 .. ClientChunks(size, chunk) - 1
<1> DEFINE n == (size + chunk - 1) \div chunk
<1>1. chunk \in Nat \ {0} /\ size + chunk - 1 \in Nat
  BY DEF Representable
<1>2. /\ n \in Nat /\ chunk * n <= size + chunk - 1
      /\ size + chunk - 1 < chunk * n + chunk
  BY <1>1, DivisionBounds
<1>3. ClientChunks(size, chunk) = n
  BY ChunkCount
<1> HIDE DEF n
<1>4. ASSUME NEW i \in 0 .. n - 1
      PROVE  /\ i \in Nat /\ i * chunk \in Nat /\ i * chunk < size
             /\ ChunkBytes(i, size, chunk) =
                  i * chunk .. (IF i * chunk + chunk > size THEN size ELSE i * chunk + chunk) - 1
  BY <1>1, <1>2, <1>3, <1>4, ChunkIsWhereItBelongs
<1>5. ASSUME NEW i \in 0 .. n - 1
      PROVE  ChunkBytes(i, size, chunk) \subseteq 0 .. size - 1
  BY <1>1, <1>4
<1>6. ASSUME NEW b \in 0 .. size - 1
      PROVE  /\ b \div chunk \in Nat /\ chunk * (b \div chunk) <= b
             /\ b < chunk * (b \div chunk) + chunk
  BY <1>1, DivisionBounds
<1>7. ASSUME NEW b \in 0 .. size - 1
      PROVE  b \div chunk \in 0 .. n - 1
  <2> DEFINE q == b \div chunk
  <2>1. q \in Nat /\ chunk * q <= b
    BY <1>6
  <2> HIDE DEF q
  <2>2. chunk * q < chunk * n
    BY <1>1, <1>2, <2>1
  <2>3. q < n
    BY <1>1, <1>2, <2>1, <2>2
  <2> QED BY <1>2, <2>1, <2>3 DEF q
<1>8. ASSUME NEW b \in 0 .. size - 1, NEW i \in 0 .. n - 1
      PROVE  b \in ChunkBytes(i, size, chunk) <=> i = b \div chunk
  <2> DEFINE q == b \div chunk
  <2>1. q \in Nat /\ chunk * q <= b /\ b < chunk * q + chunk
    BY <1>6
  <2> HIDE DEF q
  <2>2. b \in ChunkBytes(i, size, chunk) <=> i * chunk <= b /\ b < i * chunk + chunk
    BY <1>1, <1>4
  <2>3. ASSUME i * chunk <= b, b < i * chunk + chunk
        PROVE  i = q
    <3>1. chunk * i < chunk * (q + 1)
      BY <1>1, <1>4, <2>1, <2>3
    <3>2. chunk * q < chunk * (i + 1)
      BY <1>1, <1>4, <2>1, <2>3
    <3>3. i < q + 1
      BY <1>1, <1>4, <2>1, <3>1
    <3>4. q < i + 1
      BY <1>1, <1>4, <2>1, <3>2
    <3> QED BY <1>4, <2>1, <3>3, <3>4
  <2>4. i = q => i * chunk <= b /\ b < i * chunk + chunk
    BY <1>1, <1>4, <2>1
  <2> QED BY <2>2, <2>3, <2>4 DEF q
<1> QED BY <1>3, <1>5, <1>7, <1>8
=============================================================================
