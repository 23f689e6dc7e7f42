-------------------------- MODULE VersatShaProofs --------------------------
(***************************************************************************)
(* What is proved of SHA-256 on the accelerator, for every block size,     *)
(* length field and set of messages: the types, that the unit is one block *)
(* behind the program, and that a call returns the digest of its message   *)
(* whatever ran on the accelerator before.                                 *)
(*                                                                         *)
(* The argument is in two parts.  The first is arithmetic: the blocks the  *)
(* code cuts from the message and from its padded copy are the blocks of   *)
(* the padded message, in order.  The second is an invariant: after h      *)
(* blocks are handed over, the unit holds block h, and the h - 1 blocks    *)
(* before it are compressed into the state.                                *)
(***************************************************************************)
EXTENDS VersatSha, FiniteSetTheorems, SequenceTheorems, TLAPS

----------------------------------------------------------------------------
(* Arithmetic of blocks.                                                    *)

LEMMA Division ==
    ASSUME NEW q \in Nat, NEW r \in Nat, r < BLOCK
    PROVE  (BLOCK * q + r) \div BLOCK = q
  BY ShaSizes, Z3

LEMMA Quotient ==
    ASSUME NEW n \in Nat
    PROVE  /\ n \div BLOCK \in Nat
           /\ n - BLOCK * (n \div BLOCK) \in 0 .. BLOCK - 1
  BY ShaSizes, Z3

\* Whole blocks of a message, and the bytes that are left over.
Whole(n) == n \div BLOCK
Rest(n) == n - BLOCK * Whole(n)
\* Blocks of the padded message.
Total(n) == (n + LENF) \div BLOCK + 1

LEMMA WholeAndRest ==
    ASSUME NEW n \in Nat
    PROVE  /\ Whole(n) \in Nat /\ Rest(n) \in Nat /\ Rest(n) < BLOCK
           /\ n = BLOCK * Whole(n) + Rest(n)
           /\ BLOCK * Whole(n) \in Nat /\ BLOCK * Whole(n) <= n
  <1>1. Whole(n) \in Nat /\ Rest(n) \in 0 .. BLOCK - 1
    BY Quotient DEF Whole, Rest
  <1>2. BLOCK * Whole(n) \in Nat
    BY <1>1, ShaSizes
  <1> QED
    BY <1>1, <1>2, ShaSizes DEF Rest

\* The padding takes one block, or two when the length field no longer fits.
LEMMA TotalBlocks ==
    ASSUME NEW n \in Nat
    PROVE  /\ Total(n) = IF OneBlock(Rest(n)) THEN Whole(n) + 1 ELSE Whole(n) + 2
           /\ PaddedSize(Rest(n)) = BLOCK * (Total(n) - Whole(n))
           /\ PaddedLength(n) = BLOCK * Total(n)
  <1> DEFINE q == Whole(n)
             r == Rest(n)
  <1>1. q \in Nat /\ r \in Nat /\ r < BLOCK /\ n = BLOCK * q + r /\ BLOCK * q \in Nat
    BY WholeAndRest
  <1> HIDE DEF q, r
  <1>2. CASE OneBlock(r)
    <2>1. r + LENF \in Nat /\ r + LENF < BLOCK
      BY <1>1, <1>2, ShaSizes DEF OneBlock
    <2>2. n + LENF = BLOCK * q + (r + LENF)
      BY <1>1, ShaSizes
    <2>3. (n + LENF) \div BLOCK = q
      BY <1>1, <2>1, <2>2, Division
    <2> QED
      BY <1>1, <1>2, <2>3, ShaSizes DEF Total, PaddedSize, PaddedLength, q, r
  <1>3. CASE ~OneBlock(r)
    <2>1. r + LENF - BLOCK \in Nat /\ r + LENF - BLOCK < BLOCK
      BY <1>1, <1>3, ShaSizes DEF OneBlock
    <2>2. BLOCK * (q + 1) = BLOCK * q + BLOCK
      BY <1>1, ShaSizes
    <2>3. n + LENF = BLOCK * (q + 1) + (r + LENF - BLOCK)
      BY <1>1, <2>2, ShaSizes
    <2>4. (n + LENF) \div BLOCK = q + 1
      BY <1>1, <2>1, <2>3, Division
    <2> QED
      BY <1>1, <1>3, <2>4, ShaSizes DEF Total, PaddedSize, PaddedLength, q, r
  <1> QED
    BY <1>2, <1>3

LEMMA Monotone ==
    ASSUME NEW a \in Nat, NEW b \in Nat, a <= b
    PROVE  BLOCK * a <= BLOCK * b
  BY ShaSizes, Z3

\* A power of two is the number of subsets of a set of as many elements.
LEMMA PowerOfTwo ==
    ASSUME NEW w \in Nat
    PROVE  2^w \in Nat /\ 2^w > 0
  <1>1. IsFiniteSet(1 .. w) /\ Cardinality(1 .. w) = w
    BY FS_Interval
  <1>2. IsFiniteSet(SUBSET (1 .. w)) /\ Cardinality(SUBSET (1 .. w)) = 2^w
    BY <1>1, FS_SUBSET
  <1>3. 2^w \in Nat
    BY <1>2, FS_CardinalityType
  <1>4. 2^w # 0
    BY <1>2, FS_EmptySet
  <1> QED
    BY <1>3, <1>4

LEMMA MarkIsByte == Mark \in Byte
  <1> DEFINE small == SUBSET (1 .. WIDTH - 1)
             large == SUBSET (1 .. WIDTH)
  <1>1. WIDTH \in Nat /\ WIDTH - 1 \in Nat
    BY ShaSizes
  <1>2. /\ IsFiniteSet(1 .. WIDTH - 1) /\ Cardinality(1 .. WIDTH - 1) = WIDTH - 1
        /\ IsFiniteSet(1 .. WIDTH) /\ Cardinality(1 .. WIDTH) = WIDTH
    BY <1>1, FS_Interval
  <1>3. /\ IsFiniteSet(large) /\ Cardinality(large) = 2^WIDTH
        /\ Cardinality(small) = 2^(WIDTH - 1)
    BY <1>2, FS_SUBSET
  <1>4. small \in SUBSET large
    BY <1>1
  <1>5. small # large
    <2>1. 1 .. WIDTH \in large /\ 1 .. WIDTH \notin small
      BY <1>1
    <2> QED
      BY <2>1
  <1>6. Cardinality(small) <= Cardinality(large) /\ Cardinality(small) # Cardinality(large)
    BY <1>3, <1>4, <1>5, FS_Subset
  <1>7. 2^(WIDTH - 1) \in Nat /\ 2^WIDTH \in Nat
    BY <1>1, PowerOfTwo
  <1> QED
    BY <1>3, <1>6, <1>7 DEF Mark, Byte

LEMMA LengthByteIsByte ==
    ASSUME NEW bytes \in Nat, NEW i \in 1 .. LENF
    PROVE  LengthByte(bytes, i) \in Byte
  <1> DEFINE d == 2^(WIDTH * (LENF - i))
             x == (bytes * WIDTH) \div d
  <1>1. WIDTH * (LENF - i) \in Nat
    <2>1. LENF - i \in Nat /\ WIDTH \in Nat
      BY ShaSizes
    <2> QED
      BY <2>1
  <1>2. d \in Nat /\ d > 0
    BY <1>1, PowerOfTwo
  <1>3. bytes * WIDTH \in Nat
    BY ShaSizes
  <1> HIDE DEF d
  <1>4. x \in Int
    BY <1>2, <1>3
  <1> HIDE DEF x
  <1>5. 2^WIDTH \in Nat /\ 2^WIDTH > 0
    BY ShaSizes, PowerOfTwo
  <1>6. x % 2^WIDTH \in 0 .. 2^WIDTH - 1
    BY <1>4, <1>5
  <1> QED
    BY <1>6 DEF LengthByte, Byte, x, d

LEMMA ZeroIsByte == 0 \in Byte
  BY ShaSizes, PowerOfTwo DEF Byte

LEMMA JunkIsNoByte == Junk \notin Byte /\ Junk \in Cell /\ Byte \subseteq Cell
  BY ShaSizes, PowerOfTwo DEF Byte, Junk, Cell

----------------------------------------------------------------------------
(* The blocks of a padded message.                                          *)

LEMMA Counts ==
    ASSUME NEW m \in Seq(Byte)
    PROVE  /\ Len(m) \in Nat
           /\ Whole(Len(m)) \in Nat /\ Total(Len(m)) \in Nat
           /\ Whole(Len(m)) < Total(Len(m))
  <1>1. Len(m) \in Nat
    OBVIOUS
  <1>2. Whole(Len(m)) \in Nat
    BY <1>1, WholeAndRest
  <1> QED
    BY <1>1, <1>2, TotalBlocks

LEMMA PaddedByteIsByte ==
    ASSUME NEW m \in Seq(Byte), NEW i \in Nat, i > 0, i <= BLOCK * Total(Len(m))
    PROVE  PaddedByte(m, i) \in Byte
  <1> DEFINE n == Len(m)
             field == PaddedLength(n) - LENF
  <1>1. n \in Nat /\ Total(n) \in Nat /\ PaddedLength(n) = BLOCK * Total(n)
    BY Counts, TotalBlocks
  <1>2. PaddedLength(n) \in Nat /\ i <= PaddedLength(n)
    BY <1>1, ShaSizes
  <1>3. CASE i <= n
    BY <1>3 DEF PaddedByte
  <1>4. CASE i > n /\ i <= field
    BY <1>1, <1>2, <1>4, MarkIsByte, ZeroIsByte DEF PaddedByte
  <1>5. CASE i = n + 1
    BY <1>1, <1>5, MarkIsByte DEF PaddedByte
  <1>6. CASE i > n + 1 /\ i > field
    <2>1. i - field \in 1 .. LENF
      BY <1>1, <1>2, <1>6, ShaSizes
    <2>2. LengthByte(n, i - field) \in Byte
      BY <1>1, <2>1, LengthByteIsByte
    <2> QED
      BY <1>1, <1>2, <1>6, <2>2, ShaSizes DEF PaddedByte
  <1> QED
    BY <1>1, <1>2, <1>3, <1>4, <1>5, <1>6, ShaSizes

\* Where byte i of block h + 1 is.
LEMMA InBlock ==
    ASSUME NEW h \in Nat, NEW t \in Nat, h < t, NEW i \in 1 .. BLOCK
    PROVE  /\ BLOCK * h \in Nat
           /\ (h + 1 - 1) * BLOCK + i = BLOCK * h + i
           /\ BLOCK * h + i \in Nat /\ BLOCK * h + i > 0
           /\ BLOCK * h + i <= BLOCK * t
  <1>1. BLOCK * h \in Nat /\ BLOCK * (h + 1) = BLOCK * h + BLOCK
    BY ShaSizes
  <1>2. BLOCK * (h + 1) <= BLOCK * t
    BY Monotone
  <1>3. (h + 1 - 1) * BLOCK = BLOCK * h
    BY ShaSizes
  <1>4. BLOCK * t \in Nat
    BY ShaSizes
  <1> QED
    BY <1>1, <1>2, <1>3, <1>4, ShaSizes

LEMMA BlocksAreBytes ==
    ASSUME NEW m \in Seq(Byte), NEW h \in Nat, h < Total(Len(m))
    PROVE  PaddedBlock(m, h + 1) \in [1 .. BLOCK -> Byte]
  <1>1. Total(Len(m)) \in Nat
    BY Counts
  <1>2. ASSUME NEW i \in 1 .. BLOCK
        PROVE  PaddedByte(m, (h + 1 - 1) * BLOCK + i) \in Byte
    BY <1>1, InBlock, PaddedByteIsByte
  <1> QED
    BY <1>2 DEF PaddedBlock

\* A whole block of the message is a block of the padded message.
LEMMA MessageBlock ==
    ASSUME NEW m \in Seq(Byte), NEW h \in Nat, h < Whole(Len(m))
    PROVE  BlockAt(m, BLOCK * h) = PaddedBlock(m, h + 1)
  <1>1. Len(m) \in Nat /\ Whole(Len(m)) \in Nat /\ BLOCK * Whole(Len(m)) <= Len(m)
    BY Counts, WholeAndRest
  <1>2. ASSUME NEW i \in 1 .. BLOCK
        PROVE  m[BLOCK * h + i] = PaddedByte(m, (h + 1 - 1) * BLOCK + i)
    <2>1. /\ (h + 1 - 1) * BLOCK + i = BLOCK * h + i
          /\ BLOCK * h + i \in Nat /\ BLOCK * h + i <= BLOCK * Whole(Len(m))
      BY <1>1, InBlock
    <2>2. BLOCK * h + i <= Len(m)
      BY <1>1, <2>1, ShaSizes
    <2> QED
      BY <2>1, <2>2 DEF PaddedByte
  <1> QED
    BY <1>2 DEF BlockAt, PaddedBlock

\* A block of the padded copy of what is left over is one too.
LEMMA PaddingBlock ==
    ASSUME NEW m \in Seq(Byte), NEW j \in Nat,
           Whole(Len(m)) + j < Total(Len(m))
    PROVE  BlockAt(PadBuffer(SubSeq(m, BLOCK * Whole(Len(m)) + 1, Len(m)), Len(m)),
                   BLOCK * j)
              = PaddedBlock(m, Whole(Len(m)) + j + 1)
  <1> DEFINE n == Len(m)
             q == Whole(n)
             r == Rest(n)
             left == SubSeq(m, BLOCK * q + 1, n)
             size == PaddedSize(r)
  <1>1. /\ n \in Nat /\ q \in Nat /\ r \in Nat /\ r < BLOCK
        /\ n = BLOCK * q + r /\ BLOCK * q \in Nat
    BY Counts, WholeAndRest
  <1>2. /\ Len(left) = r
        /\ \A y \in 1 .. r : left[y] = m[BLOCK * q + y]
    BY <1>1, SMTT(30)
  <1>3. /\ Total(n) \in Nat
        /\ size = BLOCK * (Total(n) - q)
        /\ PaddedLength(n) = BLOCK * Total(n)
    BY <1>1, Counts, TotalBlocks
  <1>4. PaddedLength(n) = BLOCK * q + size /\ size \in Nat
    <2>1. BLOCK * Total(n) = BLOCK * q + BLOCK * (Total(n) - q)
      BY <1>1, <1>3, ShaSizes
    <2>2. size \in Nat
      BY ShaSizes DEF PaddedSize
    <2> QED
      BY <1>3, <2>1, <2>2
  <1>5. r + 1 <= size - LENF
    BY <1>1, ShaSizes DEF PaddedSize, OneBlock
  <1>6. size <= 2 * BLOCK
    BY ShaSizes DEF PaddedSize
  <1> HIDE DEF n, q, r, left, size
  <1>7. ASSUME NEW i \in 1 .. BLOCK
        PROVE  PadBuffer(left, n)[BLOCK * j + i]
                  = PaddedByte(m, (q + j + 1 - 1) * BLOCK + i)
    <2> DEFINE y == BLOCK * j + i
    <2>1. /\ y \in Nat /\ y > 0 /\ y <= size
          /\ BLOCK * j \in Nat
      <3>1. j < Total(n) - q /\ Total(n) - q \in Nat
        BY <1>1, <1>3, Counts DEF n, q
      <3>2. y <= BLOCK * (Total(n) - q) /\ y \in Nat /\ y > 0 /\ BLOCK * j \in Nat
        BY <3>1, InBlock
      <3> QED
        BY <1>3, <3>2
    <2>2. (q + j + 1 - 1) * BLOCK + i = BLOCK * q + y
      <3>1. (q + j + 1 - 1) * BLOCK = BLOCK * q + BLOCK * j
        BY <1>1, ShaSizes
      <3> QED
        BY <1>1, <2>1, <3>1
    <2> HIDE DEF y
    <2>3. PadBuffer(left, n)[y] = IF y > size - LENF THEN LengthByte(n, y - (size - LENF))
                                  ELSE IF y <= r THEN left[y]
                                  ELSE IF y = r + 1 THEN Mark ELSE 0
      <3>1. y \in 1 .. 2 * BLOCK /\ ~(y > size)
        BY <1>4, <1>6, <2>1, ShaSizes
      <3>2. Len(left) = r
        BY <1>2
      <3>3. PadBuffer(left, n)[y] =
               IF y > PaddedSize(r) THEN Junk
               ELSE IF y > PaddedSize(r) - LENF
                    THEN LengthByte(n, y - (PaddedSize(r) - LENF))
               ELSE IF y <= r THEN left[y]
               ELSE IF y = r + 1 THEN Mark
               ELSE IF y <= LastZero(PaddedSize(r)) THEN 0 ELSE Junk
        BY <3>1, <3>2, Zenon DEF PadBuffer
      <3>4. ~(y > size - LENF) => y <= LastZero(size)
        BY <1>4, <2>1, ShaSizes DEF LastZero
      <3> QED
        BY <3>1, <3>3, <3>4, Zenon DEF size
    <2>4. PaddedByte(m, BLOCK * q + y)
             = IF y <= r THEN m[BLOCK * q + y]
               ELSE IF y = r + 1 THEN Mark
               ELSE IF y <= size - LENF THEN 0
               ELSE LengthByte(n, y - (size - LENF))
      <3>1. PaddedLength(n) - LENF = BLOCK * q + (size - LENF)
        BY <1>1, <1>4, ShaSizes
      <3>2. /\ BLOCK * q + y <= n <=> y <= r
            /\ BLOCK * q + y = n + 1 <=> y = r + 1
            /\ BLOCK * q + y <= PaddedLength(n) - LENF <=> y <= size - LENF
            /\ BLOCK * q + y - (PaddedLength(n) - LENF) = y - (size - LENF)
        BY <1>1, <1>4, <2>1, <3>1, ShaSizes
      <3> DEFINE pos == BLOCK * q + y
                 field == PaddedLength(n) - LENF
      <3>3. PaddedByte(m, pos) = IF pos <= n THEN m[pos]
                                 ELSE IF pos = n + 1 THEN Mark
                                 ELSE IF pos <= field THEN 0
                                 ELSE LengthByte(n, pos - field)
        BY Zenon DEF PaddedByte, n
      <3>4. LengthByte(n, pos - field) = LengthByte(n, y - (size - LENF))
        <4>1. pos - field = y - (size - LENF)
          BY <1>1, <1>4, <2>1, <3>1, ShaSizes
        <4> HIDE DEF pos, field
        <4> QED
          BY <4>1, Zenon
      <3> HIDE DEF pos, field
      <3>5. (pos <= n <=> y <= r) /\ (pos = n + 1 <=> y = r + 1)
            /\ (pos <= field <=> y <= size - LENF)
        BY <3>2 DEF pos, field
      <3>6. PaddedByte(m, pos) = IF y <= r THEN m[pos]
                                 ELSE IF y = r + 1 THEN Mark
                                 ELSE IF y <= size - LENF THEN 0
                                 ELSE LengthByte(n, y - (size - LENF))
        BY <3>3, <3>4, <3>5, Zenon
      <3> QED
        BY <3>6, Zenon DEF pos
    <2>5. y <= r => left[y] = m[BLOCK * q + y]
      BY <1>1, <1>2, <2>1
    <2>6. PadBuffer(left, n)[y] = PaddedByte(m, BLOCK * q + y)
      BY <1>1, <1>4, <1>5, <2>1, <2>3, <2>4, <2>5, ShaSizes
    <2> QED
      BY <2>2, <2>6 DEF y
  <1>8. BlockAt(PadBuffer(left, n), BLOCK * j) = PaddedBlock(m, q + j + 1)
    <2> DEFINE code(i) == PadBuffer(left, n)[BLOCK * j + i]
               spec(i) == PaddedByte(m, (q + j + 1 - 1) * BLOCK + i)
    <2>1. \A i \in 1 .. BLOCK : code(i) = spec(i)
      BY <1>7
    <2> HIDE DEF code, spec
    <2>2. [i \in 1 .. BLOCK |-> code(i)] = [i \in 1 .. BLOCK |-> spec(i)]
      BY <2>1
    <2>3. BlockAt(PadBuffer(left, n), BLOCK * j) = [i \in 1 .. BLOCK |-> code(i)]
      BY DEF BlockAt, code
    <2>4. PaddedBlock(m, q + j + 1) = [i \in 1 .. BLOCK |-> spec(i)]
      BY <1>1, ShaSizes DEF PaddedBlock, spec
    <2> QED
      BY <2>2, <2>3, <2>4
  <1> QED
    BY <1>8, Zenon DEF left, q, n

----------------------------------------------------------------------------
(* The chain value.                                                         *)

\* The blocks of the padded message up to block h.
Prefix(m, h) == SubSeq(Digest(m), 1, h)

LEMMA DigestBlocks ==
    ASSUME NEW m \in Seq(Byte)
    PROVE  /\ Digest(m) \in Seq([1 .. BLOCK -> Byte])
           /\ Len(Digest(m)) = Total(Len(m))
           /\ \A h \in 1 .. Total(Len(m)) : Digest(m)[h] = PaddedBlock(m, h)
  <1>1. Total(Len(m)) \in Nat
    BY Counts
  <1>2. Digest(m) = [n \in 1 .. Total(Len(m)) |-> PaddedBlock(m, n)]
    BY DEF Digest, Total
  <1>3. ASSUME NEW n \in 1 .. Total(Len(m))
        PROVE  PaddedBlock(m, n) \in [1 .. BLOCK -> Byte]
    <2>1. n - 1 \in Nat /\ n - 1 < Total(Len(m)) /\ n - 1 + 1 = n
      BY <1>1
    <2> QED
      BY <2>1, BlocksAreBytes
  <1>4. Digest(m) \in Seq([1 .. BLOCK -> Byte])
    BY <1>1, <1>2, <1>3, IsASeq
  <1> QED
    BY <1>1, <1>2, <1>4

LEMMA BlockIsNoJunk ==
    ASSUME NEW b \in [1 .. BLOCK -> Byte]
    PROVE  ~IsJunk(b) /\ b \in Block
  BY JunkIsNoByte DEF IsJunk, Block

\* No chain value of whole blocks is the one of a state with junk in it.
LEMMA PrefixIsClean ==
    ASSUME NEW m \in Seq(Byte), NEW h \in Nat, h <= Total(Len(m))
    PROVE  Prefix(m, h) # Garbage
  <1> SUFFICES ASSUME Prefix(m, h) = Garbage PROVE FALSE
    OBVIOUS
  <1> DEFINE D == Digest(m)
  <1>1. D \in Seq([1 .. BLOCK -> Byte]) /\ Len(D) = Total(Len(m))
    BY DigestBlocks
  <1>2. Len(Garbage) = 1 /\ Garbage[1] = <<Junk>>
    BY DEF Garbage
  <1> HIDE DEF D
  <1>3. Len(SubSeq(D, 1, h)) = h /\ (h >= 1 => SubSeq(D, 1, h)[1] = D[1])
    BY <1>1
  <1>4. h = 1 /\ D[1] = <<Junk>>
    <2>1. SubSeq(D, 1, h) = Garbage
      BY DEF Prefix, D
    <2> QED
      BY <1>2, <1>3, <2>1
  <1>5. D[1] \in [1 .. BLOCK -> Byte] /\ 1 \in 1 .. BLOCK
    <2>1. Len(D) \in Nat /\ 1 <= Len(D)
      BY <1>1, <1>4, Counts
    <2>2. 1 \in 1 .. Len(D) /\ 1 \in 1 .. BLOCK
      BY <2>1, ShaSizes
    <2> QED
      BY <1>1, <2>2, ElementOfSeq
  <1>6. D[1][1] \in Byte
    BY <1>5
  <1> QED
    BY <1>4, <1>6, JunkIsNoByte

\* Compressing the next block of the message.
LEMMA PrefixStep ==
    ASSUME NEW m \in Seq(Byte), NEW h \in Nat, h < Total(Len(m))
    PROVE  /\ Compress(Prefix(m, h), PaddedBlock(m, h + 1)) = Prefix(m, h + 1)
           /\ Append(Prefix(m, h), PaddedBlock(m, h + 1)) = Prefix(m, h + 1)
  <1> DEFINE D == Digest(m)
             S == [1 .. BLOCK -> Byte]
  <1>1. /\ D \in Seq(S) /\ Len(D) = Total(Len(m)) /\ Len(D) \in Nat
        /\ D[h + 1] = PaddedBlock(m, h + 1)
    BY DigestBlocks, Counts
  <1>2. PaddedBlock(m, h + 1) \in S
    BY BlocksAreBytes
  <1>3. Compress(Prefix(m, h), PaddedBlock(m, h + 1))
           = Append(Prefix(m, h), PaddedBlock(m, h + 1))
    <2>1. Prefix(m, h) # Garbage
      BY Counts, PrefixIsClean
    <2>2. ~IsJunk(PaddedBlock(m, h + 1))
      BY <1>2, BlockIsNoJunk
    <2> QED
      BY <2>1, <2>2 DEF Compress
  <1> HIDE DEF D, S
  <1>4. Append(SubSeq(D, 1, h), D[h + 1]) = SubSeq(D, 1, h + 1)
    BY <1>1
  <1> QED
    BY <1>1, <1>3, <1>4 DEF Prefix, D

LEMMA PrefixEnds ==
    ASSUME NEW m \in Seq(Byte)
    PROVE  /\ Prefix(m, 0) = IV
           /\ Prefix(m, Total(Len(m))) = Digest(m)
  <1> DEFINE D == Digest(m)
             S == [1 .. BLOCK -> Byte]
  <1>1. D \in Seq(S) /\ Len(D) = Total(Len(m))
    BY DigestBlocks
  <1> HIDE DEF D, S
  <1>2. SubSeq(D, 1, 0) = << >> /\ SubSeq(D, 1, Len(D)) = D
    BY <1>1, SubSeqEmpty, SubSeqFull
  <1> QED
    BY <1>1, <1>2 DEF Prefix, IV, D

----------------------------------------------------------------------------
(* The invariant.                                                           *)

\* Every byte of the blocks to be hashed has been written.
Written == pc = "hash" /\ src = "padded" => \A i \in 1 .. at + inlen : padded[i] \in Byte

\* h blocks of the call's message are handed over: where the program is, ...
Progress(h) ==
    /\ src = "message" =>
         /\ h <= Whole(Len(msg))
         /\ at = BLOCK * h
         /\ inlen = Len(msg) - at
    /\ src = "padded" =>
         /\ Whole(Len(msg)) <= h /\ h <= Total(Len(msg))
         /\ at = BLOCK * (h - Whole(Len(msg)))
         /\ inlen = BLOCK * (Total(Len(msg)) - h)
         /\ padded = PadBuffer(SubSeq(msg, BLOCK * Whole(Len(msg)) + 1, Len(msg)),
                               Len(msg))

\* ... and where the unit is: one block behind.
Behind(h) ==
    /\ runInitialized <=> h > 0
    /\ h > 0 =>
         /\ state = Prefix(msg, h - 1)
         /\ loaded = PaddedBlock(msg, h)

IInv ==
    /\ TypeOK
    /\ pc = "idle" => ~runInitialized
    /\ pc = "hash" => \E h \in Nat : Progress(h) /\ Behind(h)

LEMMA MessageType == TypeOK => msg \in Seq(Byte) /\ Len(msg) \in Nat
  <1> SUFFICES ASSUME TypeOK PROVE msg \in Seq(Byte)
    OBVIOUS
  <1>1. CASE msg = << >>
    BY <1>1
  <1>2. CASE msg \in Messages
    BY <1>2, MessagesAreBytes
  <1> QED
    BY <1>1, <1>2 DEF TypeOK

LEMMA CompressType ==
    ASSUME NEW c \in Seq(Block) \cup {Garbage}, NEW b \in Block
    PROVE  Compress(c, b) \in Seq(Block) \cup {Garbage}
  BY DEF Compress

LEMMA PadBufferType ==
    ASSUME NEW left \in Seq(Byte), Len(left) < BLOCK, NEW bytes \in Nat
    PROVE  /\ PadBuffer(left, bytes) \in [1 .. 2 * BLOCK -> Cell]
           /\ \A i \in 1 .. PaddedSize(Len(left)) : PadBuffer(left, bytes)[i] \in Byte
  <1> DEFINE n == Len(left)
             field == PaddedSize(n) - LENF
             cell(i) == IF i > PaddedSize(n) THEN Junk
                        ELSE IF i > field THEN LengthByte(bytes, i - field)
                        ELSE IF i <= n THEN left[i]
                        ELSE IF i = n + 1 THEN Mark
                        ELSE IF i <= LastZero(PaddedSize(n)) THEN 0 ELSE Junk
  <1>1. /\ n \in Nat /\ PaddedSize(n) \in Nat /\ PaddedSize(n) >= BLOCK /\ field \in Nat
        /\ PaddedSize(n) <= 2 * BLOCK
    BY ShaSizes DEF PaddedSize
  <1>2. ASSUME NEW i \in 1 .. 2 * BLOCK
        PROVE  cell(i) \in Cell /\ (i <= PaddedSize(n) => cell(i) \in Byte)
    <2>1. CASE i > PaddedSize(n)
      BY <1>1, <2>1, JunkIsNoByte
    <2>2. CASE ~(i > PaddedSize(n)) /\ i > field
      <3>1. i - field \in 1 .. LENF
        BY <1>1, <2>2, ShaSizes
      <3>2. LengthByte(bytes, i - field) \in Byte
        BY <3>1, LengthByteIsByte
      <3> QED
        BY <2>2, <3>2, JunkIsNoByte
    <2>3. CASE ~(i > PaddedSize(n)) /\ ~(i > field)
      <3>1. i <= n => left[i] \in Byte
        BY <1>1
      <3>2. i <= LastZero(PaddedSize(n))
        BY <1>1, <2>3, ShaSizes DEF LastZero
      <3> QED
        BY <2>3, <3>1, <3>2, MarkIsByte, ZeroIsByte, JunkIsNoByte
    <2> QED
      BY <2>1, <2>2, <2>3
  <1>3. PadBuffer(left, bytes) = [i \in 1 .. 2 * BLOCK |-> cell(i)]
    BY DEF PadBuffer
  <1> HIDE DEF cell
  <1>4. ASSUME NEW i \in 1 .. PaddedSize(n) PROVE PadBuffer(left, bytes)[i] \in Byte
    <2>1. i \in 1 .. 2 * BLOCK /\ i <= PaddedSize(n)
      BY <1>1, ShaSizes
    <2> QED
      BY <1>2, <1>3, <2>1
  <1> QED
    BY <1>2, <1>3, <1>4

LEMMA InitInv == Init => IInv
  <1> SUFFICES ASSUME Init PROVE IInv
    OBVIOUS
  <1>1. JunkBlock \in Block /\ [i \in 1 .. 2 * BLOCK |-> Junk] \in [1 .. 2 * BLOCK -> Cell]
    BY JunkIsNoByte DEF JunkBlock, Block
  <1>2. TypeOK
    BY <1>1 DEF Init, TypeOK
  <1> QED
    BY <1>2 DEF Init, IInv

LEMMA CallInv == IInv /\ Call => IInv'
  <1> SUFFICES ASSUME IInv, Call PROVE IInv'
    OBVIOUS
  <1>1. [i \in 1 .. 2 * BLOCK |-> Junk] \in [1 .. 2 * BLOCK -> Cell]
    BY JunkIsNoByte
  <1>2. msg' \in Messages /\ Len(msg') \in Nat
    BY MessagesAreBytes DEF Call
  <1>3. TypeOK'
    BY <1>1, <1>2 DEF IInv, TypeOK, Call
  <1>4. Progress(0)'
    <2>1. Whole(Len(msg')) \in Nat
      BY <1>2, WholeAndRest
    <2> QED
      BY <1>2, <2>1, ShaSizes DEF Progress, Call
  <1>5. Behind(0)'
    BY DEF Behind, Call, IInv
  <1> QED
    BY <1>3, <1>4, <1>5 DEF IInv, Call

\* The blocks there are when the loop goes on, and when it stops.
LEMMA LoopOfMessage ==
    ASSUME NEW n \in Nat, NEW h \in Nat, h <= Whole(n)
    PROVE  /\ n - BLOCK * h >= BLOCK => h < Whole(n)
           /\ n - BLOCK * h < BLOCK => h = Whole(n)
           /\ h < Whole(n) => n - BLOCK * h - BLOCK \in Nat
           /\ BLOCK * h \in Nat
           /\ BLOCK * (h + 1) = BLOCK * h + BLOCK
  <1>1. /\ Whole(n) \in Nat /\ Rest(n) \in Nat /\ Rest(n) < BLOCK
        /\ n = BLOCK * Whole(n) + Rest(n) /\ BLOCK * Whole(n) \in Nat
    BY WholeAndRest
  <1>2. BLOCK * h \in Nat /\ BLOCK * (h + 1) = BLOCK * h + BLOCK
    BY ShaSizes
  <1>3. h < Whole(n) => BLOCK * (h + 1) <= BLOCK * Whole(n)
    BY <1>1, Monotone
  <1>4. h = Whole(n) => n - BLOCK * h = Rest(n)
    BY <1>1
  <1> QED
    BY <1>1, <1>2, <1>3, <1>4, ShaSizes

LEMMA LoopOfPadded ==
    ASSUME NEW t \in Nat, NEW h \in Nat, h <= t
    PROVE  /\ BLOCK * (t - h) >= BLOCK => h < t
           /\ BLOCK * (t - h) < BLOCK => h = t
           /\ h < t => BLOCK * (t - h) - BLOCK = BLOCK * (t - (h + 1))
           /\ BLOCK * (t - h) \in Nat
  <1>1. h = t => BLOCK * (t - h) = 0
    BY ShaSizes
  <1>2. h < t => BLOCK * (t - h) = BLOCK * (t - (h + 1)) + BLOCK
    BY ShaSizes
  <1>3. BLOCK * (t - h) \in Nat
    BY ShaSizes
  <1>4. h < t => BLOCK * (t - (h + 1)) \in Nat
    BY ShaSizes
  <1> QED
    BY <1>1, <1>2, <1>3, <1>4, ShaSizes

\* The block an iteration loads is the next block of the padded message.
LEMMA NextBlock ==
    ASSUME TypeOK, NEW h \in Nat, Progress(h), inlen >= BLOCK
    PROVE  /\ h < Total(Len(msg))
           /\ src = "message" => h < Whole(Len(msg))
           /\ BlockAt(Source, at) = PaddedBlock(msg, h + 1)
  <1> DEFINE n == Len(msg)
  <1>1. /\ msg \in Seq(Byte) /\ n \in Nat /\ Whole(n) \in Nat /\ Total(n) \in Nat
        /\ Whole(n) < Total(n)
    BY MessageType, Counts
  <1>2. CASE src = "message"
    <2>1. h <= Whole(n) /\ at = BLOCK * h /\ n - BLOCK * h >= BLOCK
      BY <1>2 DEF Progress
    <2>2. h < Whole(n)
      BY <1>1, <2>1, LoopOfMessage
    <2>3. BlockAt(msg, BLOCK * h) = PaddedBlock(msg, h + 1)
      BY <1>1, <2>2, MessageBlock
    <2> QED
      BY <1>1, <1>2, <2>1, <2>2, <2>3 DEF Source
  <1>3. CASE src = "padded"
    <2>1. /\ Whole(n) <= h /\ h <= Total(n) /\ at = BLOCK * (h - Whole(n))
          /\ BLOCK * (Total(n) - h) >= BLOCK
          /\ padded = PadBuffer(SubSeq(msg, BLOCK * Whole(n) + 1, n), n)
      BY <1>3 DEF Progress
    <2>2. h < Total(n)
      BY <1>1, <2>1, LoopOfPadded
    <2> DEFINE j == h - Whole(n)
    <2>3. j \in Nat /\ Whole(n) + j = h /\ Whole(n) + j + 1 = h + 1
      BY <1>1, <2>1
    <2> HIDE DEF j
    <2>4. BlockAt(PadBuffer(SubSeq(msg, BLOCK * Whole(n) + 1, n), n), BLOCK * j)
             = PaddedBlock(msg, Whole(n) + j + 1)
      BY <1>1, <2>2, <2>3, PaddingBlock
    <2>5. at = BLOCK * j
      BY <2>1 DEF j
    <2> QED
      BY <1>3, <2>1, <2>2, <2>3, <2>4, <2>5 DEF Source
  <1> QED
    BY <1>2, <1>3 DEF TypeOK

\* The run leaves the chain value of the blocks before the one it loads.
LEMMA RunCompresses ==
    ASSUME TypeOK, NEW h \in Nat, h <= Total(Len(msg)), Behind(h)
    PROVE  AfterRun = Prefix(msg, h)
  <1>1. msg \in Seq(Byte) /\ Total(Len(msg)) \in Nat
    BY MessageType, Counts
  <1>2. CASE h = 0
    BY <1>1, <1>2, PrefixEnds DEF Behind, AfterRun
  <1>3. CASE h > 0
    <2> DEFINE g == h - 1
    <2>1. g \in Nat /\ g < Total(Len(msg)) /\ g + 1 = h
      BY <1>1, <1>3
    <2> HIDE DEF g
    <2>2. Compress(Prefix(msg, g), PaddedBlock(msg, g + 1)) = Prefix(msg, g + 1)
      BY <1>1, <2>1, PrefixStep
    <2>3. runInitialized /\ state = Prefix(msg, g) /\ loaded = PaddedBlock(msg, g + 1)
      BY <1>3, <2>1 DEF Behind, g
    <2> QED
      BY <2>1, <2>2, <2>3 DEF AfterRun
  <1> QED
    BY <1>2, <1>3

LEMMA AfterRunType == TypeOK => AfterRun \in Seq(Block) \cup {Garbage}
  <1> SUFFICES ASSUME TypeOK PROVE AfterRun \in Seq(Block) \cup {Garbage}
    OBVIOUS
  <1>1. Compress(state, loaded) \in Seq(Block) \cup {Garbage}
    BY CompressType DEF TypeOK
  <1>2. << >> \in Seq(Block)
    OBVIOUS
  <1> QED
    BY <1>1, <1>2, Zenon DEF AfterRun, IV

LEMMA HashBlockInv == IInv /\ HashBlock => IInv'
  <1> SUFFICES ASSUME IInv, HashBlock PROVE IInv'
    OBVIOUS
  <1> DEFINE n == Len(msg)
  <1>1. TypeOK /\ pc = "hash"
    BY DEF IInv, HashBlock
  <1>2. PICK h \in Nat : Progress(h) /\ Behind(h)
    BY <1>1 DEF IInv
  <1>3. /\ msg \in Seq(Byte) /\ n \in Nat /\ Whole(n) \in Nat /\ Total(n) \in Nat
        /\ Whole(n) < Total(n)
    BY <1>1, MessageType, Counts
  <1>4. inlen >= BLOCK /\ inlen \in Nat /\ at \in Nat
    BY <1>1 DEF HashBlock, TypeOK
  <1>5. /\ h < Total(n)
        /\ src = "message" => h < Whole(n)
        /\ loaded' = PaddedBlock(msg, h + 1)
    BY <1>1, <1>2, <1>4, NextBlock DEF HashBlock
  <1>6. state' = Prefix(msg, h)
    BY <1>1, <1>2, <1>3, <1>5, RunCompresses DEF HashBlock
  <1>7. TypeOK'
    <2>1. loaded' \in Block
      BY <1>3, <1>5, BlocksAreBytes, BlockIsNoJunk
    <2>2. state' \in Seq(Block) \cup {Garbage}
      BY <1>1, AfterRunType DEF HashBlock
    <2>3. at' \in Nat /\ inlen' \in Nat
      BY <1>4, ShaSizes DEF HashBlock
    <2>4. Written'
      <3>1. at' + inlen' = at + inlen
        BY <1>4, ShaSizes DEF HashBlock
      <3>2. Written
        BY <1>1 DEF TypeOK, Written
      <3> QED
        BY <1>1, <3>1, <3>2 DEF Written, HashBlock
    <2> QED
      BY <1>1, <2>1, <2>2, <2>3, <2>4 DEF TypeOK, HashBlock, Written
  <1>8. Progress(h + 1)'
    <2>1. CASE src = "message"
      <3>1. h <= Whole(n) /\ at = BLOCK * h /\ inlen = n - at
        BY <1>2, <2>1 DEF Progress
      <3>2. BLOCK * (h + 1) = BLOCK * h + BLOCK /\ BLOCK * h \in Nat
        BY <1>3, <3>1, LoopOfMessage
      <3>3. at' = BLOCK * (h + 1)
        BY <3>1, <3>2 DEF HashBlock
      <3>4. inlen' = n - at'
        BY <1>3, <1>4, <3>1, ShaSizes DEF HashBlock
      <3>5. h + 1 <= Whole(n)
        BY <1>3, <1>5, <2>1
      <3> QED
        BY <2>1, <3>3, <3>4, <3>5 DEF Progress, HashBlock
    <2>2. CASE src = "padded"
      <3>1. /\ Whole(n) <= h /\ h <= Total(n) /\ at = BLOCK * (h - Whole(n))
            /\ inlen = BLOCK * (Total(n) - h)
            /\ padded = PadBuffer(SubSeq(msg, BLOCK * Whole(n) + 1, n), n)
        BY <1>2, <2>2 DEF Progress
      <3>2. BLOCK * ((h + 1) - Whole(n)) = BLOCK * (h - Whole(n)) + BLOCK
        <4>1. h - Whole(n) \in Nat /\ (h + 1) - Whole(n) = (h - Whole(n)) + 1
          BY <1>3, <3>1
        <4> QED
          BY <4>1, ShaSizes
      <3>3. at' = BLOCK * ((h + 1) - Whole(n))
        BY <3>1, <3>2 DEF HashBlock
      <3>4. BLOCK * (Total(n) - h) - BLOCK = BLOCK * (Total(n) - (h + 1))
        BY <1>3, <1>5, LoopOfPadded
      <3>5. inlen' = BLOCK * (Total(n) - (h + 1))
        BY <3>1, <3>4 DEF HashBlock
      <3>6. Whole(n) <= h + 1 /\ h + 1 <= Total(n)
        BY <1>3, <1>5, <3>1
      <3>7. padded' = padded /\ msg' = msg /\ src' = src
        BY DEF HashBlock
      <3> QED
        BY <2>2, <3>1, <3>3, <3>5, <3>6, <3>7 DEF Progress
    <2> QED
      BY <1>1, <2>1, <2>2 DEF TypeOK
  <1>9. Behind(h + 1)'
    <2>1. h + 1 - 1 = h /\ h + 1 > 0
      OBVIOUS
    <2> QED
      BY <1>5, <1>6, <2>1 DEF Behind, HashBlock
  <1>10. pc' = "hash" /\ h + 1 \in Nat
    BY <1>1 DEF HashBlock
  <1> QED
    BY <1>7, <1>8, <1>9, <1>10 DEF IInv

LEMMA PadInv == IInv /\ Pad => IInv'
  <1> SUFFICES ASSUME IInv, Pad PROVE IInv'
    OBVIOUS
  <1> DEFINE n == Len(msg)
  <1>1. TypeOK /\ pc = "hash" /\ src = "message" /\ inlen < BLOCK
    BY DEF IInv, Pad
  <1>2. PICK h \in Nat : Progress(h) /\ Behind(h)
    BY <1>1 DEF IInv
  <1>3. /\ msg \in Seq(Byte) /\ n \in Nat /\ Whole(n) \in Nat /\ Total(n) \in Nat
        /\ Whole(n) < Total(n)
    BY <1>1, MessageType, Counts
  <1>4. h <= Whole(n) /\ at = BLOCK * h /\ inlen = n - at
    BY <1>1, <1>2 DEF Progress
  <1>5. h = Whole(n)
    BY <1>1, <1>3, <1>4, LoopOfMessage
  <1>6. inlen = Rest(n) /\ at = BLOCK * Whole(n) /\ at \in Nat /\ at <= n
    BY <1>3, <1>4, <1>5, WholeAndRest DEF Rest
  <1>7. inlen' = BLOCK * (Total(n) - h)
    BY <1>3, <1>5, <1>6, TotalBlocks DEF Pad
  <1>8. padded' = PadBuffer(SubSeq(msg, BLOCK * Whole(n) + 1, n), n)
    BY <1>6 DEF Pad
  <1>9. at' = BLOCK * (h - Whole(n))
    BY <1>3, <1>5, ShaSizes DEF Pad
  <1>10. TypeOK'
    <2> DEFINE left == SubSeq(msg, at + 1, n)
    <2>1. left \in Seq(Byte) /\ Len(left) < BLOCK /\ Len(left) = inlen
      BY <1>1, <1>3, <1>4, <1>6
    <2> HIDE DEF left
    <2>2. /\ PadBuffer(left, n) \in [1 .. 2 * BLOCK -> Cell]
          /\ \A i \in 1 .. PaddedSize(inlen) : PadBuffer(left, n)[i] \in Byte
      BY <1>3, <2>1, PadBufferType
    <2>3. inlen' \in Nat
      BY ShaSizes DEF Pad, PaddedSize
    <2>4. padded' = PadBuffer(left, n)
      BY DEF Pad, left
    <2>5. at' + inlen' = PaddedSize(inlen)
      BY ShaSizes DEF Pad, PaddedSize
    <2> QED
      BY <1>1, <2>2, <2>3, <2>4, <2>5 DEF TypeOK, Pad
  <1>11. Progress(h)'
    BY <1>3, <1>5, <1>7, <1>8, <1>9 DEF Progress, Pad
  <1>12. Behind(h)'
    BY <1>2 DEF Behind, Pad
  <1> QED
    BY <1>1, <1>10, <1>11, <1>12 DEF IInv, Pad

\* What the last run finds: every block handed over, the last one loaded.
LEMMA AtTheEnd ==
    ASSUME IInv, pc = "hash", src = "padded", inlen < BLOCK
    PROVE  /\ Flushed = Digest(msg)
           /\ at \in Nat /\ BLOCK <= at /\ at <= 2 * BLOCK
  <1> DEFINE n == Len(msg)
             t == Total(n)
  <1>1. TypeOK
    BY DEF IInv
  <1>2. PICK h \in Nat : Progress(h) /\ Behind(h)
    BY DEF IInv
  <1>3. /\ msg \in Seq(Byte) /\ n \in Nat /\ Whole(n) \in Nat /\ t \in Nat
        /\ Whole(n) < t
    BY <1>1, MessageType, Counts
  <1>4. /\ Whole(n) <= h /\ h <= t /\ at = BLOCK * (h - Whole(n))
        /\ inlen = BLOCK * (t - h)
    BY <1>2 DEF Progress
  <1>5. h = t
    BY <1>3, <1>4, LoopOfPadded
  <1>6. AfterRun = Prefix(msg, t)
    BY <1>1, <1>2, <1>3, <1>5, RunCompresses
  <1>7. runInitialized
    BY <1>2, <1>3, <1>5 DEF Behind
  <1>8. Flushed = Digest(msg)
    BY <1>3, <1>6, <1>7, PrefixEnds DEF Flushed, AfterRun
  <1>9. at = PaddedSize(Rest(n))
    BY <1>3, <1>4, <1>5, TotalBlocks
  <1> QED
    BY <1>8, <1>9, ShaSizes DEF PaddedSize

LEMMA FlushInv == IInv /\ Flush => IInv'
  <1> SUFFICES ASSUME IInv, Flush PROVE IInv'
    OBVIOUS
  <1>1. TypeOK
    BY DEF IInv
  <1>2. at \in Nat /\ BLOCK <= at /\ at <= 2 * BLOCK
    BY AtTheEnd DEF Flush
  <1>3. loaded' \in Block
    <2>1. ASSUME NEW i \in 1 .. BLOCK PROVE padded[at - BLOCK + i] \in Cell
      <3>1. at - BLOCK + i \in 1 .. 2 * BLOCK
        BY <1>2, ShaSizes
      <3> QED
        BY <1>1, <3>1 DEF TypeOK
    <2> QED
      BY <2>1 DEF Flush, BlockAt, Block
  <1>4. state' \in Seq(Block) \cup {Garbage}
    BY <1>1, CompressType DEF TypeOK, Flush, Flushed
  <1> QED
    BY <1>1, <1>3, <1>4 DEF TypeOK, Flush, IInv, EndOfRun

LEMMA ForeignRunInv == IInv /\ ForeignRun => IInv'
  <1> SUFFICES ASSUME IInv, ForeignRun PROVE IInv'
    OBVIOUS
  <1>1. TypeOK
    BY DEF IInv
  <1>2. JunkBlock \in Block
    BY JunkIsNoByte DEF JunkBlock, Block
  <1>3. state' \in Seq(Block) \cup {Garbage}
    BY <1>1, CompressType DEF TypeOK, ForeignRun
  <1> QED
    BY <1>1, <1>2, <1>3 DEF TypeOK, ForeignRun, IInv

THEOREM Invariance == Spec => []IInv
  <1>1. Init => IInv
    BY InitInv
  <1>2. IInv /\ [Next]_vars => IInv'
    <2> SUFFICES ASSUME IInv, [Next]_vars PROVE IInv'
      OBVIOUS
    <2>1. CASE Call
      BY <2>1, CallInv
    <2>2. CASE HashBlock
      BY <2>2, HashBlockInv
    <2>3. CASE Pad
      BY <2>3, PadInv
    <2>4. CASE Flush
      BY <2>4, FlushInv
    <2>5. CASE ForeignRun
      BY <2>5, ForeignRunInv
    <2>6. CASE UNCHANGED vars
      BY <2>6 DEF vars, IInv, TypeOK, Progress, Behind
    <2> QED
      BY <2>1, <2>2, <2>3, <2>4, <2>5, <2>6 DEF Next
  <1> QED
    BY <1>1, <1>2, PTL DEF Spec

----------------------------------------------------------------------------
(* The theorems.                                                            *)

\* VersatSHA keeps its types: the state registers hold a chain value and the
\* loaded block a block, junk included, and every byte of the local buffer that
\* is hashed was written before, whatever the length of the message.
THEOREM TypeCorrect == Spec => []TypeOK
  <1>1. IInv => TypeOK
    BY DEF IInv
  <1> QED
    BY <1>1, Invariance, PTL

\* The number of blocks handed over is what OneBehind computes it from.
LEMMA HandedIsProgress ==
    ASSUME TypeOK, NEW h \in Nat, Progress(h)
    PROVE  Handed = h
  <1> DEFINE n == Len(msg)
             q == Whole(n)
  <1>1. n \in Nat /\ q \in Nat
    BY MessageType, Counts
  <1>2. (BLOCK * h) \div BLOCK = h
    <2>1. BLOCK * h + 0 = BLOCK * h /\ 0 < BLOCK
      BY ShaSizes
    <2> QED
      BY <2>1, Division
  <1>3. CASE src = "message"
    BY <1>2, <1>3 DEF Progress, Handed
  <1>4. CASE src = "padded"
    <2>1. at = BLOCK * (h - q) /\ q <= h
      BY <1>4 DEF Progress
    <2>2. BLOCK * q + BLOCK * (h - q) = BLOCK * h
      BY <1>1, <2>1, ShaSizes
    <2>3. BLOCK * q + at = BLOCK * h
      BY <2>1, <2>2
    <2>4. src # "message"
      BY <1>4
    <2>5. Handed = (BLOCK * q + at) \div BLOCK
      BY <2>4, Zenon DEF Handed, Whole
    <2> QED
      BY <1>2, <2>3, <2>5, Zenon
  <1> QED
    BY <1>3, <1>4 DEF TypeOK

\* While a call is in progress the accelerator is exactly one block behind the
\* program: what the state and the loaded block hold together is the padded
\* message up to the last block handed over, whatever ran before the call.
THEOREM OneBlockBehind == Spec => []OneBehind
  <1>1. IInv => OneBehind
    <2> SUFFICES ASSUME IInv, pc = "hash"
                 PROVE  /\ runInitialized <=> Handed > 0
                        /\ Handed > 0 =>
                             Append(state, loaded) = SubSeq(Digest(msg), 1, Handed)
      BY DEF OneBehind
    <2>1. TypeOK
      BY DEF IInv
    <2>2. PICK h \in Nat : Progress(h) /\ Behind(h)
      BY DEF IInv
    <2>3. Handed = h
      BY <2>1, <2>2, HandedIsProgress
    <2>4. msg \in Seq(Byte) /\ Whole(Len(msg)) < Total(Len(msg))
          /\ Whole(Len(msg)) \in Nat /\ Total(Len(msg)) \in Nat
      BY <2>1, MessageType, Counts
    <2>5. h <= Total(Len(msg))
      BY <2>1, <2>2, <2>4 DEF Progress, TypeOK
    <2>6. ASSUME h > 0 PROVE Append(state, loaded) = SubSeq(Digest(msg), 1, h)
      <3> DEFINE g == h - 1
      <3>1. g \in Nat /\ g < Total(Len(msg)) /\ g + 1 = h
        BY <2>4, <2>5, <2>6
      <3>2. state = Prefix(msg, g) /\ loaded = PaddedBlock(msg, h)
        BY <2>2, <2>6 DEF Behind
      <3> HIDE DEF g
      <3>3. Append(Prefix(msg, g), PaddedBlock(msg, g + 1)) = Prefix(msg, g + 1)
        BY <2>4, <3>1, PrefixStep
      <3> QED
        BY <3>1, <3>2, <3>3 DEF Prefix
    <2>7. runInitialized <=> h > 0
      BY <2>2 DEF Behind
    <2> QED
      BY <2>3, <2>6, <2>7
  <1> QED
    BY <1>1, Invariance, PTL

\* Every behaviour of VersatSHA, runs of other algorithms on the accelerator
\* included, is one of a function that returns the digest of its message.
THEOREM Refinement == Spec => ImplementsShaDigest
  <1>1. Init => SD!Init
    BY DEF Init, SD!Init, Garbage, Junk, SD!Garbage, SD!Junk
  <1>2. IInv /\ [Next]_vars => [SD!Next]_(SD!vars)
    <2> SUFFICES ASSUME IInv, [Next]_vars PROVE [SD!Next]_(SD!vars)
      OBVIOUS
    <2>1. CASE Call
      BY <2>1 DEF Call, SD!Next, SD!Call
    <2>2. CASE HashBlock
      BY <2>2 DEF HashBlock, SD!vars
    <2>3. CASE Pad
      BY <2>3 DEF Pad, SD!vars
    <2>4. CASE Flush
      <3>1. out' = Digest(msg)
        BY <2>4, AtTheEnd DEF Flush
      <3>2. SD!Digest(msg) = Digest(msg)
        BY DEF SD!Digest, Digest, SD!PaddedBlock, PaddedBlock, SD!PaddedByte, PaddedByte,
               SD!PaddedLength, PaddedLength, SD!LengthByte, LengthByte, SD!Mark, Mark
      <3> QED
        BY <2>4, <3>1, <3>2 DEF Flush, SD!Next, SD!Return
    <2>5. CASE ForeignRun
      BY <2>5 DEF ForeignRun, SD!vars
    <2>6. CASE UNCHANGED vars
      BY <2>6 DEF vars, SD!vars
    <2> QED
      BY <2>1, <2>2, <2>3, <2>4, <2>5, <2>6 DEF Next
  <1> QED
    BY <1>1, <1>2, Invariance, PTL DEF Spec, ImplementsShaDigest, SD!Spec
============================================================================
