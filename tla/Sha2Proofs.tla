---------------------------- MODULE Sha2Proofs ----------------------------
(***************************************************************************)
(* What is proved of the software SHA-256, for every number of handles and *)
(* places, every block size and every set of messages: however a message   *)
(* is cut, the digest is the one of the message, and the contexts in use   *)
(* are exactly the places that malloc has given out, one each.             *)
(*                                                                         *)
(* The loop over whole blocks is a recursive function with one solution,   *)
(* HashBlocksAppends.  The invariant says of every context in use that it  *)
(* has compressed the whole blocks absorbed so far and has counted their   *)
(* bytes; the padding of the rest then completes the blocks of the digest, *)
(* FinalBlocks.                                                            *)
(***************************************************************************)
EXTENDS Sha2, FiniteSetTheorems, SequenceTheorems, WellFoundedInduction, TLAPS


----------------------------------------------------------------------------
(* Arithmetic of blocks.                                                    *)

LEMMA Division ==
    ASSUME NEW q \in Nat, NEW r \in Nat, r < BLOCK
    PROVE  (BLOCK * q + r) \div BLOCK = q
  BY ShaSizes, Z3

LEMMA Quotient ==
    ASSUME NEW n \in Nat
    PROVE  /\ n \div BLOCK \in Nat
           /\ n - BLOCK * (n \div BLOCK) \in 0 .. BLOCK - 1
  BY ShaSizes, Z3

\* Whole blocks of a message, and the bytes that are left over.
Full(n) == n \div BLOCK
Rest(n) == n - BLOCK * Full(n)
\* Blocks of the padded message.
Total(n) == (n + LENF) \div BLOCK + 1

LEMMA WholeAndRest ==
    ASSUME NEW n \in Nat
    PROVE  /\ Full(n) \in Nat /\ Rest(n) \in Nat /\ Rest(n) < BLOCK
           /\ n = BLOCK * Full(n) + Rest(n)
           /\ BLOCK * Full(n) \in Nat /\ BLOCK * Full(n) <= n
  <1>1. Full(n) \in Nat /\ Rest(n) \in 0 .. BLOCK - 1
    BY Quotient DEF Full, Rest
  <1>2. BLOCK * Full(n) \in Nat
    BY <1>1, ShaSizes
  <1> QED
    BY <1>1, <1>2, ShaSizes DEF Rest

\* The padding takes one block, or two when the length field no longer fits.
LEMMA TotalBlocks ==
    ASSUME NEW n \in Nat
    PROVE  /\ Total(n) = IF OneBlock(Rest(n)) THEN Full(n) + 1 ELSE Full(n) + 2
           /\ PaddedSize(Rest(n)) = BLOCK * (Total(n) - Full(n))
           /\ PaddedLength(n) = BLOCK * Total(n)
  <1> DEFINE q == Full(n)
             r == Rest(n)
  <1>1. q \in Nat /\ r \in Nat /\ r < BLOCK /\ n = BLOCK * q + r /\ BLOCK * q \in Nat
    BY WholeAndRest
  <1> HIDE DEF q, r
  <1>2. CASE OneBlock(r)
    <2>1. r + LENF \in Nat /\ r + LENF < BLOCK
      BY <1>1, <1>2, ShaSizes DEF OneBlock
    <2>2. n + LENF = BLOCK * q + (r + LENF)
      BY <1>1, ShaSizes
    <2>3. (n + LENF) \div BLOCK = q
      BY <1>1, <2>1, <2>2, Division
    <2> QED
      BY <1>1, <1>2, <2>3, ShaSizes DEF Total, PaddedSize, PaddedLength, q, r
  <1>3. CASE ~OneBlock(r)
    <2>1. r + LENF - BLOCK \in Nat /\ r + LENF - BLOCK < BLOCK
      BY <1>1, <1>3, ShaSizes DEF OneBlock
    <2>2. BLOCK * (q + 1) = BLOCK * q + BLOCK
      BY <1>1, ShaSizes
    <2>3. n + LENF = BLOCK * (q + 1) + (r + LENF - BLOCK)
      BY <1>1, <2>2, ShaSizes
    <2>4. (n + LENF) \div BLOCK = q + 1
      BY <1>1, <2>1, <2>3, Division
    <2> QED
      BY <1>1, <1>3, <2>4, ShaSizes DEF Total, PaddedSize, PaddedLength, q, r
  <1> QED
    BY <1>2, <1>3

LEMMA Monotone ==
    ASSUME NEW a \in Nat, NEW b \in Nat, a <= b
    PROVE  BLOCK * a <= BLOCK * b
  BY ShaSizes, Z3

\* A power of two is the number of subsets of a set of as many elements.
LEMMA PowerOfTwo ==
    ASSUME NEW w \in Nat
    PROVE  2^w \in Nat /\ 2^w > 0
  <1>1. IsFiniteSet(1 .. w) /\ Cardinality(1 .. w) = w
    BY FS_Interval
  <1>2. IsFiniteSet(SUBSET (1 .. w)) /\ Cardinality(SUBSET (1 .. w)) = 2^w
    BY <1>1, FS_SUBSET
  <1>3. 2^w \in Nat
    BY <1>2, FS_CardinalityType
  <1>4. 2^w # 0
    BY <1>2, FS_EmptySet
  <1> QED
    BY <1>3, <1>4

LEMMA MarkIsByte == Mark \in Byte
  <1> DEFINE small == SUBSET (1 .. WIDTH - 1)
             large == SUBSET (1 .. WIDTH)
  <1>1. WIDTH \in Nat /\ WIDTH - 1 \in Nat
    BY ShaSizes
  <1>2. /\ IsFiniteSet(1 .. WIDTH - 1) /\ Cardinality(1 .. WIDTH - 1) = WIDTH - 1
        /\ IsFiniteSet(1 .. WIDTH) /\ Cardinality(1 .. WIDTH) = WIDTH
    BY <1>1, FS_Interval
  <1>3. /\ IsFiniteSet(large) /\ Cardinality(large) = 2^WIDTH
        /\ Cardinality(small) = 2^(WIDTH - 1)
    BY <1>2, FS_SUBSET
  <1>4. small \in SUBSET large
    BY <1>1
  <1>5. small # large
    <2>1. 1 .. WIDTH \in large /\ 1 .. WIDTH \notin small
      BY <1>1
    <2> QED
      BY <2>1
  <1>6. Cardinality(small) <= Cardinality(large) /\ Cardinality(small) # Cardinality(large)
    BY <1>3, <1>4, <1>5, FS_Subset
  <1>7. 2^(WIDTH - 1) \in Nat /\ 2^WIDTH \in Nat
    BY <1>1, PowerOfTwo
  <1> QED
    BY <1>3, <1>6, <1>7 DEF Mark, Byte

LEMMA LengthByteIsByte ==
    ASSUME NEW bytes \in Nat, NEW i \in 1 .. LENF
    PROVE  LengthByte(bytes, i) \in Byte
  <1> DEFINE d == 2^(WIDTH * (LENF - i))
             x == (bytes * WIDTH) \div d
  <1>1. WIDTH * (LENF - i) \in Nat
    <2>1. LENF - i \in Nat /\ WIDTH \in Nat
      BY ShaSizes
    <2> QED
      BY <2>1
  <1>2. d \in Nat /\ d > 0
    BY <1>1, PowerOfTwo
  <1>3. bytes * WIDTH \in Nat
    BY ShaSizes
  <1> HIDE DEF d
  <1>4. x \in Int
    BY <1>2, <1>3
  <1> HIDE DEF x
  <1>5. 2^WIDTH \in Nat /\ 2^WIDTH > 0
    BY ShaSizes, PowerOfTwo
  <1>6. x % 2^WIDTH \in 0 .. 2^WIDTH - 1
    BY <1>4, <1>5
  <1> QED
    BY <1>6 DEF LengthByte, Byte, x, d

LEMMA ZeroIsByte == 0 \in Byte
  BY ShaSizes, PowerOfTwo DEF Byte

LEMMA JunkIsNoByte == Junk \notin Byte /\ Junk \in Cell /\ Byte \subseteq Cell
  BY ShaSizes, PowerOfTwo DEF Byte, Junk, Cell

----------------------------------------------------------------------------
(* The blocks of a padded message.                                          *)

LEMMA Counts ==
    ASSUME NEW m \in Seq(Byte)
    PROVE  /\ Len(m) \in Nat
           /\ Full(Len(m)) \in Nat /\ Total(Len(m)) \in Nat
           /\ Full(Len(m)) < Total(Len(m))
  <1>1. Len(m) \in Nat
    OBVIOUS
  <1>2. Full(Len(m)) \in Nat
    BY <1>1, WholeAndRest
  <1> QED
    BY <1>1, <1>2, TotalBlocks

LEMMA PaddedByteIsByte ==
    ASSUME NEW m \in Seq(Byte), NEW i \in Nat, i > 0, i <= BLOCK * Total(Len(m))
    PROVE  PaddedByte(m, i) \in Byte
  <1> DEFINE n == Len(m)
             field == PaddedLength(n) - LENF
  <1>1. n \in Nat /\ Total(n) \in Nat /\ PaddedLength(n) = BLOCK * Total(n)
    BY Counts, TotalBlocks
  <1>2. PaddedLength(n) \in Nat /\ i <= PaddedLength(n)
    BY <1>1, ShaSizes
  <1>3. CASE i <= n
    BY <1>3 DEF PaddedByte
  <1>4. CASE i > n /\ i <= field
    BY <1>1, <1>2, <1>4, MarkIsByte, ZeroIsByte DEF PaddedByte
  <1>5. CASE i = n + 1
    BY <1>1, <1>5, MarkIsByte DEF PaddedByte
  <1>6. CASE i > n + 1 /\ i > field
    <2>1. i - field \in 1 .. LENF
      BY <1>1, <1>2, <1>6, ShaSizes
    <2>2. LengthByte(n, i - field) \in Byte
      BY <1>1, <2>1, LengthByteIsByte
    <2> QED
      BY <1>1, <1>2, <1>6, <2>2, ShaSizes DEF PaddedByte
  <1> QED
    BY <1>1, <1>2, <1>3, <1>4, <1>5, <1>6, ShaSizes

\* Where byte i of block h + 1 is.
LEMMA InBlock ==
    ASSUME NEW h \in Nat, NEW t \in Nat, h < t, NEW i \in 1 .. BLOCK
    PROVE  /\ BLOCK * h \in Nat
           /\ (h + 1 - 1) * BLOCK + i = BLOCK * h + i
           /\ BLOCK * h + i \in Nat /\ BLOCK * h + i > 0
           /\ BLOCK * h + i <= BLOCK * t
  <1>1. BLOCK * h \in Nat /\ BLOCK * (h + 1) = BLOCK * h + BLOCK
    BY ShaSizes
  <1>2. BLOCK * (h + 1) <= BLOCK * t
    BY Monotone
  <1>3. (h + 1 - 1) * BLOCK = BLOCK * h
    BY ShaSizes
  <1>4. BLOCK * t \in Nat
    BY ShaSizes
  <1> QED
    BY <1>1, <1>2, <1>3, <1>4, ShaSizes

LEMMA BlocksAreBytes ==
    ASSUME NEW m \in Seq(Byte), NEW h \in Nat, h < Total(Len(m))
    PROVE  PaddedBlock(m, h + 1) \in [1 .. BLOCK -> Byte]
  <1>1. Total(Len(m)) \in Nat
    BY Counts
  <1>2. ASSUME NEW i \in 1 .. BLOCK
        PROVE  PaddedByte(m, (h + 1 - 1) * BLOCK + i) \in Byte
    BY <1>1, InBlock, PaddedByteIsByte
  <1> QED
    BY <1>2 DEF PaddedBlock

\* A whole block of the message is a block of the padded message.
LEMMA MessageBlock ==
    ASSUME NEW m \in Seq(Byte), NEW h \in Nat, h < Full(Len(m))
    PROVE  BlockAt(m, BLOCK * h) = PaddedBlock(m, h + 1)
  <1>1. Len(m) \in Nat /\ Full(Len(m)) \in Nat /\ BLOCK * Full(Len(m)) <= Len(m)
    BY Counts, WholeAndRest
  <1>2. ASSUME NEW i \in 1 .. BLOCK
        PROVE  m[BLOCK * h + i] = PaddedByte(m, (h + 1 - 1) * BLOCK + i)
    <2>1. /\ (h + 1 - 1) * BLOCK + i = BLOCK * h + i
          /\ BLOCK * h + i \in Nat /\ BLOCK * h + i <= BLOCK * Full(Len(m))
      BY <1>1, InBlock
    <2>2. BLOCK * h + i <= Len(m)
      BY <1>1, <2>1, ShaSizes
    <2> QED
      BY <2>1, <2>2 DEF PaddedByte
  <1> QED
    BY <1>2 DEF BlockAt, PaddedBlock

\* A block of the padded copy of what is left over is one too.
LEMMA PaddingBlock ==
    ASSUME NEW m \in Seq(Byte), NEW j \in Nat,
           Full(Len(m)) + j < Total(Len(m))
    PROVE  BlockAt(PadBuffer(SubSeq(m, BLOCK * Full(Len(m)) + 1, Len(m)), Len(m)),
                   BLOCK * j)
              = PaddedBlock(m, Full(Len(m)) + j + 1)
  <1> DEFINE n == Len(m)
             q == Full(n)
             r == Rest(n)
             left == SubSeq(m, BLOCK * q + 1, n)
             size == PaddedSize(r)
  <1>1. /\ n \in Nat /\ q \in Nat /\ r \in Nat /\ r < BLOCK
        /\ n = BLOCK * q + r /\ BLOCK * q \in Nat
    BY Counts, WholeAndRest
  <1>2. /\ Len(left) = r
        /\ \A y \in 1 .. r : left[y] = m[BLOCK * q + y]
    BY <1>1, SMTT(30)
  <1>3. /\ Total(n) \in Nat
        /\ size = BLOCK * (Total(n) - q)
        /\ PaddedLength(n) = BLOCK * Total(n)
    BY <1>1, Counts, TotalBlocks
  <1>4. PaddedLength(n) = BLOCK * q + size /\ size \in Nat
    <2>1. BLOCK * Total(n) = BLOCK * q + BLOCK * (Total(n) - q)
      BY <1>1, <1>3, ShaSizes
    <2>2. size \in Nat
      BY ShaSizes DEF PaddedSize
    <2> QED
      BY <1>3, <2>1, <2>2
  <1>5. r + 1 <= size - LENF
    BY <1>1, ShaSizes DEF PaddedSize, OneBlock
  <1>6. size <= 2 * BLOCK
    BY ShaSizes DEF PaddedSize
  <1> HIDE DEF n, q, r, left, size
  <1>7. ASSUME NEW i \in 1 .. BLOCK
        PROVE  PadBuffer(left, n)[BLOCK * j + i]
                  = PaddedByte(m, (q + j + 1 - 1) * BLOCK + i)
    <2> DEFINE y == BLOCK * j + i
    <2>1. /\ y \in Nat /\ y > 0 /\ y <= size
          /\ BLOCK * j \in Nat
      <3>1. j < Total(n) - q /\ Total(n) - q \in Nat
        BY <1>1, <1>3, Counts DEF n, q
      <3>2. y <= BLOCK * (Total(n) - q) /\ y \in Nat /\ y > 0 /\ BLOCK * j \in Nat
        BY <3>1, InBlock
      <3> QED
        BY <1>3, <3>2
    <2>2. (q + j + 1 - 1) * BLOCK + i = BLOCK * q + y
      <3>1. (q + j + 1 - 1) * BLOCK = BLOCK * q + BLOCK * j
        BY <1>1, ShaSizes
      <3> QED
        BY <1>1, <2>1, <3>1
    <2> HIDE DEF y
    <2>3. PadBuffer(left, n)[y] = IF y > size - LENF THEN LengthByte(n, y - (size - LENF))
                                  ELSE IF y <= r THEN left[y]
                                  ELSE IF y = r + 1 THEN Mark ELSE 0
      <3>1. y \in 1 .. 2 * BLOCK /\ ~(y > size)
        BY <1>4, <1>6, <2>1, ShaSizes
      <3>2. Len(left) = r
        BY <1>2
      <3>3. PadBuffer(left, n)[y] =
               IF y > PaddedSize(r) THEN Junk
               ELSE IF y > PaddedSize(r) - LENF
                    THEN LengthByte(n, y - (PaddedSize(r) - LENF))
               ELSE IF y <= r THEN left[y]
               ELSE IF y = r + 1 THEN Mark
               ELSE IF y <= LastZero(PaddedSize(r)) THEN 0 ELSE Junk
        BY <3>1, <3>2, Zenon DEF PadBuffer
      <3>4. ~(y > size - LENF) => y <= LastZero(size)
        BY <1>4, <2>1, ShaSizes DEF LastZero
      <3> QED
        BY <3>1, <3>3, <3>4, Zenon DEF size
    <2>4. PaddedByte(m, BLOCK * q + y)
             = IF y <= r THEN m[BLOCK * q + y]
               ELSE IF y = r + 1 THEN Mark
               ELSE IF y <= size - LENF THEN 0
               ELSE LengthByte(n, y - (size - LENF))
      <3>1. PaddedLength(n) - LENF = BLOCK * q + (size - LENF)
        BY <1>1, <1>4, ShaSizes
      <3>2. /\ BLOCK * q + y <= n <=> y <= r
            /\ BLOCK * q + y = n + 1 <=> y = r + 1
            /\ BLOCK * q + y <= PaddedLength(n) - LENF <=> y <= size - LENF
            /\ BLOCK * q + y - (PaddedLength(n) - LENF) = y - (size - LENF)
        BY <1>1, <1>4, <2>1, <3>1, ShaSizes
      <3> DEFINE pos == BLOCK * q + y
                 field == PaddedLength(n) - LENF
      <3>3. PaddedByte(m, pos) = IF pos <= n THEN m[pos]
                                 ELSE IF pos = n + 1 THEN Mark
                                 ELSE IF pos <= field THEN 0
                                 ELSE LengthByte(n, pos - field)
        BY Zenon DEF PaddedByte, n
      <3>4. LengthByte(n, pos - field) = LengthByte(n, y - (size - LENF))
        <4>1. pos - field = y - (size - LENF)
          BY <1>1, <1>4, <2>1, <3>1, ShaSizes
        <4> HIDE DEF pos, field
        <4> QED
          BY <4>1, Zenon
      <3> HIDE DEF pos, field
      <3>5. (pos <= n <=> y <= r) /\ (pos = n + 1 <=> y = r + 1)
            /\ (pos <= field <=> y <= size - LENF)
        BY <3>2 DEF pos, field
      <3>6. PaddedByte(m, pos) = IF y <= r THEN m[pos]
                                 ELSE IF y = r + 1 THEN Mark
                                 ELSE IF y <= size - LENF THEN 0
                                 ELSE LengthByte(n, y - (size - LENF))
        BY <3>3, <3>4, <3>5, Zenon
      <3> QED
        BY <3>6, Zenon DEF pos
    <2>5. y <= r => left[y] = m[BLOCK * q + y]
      BY <1>1, <1>2, <2>1
    <2>6. PadBuffer(left, n)[y] = PaddedByte(m, BLOCK * q + y)
      BY <1>1, <1>4, <1>5, <2>1, <2>3, <2>4, <2>5, ShaSizes
    <2> QED
      BY <2>2, <2>6 DEF y
  <1>8. BlockAt(PadBuffer(left, n), BLOCK * j) = PaddedBlock(m, q + j + 1)
    <2> DEFINE code(i) == PadBuffer(left, n)[BLOCK * j + i]
               spec(i) == PaddedByte(m, (q + j + 1 - 1) * BLOCK + i)
    <2>1. \A i \in 1 .. BLOCK : code(i) = spec(i)
      BY <1>7
    <2> HIDE DEF code, spec
    <2>2. [i \in 1 .. BLOCK |-> code(i)] = [i \in 1 .. BLOCK |-> spec(i)]
      BY <2>1
    <2>3. BlockAt(PadBuffer(left, n), BLOCK * j) = [i \in 1 .. BLOCK |-> code(i)]
      BY DEF BlockAt, code
    <2>4. PaddedBlock(m, q + j + 1) = [i \in 1 .. BLOCK |-> spec(i)]
      BY <1>1, ShaSizes DEF PaddedBlock, spec
    <2> QED
      BY <2>2, <2>3, <2>4
  <1> QED
    BY <1>8, Zenon DEF left, q, n

----------------------------------------------------------------------------
(* The chain value.                                                         *)

LEMMA DigestBlocks ==
    ASSUME NEW m \in Seq(Byte)
    PROVE  /\ Digest(m) \in Seq([1 .. BLOCK -> Byte])
           /\ Len(Digest(m)) = Total(Len(m))
           /\ \A h \in 1 .. Total(Len(m)) : Digest(m)[h] = PaddedBlock(m, h)
  <1>1. Total(Len(m)) \in Nat
    BY Counts
  <1>2. Digest(m) = [n \in 1 .. Total(Len(m)) |-> PaddedBlock(m, n)]
    BY DEF Digest, Total
  <1>3. ASSUME NEW n \in 1 .. Total(Len(m))
        PROVE  PaddedBlock(m, n) \in [1 .. BLOCK -> Byte]
    <2>1. n - 1 \in Nat /\ n - 1 < Total(Len(m)) /\ n - 1 + 1 = n
      BY <1>1
    <2> QED
      BY <2>1, BlocksAreBytes
  <1>4. Digest(m) \in Seq([1 .. BLOCK -> Byte])
    BY <1>1, <1>2, <1>3, IsASeq
  <1> QED
    BY <1>1, <1>2, <1>4

LEMMA BlockIsNoJunk ==
    ASSUME NEW b \in [1 .. BLOCK -> Byte]
    PROVE  ~IsJunk(b) /\ b \in Block
  BY JunkIsNoByte DEF IsJunk, Block

----------------------------------------------------------------------------
(* Whole blocks put into a chain value.                                     *)

ByteBlock == [1 .. BLOCK -> Byte]

\* The whole blocks of a buffer.
Blocks(m) == [n \in 1 .. Full(Len(m)) |-> BlockAt(m, (n - 1) * BLOCK)]

LEMMA Smallest ==
    ASSUME NEW T \in SUBSET Nat, T # {}
    PROVE  \E x \in T : \A y \in T : x <= y
  <1>1. PICK x \in T : \A y \in T : ~(<<y, x>> \in OpToRel(<, Nat))
    BY NatLessThanWellFounded, WFMin
  <1>2. ASSUME NEW y \in T PROVE ~(y < x)
    BY <1>1 DEF OpToRel
  <1> QED
    BY <1>2

LEMMA GarbageIsNoChain ==
    ASSUME NEW c \in Seq(ByteBlock)
    PROVE  c # Garbage
  <1> SUFFICES ASSUME c = Garbage PROVE FALSE
    OBVIOUS
  <1>1. Len(Garbage) = 1 /\ Garbage[1] = <<Junk>>
    BY DEF Garbage
  <1>2. c[1] \in ByteBlock /\ c[1] = <<Junk>>
    BY <1>1
  <1>3. 1 \in 1 .. BLOCK /\ <<Junk>>[1] = Junk
    BY ShaSizes
  <1>4. c[1][1] \in Byte /\ c[1][1] = Junk
    BY <1>2, <1>3 DEF ByteBlock
  <1> QED
    BY <1>4, JunkIsNoByte

\* The step of the loop of crypto_hashblocks_sha256.
NextChain(chain, in, f, n) ==
    IF n = 0 THEN chain ELSE Compress(f[n - 1], BlockAt(in, (n - 1) * BLOCK))

\* k whole blocks of bytes are appended, in order.
LEMMA HashBlocksAppends ==
    ASSUME NEW chain \in Seq(ByteBlock), NEW in, NEW k \in Nat, k = Len(in) \div BLOCK,
           \A n \in 1 .. k : BlockAt(in, (n - 1) * BLOCK) \in ByteBlock
    PROVE  HashBlocks(chain, in) = chain \o [n \in 1 .. k |-> BlockAt(in, (n - 1) * BLOCK)]
  <1> DEFINE b(n) == BlockAt(in, (n - 1) * BLOCK)
             tail(m) == [n \in 1 .. m |-> b(n)]
             D == 0 .. k
             g == [m \in D |-> chain \o tail(m)]
             IsLoop(f) == f = [n \in D |-> NextChain(chain, in, f, n)]
  <1>1. \A m \in D : tail(m) \in Seq(ByteBlock) /\ Len(tail(m)) = m
                     /\ \A n \in 1 .. m : tail(m)[n] = b(n)
    <2> SUFFICES ASSUME NEW m \in D
                 PROVE  tail(m) \in Seq(ByteBlock) /\ Len(tail(m)) = m
                        /\ \A n \in 1 .. m : tail(m)[n] = b(n)
      OBVIOUS
    <2>1. \A n \in 1 .. m : b(n) \in ByteBlock
      <3>1. m \in Nat /\ m <= k
        OBVIOUS
      <3>2. \A n \in 1 .. m : n \in 1 .. k
        BY <3>1
      <3> QED
        BY <3>2
    <2> HIDE DEF b
    <2>2. tail(m) \in Seq(ByteBlock)
      BY <2>1, IsASeq
    <2> QED
      BY <2>2
  <1>2. \A m \in D : m # 0 => /\ m - 1 \in D /\ m \in 1 .. k
                              /\ chain \o tail(m) = Append(chain \o tail(m - 1), b(m))
    <2> SUFFICES ASSUME NEW m \in D, m # 0
                 PROVE  /\ m - 1 \in D /\ m \in 1 .. k
                        /\ chain \o tail(m) = Append(chain \o tail(m - 1), b(m))
      OBVIOUS
    <2>1. m - 1 \in D /\ m \in 1 .. k
      OBVIOUS
    <2> DEFINE s == tail(m)
               t == tail(m - 1)
               x == b(m)
    <2>2. /\ s \in Seq(ByteBlock) /\ Len(s) = m /\ t \in Seq(ByteBlock) /\ Len(t) = m - 1
          /\ s[m] = x /\ \A n \in 1 .. m - 1 : s[n] = t[n]
      BY <1>1, <2>1
    <2>3. x \in ByteBlock
      BY <2>1
    <2> HIDE DEF s, t, x, b
    <2>4. s = Append(t, x)
      BY <2>2, <2>3
    <2>5. chain \o Append(t, x) = Append(chain \o t, x)
      BY <2>2, <2>3
    <2>6. chain \o s = Append(chain \o t, x)
      BY <2>4, <2>5
    <2>7. chain \o tail(m) = Append(chain \o tail(m - 1), b(m))
      BY <2>6, Zenon DEF s, t, x
    <2> QED
      BY <2>1, <2>7, Zenon
  <1>3. \A m \in D : chain \o tail(m) \in Seq(ByteBlock)
    <2> SUFFICES ASSUME NEW m \in D PROVE chain \o tail(m) \in Seq(ByteBlock)
      OBVIOUS
    <2> DEFINE t == tail(m)
    <2>1. t \in Seq(ByteBlock)
      BY <1>1
    <2> HIDE DEF t
    <2>2. chain \o t \in Seq(ByteBlock)
      BY <2>1
    <2> QED
      BY <2>2, Zenon DEF t
  <1>4. ASSUME NEW m \in D PROVE g[m] = NextChain(chain, in, g, m)
    <2>1. CASE m = 0
      <3> DEFINE t == tail(0)
      <3>1. t \in Seq(ByteBlock) /\ Len(t) = 0
        BY <1>1
      <3> HIDE DEF t
      <3>2. t = << >>
        BY <3>1
      <3>3. chain \o t = chain
        BY <3>2
      <3>4. g[0] = chain \o t
        BY DEF t
      <3> QED
        BY <2>1, <3>3, <3>4 DEF NextChain
    <2>2. CASE m # 0
      <3> DEFINE c == chain \o tail(m - 1)
                 x == b(m)
      <3>1. m - 1 \in D /\ m \in 1 .. k
        BY <2>2
      <3>2. c \in Seq(ByteBlock) /\ x \in ByteBlock
        BY <1>3, <3>1
      <3>3. g[m - 1] = c /\ g[m] = Append(c, x)
        <4>1. g[m - 1] = c
          BY <3>1
        <4>2. g[m] = chain \o tail(m)
          OBVIOUS
        <4> QED
          BY <1>2, <2>2, <4>1, <4>2
      <3>4. NextChain(chain, in, g, m) = Compress(g[m - 1], x)
        BY <2>2, Zenon DEF NextChain
      <3> HIDE DEF c, x, g
      <3>5. Compress(c, x) = Append(c, x)
        BY <3>2, GarbageIsNoChain, BlockIsNoJunk DEF Compress, ByteBlock
      <3> QED
        BY <3>3, <3>4, <3>5
    <2> QED
      BY <2>1, <2>2
  <1>5. IsLoop(g)
    <2>1. g = [m \in D |-> g[m]]
      OBVIOUS
    <2> HIDE DEF g
    <2> QED
      BY <1>4, <2>1
  <1>6. ASSUME NEW f, IsLoop(f) PROVE f[k] = g[k]
    <2> DEFINE T == {m \in D : f[m] # g[m]}
    <2> HIDE DEF g
    <2>1. ASSUME T # {} PROVE FALSE
      <3> T \in SUBSET Nat
        OBVIOUS
      <3>1. PICK x \in T : \A y \in T : x <= y
        BY <2>1, Smallest
      <3>2. x \in D /\ f[x] # g[x]
        OBVIOUS
      <3>3. \A y \in D : f[y] = NextChain(chain, in, f, y)
        BY <1>6
      <3>4. x # 0 => f[x - 1] = g[x - 1]
        BY <3>1
      <3>5. NextChain(chain, in, f, x) = NextChain(chain, in, g, x)
        BY <3>4, Zenon DEF NextChain
      <3> QED
        BY <1>4, <3>2, <3>3, <3>5
    <2> QED
      BY <2>1
  <1>7. HashBlocks(chain, in) = g[k]
    <2> DEFINE f == CHOOSE f : IsLoop(f)
    <2>1. HashBlocks(chain, in) = f[k]
      BY Zenon DEF HashBlocks, NextChain
    <2>2. IsLoop(f)
      <3> HIDE DEF g, IsLoop
      <3> QED
        BY <1>5
    <2> HIDE DEF f, g
    <2>3. f[k] = g[k]
      BY <1>6, <2>2
    <2> QED
      BY <2>1, <2>3
  <1> QED
    BY <1>7
----------------------------------------------------------------------------
(* The heap.                                                                *)

\* HeapExact counts; this is the bijection behind it.
OnePlaceEach ==
    /\ ctx \in [Handle -> Place \cup {NoPlace}]
    /\ free \subseteq Place
    /\ \A h \in Handle : InUse(h) => ctx[h] \notin free
    /\ \A g, h \in Handle : InUse(g) /\ ctx[g] = ctx[h] => g = h
    /\ \A p \in Place \ free : \E h \in Handle : ctx[h] = p

LEMMA InitInv == Init => OnePlaceEach
  BY DEF Init, OnePlaceEach, InUse

\* A context that is allocated, for a handle that is not in use.
LEMMA AllocateKeeps ==
    ASSUME OnePlaceEach, NEW h \in Handle, ~InUse(h), NEW contents, Allocate(h, contents)
    PROVE  OnePlaceEach'
  <1>1. PICK p \in free : ctx' = [ctx EXCEPT ![h] = p] /\ free' = free \ {p}
    BY DEF Allocate
  <1>2. p \in Place /\ p # NoPlace /\ ctx[h] = NoPlace
    BY ShaHeap DEF OnePlaceEach, InUse
  <1>3. ctx' \in [Handle -> Place \cup {NoPlace}] /\ free' \subseteq Place
    BY <1>1, <1>2 DEF OnePlaceEach
  <1>4. \A g \in Handle : ctx'[g] = IF g = h THEN p ELSE ctx[g]
    BY <1>1 DEF OnePlaceEach
  <1>5. \A g \in Handle : ctx[g] # p
    BY <1>2 DEF OnePlaceEach, InUse
  <1>6. \A g \in Handle : ctx'[g] # NoPlace => ctx'[g] \notin free'
    BY <1>1, <1>4 DEF OnePlaceEach, InUse
  <1>7. \A f, g \in Handle : ctx'[f] # NoPlace /\ ctx'[f] = ctx'[g] => f = g
    BY <1>4, <1>5 DEF OnePlaceEach, InUse
  <1>8. ASSUME NEW q \in Place \ free' PROVE \E g \in Handle : ctx'[g] = q
    <2>1. CASE q = p
      BY <1>4, <2>1
    <2>2. CASE q # p
      <3>1. PICK g \in Handle : ctx[g] = q
        BY <1>1, <2>2 DEF OnePlaceEach
      <3>2. g # h
        BY <1>2, <3>1, ShaHeap
      <3> QED
        BY <1>4, <3>1, <3>2
    <2> QED
      BY <2>1, <2>2
  <1> QED
    BY <1>3, <1>6, <1>7, <1>8 DEF OnePlaceEach, InUse

\* A context that is given back.
LEMMA ReleaseKeeps ==
    ASSUME OnePlaceEach, NEW h \in Handle, InUse(h),
           free' = Released(h), ctx' = [ctx EXCEPT ![h] = NoPlace]
    PROVE  OnePlaceEach'
  <1>1. ctx[h] \in Place /\ free' = free \cup {ctx[h]}
    BY DEF OnePlaceEach, InUse, Released
  <1>2. ctx' \in [Handle -> Place \cup {NoPlace}] /\ free' \subseteq Place
    BY <1>1 DEF OnePlaceEach
  <1>3. \A g \in Handle : ctx'[g] = IF g = h THEN NoPlace ELSE ctx[g]
    BY DEF OnePlaceEach
  <1>4. \A g \in Handle : ctx'[g] # NoPlace => ctx'[g] \notin free'
    BY <1>1, <1>3 DEF OnePlaceEach, InUse
  <1>5. \A f, g \in Handle : ctx'[f] # NoPlace /\ ctx'[f] = ctx'[g] => f = g
    BY <1>3 DEF OnePlaceEach, InUse
  <1>6. ASSUME NEW q \in Place \ free' PROVE \E g \in Handle : ctx'[g] = q
    <2>1. q # ctx[h] /\ q \in Place \ free
      BY <1>1
    <2>2. PICK g \in Handle : ctx[g] = q
      BY <2>1 DEF OnePlaceEach
    <2> QED
      BY <1>3, <2>1, <2>2
  <1> QED
    BY <1>2, <1>4, <1>5, <1>6 DEF OnePlaceEach, InUse

LEMMA StepInv == OnePlaceEach /\ [Next]_vars => OnePlaceEach'
  <1> SUFFICES ASSUME OnePlaceEach, [Next]_vars PROVE OnePlaceEach'
    OBVIOUS
  <1>1. CASE UNCHANGED <<ctx, free>>
    BY <1>1 DEF OnePlaceEach, InUse
  <1>2. CASE Exhausted
    BY <1>1, <1>2 DEF Exhausted
  <1>3. ASSUME NEW h \in Handle, IncInit(h) PROVE OnePlaceEach'
    BY <1>3, AllocateKeeps DEF IncInit
  <1>4. ASSUME NEW h \in Handle, IncCtxRelease(h) PROVE OnePlaceEach'
    BY <1>4, ReleaseKeeps DEF IncCtxRelease
  <1>5. ASSUME NEW out \in Handle, NEW in \in Handle, IncCtxClone(out, in) PROVE OnePlaceEach'
    BY <1>5, AllocateKeeps DEF IncCtxClone
  <1>6. ASSUME NEW h \in Handle, NEW in \in Messages, IncBlocks(h, in) PROVE OnePlaceEach'
    BY <1>1, <1>6 DEF IncBlocks
  <1>7. ASSUME NEW h \in Handle, NEW in \in Messages, IncFinalize(h, in) PROVE OnePlaceEach'
    BY <1>7, ReleaseKeeps DEF IncFinalize
  <1> QED
    BY <1>1, <1>2, <1>3, <1>4, <1>5, <1>6, <1>7 DEF Next, vars

LEMMA PlacesCounted ==
    ASSUME OnePlaceEach
    PROVE  HeapExact
  <1> SUFFICES ASSUME NEW p \in Place
               PROVE  Cardinality({h \in Handle : ctx[h] = p}) = IF p \in free THEN 0 ELSE 1
    BY DEF HeapExact
  <1>1. p # NoPlace
    BY ShaHeap
  <1>2. CASE p \in free
    <2>1. {h \in Handle : ctx[h] = p} = {}
      BY <1>1, <1>2 DEF OnePlaceEach, InUse
    <2> QED
      BY <1>2, <2>1, FS_EmptySet
  <1>3. CASE p \notin free
    <2>1. PICK h \in Handle : ctx[h] = p
      BY <1>3 DEF OnePlaceEach
    <2>2. {g \in Handle : ctx[g] = p} = {h}
      BY <1>1, <2>1 DEF OnePlaceEach, InUse
    <2> QED
      BY <1>3, <2>2, FS_Singleton
  <1> QED
    BY <1>2, <1>3

\* Every place is free or the context of exactly one handle, for every number of both:
\* finalize and release free what init and clone allocated, once.
THEOREM HeapPartitioned == Spec => []HeapExact
  <1>1. Init => OnePlaceEach
    BY InitInv
  <1>2. OnePlaceEach /\ [Next]_vars => OnePlaceEach'
    BY StepInv
  <1>3. OnePlaceEach => HeapExact
    BY PlacesCounted
  <1> QED
    BY <1>1, <1>2, <1>3, PTL DEF Spec

----------------------------------------------------------------------------
(* A message that is cut behind a whole block.                              *)

LEMMA Concatenation ==
    ASSUME NEW S, NEW s \in Seq(S), NEW t \in Seq(S)
    PROVE  /\ s \o t \in Seq(S) /\ Len(s \o t) = Len(s) + Len(t)
           /\ \A j \in 1 .. Len(s) : (s \o t)[j] = s[j]
           /\ \A j \in 1 .. Len(t) : (s \o t)[Len(s) + j] = t[j]
  <1>1. s \o t \in Seq(S) /\ Len(s \o t) = Len(s) + Len(t)
    OBVIOUS
  <1>2. \A j \in 1 .. Len(s) : (s \o t)[j] = s[j]
    OBVIOUS
  <1>3. \A j \in 1 .. Len(t) : (s \o t)[Len(s) + j] = t[j]
    OBVIOUS
  <1> QED
    BY <1>1, <1>2, <1>3

LEMMA SameElements ==
    ASSUME NEW S, NEW s \in Seq(S), NEW t \in Seq(S), Len(s) = Len(t),
           \A j \in 1 .. Len(s) : s[j] = t[j]
    PROVE  s = t
  OBVIOUS

LEMMA Slice ==
    ASSUME NEW S, NEW s \in Seq(S), NEW u \in Nat, NEW w \in Nat, u <= w, w <= Len(s)
    PROVE  /\ SubSeq(s, u + 1, w) \in Seq(S)
           /\ Len(SubSeq(s, u + 1, w)) = w - u
           /\ \A j \in 1 .. w - u : SubSeq(s, u + 1, w)[j] = s[u + j]
  <1>1. Len(SubSeq(s, u + 1, w)) = w - u
    OBVIOUS
  <1>2. \A j \in 1 .. w - u : SubSeq(s, u + 1, w)[j] = s[u + j]
    OBVIOUS
  <1>3. SubSeq(s, u + 1, w) \in Seq(S)
    BY SubSeqProperties
  <1> QED
    BY <1>1, <1>2, <1>3

LEMMA Remainder ==
    ASSUME NEW n \in Nat
    PROVE  n % BLOCK = Rest(n)
  <1>1. n % BLOCK = n - BLOCK * (n \div BLOCK)
    BY ShaSizes, Z3
  <1> QED
    BY <1>1 DEF Rest, Full

LEMMA FullAdds ==
    ASSUME NEW a \in Nat, NEW i \in Nat, a % BLOCK = 0
    PROVE  /\ a = BLOCK * Full(a)
           /\ Full(a + i) = Full(a) + Full(i)
           /\ Rest(a + i) = Rest(i)
           /\ (a + i) % BLOCK = i % BLOCK
  <1> DEFINE q == Full(a)
             p == Full(i)
             r == Rest(i)
  <1>1. /\ q \in Nat /\ p \in Nat /\ r \in Nat /\ r < BLOCK
        /\ a = BLOCK * q + Rest(a) /\ i = BLOCK * p + r
    BY WholeAndRest
  <1>2. Rest(a) = 0
    BY Remainder
  <1> HIDE DEF q, p, r
  <1>3. a = BLOCK * q
    <2>1. BLOCK * q \in Nat
      BY <1>1, ShaSizes
    <2> QED
      BY <1>1, <1>2, <2>1
  <1>4. a + i = BLOCK * (q + p) + r
    <2>1. BLOCK * (q + p) = BLOCK * q + BLOCK * p
      BY <1>1, ShaSizes, Z3
    <2>2. BLOCK * q \in Nat /\ BLOCK * p \in Nat
      BY <1>1, ShaSizes
    <2> QED
      BY <1>1, <1>3, <2>1, <2>2
  <1>5. (a + i) \div BLOCK = q + p
    BY <1>1, <1>4, Division
  <1>6. Full(a + i) = q + p
    BY <1>5 DEF Full
  <1>7. Rest(a + i) = r
    <2>1. BLOCK * (q + p) \in Nat
      BY <1>1, ShaSizes
    <2> QED
      BY <1>1, <1>4, <1>6, <2>1 DEF Rest
  <1>8. (a + i) % BLOCK = i % BLOCK
    BY <1>7, Remainder DEF r
  <1> QED
    BY <1>3, <1>6, <1>7, <1>8 DEF q, p, r

LEMMA WholeBlock ==
    ASSUME NEW m \in Seq(Byte), NEW n \in 1 .. Full(Len(m))
    PROVE  /\ BlockAt(m, (n - 1) * BLOCK) \in ByteBlock
           /\ BlockAt(m, (n - 1) * BLOCK) = PaddedBlock(m, n)
  <1>1. /\ Len(m) \in Nat /\ Full(Len(m)) \in Nat
        /\ Total(Len(m)) \in Nat /\ Full(Len(m)) < Total(Len(m))
    BY Counts
  <1> DEFINE h == n - 1
  <1>2. h \in Nat /\ h < Full(Len(m)) /\ h < Total(Len(m)) /\ h + 1 = n
    BY <1>1
  <1>3. (n - 1) * BLOCK = BLOCK * h
    BY <1>2, ShaSizes
  <1> HIDE DEF h
  <1>4. BlockAt(m, BLOCK * h) = PaddedBlock(m, h + 1)
    BY <1>2, MessageBlock
  <1>5. PaddedBlock(m, h + 1) \in [1 .. BLOCK -> Byte]
    BY <1>2, BlocksAreBytes
  <1> QED
    BY <1>2, <1>3, <1>4, <1>5 DEF ByteBlock

LEMMA BlocksOfMessage ==
    ASSUME NEW m \in Seq(Byte)
    PROVE  /\ Blocks(m) \in Seq(ByteBlock)
           /\ Len(Blocks(m)) = Full(Len(m))
           /\ \A n \in 1 .. Full(Len(m)) : Blocks(m)[n] = BlockAt(m, (n - 1) * BLOCK)
  <1> DEFINE b(n) == BlockAt(m, (n - 1) * BLOCK)
             k == Full(Len(m))
  <1>1. k \in Nat
    BY Counts
  <1>2. \A n \in 1 .. k : b(n) \in ByteBlock
    BY WholeBlock
  <1>3. Blocks(m) = [n \in 1 .. k |-> b(n)]
    BY DEF Blocks
  <1> HIDE DEF b, k
  <1>4. [n \in 1 .. k |-> b(n)] \in Seq(ByteBlock)
    BY <1>1, <1>2, IsASeq
  <1>5. Len([n \in 1 .. k |-> b(n)]) = k
    BY <1>1, <1>4
  <1> QED
    BY <1>3, <1>4, <1>5 DEF b, k

\* crypto_hashblocks_sha256 compresses the whole blocks of its input.
LEMMA HashWhole ==
    ASSUME NEW chain \in Seq(ByteBlock), NEW in \in Seq(Byte)
    PROVE  HashBlocks(chain, in) = chain \o Blocks(in)
  <1>1. Full(Len(in)) \in Nat /\ Full(Len(in)) = Len(in) \div BLOCK
    BY Counts DEF Full
  <1>2. \A n \in 1 .. Full(Len(in)) : BlockAt(in, (n - 1) * BLOCK) \in ByteBlock
    BY WholeBlock
  <1> QED
    BY <1>1, <1>2, HashBlocksAppends DEF Blocks

LEMMA BlocksOfConcat ==
    ASSUME NEW a \in Seq(Byte), NEW in \in Seq(Byte), Len(a) % BLOCK = 0
    PROVE  Blocks(a \o in) = Blocks(a) \o Blocks(in)
  <1> DEFINE m == a \o in
             q == Full(Len(a))
             p == Full(Len(in))
             whole == Blocks(m)
             first == Blocks(a)
             second == Blocks(in)
  <1>1. /\ m \in Seq(Byte) /\ Len(m) = Len(a) + Len(in)
        /\ Len(a) \in Nat /\ Len(in) \in Nat
        /\ \A j \in 1 .. Len(a) : m[j] = a[j]
        /\ \A j \in 1 .. Len(in) : m[Len(a) + j] = in[j]
    BY Concatenation
  <1>2. q \in Nat /\ p \in Nat /\ Len(a) = BLOCK * q /\ Full(Len(m)) = q + p
    BY <1>1, FullAdds, Counts
  <1>3. BLOCK * p \in Nat /\ BLOCK * p <= Len(in)
    BY <1>1, WholeAndRest
  <1>4. /\ whole \in Seq(ByteBlock) /\ Len(whole) = q + p
        /\ \A n \in 1 .. q + p : whole[n] = BlockAt(m, (n - 1) * BLOCK)
    BY <1>1, <1>2, BlocksOfMessage
  <1>5. /\ first \in Seq(ByteBlock) /\ Len(first) = q
        /\ \A n \in 1 .. q : first[n] = BlockAt(a, (n - 1) * BLOCK)
    BY BlocksOfMessage
  <1>6. /\ second \in Seq(ByteBlock) /\ Len(second) = p
        /\ \A n \in 1 .. p : second[n] = BlockAt(in, (n - 1) * BLOCK)
    BY BlocksOfMessage
  <1> HIDE DEF m, q, p, whole, first, second
  <1>7. ASSUME NEW n \in 1 .. q
        PROVE  BlockAt(m, (n - 1) * BLOCK) = BlockAt(a, (n - 1) * BLOCK)
    <2>1. ASSUME NEW i \in 1 .. BLOCK
          PROVE  m[(n - 1) * BLOCK + i] = a[(n - 1) * BLOCK + i]
      <3>1. (n - 1) * BLOCK + i \in Nat /\ (n - 1) * BLOCK + i > 0
            /\ (n - 1) * BLOCK + i <= BLOCK * q
        <4>1. n - 1 \in Nat /\ n - 1 < q /\ (n - 1) * BLOCK = BLOCK * (n - 1)
          BY <1>2, ShaSizes
        <4> QED
          BY <4>1, <1>2, InBlock
      <3> QED
        BY <1>1, <1>2, <3>1
    <2> QED
      BY <2>1 DEF BlockAt
  <1>8. ASSUME NEW n \in 1 .. p
        PROVE  BlockAt(m, (q + n - 1) * BLOCK) = BlockAt(in, (n - 1) * BLOCK)
    <2>1. ASSUME NEW i \in 1 .. BLOCK
          PROVE  m[(q + n - 1) * BLOCK + i] = in[(n - 1) * BLOCK + i]
      <3> DEFINE o == (n - 1) * BLOCK + i
      <3>1. o \in Nat /\ o > 0 /\ o <= BLOCK * p
        <4>1. n - 1 \in Nat /\ n - 1 < p /\ (n - 1) * BLOCK = BLOCK * (n - 1)
          BY <1>2, ShaSizes
        <4> QED
          BY <4>1, <1>2, InBlock
      <3>2. (q + n - 1) * BLOCK + i = Len(a) + o
        <4>1. (q + n - 1) * BLOCK = BLOCK * q + (n - 1) * BLOCK
          BY <1>2, ShaSizes, Z3
        <4>2. BLOCK * q \in Nat /\ (n - 1) * BLOCK \in Nat
          BY <1>2, ShaSizes
        <4> QED
          BY <4>1, <4>2, <1>2
      <3> HIDE DEF o
      <3>3. o \in 1 .. Len(in)
        BY <1>1, <1>3, <3>1
      <3>4. m[Len(a) + o] = in[o]
        BY <1>1, <3>3
      <3> QED
        BY <3>2, <3>4 DEF o
    <2> QED
      BY <2>1 DEF BlockAt
  <1> DEFINE both == first \o second
  <1>9. /\ both \in Seq(ByteBlock) /\ Len(both) = q + p
        /\ \A n \in 1 .. q : both[n] = first[n]
        /\ \A n \in 1 .. p : both[q + n] = second[n]
    BY <1>2, <1>5, <1>6, Concatenation, SMTT(30)
  <1> HIDE DEF both
  <1>10. ASSUME NEW n \in 1 .. q + p PROVE whole[n] = both[n]
    <2>1. CASE n \in 1 .. q
      BY <1>4, <1>5, <1>7, <1>9, <2>1
    <2>2. CASE n \notin 1 .. q
      <3> DEFINE j == n - q
      <3>1. j \in 1 .. p /\ n = q + j
        BY <1>2, <2>2
      <3> HIDE DEF j
      <3>2. both[n] = BlockAt(in, (j - 1) * BLOCK)
        BY <1>6, <1>9, <3>1
      <3>3. whole[n] = BlockAt(m, (q + j - 1) * BLOCK)
        <4>1. whole[n] = BlockAt(m, (n - 1) * BLOCK)
          BY <1>4
        <4>2. n - 1 = q + j - 1
          BY <1>2, <3>1
        <4> QED
          BY <4>1, <4>2
      <3> QED
        BY <1>8, <3>1, <3>2, <3>3
    <2> QED
      BY <2>1, <2>2
  <1>11. whole = both
    BY <1>2, <1>4, <1>9, <1>10, SameElements
  <1> QED
    BY <1>11, Zenon DEF whole, both, first, second, m

----------------------------------------------------------------------------
(* The blocks that sha256_inc_finalize pads.                                *)

\* The bytes left over are the same for the last input and the whole message.
LEMMA SameRest ==
    ASSUME NEW a \in Seq(Byte), NEW in \in Seq(Byte), Len(a) % BLOCK = 0
    PROVE  SubSeq(in, Len(in) - (Len(in) % BLOCK) + 1, Len(in))
              = SubSeq(a \o in, BLOCK * Full(Len(a \o in)) + 1, Len(a \o in))
  <1> DEFINE m == a \o in
             q == Full(Len(a))
             p == Full(Len(in))
             s == SubSeq(in, BLOCK * p + 1, Len(in))
             t == SubSeq(m, BLOCK * (q + p) + 1, Len(m))
  <1>1. /\ m \in Seq(Byte) /\ Len(m) = Len(a) + Len(in)
        /\ Len(a) \in Nat /\ Len(in) \in Nat
        /\ \A j \in 1 .. Len(in) : m[Len(a) + j] = in[j]
    BY Concatenation
  <1>2. q \in Nat /\ p \in Nat /\ Len(a) = BLOCK * q /\ Full(Len(m)) = q + p
    BY <1>1, FullAdds, Counts
  <1>3. BLOCK * p \in Nat /\ BLOCK * p <= Len(in)
    BY <1>1, WholeAndRest
  <1>4. Len(in) - (Len(in) % BLOCK) = BLOCK * p
    <2>1. Len(in) % BLOCK = Len(in) - BLOCK * p
      BY <1>1, Remainder DEF Rest
    <2> HIDE DEF p
    <2> QED
      BY <1>1, <1>3, <2>1
  <1> DEFINE u == BLOCK * p
             l == Len(in)
             c == Len(a)
  <1>5. BLOCK * (q + p) = c + u
    <2> HIDE DEF q, p
    <2>1. BLOCK * (q + p) = BLOCK * q + BLOCK * p
      BY <1>2, ShaSizes, Z3
    <2> QED
      BY <1>2, <2>1
  <1> HIDE DEF m, q, p, u, l, c
  <1>6. u \in Nat /\ l \in Nat /\ c \in Nat /\ u <= l /\ Len(m) = c + l
    BY <1>1, <1>3 DEF u, l, c
  <1>7. \A j \in 1 .. l : m[c + j] = in[j]
    BY <1>1 DEF l, c
  <1>8. s = SubSeq(in, u + 1, l) /\ t = SubSeq(m, c + u + 1, c + l)
    BY <1>5, <1>6 DEF u, l
  <1>9. /\ s \in Seq(Byte) /\ Len(s) = l - u
        /\ \A j \in 1 .. l - u : s[j] = in[u + j]
    <2> HIDE DEF s
    <2> QED
      BY <1>6, <1>8, Slice DEF l
  <1>10. /\ t \in Seq(Byte) /\ Len(t) = l - u
         /\ \A j \in 1 .. l - u : t[j] = m[c + u + j]
    <2>1. c + u \in Nat /\ c + l \in Nat /\ c + u <= c + l /\ c + l - (c + u) = l - u
      BY <1>6
    <2> HIDE DEF t
    <2> QED
      BY <1>1, <1>6, <1>8, <2>1, Slice
  <1>11. \A j \in 1 .. l - u : in[u + j] = m[c + u + j]
    <2> TAKE j \in 1 .. l - u
    <2>1. u + j \in 1 .. l /\ c + (u + j) = c + u + j
      BY <1>6
    <2> QED
      BY <1>7, <2>1
  <1>12. s = t
    <2> HIDE DEF s, t
    <2> QED
      BY <1>6, <1>9, <1>10, <1>11, SameElements
  <1> QED
    BY <1>2, <1>4, <1>12 DEF m, q, p

\* The end of a message is left to sha256_inc_finalize, which pads it: the blocks
\* that are compressed from the padded buffer complete those of the digest.
LEMMA FinalBlocks ==
    ASSUME NEW m \in Seq(Byte),
           NEW left, left = SubSeq(m, BLOCK * Full(Len(m)) + 1, Len(m)),
           NEW last, last = SubSeq(PadBuffer(left, Len(m)), 1, PaddedSize(Len(left)))
    PROVE  HashBlocks(Blocks(m), last) = Digest(m)
  <1> DEFINE n == Len(m)
             q == Full(n)
             k == Total(n) - q
             buffer == PadBuffer(left, n)
             b(j) == BlockAt(last, (j - 1) * BLOCK)
             tail == [j \in 1 .. k |-> b(j)]
             pad(j) == PaddedBlock(m, j)
             digest == Digest(m)
             whole == Blocks(m)
  <1>1. /\ n \in Nat /\ q \in Nat /\ Total(n) \in Nat /\ q < Total(n)
        /\ k \in Nat /\ k > 0 /\ q + k = Total(n)
    BY Counts
  <1>2. /\ BLOCK * q \in Nat /\ BLOCK * q <= n /\ n = BLOCK * q + Rest(n) /\ Rest(n) \in Nat
    BY <1>1, WholeAndRest
  <1>3. Len(left) = Rest(n)
    <2> DEFINE u == BLOCK * q
               r == Rest(n)
    <2>1. u \in Nat /\ r \in Nat /\ n = u + r
      BY <1>2
    <2>2. left = SubSeq(m, u + 1, n)
      OBVIOUS
    <2> HIDE DEF u, r
    <2>3. u <= n /\ n <= Len(m) /\ n - u = r
      BY <2>1
    <2> HIDE DEF n
    <2>5. Len(SubSeq(m, u + 1, n)) = n - u
      BY <1>1, <2>1, <2>3, Slice
    <2>4. Len(left) = r
      BY <2>2, <2>3, <2>5
    <2> QED
      BY <2>4 DEF r
  <1>4. PaddedSize(Len(left)) = BLOCK * k /\ BLOCK * k \in Nat /\ k <= 2
    <2>1. /\ PaddedSize(Rest(n)) = BLOCK * (Total(n) - Full(n))
          /\ Total(n) = IF OneBlock(Rest(n)) THEN Full(n) + 1 ELSE Full(n) + 2
      BY <1>1, TotalBlocks
    <2>2. k <= 2
      <3> HIDE DEF n
      <3> QED
        BY <1>1, <2>1
    <2>3. BLOCK * k \in Nat
      <3> HIDE DEF k
      <3> QED
        BY <1>1, ShaSizes
    <2>4. PaddedSize(Len(left)) = BLOCK * k
      BY <1>3, <2>1
    <2> QED
      BY <2>2, <2>3, <2>4
  <1>5. BLOCK * k <= 2 * BLOCK
    <2>1. BLOCK * k <= BLOCK * 2
      BY <1>1, <1>4, Monotone
    <2> HIDE DEF k
    <2> QED
      BY <2>1, ShaSizes
  <1>6. /\ Len(last) = BLOCK * k
        /\ \A i \in 1 .. BLOCK * k : last[i] = buffer[i]
    <2> DEFINE size == BLOCK * k
               width == 2 * BLOCK
    <2>1. size \in Nat /\ width \in Nat /\ size <= width
      BY <1>4, <1>5, ShaSizes
    <2>2. DOMAIN buffer = 1 .. width
      BY DEF PadBuffer
    <2>3. last = SubSeq(buffer, 1, size)
      BY <1>4
    <2> DEFINE values == {buffer[i] : i \in 1 .. width}
    <2>6. buffer = [i \in 1 .. width |-> buffer[i]]
      BY DEF PadBuffer
    <2> HIDE DEF size, width, buffer
    <2>7. buffer \in [1 .. width -> values]
      BY <2>6
    <2> HIDE DEF values
    <2>8. buffer \in Seq(values) /\ Len(buffer) = width
      BY <2>1, <2>7
    <2>9. /\ Len(SubSeq(buffer, 0 + 1, size)) = size - 0
          /\ \A i \in 1 .. size - 0 : SubSeq(buffer, 0 + 1, size)[i] = buffer[0 + i]
      BY <2>1, <2>8, Slice
    <2>10. SubSeq(buffer, 0 + 1, size) = SubSeq(buffer, 1, size)
      OBVIOUS
    <2>11. size - 0 = size /\ \A i \in 1 .. size : 0 + i = i
      BY <2>1
    <2> DEFINE part == SubSeq(buffer, 0 + 1, size)
    <2>12. last = part
      BY <2>3, <2>10
    <2>13. /\ Len(part) = size - 0
           /\ \A i \in 1 .. size - 0 : part[i] = buffer[0 + i]
      BY <2>9
    <2> HIDE DEF part
    <2>14. Len(part) = size
      BY <2>11, <2>13
    <2>15. \A i \in 1 .. size : part[i] = buffer[i]
      BY <2>11, <2>13
    <2>4. \A i \in 1 .. size : last[i] = buffer[i]
      BY <2>12, <2>15, Zenon
    <2>5. Len(last) = size
      BY <2>12, <2>14, Zenon
    <2> QED
      BY <2>4, <2>5 DEF size
  <1>7. ASSUME NEW j \in 1 .. k
        PROVE  b(j) = pad(q + j)
    <2> DEFINE i == j - 1
    <2>1. i \in Nat /\ i < k /\ q + i < Total(n) /\ q + i + 1 = q + j
      BY <1>1
    <2>2. (j - 1) * BLOCK = BLOCK * i
      BY <2>1, ShaSizes
    <2> HIDE DEF i
    <2>3. BlockAt(buffer, BLOCK * i) = PaddedBlock(m, q + i + 1)
      BY <2>1, PaddingBlock
    <2>4. ASSUME NEW o \in 1 .. BLOCK PROVE last[BLOCK * i + o] = buffer[BLOCK * i + o]
      <3>1. BLOCK * i + o \in Nat /\ BLOCK * i + o > 0 /\ BLOCK * i + o <= BLOCK * k
        BY <1>1, <2>1, InBlock
      <3> HIDE DEF buffer, k
      <3>2. BLOCK * i + o \in 1 .. BLOCK * k
        BY <1>4, <3>1
      <3> QED
        BY <1>6, <3>2
    <2>5. BlockAt(last, BLOCK * i) = BlockAt(buffer, BLOCK * i)
      BY <2>4 DEF BlockAt
    <2> QED
      BY <2>1, <2>2, <2>3, <2>5
  <1>8. \A j \in 1 .. k : pad(q + j) \in ByteBlock
    <2> TAKE j \in 1 .. k
    <2> DEFINE h == q + j - 1
    <2>1. h \in Nat /\ h < Total(n) /\ h + 1 = q + j
      BY <1>1, SMTT(30)
    <2> HIDE DEF h
    <2> QED
      BY <2>1, BlocksAreBytes DEF ByteBlock
  <1>9. k = Len(last) \div BLOCK
    <2> HIDE DEF k
    <2>1. (BLOCK * k + 0) \div BLOCK = k
      BY <1>1, ShaSizes, Division
    <2>2. BLOCK * k + 0 = BLOCK * k
      BY <1>4
    <2> QED
      BY <1>6, <2>1, <2>2
  <1>10. HashBlocks(whole, last) = whole \o tail
    <2>1. whole \in Seq(ByteBlock)
      BY BlocksOfMessage
    <2>2. \A j \in 1 .. k : BlockAt(last, (j - 1) * BLOCK) \in ByteBlock
      BY <1>7, <1>8
    <2>3. tail = [j \in 1 .. k |-> BlockAt(last, (j - 1) * BLOCK)]
      OBVIOUS
    <2>4. k \in Nat
      BY <1>1
    <2> HIDE DEF whole, k, tail, b
    <2>5. HashBlocks(whole, last) = whole \o [j \in 1 .. k |-> BlockAt(last, (j - 1) * BLOCK)]
      BY ONLY <1>9, <2>1, <2>2, <2>4, HashBlocksAppends
    <2> QED
      BY <2>3, <2>5
  <1>11. /\ whole \in Seq(ByteBlock) /\ Len(whole) = q
         /\ \A j \in 1 .. q : whole[j] = pad(j)
    BY BlocksOfMessage, WholeBlock
  <1>12. /\ tail \in Seq(ByteBlock) /\ Len(tail) = k
         /\ \A j \in 1 .. k : tail[j] = pad(q + j)
    <2>1. \A j \in 1 .. k : b(j) \in ByteBlock
      BY <1>7, <1>8
    <2>2. tail \in Seq(ByteBlock)
      <3> HIDE DEF b, k
      <3> QED
        BY <1>1, <2>1, IsASeq
    <2>3. Len(tail) = k
      <3> HIDE DEF b, k
      <3> QED
        BY <1>1, <2>2
    <2>4. \A j \in 1 .. k : tail[j] = b(j)
      <3> HIDE DEF b, k
      <3> QED
        OBVIOUS
    <2> HIDE DEF tail, b, pad
    <2> QED
      BY <1>7, <2>2, <2>3, <2>4
  <1>13. /\ digest \in Seq(ByteBlock) /\ Len(digest) = q + k
         /\ \A j \in 1 .. q + k : digest[j] = pad(j)
    BY <1>1, DigestBlocks DEF ByteBlock
  <1> DEFINE both == whole \o tail
  <1> HIDE DEF whole, tail, digest, pad, b, k, q, buffer, n
  <1>14. /\ both \in Seq(ByteBlock) /\ Len(both) = q + k
         /\ \A j \in 1 .. q : both[j] = whole[j]
         /\ \A j \in 1 .. k : both[q + j] = tail[j]
    <2>1. /\ both \in Seq(ByteBlock) /\ Len(both) = Len(whole) + Len(tail)
          /\ \A j \in 1 .. Len(whole) : both[j] = whole[j]
          /\ \A j \in 1 .. Len(tail) : both[Len(whole) + j] = tail[j]
      <3>1. whole \in Seq(ByteBlock) /\ tail \in Seq(ByteBlock)
        BY <1>11, <1>12
      <3>2. both \in Seq(ByteBlock)
        BY <3>1
      <3>3. Len(both) = Len(whole) + Len(tail)
        BY <3>1
      <3>4. \A j \in 1 .. Len(whole) : both[j] = whole[j]
        BY <3>1
      <3>5. \A j \in 1 .. Len(tail) : both[Len(whole) + j] = tail[j]
        BY <3>1
      <3> QED
        BY <3>2, <3>3, <3>4, <3>5
    <2> HIDE DEF both
    <2> QED
      BY <1>1, <1>11, <1>12, <2>1
  <1> HIDE DEF both
  <1>15. ASSUME NEW j \in 1 .. q + k PROVE both[j] = digest[j]
    <2>1. CASE j \in 1 .. q
      BY <1>11, <1>13, <1>14, <2>1
    <2>2. CASE j \notin 1 .. q
      <3>1. PICK i \in 1 .. k : j = q + i
        <4>1. j - q \in 1 .. k /\ j = q + (j - q)
          BY <1>1, <2>2
        <4> QED
          BY <4>1
      <3> QED
        BY <1>12, <1>13, <1>14, <3>1
    <2> QED
      BY <2>1, <2>2
  <1>16. both = digest
    BY <1>1, <1>13, <1>14, <1>15, SameElements
  <1> QED
    BY <1>10, <1>16 DEF both, whole, tail, digest

----------------------------------------------------------------------------
(* What a context in use holds.                                             *)

\* The whole blocks absorbed so far, compressed in order, and their bytes.
ContextsExact ==
    \A h \in Handle : InUse(h) =>
        /\ Whole(absorbed[h])
        /\ heap[ctx[h]] = [chain |-> Blocks(absorbed[h]), bytes |-> Len(absorbed[h])]

IInv ==
    /\ OnePlaceEach
    /\ TypeOK
    /\ ContextsExact
    /\ FinalizeGivesDigest

LEMMA ByteBlocksAreBlocks ==
    ASSUME NEW c \in Seq(ByteBlock)
    PROVE  c \in Seq(Block) \cup {Garbage}
  <1>1. ByteBlock \subseteq Block
    BY JunkIsNoByte DEF ByteBlock, Block
  <1>2. \A n \in 1 .. Len(c) : c[n] \in Block
    BY <1>1
  <1>3. c \in Seq(Block)
    BY <1>2, IsASeq
  <1> QED
    BY <1>3

LEMMA ContextOfMessage ==
    ASSUME NEW a \in Seq(Byte)
    PROVE  [chain |-> Blocks(a), bytes |-> Len(a)] \in Context
  <1>1. Blocks(a) \in Seq(Block) \cup {Garbage}
    BY BlocksOfMessage, ByteBlocksAreBlocks
  <1>2. Len(a) \in Nat
    OBVIOUS
  <1> QED
    BY <1>1, <1>2 DEF Context

LEMMA InitExact == Init => IInv
  <1> SUFFICES ASSUME Init PROVE IInv
    OBVIOUS
  <1>1. OnePlaceEach
    BY InitInv
  <1>2. TypeOK
    <2>1. << >> \in Seq(Byte)
      OBVIOUS
    <2>2. Digest(<< >>) \in Seq([1 .. BLOCK -> Byte])
      BY <2>1, DigestBlocks
    <2>3. [chain |-> Garbage, bytes |-> 0] \in Context
      BY DEF Context
    <2>4. digests \in Seq(Byte) \X Seq([1 .. BLOCK -> Byte])
      BY <2>1, <2>2 DEF Init
    <2>5. heap \in [Place -> Context]
      BY <2>3 DEF Init
    <2>6. absorbed \in [Handle -> Seq(Byte)]
      BY <2>1 DEF Init
    <2> QED
      BY <2>4, <2>5, <2>6 DEF Init, TypeOK
  <1>3. ContextsExact
    BY DEF Init, ContextsExact, InUse
  <1>4. FinalizeGivesDigest
    BY DEF Init, FinalizeGivesDigest
  <1> QED
    BY <1>1, <1>2, <1>3, <1>4 DEF IInv

\* A context that is allocated for what has been put into another, or for nothing.
LEMMA AllocateExact ==
    ASSUME IInv, NEW h \in Handle, ~InUse(h), NEW a \in Seq(Byte), Whole(a),
           Allocate(h, [chain |-> Blocks(a), bytes |-> Len(a)]),
           absorbed' = [absorbed EXCEPT ![h] = a],
           UNCHANGED <<exited, digests>>
    PROVE  IInv'
  <1> DEFINE contents == [chain |-> Blocks(a), bytes |-> Len(a)]
  <1>1. contents \in Context
    BY ContextOfMessage
  <1>2. OnePlaceEach'
    <2>1. Allocate(h, contents)
      OBVIOUS
    <2> HIDE DEF contents
    <2> QED
      BY <2>1, AllocateKeeps DEF IInv
  <1>3. PICK p \in free : /\ ctx' = [ctx EXCEPT ![h] = p]
                          /\ heap' = [heap EXCEPT ![p] = contents]
                          /\ free' = free \ {p}
    BY DEF Allocate
  <1> HIDE DEF contents
  <1>4. p \in Place /\ \A g \in Handle : InUse(g) => ctx[g] # p
    BY DEF IInv, OnePlaceEach
  <1>5. TypeOK'
    <2>1. heap' \in [Place -> Context]
      BY <1>1, <1>3 DEF IInv, TypeOK
    <2>2. absorbed' \in [Handle -> Seq(Byte)]
      BY DEF IInv, TypeOK
    <2> QED
      BY <1>2, <2>1, <2>2 DEF IInv, TypeOK, OnePlaceEach
  <1>6. \A g \in Handle : /\ ctx'[g] = IF g = h THEN p ELSE ctx[g]
                          /\ absorbed'[g] = IF g = h THEN a ELSE absorbed[g]
    BY <1>3 DEF IInv, TypeOK
  <1>7. \A q \in Place : heap'[q] = IF q = p THEN contents ELSE heap[q]
    BY <1>3 DEF IInv, TypeOK
  <1>8. ASSUME NEW g \in Handle, ctx'[g] # NoPlace
        PROVE  /\ Whole(absorbed'[g])
               /\ heap'[ctx'[g]] = [chain |-> Blocks(absorbed'[g]), bytes |-> Len(absorbed'[g])]
    <2>1. CASE g = h
      <3>1. ctx'[g] = p /\ absorbed'[g] = a /\ heap'[p] = contents
        BY <1>4, <1>6, <1>7, <2>1
      <3> QED
        BY <3>1, Zenon DEF contents
    <2>2. CASE g # h
      <3>1. ctx'[g] = ctx[g] /\ absorbed'[g] = absorbed[g] /\ InUse(g)
        BY <1>6, <1>8, <2>2 DEF InUse
      <3>2. ctx[g] \in Place /\ heap'[ctx[g]] = heap[ctx[g]]
        BY <1>4, <1>7, <3>1 DEF IInv, TypeOK, InUse
      <3>3. /\ Whole(absorbed[g])
            /\ heap[ctx[g]] = [chain |-> Blocks(absorbed[g]), bytes |-> Len(absorbed[g])]
        BY <3>1 DEF IInv, ContextsExact
      <3> QED
        BY <3>1, <3>2, <3>3, Zenon
    <2> QED
      BY <2>1, <2>2
  <1>9. ContextsExact'
    BY <1>8 DEF ContextsExact, InUse, Whole
  <1>10. FinalizeGivesDigest'
    BY DEF IInv, FinalizeGivesDigest
  <1> QED
    BY <1>2, <1>5, <1>9, <1>10 DEF IInv

\* A context that is given back: what the others hold has not changed.
LEMMA ReleaseExact ==
    ASSUME IInv, NEW h \in Handle, InUse(h), free' = Released(h),
           ctx' = [ctx EXCEPT ![h] = NoPlace], UNCHANGED <<exited, absorbed>>,
           heap' \in [Place -> Context],
           \A p \in Place : p # ctx[h] => heap'[p] = heap[p],
           digests' \in Seq(Byte) \X Seq([1 .. BLOCK -> Byte]),
           FinalizeGivesDigest'
    PROVE  IInv'
  <1>1. OnePlaceEach'
    BY ReleaseKeeps DEF IInv
  <1>2. TypeOK'
    BY <1>1 DEF IInv, TypeOK, OnePlaceEach
  <1>3. \A g \in Handle : ctx'[g] = IF g = h THEN NoPlace ELSE ctx[g]
    BY DEF IInv, TypeOK
  <1>4. ASSUME NEW g \in Handle, ctx'[g] # NoPlace
        PROVE  /\ Whole(absorbed'[g])
               /\ heap'[ctx'[g]] = [chain |-> Blocks(absorbed'[g]), bytes |-> Len(absorbed'[g])]
    <2>1. g # h /\ ctx'[g] = ctx[g] /\ absorbed'[g] = absorbed[g] /\ InUse(g)
      BY <1>3, <1>4 DEF InUse
    <2>2. ctx[g] \in Place /\ ctx[g] # ctx[h]
      BY <2>1 DEF IInv, OnePlaceEach, InUse
    <2>3. heap'[ctx[g]] = heap[ctx[g]]
      BY <2>2
    <2>4. /\ Whole(absorbed[g])
          /\ heap[ctx[g]] = [chain |-> Blocks(absorbed[g]), bytes |-> Len(absorbed[g])]
      BY <2>1 DEF IInv, ContextsExact
    <2> QED
      BY <2>1, <2>3, <2>4, Zenon
  <1>5. ContextsExact'
    BY <1>4 DEF ContextsExact, InUse, Whole
  <1> QED
    BY <1>1, <1>2, <1>5 DEF IInv

\* sha256_inc_blocks: the new blocks follow the old ones.
LEMMA BlocksExact ==
    ASSUME IInv, NEW h \in Handle, NEW in \in Messages, Whole(in), IncBlocks(h, in)
    PROVE  IInv'
  <1> DEFINE a == absorbed[h]
             p == ctx[h]
             m == a \o in
             contents == [chain |-> Blocks(m), bytes |-> Len(m)]
  <1>1. InUse(h) /\ p \in Place
    BY DEF IncBlocks, IInv, TypeOK, InUse
  <1>2. a \in Seq(Byte) /\ in \in Seq(Byte)
    BY MessagesAreBytes DEF IInv, TypeOK
  <1>3. Whole(a) /\ heap[p] = [chain |-> Blocks(a), bytes |-> Len(a)]
    BY <1>1 DEF IInv, ContextsExact
  <1>4. heap' = [heap EXCEPT ![p] =
                    [chain |-> HashBlocks(heap[p].chain, in),
                     bytes |-> Counted(heap[p].bytes, Len(in))]]
    BY DEF IncBlocks
  <1>5. absorbed' = [absorbed EXCEPT ![h] = m] /\ UNCHANGED <<ctx, free, exited, digests>>
    BY DEF IncBlocks
  <1> HIDE DEF a, p
  <1>6. m \in Seq(Byte) /\ Len(m) = Len(a) + Len(in) /\ Whole(m)
    <2>1. m \in Seq(Byte) /\ Len(m) = Len(a) + Len(in) /\ Len(a) \in Nat /\ Len(in) \in Nat
      BY <1>2, Concatenation
    <2>2. (Len(a) + Len(in)) % BLOCK = Len(in) % BLOCK
      BY <1>3, <2>1, FullAdds DEF Whole
    <2> QED
      BY <2>1, <2>2 DEF Whole
  <1>7. [chain |-> HashBlocks(heap[p].chain, in), bytes |-> Counted(heap[p].bytes, Len(in))]
            = contents
    <2>1. heap[p].chain = Blocks(a) /\ heap[p].bytes = Len(a)
      BY <1>3
    <2>2. HashBlocks(Blocks(a), in) = Blocks(a) \o Blocks(in)
      BY <1>2, BlocksOfMessage, HashWhole
    <2>3. Blocks(m) = Blocks(a) \o Blocks(in)
      BY <1>2, <1>3, BlocksOfConcat DEF Whole
    <2>4. Counted(Len(a), Len(in)) = Len(m)
      BY <1>6 DEF Counted
    <2> QED
      BY <2>1, <2>2, <2>3, <2>4
  <1>8. contents \in Context
    BY <1>6, ContextOfMessage
  <1> HIDE DEF m, contents
  <1>9. \A q \in Place : heap'[q] = IF q = p THEN contents ELSE heap[q]
    BY <1>4, <1>7 DEF IInv, TypeOK
  <1>10. \A g \in Handle : absorbed'[g] = IF g = h THEN m ELSE absorbed[g]
    BY <1>5 DEF IInv, TypeOK
  <1>11. OnePlaceEach'
    BY <1>5 DEF IInv, OnePlaceEach, InUse
  <1>12. TypeOK'
    <2>1. heap' \in [Place -> Context]
      BY <1>4, <1>7, <1>8 DEF IInv, TypeOK
    <2>2. absorbed' \in [Handle -> Seq(Byte)]
      BY <1>5, <1>6 DEF IInv, TypeOK
    <2> QED
      BY <1>5, <2>1, <2>2 DEF IInv, TypeOK
  <1>13. ASSUME NEW g \in Handle, ctx[g] # NoPlace
         PROVE  /\ Whole(absorbed'[g])
                /\ heap'[ctx[g]] = [chain |-> Blocks(absorbed'[g]), bytes |-> Len(absorbed'[g])]
    <2>1. CASE g = h
      <3>1. ctx[g] = p /\ absorbed'[g] = m /\ heap'[p] = contents
        BY <1>1, <1>9, <1>10, <2>1 DEF p
      <3> QED
        BY <1>6, <3>1, Zenon DEF contents
    <2>2. CASE g # h
      <3>1. absorbed'[g] = absorbed[g] /\ InUse(g)
        BY <1>10, <1>13, <2>2 DEF InUse
      <3>2. ctx[g] \in Place /\ ctx[g] # p
        BY <2>2, <3>1 DEF IInv, OnePlaceEach, InUse, p
      <3>3. heap'[ctx[g]] = heap[ctx[g]]
        BY <1>9, <3>2
      <3>4. /\ Whole(absorbed[g])
            /\ heap[ctx[g]] = [chain |-> Blocks(absorbed[g]), bytes |-> Len(absorbed[g])]
        BY <3>1 DEF IInv, ContextsExact
      <3> QED
        BY <3>1, <3>3, <3>4, Zenon
    <2> QED
      BY <2>1, <2>2
  <1>14. ContextsExact'
    BY <1>5, <1>13 DEF ContextsExact, InUse, Whole
  <1>15. FinalizeGivesDigest'
    BY <1>5 DEF IInv, FinalizeGivesDigest
  <1> QED
    BY <1>11, <1>12, <1>14, <1>15 DEF IInv

\* sha256_inc_finalize: the digest is the one of everything put into the context.
LEMMA FinalizeExact ==
    ASSUME IInv, NEW h \in Handle, NEW in \in Messages, IncFinalize(h, in)
    PROVE  IInv'
  <1> DEFINE a == absorbed[h]
             p == ctx[h]
             c == heap[p]
             m == a \o in
             left == SubSeq(in, Len(in) - (Len(in) % BLOCK) + 1, Len(in))
             last(n) == SubSeq(PadBuffer(left, n), 1, PaddedSize(Len(left)))
             end == HashBlocks(HashBlocks(c.chain, in), last(c.bytes + Len(in)))
  <1>1. InUse(h) /\ p \in Place
    BY DEF IncFinalize, IInv, TypeOK, InUse
  <1>2. a \in Seq(Byte) /\ in \in Seq(Byte)
    BY MessagesAreBytes DEF IInv, TypeOK
  <1>3. Len(a) % BLOCK = 0 /\ c = [chain |-> Blocks(a), bytes |-> Len(a)]
    BY <1>1 DEF IInv, ContextsExact, Whole
  <1>4. heap' = [heap EXCEPT ![p].chain = end] /\ digests' = <<m, end>>
    BY DEF IncFinalize
  <1>5. m \in Seq(Byte) /\ Len(m) = Len(a) + Len(in)
    BY <1>2, Concatenation
  <1>6. end = Digest(m)
    <2>1. c.chain = Blocks(a) /\ c.bytes + Len(in) = Len(m)
      BY <1>3, <1>5
    <2>2. HashBlocks(Blocks(a), in) = Blocks(a) \o Blocks(in)
      BY <1>2, BlocksOfMessage, HashWhole
    <2>3. Blocks(m) = Blocks(a) \o Blocks(in)
      BY <1>2, <1>3, BlocksOfConcat
    <2>4. end = HashBlocks(Blocks(m), last(Len(m)))
      <3> HIDE DEF c, m
      <3> QED
        BY <2>1, <2>2, <2>3, Zenon
    <2>5. left = SubSeq(m, BLOCK * Full(Len(m)) + 1, Len(m))
      BY <1>2, <1>3, SameRest
    <2>6. last(Len(m)) = SubSeq(PadBuffer(left, Len(m)), 1, PaddedSize(Len(left)))
      OBVIOUS
    <2> HIDE DEF left, last, m, end
    <2>7. HashBlocks(Blocks(m), last(Len(m))) = Digest(m)
      BY <1>5, <2>5, <2>6, FinalBlocks
    <2> QED
      BY <2>4, <2>7
  <1>7. /\ Digest(m) \in Seq([1 .. BLOCK -> Byte])
        /\ Digest(m) \in Seq(Block) \cup {Garbage}
    BY <1>5, DigestBlocks, ByteBlocksAreBlocks DEF ByteBlock
  <1> HIDE DEF a, p, c, m, left, last, end
  <1>8. heap' \in [Place -> Context] /\ \A q \in Place : q # p => heap'[q] = heap[q]
    <2>1. end \in Seq(Block) \cup {Garbage}
      BY <1>6, <1>7
    <2>2. heap \in [Place -> Context]
      BY DEF IInv, TypeOK
    <2>3. heap' \in [Place -> Context]
      BY <1>4, <2>1, <2>2 DEF Context
    <2> QED
      BY <1>4, <2>2, <2>3
  <1>9. digests' \in Seq(Byte) \X Seq([1 .. BLOCK -> Byte])
    BY <1>4, <1>5, <1>6, <1>7
  <1>10. FinalizeGivesDigest'
    BY <1>4, <1>6 DEF FinalizeGivesDigest
  <1>11. /\ free' = Released(h) /\ ctx' = [ctx EXCEPT ![h] = NoPlace]
         /\ UNCHANGED <<exited, absorbed>>
    BY DEF IncFinalize
  <1> QED
    BY <1>1, <1>8, <1>9, <1>10, <1>11, ReleaseExact DEF p

LEMMA StepExact == IInv /\ [Next]_vars => IInv'
  <1> SUFFICES ASSUME IInv, [Next]_vars PROVE IInv'
    OBVIOUS
  <1>1. CASE UNCHANGED <<ctx, heap, free, absorbed, digests>> /\ exited' \in BOOLEAN
    BY <1>1 DEF IInv, OnePlaceEach, TypeOK, ContextsExact, FinalizeGivesDigest, InUse
  <1>2. CASE Exhausted
    BY <1>1, <1>2 DEF Exhausted
  <1>3. ASSUME NEW h \in Handle, IncInit(h) PROVE IInv'
    <2> DEFINE a == << >>
    <2>1. a \in Seq(Byte) /\ Len(a) = 0
      OBVIOUS
    <2>2. 0 % BLOCK = 0
      BY ShaSizes, Z3
    <2>3. Blocks(a) = IV
      <3>1. Full(0) = 0
        BY ShaSizes, Division DEF Full
      <3>2. Blocks(a) \in Seq(ByteBlock) /\ Len(Blocks(a)) = 0
        BY <2>1, <3>1, BlocksOfMessage
      <3> HIDE DEF a
      <3> QED
        BY <3>2 DEF IV
    <2>4. Allocate(h, [chain |-> Blocks(a), bytes |-> Len(a)])
      BY <1>3, <2>1, <2>3, Zenon DEF IncInit
    <2>5. /\ ~InUse(h) /\ UNCHANGED <<exited, digests>>
          /\ absorbed' = [absorbed EXCEPT ![h] = a]
      BY <1>3 DEF IncInit
    <2>6. Whole(a)
      BY <2>1, <2>2 DEF Whole
    <2> HIDE DEF a
    <2> QED
      BY <2>1, <2>4, <2>5, <2>6, AllocateExact
  <1>4. ASSUME NEW h \in Handle, IncCtxRelease(h) PROVE IInv'
    <2>1. /\ InUse(h) /\ free' = Released(h) /\ ctx' = [ctx EXCEPT ![h] = NoPlace]
          /\ UNCHANGED <<exited, absorbed, heap, digests>>
      BY <1>4 DEF IncCtxRelease
    <2>2. /\ heap' \in [Place -> Context]
          /\ digests' \in Seq(Byte) \X Seq([1 .. BLOCK -> Byte])
          /\ FinalizeGivesDigest'
      BY <2>1 DEF IInv, TypeOK, FinalizeGivesDigest
    <2> QED
      BY <2>1, <2>2, ReleaseExact
  <1>5. ASSUME NEW out \in Handle, NEW in \in Handle, IncCtxClone(out, in) PROVE IInv'
    <2> DEFINE a == absorbed[in]
    <2>1. a \in Seq(Byte)
      BY DEF IInv, TypeOK
    <2>2. Whole(a) /\ heap[ctx[in]] = [chain |-> Blocks(a), bytes |-> Len(a)]
      BY <1>5 DEF IInv, ContextsExact, IncCtxClone
    <2>3. Allocate(out, [chain |-> Blocks(a), bytes |-> Len(a)])
      BY <1>5, <2>2, Zenon DEF IncCtxClone
    <2>4. /\ ~InUse(out) /\ UNCHANGED <<exited, digests>>
          /\ absorbed' = [absorbed EXCEPT ![out] = a]
      BY <1>5 DEF IncCtxClone
    <2> HIDE DEF a
    <2> QED
      BY <2>1, <2>2, <2>3, <2>4, AllocateExact
  <1>6. ASSUME NEW h \in Handle, NEW in \in Messages, Whole(in), IncBlocks(h, in) PROVE IInv'
    BY <1>6, BlocksExact
  <1>7. ASSUME NEW h \in Handle, NEW in \in Messages, IncFinalize(h, in) PROVE IInv'
    BY <1>7, FinalizeExact
  <1>8. CASE UNCHANGED vars
    BY <1>1, <1>8 DEF vars, IInv, TypeOK
  <1> QED
    BY <1>2, <1>3, <1>4, <1>5, <1>6, <1>7, <1>8 DEF Next

\* Every state of the contexts is as the invariant says.
THEOREM Invariance == Spec => []IInv
  <1>1. Init => IInv
    BY InitExact
  <1>2. IInv /\ [Next]_vars => IInv'
    BY StepExact
  <1> QED
    BY <1>1, <1>2, PTL DEF Spec

\* Pointers, contexts and digests have their types: in particular every byte that went
\* into a digest was written, to the message or to the local buffer padded.
THEOREM TypeCorrect == Spec => []TypeOK
  <1>1. IInv => TypeOK
    BY DEF IInv
  <1> QED
    BY <1>1, Invariance, PTL

\* However a message is cut into whole blocks and a rest, and whatever is done in between
\* to clones and to other contexts, sha256_inc_finalize returns the digest of the message:
\* the padding of the rest, in one block or two, is the end of the padded message.
THEOREM DigestExact == Spec => []FinalizeGivesDigest
  <1>1. IInv => FinalizeGivesDigest
    BY DEF IInv
  <1> QED
    BY <1>1, Invariance, PTL
============================================================================
