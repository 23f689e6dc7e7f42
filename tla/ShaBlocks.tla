----------------------------- MODULE ShaBlocks -----------------------------
(***************************************************************************)
(* What the two SHA-256 implementations of the firmware compute on: bytes, *)
(* blocks, chain values and the padding of the last block.                 *)
(*                                                                         *)
(* The compression function is left uninterpreted: a chain value is the    *)
(* sequence of blocks compressed into the initial value.  Two chain values *)
(* are equal when the same blocks went in, in the same order.              *)
(***************************************************************************)
EXTENDS Naturals, Sequences

CONSTANTS
    WIDTH,      \* bits of a byte (8)
    BLOCK,      \* bytes of a block (64)
    LENF,       \* bytes of the length field (8)
    Messages    \* the messages that may be hashed

Byte == 0 .. 2^WIDTH - 1

ASSUME ShaSizes == WIDTH \in Nat \ {0} /\ LENF \in Nat \ {0} /\ BLOCK \in Nat /\ LENF < BLOCK
ASSUME MessagesAreBytes == Messages \subseteq Seq(Byte)

Mark == 2^(WIDTH - 1)       \* 0x80
Junk == 2^WIDTH             \* what memory nobody has written holds: no byte

Cell == Byte \cup {Junk}
Block == [1 .. BLOCK -> Cell]
JunkBlock == [i \in 1 .. BLOCK |-> Junk]

\* The block that starts at offset n of a buffer.
BlockAt(s, n) == [i \in 1 .. BLOCK |-> s[n + i]]

----------------------------------------------------------------------------
(* Chain values. *)

IV == << >>                 \* initialStateValues, iv_256
Garbage == << <<Junk>> >>   \* a state in which junk was compressed
IsJunk(b) == \E i \in DOMAIN b : b[i] = Junk

Compress(chain, b) == IF chain = Garbage \/ IsJunk(b) THEN Garbage ELSE Append(chain, b)

----------------------------------------------------------------------------
(* The length field, big endian and in bits: (uint8_t)(bytes >> 53), ... .  *)

LengthByte(bytes, i) == ((bytes * WIDTH) \div 2^(WIDTH * (LENF - i))) % 2^WIDTH

(***************************************************************************)
(* The digest of a message: its blocks after padding with a mark, as few   *)
(* zeros as fill the last block, and the length.                           *)
(***************************************************************************)
PaddedLength(n) == BLOCK * ((n + LENF) \div BLOCK + 1)
PaddedByte(m, i) ==
    LET field == PaddedLength(Len(m)) - LENF
    IN IF i <= Len(m) THEN m[i]
       ELSE IF i = Len(m) + 1 THEN Mark
       ELSE IF i <= field THEN 0
       ELSE LengthByte(Len(m), i - field)

PaddedBlock(m, n) == [i \in 1 .. BLOCK |-> PaddedByte(m, (n - 1) * BLOCK + i)]
Digest(m) == [n \in 1 .. (Len(m) + LENF) \div BLOCK + 1 |-> PaddedBlock(m, n)]

(***************************************************************************)
(* uint8_t padded[128] as the code fills it: the bytes left over, the mark *)
(* at padded[inlen], zeros up to the length field of the first block or,   *)
(* when that is already taken, of the second.                              *)
(***************************************************************************)
OneBlock(left) == left < BLOCK - LENF

PaddedSize(left) == IF OneBlock(left) THEN BLOCK ELSE 2 * BLOCK

\* The last place the loop of zeros writes: the one before the length field.
LastZeroShort(size) == size - LENF - 1              \* slip: i < 55, i < 119
LastZero(size) == size - LENF

PadBuffer(left, bytes) ==
    LET n == Len(left)
        size == PaddedSize(n)
    IN [i \in 1 .. 2 * BLOCK |->
           IF i > size THEN Junk
           ELSE IF i > size - LENF THEN LengthByte(bytes, i - (size - LENF))
           ELSE IF i <= n THEN left[i]
           ELSE IF i = n + 1 THEN Mark
           ELSE IF i <= LastZero(size) THEN 0 ELSE Junk]
============================================================================
