------------------------------- MODULE Sponge -------------------------------
(***************************************************************************)
(* The Keccak sponge of fips202.c: its state, and what the functions built *)
(* on it promise.                                                          *)
(*                                                                         *)
(* A byte is the set of its bits that are one, so exclusive or is          *)
(* symmetric difference.  The permutation is left uninterpreted: a state   *)
(* is the sequence of the blocks that were xored into the rate between     *)
(* permutations, the last of them since the last one, and a byte read from *)
(* a state is the pair of the state and the position.  Two states are then *)
(* equal exactly when the same bytes went in at the same places.           *)
(***************************************************************************)
EXTENDS Integers, Sequences, FiniteSets

CONSTANT RATE       \* bytes of a block (168, 136, 104 or 72)

ASSUME RateAssumption == RATE \in Nat \ {0}

Byte == SUBSET (0 .. 7)
XorByte(a, b) == (a \cup b) \ (a \cap b)
ByteOf(v) == {i \in 0 .. 7 : (v \div (2 ^ i)) % 2 = 1}

Block == [0 .. RATE - 1 -> Byte]
Zeros == [i \in 0 .. RATE - 1 |-> {}]
State == Seq(Block)
ZeroState == <<Zeros>>

Permute(s) == Append(s, Zeros)

\* The bytes of in, from position at on; those that fall outside the block,
\* on either side, belong to another turn of the caller's loop.
XorAt(s, at, in) ==
    [s EXCEPT ![Len(s)] = [i \in 0 .. RATE - 1 |->
        IF i - at + 1 \in DOMAIN in THEN XorByte(@[i], in[i - at + 1]) ELSE @[i]]]

ByteAt(s, i) == <<s, i>>

\* The domain-separation bytes of the three families.
SHAKE == ByteOf(31)
SHA3 == ByteOf(6)
CSHAKE == ByteOf(4)

\* left_encode of a size_t of four bytes: how many bytes count, and those.
LeftEncode(v) ==
    LET n == Cardinality({k \in 0 .. 3 : k = 0 \/ v >= 256 ^ k})
    IN <<ByteOf(n)>> \o [i \in 1 .. n |-> ByteOf((v \div (256 ^ (n - i))) % 256)]

----------------------------------------------------------------------------
(* The reference: a whole message padded, absorbed and squeezed at once. *)

\* m, the domain byte, zeros, and the top bit of the last byte of the block.
Padded(m, p) ==
    LET size == RATE * ((Len(m) \div RATE) + 1)
    IN [i \in 1 .. size |->
            (CASE i <= Len(m) -> m[i] [] i = Len(m) + 1 -> p [] OTHER -> {})
                \cup (IF i = size THEN {7} ELSE {})]

\* Byte n of the output: n \div RATE + 1 permutations after the last block.
StreamByte(m, p, n) ==
    LET padded == Padded(m, p)
        blocks == [k \in 1 .. Len(padded) \div RATE |->
                      [i \in 0 .. RATE - 1 |-> padded[(k - 1) * RATE + i + 1]]]
    IN ByteAt(blocks \o [k \in 1 .. (n \div RATE) + 1 |-> Zeros], n % RATE)

Stream(m, p, n) == [i \in 1 .. n |-> StreamByte(m, p, i - 1)]

\* bytepad(encode_string(name) || encode_string(cstm), RATE)
BytePad(name, cstm) ==
    LET x == LeftEncode(RATE) \o LeftEncode(8 * Len(name)) \o name
                              \o LeftEncode(8 * Len(cstm)) \o cstm
    IN x \o [i \in 1 .. (RATE - (Len(x) % RATE)) % RATE |-> {}]
=============================================================================
