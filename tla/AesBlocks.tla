----------------------------- MODULE AesBlocks -----------------------------
(***************************************************************************)
(* AES as the software implementation of the tests computes it             *)
(* (crypto/aes.c): key expansion a word at a time, the cipher, its inverse *)
(* and the chaining modes.  A block is four words.                         *)
(*                                                                         *)
(* The arithmetic of words and the layers of a round are parameters: what  *)
(* is said here and in VersatAes depends only on AesAlgebra.               *)
(***************************************************************************)
EXTENDS Naturals, Sequences

CONSTANTS
    Word,                   \* words of 32 bits
    Zero,                   \* the word 0
    XorWord(_, _),
    SubWord(_), RotWord(_), \* the S-box on each byte; the rotation by a byte
    Plus1(_),               \* the increment modulo 2^32
    Max32,                  \* the word 2^32 - 1
    Rcon(_),                \* rcon[i]
    SubShift(_), InvSubShift(_),    \* SubBytes and ShiftRows, and back
    Mix(_), InvMix(_),      \* MixColumns, and back
    ROUNDS128, ROUNDS256    \* Nr: 10 and 14

Block == [1 .. 4 -> Word]
ZeroBlock == [n \in 1 .. 4 |-> Zero]
Xor(x, y) == [n \in 1 .. 4 |-> XorWord(x[n], y[n])]

ASSUME AesAlgebra ==
    /\ Zero \in Word /\ Max32 \in Word
    /\ \A x \in Word : XorWord(x, Zero) = x /\ SubWord(x) \in Word /\ RotWord(x) \in Word
    /\ \A x, y \in Word :
          /\ XorWord(x, y) \in Word /\ XorWord(x, y) = XorWord(y, x)
          /\ XorWord(XorWord(x, y), y) = x
    /\ \A x, y, z \in Word : XorWord(XorWord(x, y), z) = XorWord(x, XorWord(y, z))
    /\ \A x \in Word : Plus1(x) \in Word
    /\ \A b \in Block : SubShift(b) \in Block /\ InvSubShift(SubShift(b)) = b
    /\ \A b \in Block : Mix(b) \in Block /\ InvMix(Mix(b)) = b
    /\ \A b \in Block : InvSubShift(b) \in Block /\ InvMix(b) \in Block

ASSUME AesRounds ==
    /\ ROUNDS128 \in Nat \ {0} /\ ROUNDS256 \in Nat \ {0, 1}
    /\ \A i \in 0 .. ROUNDS128 + ROUNDS256 : Rcon(i) \in Word

Rounds(is256) == IF is256 THEN ROUNDS256 ELSE ROUNDS128

----------------------------------------------------------------------------
(* KeyExpansion, for both key sizes. *)

Nk(is256) == IF is256 THEN 8 ELSE 4
RoundWords(key, is256) ==
    LET nk == Nk(is256)
        w[i \in 0 .. 4 * Rounds(is256) + 3] ==
            IF i < nk THEN key[i + 1]
            ELSE LET last == w[i - 1]
                     temp == IF i % nk = 0
                             THEN XorWord(SubWord(RotWord(last)), Rcon(i \div nk - 1))
                             ELSE IF is256 /\ i % nk = 4 THEN SubWord(last) ELSE last
                 IN XorWord(w[i - nk], temp)
    IN w

RoundKeys(key, is256) ==
    LET w == RoundWords(key, is256)
    IN [r \in 0 .. Rounds(is256) |-> [n \in 1 .. 4 |-> w[4 * r + n - 1]]]

(* Cipher and InvCipher, on expanded keys. *)

Cipher(keys, is256, in) ==
    LET nr == Rounds(is256)
        after[r \in 0 .. nr - 1] ==
            IF r = 0 THEN Xor(in, keys[0]) ELSE Xor(Mix(SubShift(after[r - 1])), keys[r])
    IN Xor(SubShift(after[nr - 1]), keys[nr])

InvCipher(keys, is256, in) ==
    LET nr == Rounds(is256)
        before[r \in 1 .. nr] ==
            IF r = nr THEN Xor(in, keys[nr])
            ELSE InvMix(Xor(InvSubShift(before[r + 1]), keys[r]))
    IN Xor(InvSubShift(before[1]), keys[0])

----------------------------------------------------------------------------
(* The modes, on two blocks. *)

\* "Increment Iv and handle overflow": the carry goes through all four words.
Increment(b) ==
    [n \in 1 .. 4 |-> IF \A m \in n + 1 .. 4 : b[m] = Max32 THEN Plus1(b[n]) ELSE b[n]]

Encrypted(mode, keys, is256, iv, d) ==
    CASE mode \in {"ECB", "ECB256"} ->
           <<Cipher(keys, is256, d[1]), Cipher(keys, is256, d[2])>>
      [] mode = "CBC" ->
           LET first == Cipher(keys, is256, Xor(d[1], iv))
           IN <<first, Cipher(keys, is256, Xor(d[2], first))>>
      [] mode = "CTR" ->
           <<Xor(d[1], Cipher(keys, is256, iv)),
             Xor(d[2], Cipher(keys, is256, Increment(iv)))>>
============================================================================
