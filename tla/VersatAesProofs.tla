-------------------------- MODULE VersatAesProofs --------------------------
(***************************************************************************)
(* The routines on the AES unit compute what the software computes, and    *)
(* keep the expanded key, for every cipher, number of rounds and job.      *)
(*                                                                         *)
(*   The recursive functions of AesBlocks (the words of the key schedule,  *)
(*   the states of the cipher) have one solution: RoundWordsAre, StatesAre.*)
(*   A run of the schedule makes the next round key (Schedule128,          *)
(*   Schedule256); the runs of a call pass the states of the cipher, or    *)
(*   pass them in reverse (FirstRound, MiddleRound, LastRound).            *)
(*   What each call of a routine finds and leaves: StepOfJob.              *)
(*   IInv, the inductive invariant, speaks of the registers as they will   *)
(*   be when the run in progress is over (EffState, ...): the program      *)
(*   changes only configuration in between.                                *)
(*                                                                         *)
(* What is used of the cipher is AesAlgebra.                               *)
(***************************************************************************)
EXTENDS VersatAes, WellFoundedInduction, SequenceTheorems, TLAPS

----------------------------------------------------------------------------
(* Induction.                                                               *)

LEMMA Smallest ==
    ASSUME NEW T \in SUBSET Nat, T # {}
    PROVE  \E x \in T : \A y \in T : x <= y
  <1>1. PICK x \in T : \A y \in T : ~(<<y, x>> \in OpToRel(<, Nat))
    BY NatLessThanWellFounded, WFMin
  <1>2. ASSUME NEW y \in T PROVE ~(y < x)
    BY <1>1 DEF OpToRel
  <1> QED
    BY <1>2

\* A set with 0 and the successor of each of its numbers has all numbers.
LEMMA Induction ==
    ASSUME NEW S, 0 \in S, \A n \in Nat : n \in S => n + 1 \in S
    PROVE  Nat \subseteq S
  <1> SUFFICES ASSUME Nat \ S # {} PROVE FALSE
    OBVIOUS
  <1>1. PICK x \in Nat \ S : \A y \in Nat \ S : x <= y
    BY Smallest
  <1>2. x # 0 /\ x - 1 \in Nat /\ (x - 1) + 1 = x /\ x - 1 < x
    BY <1>1
  <1>3. x - 1 \in S
    BY <1>1, <1>2
  <1> QED
    BY <1>1, <1>2, <1>3

----------------------------------------------------------------------------
(* Words and blocks.                                                        *)

LEMMA XorWordLaws ==
    ASSUME NEW x \in Word, NEW y \in Word, NEW z \in Word
    PROVE  /\ XorWord(x, y) \in Word /\ XorWord(x, y) = XorWord(y, x)
           /\ XorWord(XorWord(x, y), z) = XorWord(x, XorWord(y, z))
           /\ XorWord(x, Zero) = x /\ XorWord(XorWord(x, y), y) = x
           /\ SubWord(x) \in Word /\ RotWord(x) \in Word /\ Plus1(x) \in Word
           /\ Zero \in Word
  BY AesAlgebra

LEMMA XorLaws ==
    ASSUME NEW a \in Block, NEW b \in Block, NEW c \in Block
    PROVE  /\ Xor(a, b) \in Block /\ Xor(a, b) = Xor(b, a)
           /\ Xor(Xor(a, b), c) = Xor(a, Xor(b, c))
           /\ Xor(a, ZeroBlock) = a /\ Xor(Xor(a, b), b) = a
           /\ ZeroBlock \in Block
  <1>1. ASSUME NEW n \in 1 .. 4 PROVE a[n] \in Word /\ b[n] \in Word /\ c[n] \in Word
    BY DEF Block
  <1>2. Xor(a, b) \in Block /\ ZeroBlock \in Block
    BY <1>1, XorWordLaws DEF Xor, Block, ZeroBlock
  <1>3. Xor(a, b) = Xor(b, a)
    BY <1>1, XorWordLaws DEF Xor
  <1>4. Xor(Xor(a, b), c) = Xor(a, Xor(b, c))
    <2>1. ASSUME NEW n \in 1 .. 4
          PROVE  XorWord(XorWord(a[n], b[n]), c[n]) = XorWord(a[n], XorWord(b[n], c[n]))
      <3> DEFINE x == a[n]
                 y == b[n]
                 z == c[n]
      <3>1. x \in Word /\ y \in Word /\ z \in Word
        BY <1>1
      <3> HIDE DEF x, y, z
      <3>2. XorWord(XorWord(x, y), z) = XorWord(x, XorWord(y, z))
        BY <3>1, XorWordLaws
      <3> QED
        BY <3>2 DEF x, y, z
    <2>2. /\ Xor(Xor(a, b), c) = [n \in 1 .. 4 |-> XorWord(XorWord(a[n], b[n]), c[n])]
          /\ Xor(a, Xor(b, c)) = [n \in 1 .. 4 |-> XorWord(a[n], XorWord(b[n], c[n]))]
      BY DEF Xor
    <2> QED
      BY <2>1, <2>2
  <1>5. Xor(a, ZeroBlock) = a
    BY <1>1, XorWordLaws DEF Xor, Block, ZeroBlock
  <1>6. Xor(Xor(a, b), b) = a
    BY <1>1, XorWordLaws DEF Xor, Block
  <1> QED
    BY <1>2, <1>3, <1>4, <1>5, <1>6

LEMMA LayerLaws ==
    ASSUME NEW b \in Block
    PROVE  /\ SubShift(b) \in Block /\ InvSubShift(SubShift(b)) = b
           /\ Mix(b) \in Block /\ InvMix(Mix(b)) = b
           /\ InvSubShift(b) \in Block /\ InvMix(b) \in Block
  BY AesAlgebra

----------------------------------------------------------------------------
(* The key schedule of the software.                                        *)

\* The word ix that KeyExpansion makes when the words before it are those of w.
NextWord(key, is256, w, ix) ==
    LET nk == Nk(is256)
    IN IF ix < nk THEN key[ix + 1]
       ELSE LET last == w[ix - 1]
                temp == IF ix % nk = 0
                        THEN XorWord(SubWord(RotWord(last)), Rcon(ix \div nk - 1))
                        ELSE IF is256 /\ ix % nk = 4 THEN SubWord(last) ELSE last
            IN XorWord(w[ix - nk], temp)

WordIndex(is256) == 0 .. 4 * Rounds(is256) + 3
IsKey(key, is256) == key \in Seq(Word) /\ Len(key) >= Nk(is256)

LEMMA RoundsType ==
    ASSUME NEW is256 \in BOOLEAN
    PROVE  /\ Rounds(is256) \in Nat /\ Rounds(is256) > 0 /\ Rounds(is256) \in RegFile
           /\ Nk(is256) = IF is256 THEN 8 ELSE 4
           /\ is256 => Nk(is256) = 8 /\ Rounds(is256) = ROUNDS256 /\ Rounds(is256) > 1
           /\ ~is256 => Nk(is256) = 4 /\ Rounds(is256) = ROUNDS128
  BY AesRounds, RegFileLargeEnough DEF Rounds, Nk

LEMMA RconType ==
    ASSUME NEW is256 \in BOOLEAN, NEW n \in 0 .. Rounds(is256)
    PROVE  Rcon(n) \in Word
  <1>1. n \in 0 .. ROUNDS128 + ROUNDS256
    BY AesRounds DEF Rounds
  <1> QED
    BY <1>1, AesRounds

LEMMA RconIndex ==
    ASSUME NEW ix \in Nat, NEW nr \in Nat, ix <= 4 * nr + 3
    PROVE  /\ ix >= 4 => ix \div 4 - 1 \in 0 .. nr
           /\ ix >= 8 => ix \div 8 - 1 \in 0 .. nr
  OBVIOUS

LEMMA NextWordType ==
    ASSUME NEW is256 \in BOOLEAN, NEW key, IsKey(key, is256),
           NEW w \in [WordIndex(is256) -> Word], NEW ix \in WordIndex(is256)
    PROVE  NextWord(key, is256, w, ix) \in Word
  <1> DEFINE nk == Nk(is256)
  <1>1. nk \in {4, 8} /\ (is256 <=> nk = 8) /\ Rounds(is256) \in Nat
    BY RoundsType
  <1>2. CASE ix < nk
    <2>1. ix + 1 \in 1 .. Len(key)
      BY <1>1, <1>2 DEF IsKey, WordIndex
    <2> QED
      BY <1>2, <2>1 DEF NextWord, IsKey
  <1>3. CASE ~(ix < nk)
    <2>1. ix - 1 \in WordIndex(is256) /\ ix - nk \in WordIndex(is256)
      BY <1>1, <1>3 DEF WordIndex
    <2>2. ix \div nk - 1 \in 0 .. Rounds(is256)
      <3>1. ix \in Nat /\ ix <= 4 * Rounds(is256) + 3
        BY <1>1 DEF WordIndex
      <3>2. CASE nk = 4
        BY <1>1, <1>3, <3>1, <3>2, RconIndex
      <3>3. CASE nk = 8
        <4>1. ix >= 8
          BY <1>3, <3>1, <3>3
        <4>2. ix \div 8 - 1 \in 0 .. Rounds(is256)
          BY <1>1, <3>1, <4>1, RconIndex
        <4> QED
          BY <3>3, <4>2, Zenon
      <3> QED
        BY <1>1, <3>2, <3>3
    <2> DEFINE last == w[ix - 1]
               old == w[ix - nk]
               rcon == Rcon(ix \div nk - 1)
               temp == IF ix % nk = 0 THEN XorWord(SubWord(RotWord(last)), rcon)
                       ELSE IF is256 /\ ix % nk = 4 THEN SubWord(last) ELSE last
    <2>3. last \in Word /\ old \in Word /\ rcon \in Word
      BY <2>1, <2>2, RconType
    <2>4. NextWord(key, is256, w, ix) = XorWord(old, temp)
      BY <1>3 DEF NextWord
    <2> HIDE DEF last, old, rcon
    <2>5. /\ RotWord(last) \in Word /\ SubWord(last) \in Word
          /\ SubWord(RotWord(last)) \in Word
      BY <2>3, AesAlgebra
    <2>6. temp \in Word
      BY <2>3, <2>5, AesAlgebra
    <2> HIDE DEF temp
    <2> QED
      BY <2>3, <2>4, <2>6, AesAlgebra
  <1> QED
    BY <1>2, <1>3

\* Only words before word ix are looked at.
LEMMA NextWordLocal ==
    ASSUME NEW is256 \in BOOLEAN, NEW key, NEW ix \in WordIndex(is256),
           NEW v, NEW w, \A k \in WordIndex(is256) : k < ix => v[k] = w[k]
    PROVE  NextWord(key, is256, v, ix) = NextWord(key, is256, w, ix)
  <1>1. Nk(is256) \in {4, 8} /\ Rounds(is256) \in Nat
    BY RoundsType
  <1>2. CASE ix < Nk(is256)
    BY <1>2 DEF NextWord
  <1>3. CASE ~(ix < Nk(is256))
    <2>1. /\ ix - 1 \in WordIndex(is256) /\ ix - 1 < ix
          /\ ix - Nk(is256) \in WordIndex(is256) /\ ix - Nk(is256) < ix
      BY <1>1, <1>3 DEF WordIndex
    <2>2. v[ix - 1] = w[ix - 1] /\ v[ix - Nk(is256)] = w[ix - Nk(is256)]
      BY <2>1
    <2> QED
      BY <1>3, <2>2, Zenon DEF NextWord
  <1> QED
    BY <1>2, <1>3

\* There is a function that KeyExpansion computes: the recursion is well founded.
LEMMA WordsExist ==
    ASSUME NEW is256 \in BOOLEAN, NEW key, IsKey(key, is256)
    PROVE  \E w \in [WordIndex(is256) -> Word] :
              w = [ix \in WordIndex(is256) |-> NextWord(key, is256, w, ix)]
  <1> DEFINE D == WordIndex(is256)
             Upto(w, n) == \A ix \in D : ix < n => w[ix] = NextWord(key, is256, w, ix)
             S == {n \in Nat : \E w \in [D -> Word] : Upto(w, n)}
  <1>1. D \subseteq Nat /\ 4 * Rounds(is256) + 4 \in Nat
        /\ \A ix \in D : ix < 4 * Rounds(is256) + 4
    BY RoundsType DEF WordIndex
  <1>2. 0 \in S
    <2>1. [ix \in D |-> Zero] \in [D -> Word]
      BY AesAlgebra
    <2>2. \A ix \in D : ~(ix < 0)
      BY <1>1
    <2> QED
      BY <2>1, <2>2
  <1>3. ASSUME NEW n \in Nat, n \in S PROVE n + 1 \in S
    <2>1. PICK w \in [D -> Word] : Upto(w, n)
      BY <1>3
    <2> DEFINE v == [w EXCEPT ![n] = NextWord(key, is256, w, n)]
    <2>2. v \in [D -> Word]
      BY NextWordType
    <2>3. \A k \in D : k < n => v[k] = w[k]
      BY <1>1
    <2>4. n \in D => v[n] = NextWord(key, is256, w, n)
      OBVIOUS
    <2> HIDE DEF v, D
    <2>5. ASSUME NEW ix \in D, ix < n + 1 PROVE v[ix] = NextWord(key, is256, v, ix)
      <3>1. ix \in Nat /\ (ix < n \/ ix = n)
        <4>1. ix \in Nat
          BY <1>1
        <4> QED
          BY <2>5, <4>1
      <3>2. \A k \in D : k < ix => v[k] = w[k]
        BY <1>1, <2>3, <3>1
      <3>3. NextWord(key, is256, v, ix) = NextWord(key, is256, w, ix)
        BY <3>2, NextWordLocal DEF D
      <3>4. v[ix] = NextWord(key, is256, w, ix)
        BY <2>1, <2>3, <2>4, <3>1
      <3> QED
        BY <3>3, <3>4
    <2> QED
      BY <2>2, <2>5
  <1> HIDE DEF S
  <1>4. 4 * Rounds(is256) + 4 \in S
    BY <1>1, <1>2, <1>3, Induction
  <1>5. PICK w \in [D -> Word] : Upto(w, 4 * Rounds(is256) + 4)
    BY <1>4 DEF S
  <1>6. \A ix \in D : w[ix] = NextWord(key, is256, w, ix)
    BY <1>1, <1>5
  <1> QED
    BY <1>6

LEMMA RoundWordsAre ==
    ASSUME NEW is256 \in BOOLEAN, NEW key, IsKey(key, is256)
    PROVE  /\ RoundWords(key, is256) \in [WordIndex(is256) -> Word]
           /\ \A ix \in WordIndex(is256) :
                 RoundWords(key, is256)[ix] = NextWord(key, is256, RoundWords(key, is256), ix)
  <1> DEFINE D == WordIndex(is256)
             w == RoundWords(key, is256)
  <1>1. \E v : v = [ix \in D |-> NextWord(key, is256, v, ix)]
    BY WordsExist
  <1>2. w = CHOOSE v : v = [ix \in D |-> NextWord(key, is256, v, ix)]
    BY Zenon DEF RoundWords, NextWord, WordIndex
  <1>3. w = [ix \in D |-> NextWord(key, is256, w, ix)]
    BY <1>1, <1>2
  <1> HIDE DEF w
  <1>4. \A ix \in D : w[ix] = NextWord(key, is256, w, ix)
    BY <1>3
  <1>5. D \subseteq Nat
    BY RoundsType DEF WordIndex
  <1> DEFINE T == {ix \in D : w[ix] \notin Word}
  <1>6. ASSUME T # {} PROVE FALSE
    <2>1. PICK x \in T : \A y \in T : x <= y
      BY <1>5, <1>6, Smallest
    <2> DEFINE v == [k \in D |-> IF k < x THEN w[k] ELSE Zero]
    <2>2. v \in [D -> Word]
      <3>1. ASSUME NEW k \in D, k < x PROVE w[k] \in Word
        <4>1. k \in Nat /\ x \in Nat
          BY <1>5
        <4> QED
          BY <2>1, <3>1, <4>1
      <3> QED
        BY <3>1, AesAlgebra
    <2>3. \A k \in D : k < x => v[k] = w[k]
      OBVIOUS
    <2> HIDE DEF v
    <2>4. x \in D
      OBVIOUS
    <2>5. NextWord(key, is256, v, x) = NextWord(key, is256, w, x)
      BY <2>3, <2>4, NextWordLocal
    <2>6. NextWord(key, is256, v, x) \in Word
      BY <2>2, <2>4, NextWordType
    <2> QED
      BY <1>4, <2>4, <2>5, <2>6
  <1>7. w \in [D -> Word]
    BY <1>3, <1>6
  <1> QED
    BY <1>4, <1>7 DEF w

\* What a word of the schedule is, by its place.
LEMMA WordCases ==
    ASSUME NEW is256 \in BOOLEAN, NEW key, IsKey(key, is256),
           NEW ix \in WordIndex(is256)
    PROVE  LET w == RoundWords(key, is256)
           IN /\ ix < Nk(is256) => w[ix] = key[ix + 1]
              /\ ix >= Nk(is256) /\ ix % Nk(is256) = 0 =>
                   w[ix] = XorWord(w[ix - Nk(is256)],
                              XorWord(SubWord(RotWord(w[ix - 1])), Rcon(ix \div Nk(is256) - 1)))
              /\ ix >= Nk(is256) /\ ix % Nk(is256) # 0 /\ Nk(is256) = 8 /\ ix % Nk(is256) = 4 =>
                   w[ix] = XorWord(w[ix - Nk(is256)], SubWord(w[ix - 1]))
              /\ ix >= Nk(is256) /\ ix % Nk(is256) # 0 /\ ~(Nk(is256) = 8 /\ ix % Nk(is256) = 4) =>
                   w[ix] = XorWord(w[ix - Nk(is256)], w[ix - 1])
  <1> DEFINE w == RoundWords(key, is256)
             nk == Nk(is256)
  <1>1. w[ix] = NextWord(key, is256, w, ix)
    BY RoundWordsAre
  <1>2. nk \in Nat /\ ix \in Nat /\ (ix >= nk <=> ~(ix < nk)) /\ (is256 <=> nk = 8)
    BY RoundsType DEF WordIndex
  <1> HIDE DEF w
  <1>3. NextWord(key, is256, w, ix) =
            IF ix < nk THEN key[ix + 1]
            ELSE XorWord(w[ix - nk],
                     IF ix % nk = 0 THEN XorWord(SubWord(RotWord(w[ix - 1])), Rcon(ix \div nk - 1))
                     ELSE IF is256 /\ ix % nk = 4 THEN SubWord(w[ix - 1]) ELSE w[ix - 1])
    BY Zenon DEF NextWord
  <1> HIDE DEF nk
  <1>4. /\ ix < nk => w[ix] = key[ix + 1]
        /\ ix >= nk /\ ix % nk = 0 =>
             w[ix] = XorWord(w[ix - nk], XorWord(SubWord(RotWord(w[ix - 1])), Rcon(ix \div nk - 1)))
        /\ ix >= nk /\ ix % nk # 0 /\ nk = 8 /\ ix % nk = 4 =>
             w[ix] = XorWord(w[ix - nk], SubWord(w[ix - 1]))
        /\ ix >= nk /\ ix % nk # 0 /\ ~(nk = 8 /\ ix % nk = 4) =>
             w[ix] = XorWord(w[ix - nk], w[ix - 1])
    BY <1>1, <1>2, <1>3, Zenon
  <1> QED
    BY <1>4 DEF w, nk

\* Round key r.
RoundKey(key, is256, r) == RoundKeys(key, is256)[r]

LEMMA RoundKeyIs ==
    ASSUME NEW is256 \in BOOLEAN, NEW key, IsKey(key, is256), NEW r \in 0 .. Rounds(is256)
    PROVE  /\ RoundKey(key, is256, r) \in Block
           /\ \A n \in 1 .. 4 : RoundKey(key, is256, r)[n] = RoundWords(key, is256)[4 * r + n - 1]
           /\ RoundKey(key, is256, r) = [n \in 1 .. 4 |-> RoundKey(key, is256, r)[n]]
  <1>1. RoundKey(key, is256, r) = [n \in 1 .. 4 |-> RoundWords(key, is256)[4 * r + n - 1]]
    BY DEF RoundKey, RoundKeys
  <1>2. Rounds(is256) \in Nat
    BY RoundsType
  <1>3. ASSUME NEW n \in 1 .. 4 PROVE RoundWords(key, is256)[4 * r + n - 1] \in Word
    <2>1. 4 * r + n - 1 \in WordIndex(is256)
      BY <1>2 DEF WordIndex
    <2> QED
      BY <2>1, RoundWordsAre
  <1> QED
    BY <1>1, <1>3 DEF Block

LEMMA FirstRoundKeys ==
    ASSUME NEW is256 \in BOOLEAN, NEW key, IsKey(key, is256)
    PROVE  /\ RoundKey(key, is256, 0) = [m \in 1 .. 4 |-> key[4 * 0 + m]]
           /\ is256 => RoundKey(key, is256, 1) = [m \in 1 .. 4 |-> key[4 * 1 + m]]
  <1>1. /\ Nk(is256) = IF is256 THEN 8 ELSE 4
        /\ Rounds(is256) \in Nat /\ Rounds(is256) > 0 /\ (is256 => Rounds(is256) > 1)
    BY RoundsType
  <1>2. ASSUME NEW r \in 0 .. 1, r = 1 => is256, NEW m \in 1 .. 4
        PROVE  RoundWords(key, is256)[4 * r + m - 1] = key[4 * r + m]
    <2> DEFINE ix == 4 * r + m - 1
    <2>1. /\ ix \in WordIndex(is256) /\ ix < Nk(is256) /\ ix + 1 = 4 * r + m
      BY <1>1, <1>2 DEF WordIndex
    <2> HIDE DEF ix
    <2>2. RoundWords(key, is256)[ix] = key[ix + 1]
      BY <2>1, WordCases
    <2> QED
      BY <2>1, <2>2 DEF ix
  <1>3. RoundKey(key, is256, 0) = [m \in 1 .. 4 |-> key[4 * 0 + m]]
    <2>1. 0 \in 0 .. Rounds(is256)
      BY <1>1
    <2>2. RoundKey(key, is256, 0) = [n \in 1 .. 4 |-> RoundWords(key, is256)[4 * 0 + n - 1]]
      BY <2>1 DEF RoundKey, RoundKeys
    <2> QED
      BY <1>2, <2>2
  <1>4. ASSUME is256 PROVE RoundKey(key, is256, 1) = [m \in 1 .. 4 |-> key[4 * 1 + m]]
    <2>1. 1 \in 0 .. Rounds(is256)
      <3>1. Rounds(is256) \in Nat /\ Rounds(is256) > 1
        BY <1>1, <1>4, Zenon
      <3> QED
        BY <3>1
    <2>2. RoundKey(key, is256, 1) = [n \in 1 .. 4 |-> RoundWords(key, is256)[4 * 1 + n - 1]]
      BY <2>1 DEF RoundKey, RoundKeys
    <2>3. ASSUME NEW m \in 1 .. 4
          PROVE  RoundWords(key, is256)[4 * 1 + m - 1] = key[4 * 1 + m]
      <3>1. 1 \in 0 .. 1 /\ (1 = 1 => is256)
        BY <1>4
      <3> QED
        BY <1>2, <3>1
    <2> QED
      BY <2>2, <2>3
  <1> QED
    BY <1>3, <1>4

\* A block of the schedule from the block before it and the block nk words before.
LEMMA ScheduleBlock ==
    ASSUME NEW x \in Block, NEW w \in Block, NEW y \in Block, NEW rcon \in Word,
           NEW sub \in Word,
           y[1] = XorWord(w[1], XorWord(sub, rcon)),
           \A n \in 2 .. 4 : y[n] = XorWord(w[n], y[n - 1]),
           NEW rotate \in BOOLEAN,
           sub = SubWord(IF rotate THEN RotWord(x[4]) ELSE x[4])
    PROVE  y = Schedule(x, w, rcon, rotate)
  <1>1. /\ y[1] \in Word /\ y[2] \in Word /\ y[3] \in Word /\ y[4] \in Word
        /\ w[1] \in Word /\ w[2] \in Word /\ w[3] \in Word /\ w[4] \in Word
        /\ y = <<y[1], y[2], y[3], y[4]>>
    BY DEF Block
  <1>2. XorWord(w[1], XorWord(sub, rcon)) = XorWord(XorWord(sub, w[1]), rcon)
    <2> DEFINE a == w[1]
    <2>1. a \in Word
      BY <1>1
    <2> HIDE DEF a
    <2>2. /\ XorWord(XorWord(a, sub), rcon) = XorWord(a, XorWord(sub, rcon))
          /\ XorWord(a, sub) = XorWord(sub, a)
      BY <2>1, XorWordLaws
    <2> QED
      BY <2>2 DEF a
  <1>3. /\ y[2] = XorWord(w[2], y[1]) /\ y[3] = XorWord(w[3], y[2]) /\ y[4] = XorWord(w[4], y[3])
    OBVIOUS
  <1>4. /\ y[2] = XorWord(y[1], w[2])
        /\ y[3] = XorWord(y[2], w[3])
    BY <1>1, <1>3, AesAlgebra
  <1>5. y[4] = XorWord(y[3], w[4])
    BY <1>1, <1>3, AesAlgebra
  <1>6. Schedule(x, w, rcon, rotate) =
            LET s == XorWord(XorWord(sub, w[1]), rcon)
                a == XorWord(s, w[2])
                b == XorWord(a, w[3])
            IN <<s, a, b, XorWord(b, w[4])>>
    BY DEF Schedule
  <1>7. y[1] = XorWord(XorWord(sub, w[1]), rcon)
    BY <1>2
  <1>8. Schedule(x, w, rcon, rotate) = <<y[1], y[2], y[3], y[4]>>
    BY <1>4, <1>5, <1>6, <1>7, Zenon
  <1> QED
    BY <1>1, <1>8, Zenon

LEMMA Schedule128 ==
    ASSUME NEW is256 \in BOOLEAN, ~is256, NEW key, IsKey(key, is256),
           NEW r \in Nat, r < Rounds(is256)
    PROVE  RoundKey(key, is256, r + 1)
              = Schedule(RoundKey(key, is256, r), RoundKey(key, is256, r), Rcon(r), TRUE)
  <1> DEFINE w == RoundWords(key, is256)
             x == RoundKey(key, is256, r)
             y == RoundKey(key, is256, r + 1)
             j == 4 * r + 4
             sub == SubWord(RotWord(x[4]))
  <1>1. /\ Nk(is256) = 4 /\ Rounds(is256) \in Nat
        /\ r \in 0 .. Rounds(is256) /\ r + 1 \in 0 .. Rounds(is256)
    BY RoundsType
  <1>2. /\ x \in Block /\ y \in Block
        /\ \A n \in 1 .. 4 : x[n] = w[4 * r + n - 1]
        /\ \A n \in 1 .. 4 : y[n] = w[4 * (r + 1) + n - 1]
    BY <1>1, RoundKeyIs
  <1> HIDE DEF w, x, y
  <1>3. /\ x[1] = w[4 * r] /\ x[2] = w[4 * r + 1] /\ x[3] = w[4 * r + 2] /\ x[4] = w[4 * r + 3]
        /\ y[1] = w[4 * r + 4] /\ y[2] = w[4 * r + 5] /\ y[3] = w[4 * r + 6] /\ y[4] = w[4 * r + 7]
    BY <1>2
  <1>4. /\ j \in WordIndex(is256) /\ j >= 4 /\ j % 4 = 0
        /\ j - 4 = 4 * r /\ j - 1 = 4 * r + 3 /\ j \div 4 - 1 = r
    BY <1>1 DEF WordIndex
  <1>5. y[1] = XorWord(x[1], XorWord(sub, Rcon(r)))
    <2>1. w[j] = XorWord(w[j - 4], XorWord(SubWord(RotWord(w[j - 1])), Rcon(j \div 4 - 1)))
      BY <1>1, <1>4, WordCases DEF w
    <2> QED
      BY <1>3, <1>4, <2>1
  <1>6. ASSUME NEW n \in 2 .. 4 PROVE y[n] = XorWord(x[n], y[n - 1])
    <2> DEFINE ix == j + n - 1
    <2>1. /\ ix \in WordIndex(is256) /\ ix >= 4 /\ ix % 4 # 0
          /\ ix - 4 = 4 * r + n - 1 /\ ix - 1 = 4 * (r + 1) + (n - 1) - 1
          /\ ix = 4 * (r + 1) + n - 1
      BY <1>1 DEF WordIndex
    <2> HIDE DEF ix
    <2>2. w[ix] = XorWord(w[ix - 4], w[ix - 1])
      BY <1>1, <2>1, WordCases DEF w
    <2>3. n \in 1 .. 4 /\ n - 1 \in 1 .. 4
      OBVIOUS
    <2>4. x[n] = w[ix - 4] /\ y[n] = w[ix] /\ y[n - 1] = w[ix - 1]
      BY <1>2, <2>1, <2>3
    <2> QED
      BY <2>2, <2>4
  <1>7. sub \in Word /\ Rcon(r) \in Word
    <2>1. x[4] \in Word
      BY <1>2 DEF Block
    <2> QED
      BY <1>1, <2>1, RconType, AesAlgebra
  <1>8. y = Schedule(x, x, Rcon(r), TRUE)
    BY <1>2, <1>5, <1>6, <1>7, ScheduleBlock
  <1> QED
    BY <1>8 DEF x, y

\* The round constant and the rotation of the step from key blocks r and r + 1.
LEMMA Schedule256 ==
    ASSUME NEW is256 \in BOOLEAN, Nk(is256) = 8, NEW key, IsKey(key, is256),
           NEW r \in Nat, r + 1 < Rounds(is256),
           NEW rcon, rcon = IF r % 2 = 1 THEN Zero ELSE Rcon(r \div 2)
    PROVE  RoundKey(key, is256, r + 2)
              = Schedule(RoundKey(key, is256, r + 1), RoundKey(key, is256, r), rcon,
                         (r + 1) % 2 = 1)
  <1> DEFINE w == RoundWords(key, is256)
             v == RoundKey(key, is256, r)
             x == RoundKey(key, is256, r + 1)
             y == RoundKey(key, is256, r + 2)
             j == 4 * r + 8
             rotate == (r + 1) % 2 = 1
             sub == SubWord(IF rotate THEN RotWord(x[4]) ELSE x[4])
  <1>1. /\ Nk(is256) = 8 /\ Rounds(is256) \in Nat
        /\ r \in 0 .. Rounds(is256) /\ r + 1 \in 0 .. Rounds(is256) /\ r + 2 \in 0 .. Rounds(is256)
    BY RoundsType
  <1>2. /\ v \in Block /\ x \in Block /\ y \in Block
        /\ \A n \in 1 .. 4 : v[n] = w[4 * r + n - 1]
        /\ \A n \in 1 .. 4 : x[n] = w[4 * (r + 1) + n - 1]
        /\ \A n \in 1 .. 4 : y[n] = w[4 * (r + 2) + n - 1]
    BY <1>1, RoundKeyIs
  <1> HIDE DEF w, v, x, y
  <1>3. v[1] = w[4 * r] /\ x[4] = w[4 * r + 7] /\ y[1] = w[4 * r + 8] /\ x[4] \in Word
        /\ v[1] \in Word
    BY <1>2 DEF Block
  <1>4. /\ j \in WordIndex(is256) /\ j >= 8 /\ j - 8 = 4 * r /\ j - 1 = 4 * r + 7
    BY <1>1 DEF WordIndex
  <1>5. rcon \in Word /\ sub \in Word /\ Zero \in Word
    <2>1. r \div 2 \in 0 .. Rounds(is256)
      BY <1>1
    <2>2. rcon \in Word /\ Zero \in Word
      BY <2>1, RconType, AesAlgebra
    <2> QED
      BY <1>3, <2>2, AesAlgebra
  <1>6. y[1] = XorWord(v[1], XorWord(sub, rcon))
    <2>1. CASE r % 2 = 0
      <3>1. j % 8 = 0 /\ j \div 8 - 1 = r \div 2 /\ rotate
        BY <2>1
      <3>2. w[j] = XorWord(w[j - 8], XorWord(SubWord(RotWord(w[j - 1])), Rcon(j \div 8 - 1)))
        BY <1>1, <1>4, <3>1, WordCases DEF w
      <3>3. rcon = Rcon(r \div 2)
        BY <2>1
      <3> QED
        BY <1>3, <1>4, <3>1, <3>2, <3>3
    <2>2. CASE r % 2 = 1
      <3>1. j % 8 = 4 /\ ~rotate
        BY <2>2
      <3>2. w[j] = XorWord(w[j - 8], SubWord(w[j - 1]))
        BY <1>1, <1>4, <3>1, WordCases DEF w
      <3>3. rcon = Zero /\ sub = SubWord(x[4])
        BY <2>2, <3>1
      <3>4. XorWord(sub, Zero) = sub
        BY <1>5, AesAlgebra
      <3> QED
        BY <1>3, <1>4, <3>2, <3>3, <3>4
    <2> QED
      BY <2>1, <2>2
  <1>7. ASSUME NEW n \in 2 .. 4 PROVE y[n] = XorWord(v[n], y[n - 1])
    <2> DEFINE ix == j + n - 1
    <2>1. /\ ix \in WordIndex(is256) /\ ix >= 8 /\ ix % 8 # 0 /\ ix % 8 # 4
          /\ ix - 8 = 4 * r + n - 1 /\ ix - 1 = 4 * (r + 2) + (n - 1) - 1
          /\ ix = 4 * (r + 2) + n - 1
      BY <1>1 DEF WordIndex
    <2> HIDE DEF ix
    <2>2. w[ix] = XorWord(w[ix - 8], w[ix - 1])
      BY <1>1, <2>1, WordCases DEF w
    <2>3. n \in 1 .. 4 /\ n - 1 \in 1 .. 4
      OBVIOUS
    <2>4. v[n] = w[ix - 8] /\ y[n] = w[ix] /\ y[n - 1] = w[ix - 1]
      BY <1>2, <2>1, <2>3
    <2> QED
      BY <2>2, <2>4
  <1>8. rotate \in BOOLEAN
    OBVIOUS
  <1> HIDE DEF rotate
  <1>9. y = Schedule(x, v, rcon, rotate)
    BY <1>2, <1>5, <1>6, <1>7, <1>8, ScheduleBlock
  <1> QED
    BY <1>9 DEF x, y, v, rotate

----------------------------------------------------------------------------
(* The cipher of the software, and the state after each of its rounds.      *)

NextState(keys_, in, f, r) ==
    IF r = 0 THEN Xor(in, keys_[0]) ELSE Xor(Mix(SubShift(f[r - 1])), keys_[r])

States(keys_, is256, in) ==
    LET nr == Rounds(is256)
        after[r \in 0 .. nr - 1] ==
            IF r = 0 THEN Xor(in, keys_[0]) ELSE Xor(Mix(SubShift(after[r - 1])), keys_[r])
    IN after

LEMMA StatesExist ==
    ASSUME NEW nr \in Nat, NEW ks \in [0 .. nr -> Block], NEW in \in Block
    PROVE  \E f \in [0 .. nr - 1 -> Block] : f = [r \in 0 .. nr - 1 |-> NextState(ks, in, f, r)]
  <1> DEFINE D == 0 .. nr - 1
             Upto(f, n) == \A r \in D : r < n => f[r] = NextState(ks, in, f, r)
             S == {n \in Nat : \E f \in [D -> Block] : Upto(f, n)}
  <1>1. D \subseteq Nat /\ (\A r \in D : r < nr)
    OBVIOUS
  <1>2. 0 \in S
    <2>1. [r \in D |-> in] \in [D -> Block]
      OBVIOUS
    <2>2. \A r \in D : ~(r < 0)
      BY <1>1
    <2> QED
      BY <2>1, <2>2
  <1>3. ASSUME NEW n \in Nat, n \in S PROVE n + 1 \in S
    <2>1. PICK f \in [D -> Block] : Upto(f, n)
      BY <1>3
    <2> DEFINE g == [f EXCEPT ![n] = NextState(ks, in, f, n)]
    <2>2. n \in D => NextState(ks, in, f, n) \in Block
      <3>1. CASE n = 0
        BY <3>1, XorLaws DEF NextState
      <3>2. CASE n > 0 /\ n \in D
        <4>1. f[n - 1] \in Block /\ ks[n] \in Block
          BY <3>2
        <4> DEFINE b == f[n - 1]
                   k == ks[n]
        <4> HIDE DEF b, k
        <4>2. Xor(Mix(SubShift(b)), k) \in Block
          BY <4>1, XorLaws, LayerLaws DEF b, k
        <4> QED
          BY <3>2, <4>2 DEF NextState, b, k
      <3> QED
        BY <3>1, <3>2
    <2>3. g \in [D -> Block]
      BY <2>2
    <2>4. \A k \in D : k < n => g[k] = f[k]
      BY <1>1
    <2>5. n \in D => g[n] = NextState(ks, in, f, n)
      OBVIOUS
    <2> HIDE DEF g, D
    <2>6. ASSUME NEW r \in D, r < n + 1 PROVE g[r] = NextState(ks, in, g, r)
      <3>1. r \in Nat /\ (r < n \/ r = n)
        <4>1. r \in Nat
          BY <1>1
        <4> QED
          BY <2>6, <4>1
      <3>2. r # 0 => r - 1 \in D /\ r - 1 < n
        BY <3>1 DEF D
      <3>3. r # 0 => g[r - 1] = f[r - 1]
        BY <2>4, <3>2
      <3>4. NextState(ks, in, g, r) = NextState(ks, in, f, r)
        BY <3>3, Zenon DEF NextState
      <3>5. g[r] = NextState(ks, in, f, r)
        BY <2>1, <2>4, <2>5, <3>1
      <3> QED
        BY <3>4, <3>5
    <2> QED
      BY <2>3, <2>6
  <1> HIDE DEF S
  <1>4. nr \in S
    BY <1>1, <1>2, <1>3, Induction
  <1>5. PICK f \in [D -> Block] : Upto(f, nr)
    BY <1>4 DEF S
  <1>6. \A r \in D : f[r] = NextState(ks, in, f, r)
    BY <1>1, <1>5
  <1> QED
    BY <1>6

\* The recursion has one solution.
LEMMA StatesUnique ==
    ASSUME NEW nr \in Nat, NEW ks, NEW in, NEW f, NEW g,
           f = [r \in 0 .. nr - 1 |-> NextState(ks, in, f, r)],
           g = [r \in 0 .. nr - 1 |-> NextState(ks, in, g, r)]
    PROVE  f = g
  <1> DEFINE D == 0 .. nr - 1
             T == {r \in D : f[r] # g[r]}
  <1>1. ASSUME T # {} PROVE FALSE
    <2>1. D \subseteq Nat
      OBVIOUS
    <2>2. PICK x \in T : \A y \in T : x <= y
      BY <1>1, <2>1, Smallest
    <2>3. x \in D /\ f[x] # g[x] /\ x \in Nat
      BY <2>1
    <2>4. x # 0 => x - 1 \in D /\ x - 1 < x
      BY <2>3
    <2>5. x # 0 => f[x - 1] = g[x - 1]
      <3>1. x - 1 \in D /\ x - 1 < x => x - 1 \notin T
        BY <2>2, <2>3
      <3> QED
        BY <2>4, <3>1
    <2>6. NextState(ks, in, f, x) = NextState(ks, in, g, x)
      BY <2>5, Zenon DEF NextState
    <2>7. f[x] = NextState(ks, in, f, x) /\ g[x] = NextState(ks, in, g, x)
      <3> HIDE DEF T
      <3>1. \A r \in D : f[r] = NextState(ks, in, f, r)
        OBVIOUS
      <3>2. \A r \in D : g[r] = NextState(ks, in, g, r)
        OBVIOUS
      <3> QED
        BY <2>3, <3>1, <3>2
    <2> QED
      BY <2>3, <2>6, <2>7
  <1>2. \A r \in D : f[r] = g[r]
    BY <1>1
  <1> HIDE DEF T
  <1>3. f = [r \in D |-> f[r]] /\ g = [r \in D |-> g[r]]
    OBVIOUS
  <1> QED
    BY <1>2, <1>3

LEMMA StatesAre ==
    ASSUME NEW is256 \in BOOLEAN, NEW ks \in [0 .. Rounds(is256) -> Block], NEW in \in Block
    PROVE  /\ States(ks, is256, in) \in [0 .. Rounds(is256) - 1 -> Block]
           /\ States(ks, is256, in)[0] = Xor(in, ks[0])
           /\ \A r \in 1 .. Rounds(is256) - 1 :
                 States(ks, is256, in)[r] = Xor(Mix(SubShift(States(ks, is256, in)[r - 1])), ks[r])
           /\ Cipher(ks, is256, in)
                 = Xor(SubShift(States(ks, is256, in)[Rounds(is256) - 1]), ks[Rounds(is256)])
           /\ Cipher(ks, is256, in) \in Block
  <1> DEFINE nr == Rounds(is256)
             D == 0 .. nr - 1
             s == States(ks, is256, in)
  <1>1. nr \in Nat /\ nr > 0
    BY RoundsType
  <1>2. PICK f \in [D -> Block] : f = [r \in D |-> NextState(ks, in, f, r)]
    BY <1>1, StatesExist
  <1>3. s = CHOOSE g : g = [r \in D |-> NextState(ks, in, g, r)]
    BY Zenon DEF States, NextState
  <1>4. s = [r \in D |-> NextState(ks, in, s, r)]
    BY <1>2, <1>3
  <1>5. Cipher(ks, is256, in) = Xor(SubShift(s[nr - 1]), ks[nr])
    BY Zenon DEF Cipher, States
  <1> HIDE DEF s
  <1>6. s = f
    BY <1>1, <1>2, <1>4, StatesUnique
  <1>7. s \in [D -> Block]
    BY <1>2, <1>6
  <1>8. \A r \in D : s[r] = NextState(ks, in, s, r)
    BY <1>4
  <1>9. s[0] = Xor(in, ks[0])
    <2>1. 0 \in D
      BY <1>1
    <2> QED
      BY <1>8, <2>1 DEF NextState
  <1>10. ASSUME NEW r \in 1 .. nr - 1 PROVE s[r] = Xor(Mix(SubShift(s[r - 1])), ks[r])
    <2>1. r \in D /\ r # 0
      BY <1>1
    <2> QED
      BY <1>8, <2>1 DEF NextState
  <1>11. Xor(SubShift(s[nr - 1]), ks[nr]) \in Block
    <2> DEFINE b == s[nr - 1]
               k == ks[nr]
    <2>1. b \in Block /\ k \in Block
      BY <1>1, <1>7
    <2> HIDE DEF b, k
    <2>2. Xor(SubShift(b), k) \in Block
      BY <2>1, XorLaws, LayerLaws
    <2> QED
      BY <2>2 DEF b, k
  <1> QED
    BY <1>5, <1>7, <1>9, <1>10, <1>11 DEF s

----------------------------------------------------------------------------
(* The routines, call by call.                                              *)

LEMMA Tuples ==
    ASSUME NEW a, NEW b, NEW c, NEW d, NEW e, NEW f, NEW g, NEW h, NEW i_, NEW j
    PROVE  /\ <<a, b, c, d, e>> \in Seq({a, b, c, d, e})
           /\ Len(<<a, b, c, d, e>>) = 5
           /\ <<a, b, c, d, e, f, g>> \in Seq({a, b, c, d, e, f, g})
           /\ Len(<<a, b, c, d, e, f, g>>) = 7
           /\ <<a, b, c, d, e, f, g, h, i_, j>> \in Seq({a, b, c, d, e, f, g, h, i_, j})
           /\ Len(<<a, b, c, d, e, f, g, h, i_, j>>) = 10
  OBVIOUS

Lengths(mode) == CASE mode = "ECB" -> 7 [] mode = "CBC" -> 10 [] mode = "CTR" -> 10
                   [] mode = "ECB256" -> 5

LEMMA RoutineTypes ==
    ASSUME NEW mode \in {"ECB", "CBC", "CTR", "ECB256"}
    PROVE  /\ \E S : Routine(mode) \in Seq(S)
           /\ Len(Routine(mode)) = Lengths(mode)
  <1>1. CASE mode = "ECB"
    <2>1. Routine(mode) = ECB /\ Lengths(mode) = 7
      BY <1>1 DEF Routine, Lengths
    <2>2. (\E S : ECB \in Seq(S)) /\ Len(ECB) = 7
      BY Tuples, Zenon DEF ECB
    <2> QED
      BY <2>1, <2>2, Zenon
  <1>2. CASE mode = "CBC"
    <2>1. Routine(mode) = CBC /\ Lengths(mode) = 10
      BY <1>2 DEF Routine, Lengths
    <2>2. (\E S : CBC \in Seq(S)) /\ Len(CBC) = 10
      BY Tuples, Zenon DEF CBC
    <2> QED
      BY <2>1, <2>2, Zenon
  <1>3. CASE mode = "CTR"
    <2>1. Routine(mode) = CTR /\ Lengths(mode) = 10
      BY <1>3 DEF Routine, Lengths
    <2>2. (\E S : CTR \in Seq(S)) /\ Len(CTR) = 10
      BY Tuples, Zenon DEF CTR
    <2> QED
      BY <2>1, <2>2, Zenon
  <1>4. CASE mode = "ECB256"
    <2>1. Routine(mode) = ECB256 /\ Lengths(mode) = 5
      BY <1>4 DEF Routine, Lengths
    <2>2. (\E S : ECB256 \in Seq(S)) /\ Len(ECB256) = 5
      BY Tuples, Zenon DEF ECB256
    <2> QED
      BY <2>1, <2>2, Zenon
  <1> QED
    BY <1>1, <1>2, <1>3, <1>4

\* Call p of a routine.
CallAt(mode, p) == Routine(mode)[p]

LEMMA CallsOfECB ==
    /\ CallAt("ECB", 1) = Do("InitAESEncryption", "none", "none", "none")
    /\ CallAt("ECB", 2) = Do("ExpandKey", "none", "none", "none")
    /\ CallAt("ECB", 3) = Do("Encrypt", "data1", "enc1", "none")
    /\ CallAt("ECB", 4) = Do("Encrypt", "data2", "enc2", "none")
    /\ CallAt("ECB", 5) = Do("InitAESDecryption", "none", "none", "none")
    /\ CallAt("ECB", 6) = Do("Decrypt", "enc1", "dec1", "none")
    /\ CallAt("ECB", 7) = Do("Decrypt", "enc2", "dec2", "none")
  BY DEF CallAt, Routine, ECB, InitEncryption, InitDecryption, ExpandKey, Encrypt, Decrypt

LEMMA CallsOfCBC ==
    /\ CallAt("CBC", 1) = Do("InitAESEncryption", "none", "none", "none")
    /\ CallAt("CBC", 2) = Do("ExpandKey", "none", "none", "none")
    /\ CallAt("CBC", 3) = Do("LoadIV", "iv", "none", "none")
    /\ CallAt("CBC", 4) = Do("EncryptCBC", "data1", "enc1", "none")
    /\ CallAt("CBC", 5) = Do("EncryptCBC", "data2", "enc2", "none")
    /\ CallAt("CBC", 6) = Do("InitAESDecryption", "none", "none", "none")
    /\ CallAt("CBC", 7) = Do("LoadIV", "iv", "none", "none")
    /\ CallAt("CBC", 8) = Do("Decrypt", "enc1", "dec1", "none")
    /\ CallAt("CBC", 9) = Do("LoadIV", "enc1", "none", "none")
    /\ CallAt("CBC", 10) = Do("Decrypt", "enc2", "dec2", "none")
  BY DEF CallAt, Routine, CBC, InitEncryption, InitDecryption, ExpandKey, LoadIV, EncryptCBC,
         Decrypt

LEMMA CallsOfCTR ==
    /\ CallAt("CTR", 1) = Do("InitAESEncryption", "none", "none", "none")
    /\ CallAt("CTR", 2) = Do("memcpy", "iv", "counter", "none")
    /\ CallAt("CTR", 3) = Do("ExpandKey", "none", "none", "none")
    /\ CallAt("CTR", 4) = Do("Encrypt", "counter", "enc1", "data1")
    /\ CallAt("CTR", 5) = Do("Swap", "counter", "counter", "none")
    /\ CallAt("CTR", 6) = Do("Encrypt", "counter", "enc2", "data2")
    /\ CallAt("CTR", 7) = Do("memcpy", "iv", "counter", "none")
    /\ CallAt("CTR", 8) = Do("Encrypt", "counter", "dec1", "enc1")
    /\ CallAt("CTR", 9) = Do("Swap", "counter", "counter", "none")
    /\ CallAt("CTR", 10) = Do("Encrypt", "counter", "dec2", "enc2")
  BY DEF CallAt, Routine, CTR, InitEncryption, CopyCounter, ExpandKey, EncryptAdd, NextCounter

LEMMA CallsOfECB256 ==
    /\ CallAt("ECB256", 1) = Do("InitAESEncryption", "none", "none", "none")
    /\ CallAt("ECB256", 2) = Do("ExpandKey", "none", "none", "none")
    /\ CallAt("ECB256", 3) = Do("Encrypt", "data1", "enc1", "none")
    /\ CallAt("ECB256", 4) = Do("ExpandKey", "none", "none", "none")
    /\ CallAt("ECB256", 5) = Do("Encrypt", "data2", "enc2", "none")
  BY DEF CallAt, Routine, ECB256, InitEncryption, ExpandKey, Encrypt

\* The calls from call p on: what script holds.
From(mode, p) == SubSeq(Routine(mode), p, Len(Routine(mode)))
Last(mode) == Len(Routine(mode))

LEMMA Scripts ==
    ASSUME NEW mode \in {"ECB", "CBC", "CTR", "ECB256"}, NEW p \in 1 .. Last(mode) + 1
    PROVE  /\ From(mode, 1) = Routine(mode)
           /\ p <= Last(mode) =>
                 /\ From(mode, p) # << >>
                 /\ Head(From(mode, p)) = CallAt(mode, p)
                 /\ Tail(From(mode, p)) = From(mode, p + 1)
           /\ From(mode, p) = << >> <=> p = Last(mode) + 1
           /\ Len(From(mode, p)) = Last(mode) + 1 - p
           /\ \A n \in 1 .. Last(mode) + 1 - p : From(mode, p)[n] = CallAt(mode, p + n - 1)
  <1> DEFINE s == Routine(mode)
  <1>1. PICK S : s \in Seq(S)
    BY RoutineTypes
  <1> HIDE DEF s
  <1>2. Len(s) \in Nat /\ Last(mode) = Len(s)
    BY <1>1 DEF Last, s
  <1>3. SubSeq(s, 1, Len(s)) = s
    BY <1>1
  <1>4. p \in 1 .. Len(s) + 1
    BY <1>2
  <1>5. Len(SubSeq(s, p, Len(s))) = Len(s) + 1 - p
    BY <1>1, <1>2, <1>4
  <1>6. ASSUME NEW n \in 1 .. Len(s) + 1 - p
        PROVE  SubSeq(s, p, Len(s))[n] = s[p + n - 1]
    <2> DEFINE m == Len(s)
    <2>1. m \in Nat /\ p \in Nat /\ p > 0 /\ m <= Len(s) /\ n \in 1 .. m - p + 1
      BY <1>2, <1>4
    <2>2. m - p + 1 = Len(SubSeq(s, p, m))
      BY <1>4, <1>5, <2>1
    <2> QED
      BY <1>1, <1>4, <2>1, <2>2
  <1>7. p <= Len(s) => /\ SubSeq(s, p, Len(s)) # << >>
                       /\ Head(SubSeq(s, p, Len(s))) = s[p]
                       /\ Tail(SubSeq(s, p, Len(s))) = SubSeq(s, p + 1, Len(s))
    <2> SUFFICES ASSUME p <= Len(s)
                 PROVE  /\ SubSeq(s, p, Len(s)) # << >>
                        /\ Head(SubSeq(s, p, Len(s))) = s[p]
                        /\ Tail(SubSeq(s, p, Len(s))) = SubSeq(s, p + 1, Len(s))
      OBVIOUS
    <2>1. p \in 1 .. Len(s) /\ Len(s) \in p .. Len(s)
      BY <1>2, <1>4
    <2>2. Len(SubSeq(s, p, Len(s))) # 0
      BY <1>2, <1>4, <1>5
    <2>3. SubSeq(s, p, Len(s)) # << >>
      <3>1. Len(<< >>) = 0
        OBVIOUS
      <3> QED
        BY <2>2, <3>1, Zenon
    <2>4. /\ Head(SubSeq(s, p, Len(s))) = s[p]
          /\ Tail(SubSeq(s, p, Len(s))) = SubSeq(s, p + 1, Len(s))
      BY <1>1, <2>1, HeadTailOfSubSeq, Zenon
    <2> QED
      BY <2>3, <2>4
  <1>8. SubSeq(s, p, Len(s)) = << >> <=> p = Len(s) + 1
    BY <1>1, <1>2, <1>4, <1>5, <1>7
  <1> QED
    BY <1>2, <1>3, <1>5, <1>6, <1>7, <1>8, Zenon DEF s, From, CallAt

----------------------------------------------------------------------------
(* What a job computes, and where it stands before call p of its routine.   *)

K(j) == RoundKeys(j.key, j.is256)
C(j, x) == Cipher(K(j), j.is256, x)

\* What the cipher is applied to for each block, and the encrypted blocks.
In1(j) == CASE j.mode = "CBC" -> Xor(j.data[1], j.iv) [] j.mode = "CTR" -> j.iv
            [] OTHER -> j.data[1]
Enc1(j) == IF j.mode = "CTR" THEN Xor(C(j, In1(j)), j.data[1]) ELSE C(j, In1(j))
In2(j) == CASE j.mode = "CBC" -> Xor(j.data[2], Enc1(j)) [] j.mode = "CTR" -> Successor(j.iv)
            [] OTHER -> j.data[2]
Enc2(j) == IF j.mode = "CTR" THEN Xor(C(j, In2(j)), j.data[2]) ELSE C(j, In2(j))

\* The calls that fill a buffer, and the first that expands the key.
Enc1Call(mode) == IF mode \in {"CBC", "CTR"} THEN 4 ELSE 3
Enc2Call(mode) == CASE mode = "ECB" -> 4 [] mode = "CTR" -> 6 [] OTHER -> 5
Dec1Call(mode) == IF mode \in {"CBC", "CTR"} THEN 8 ELSE 6
Dec2Call(mode) == IF mode \in {"CBC", "CTR"} THEN 10 ELSE 7
ExpandCall(mode) == IF mode = "CTR" THEN 3 ELSE 2

CounterAt(j, p) ==
    IF j.mode # "CTR" \/ p <= 2 THEN ZeroBlock
    ELSE IF p \in {6, 7, 10, 11} THEN Successor(j.iv) ELSE j.iv

\* The buffers before call p.
MemIs(m, j, p) ==
    /\ m["data1"] = j.data[1] /\ m["data2"] = j.data[2] /\ m["iv"] = j.iv
    /\ m["counter"] = CounterAt(j, p)
    /\ m["enc1"] = IF p > Enc1Call(j.mode) THEN Enc1(j) ELSE ZeroBlock
    /\ m["enc2"] = IF p > Enc2Call(j.mode) THEN Enc2(j) ELSE ZeroBlock
    /\ m["dec1"] = IF p > Dec1Call(j.mode) THEN j.data[1] ELSE ZeroBlock
    /\ m["dec2"] = IF p > Dec2Call(j.mode) THEN j.data[2] ELSE ZeroBlock

\* The register lastResult before call p.
LastAt(j, p) ==
    IF j.mode # "CBC" THEN ZeroBlock
    ELSE CASE p \in {4, 8, 9} -> j.iv [] p \in {5, 10, 11} -> Enc1(j) [] p = 6 -> Enc2(j)
           [] OTHER -> ZeroBlock

\* A call of the cipher: what goes through it, and what the call returns.
Op(j, p) == CallAt(j.mode, p).op
CipherOps == {"Encrypt", "EncryptCBC", "Decrypt"}
Input(j, p) == IF p \in {Enc1Call(j.mode), Dec1Call(j.mode)} THEN In1(j) ELSE In2(j)
Result(j, p) ==
    CASE p = Enc1Call(j.mode) -> Enc1(j) [] p = Enc2Call(j.mode) -> Enc2(j)
      [] p = Dec1Call(j.mode) -> j.data[1] [] OTHER -> j.data[2]

\* The state of the unit before round n: decryption passes the states of
\* encryption in reverse.
RoundState(j, p, n) ==
    LET s == States(K(j), j.is256, Input(j, p))
    IN IF Op(j, p) = "Decrypt" THEN SubShift(s[Rounds(j.is256) - n]) ELSE s[n - 1]

----------------------------------------------------------------------------
(* The inductive invariant.                                                 *)

\* The registers as they are when the run in progress is over.
RunResult == Xor(Round(run.datapath, state, keys[run.sel0], lastResult), lastValToAdd)
EffState == IF running THEN RunResult ELSE state
EffLast == IF running /\ ~run.lastDisabled THEN RunResult ELSE lastResult
EffAdd == IF running THEN ZeroBlock ELSE lastValToAdd
EffKeys == IF running /\ ~run.keyDisabled
           THEN [keys EXCEPT ![run.selIn] =
                    Schedule(keys[run.sel1], keys[run.sel0], run.rcon, run.rotate)]
           ELSE keys

\* Where the program is about to write registers, no run is in progress.
Quiet == pc \in {"idle", "done", "call", "lastRun"} => Idle

InSchedule == pc \in {"schedule", "scheduleRun"}
InRounds == pc \in {"round", "roundRun"}
InLast == pc \in {"add", "lastRun"}

Chained(p) ==
    /\ p > 1 /\ pc \notin {"lastRun", "result"} => EffLast = LastAt(job, p) /\ EffAdd = ZeroBlock
    /\ p > 1 /\ ~InLast => cfg.lastDisabled

KeysHeld(p) ==
    p > ExpandCall(job.mode) /\ ~InSchedule =>
        /\ running => run.keyDisabled
        /\ cfg.keyDisabled
        /\ \A r \in 0 .. Nr : keys[r] = RoundKey(job.key, job.is256, r)

Have == IF job.is256 THEN i + 1 ELSE i
Scheduling(p) ==
    InSchedule =>
        /\ Op(job, p) = "ExpandKey" /\ i <= Expansions
        /\ ~cfg.keyDisabled
        /\ running => ~run.keyDisabled /\ run.selIn = Have
        /\ \A r \in 0 .. Have : EffKeys[r] = RoundKey(job.key, job.is256, r)
        /\ pc = "scheduleRun" =>
              /\ i < Expansions
              /\ cfg.rcon = RconNow(i) /\ cfg.sel0 = i
              /\ cfg.sel1 = Have /\ cfg.selIn = Have + 1
              /\ cfg.rotate <=> ~job.is256 \/ (i + 1) % 2 = 1

Ciphering(p) ==
    /\ InRounds \/ InLast \/ pc = "result" => Op(job, p) \in CipherOps
    /\ InRounds =>
          /\ i \in 1 .. Nr /\ EffState = RoundState(job, p, i)
          /\ cfg.datapath = IF Op(job, p) = "Decrypt" THEN "InvRound" ELSE "Round"
    /\ pc = "roundRun" => i < Nr /\ cfg.sel0 = IF Op(job, p) = "Decrypt" THEN Nr - i ELSE i
    /\ InLast =>
          /\ EffState = RoundState(job, p, Nr)
          /\ cfg.datapath = IF Op(job, p) = "Decrypt" THEN "InvLastRound" ELSE "LastRound"
          /\ cfg.sel0 = IF Op(job, p) = "Decrypt" THEN 0 ELSE Nr
          /\ cfg.lastDisabled <=> Op(job, p) # "EncryptCBC"
    /\ pc = "lastRun" =>
          /\ lastResult = LastAt(job, p)
          /\ lastValToAdd = IF CallAt(job.mode, p).add = "none" THEN ZeroBlock
                            ELSE mem[CallAt(job.mode, p).add]
    /\ pc = "result" =>
          EffState = Result(job, p) /\ EffLast = LastAt(job, p + 1) /\ EffAdd = ZeroBlock

\* The calls of the routine up to call p have been made.
At(p) ==
    /\ script = From(job.mode, p)
    /\ pc = "done" <=> p = Last(job.mode) + 1
    /\ MemIs(mem, job, p)
    /\ Chained(p) /\ KeysHeld(p) /\ Scheduling(p) /\ Ciphering(p)

IInv ==
    /\ TypeOK /\ Quiet
    /\ pc # "idle" => \E p \in 1 .. Last(job.mode) + 1 : At(p)

----------------------------------------------------------------------------
(* Jobs and their calls.                                                    *)

Modes == {"ECB", "CBC", "CTR", "ECB256"}

LEMMA SuccessorType ==
    ASSUME NEW b \in Block
    PROVE  Successor(b) \in Block /\ ZeroBlock \in Block
  <1> DEFINE last == b[4]
  <1>1. last \in Word
    BY DEF Block
  <1> HIDE DEF last
  <1>2. Plus1(last) \in Word /\ Zero \in Word
    BY <1>1, AesAlgebra
  <1> QED
    BY <1>2 DEF Successor, Block, ZeroBlock, last

LEMMA JobTypes ==
    ASSUME NEW j \in Jobs
    PROVE  /\ j.mode \in Modes /\ j.is256 \in BOOLEAN /\ IsKey(j.key, j.is256)
           /\ j.iv \in Block /\ j.data[1] \in Block /\ j.data[2] \in Block
           /\ ZeroBlock \in Block /\ Successor(j.iv) \in Block
  <1>1. /\ j.mode \in Modes /\ j.is256 \in BOOLEAN /\ IsKey(j.key, j.is256)
        /\ j.iv \in Block /\ j.data[1] \in Block /\ j.data[2] \in Block
    BY JobsAreTyped DEF Modes, IsKey
  <1> QED
    BY <1>1, SuccessorType

LEMMA JobKeys ==
    ASSUME NEW j \in Jobs
    PROVE  /\ K(j) \in [0 .. Rounds(j.is256) -> Block]
           /\ \A r \in 0 .. Rounds(j.is256) : K(j)[r] = RoundKey(j.key, j.is256, r)
           /\ \A x \in Block : C(j, x) \in Block
  <1>1. j.is256 \in BOOLEAN /\ IsKey(j.key, j.is256)
    BY JobTypes
  <1>2. \A r \in 0 .. Rounds(j.is256) : K(j)[r] = RoundKey(j.key, j.is256, r)
    BY DEF K, RoundKey
  <1>3. \A r \in 0 .. Rounds(j.is256) : RoundKey(j.key, j.is256, r) \in Block
    BY <1>1, RoundKeyIs
  <1>4. K(j) = [r \in 0 .. Rounds(j.is256) |-> K(j)[r]]
    BY DEF K, RoundKeys
  <1> DEFINE ks == K(j)
  <1> HIDE DEF ks
  <1>5. ks \in [0 .. Rounds(j.is256) -> Block]
    BY <1>2, <1>3, <1>4 DEF ks
  <1>6. \A x \in Block : Cipher(ks, j.is256, x) \in Block
    BY <1>1, <1>5, StatesAre
  <1> QED
    BY <1>2, <1>5, <1>6 DEF ks, C

\* How the blocks of a job hang together.
LEMMA JobBlocks ==
    ASSUME NEW j \in Jobs
    PROVE  /\ In1(j) \in Block /\ In2(j) \in Block /\ Enc1(j) \in Block /\ Enc2(j) \in Block
           /\ C(j, In1(j)) \in Block /\ C(j, In2(j)) \in Block
           /\ j.mode \in {"ECB", "ECB256"} => In1(j) = j.data[1] /\ In2(j) = j.data[2]
           /\ j.mode # "CTR" => Enc1(j) = C(j, In1(j)) /\ Enc2(j) = C(j, In2(j))
           /\ j.mode = "CBC" =>
                 /\ In1(j) = Xor(j.data[1], j.iv) /\ Xor(In1(j), j.iv) = j.data[1]
                 /\ In2(j) = Xor(j.data[2], Enc1(j)) /\ Xor(In2(j), Enc1(j)) = j.data[2]
           /\ j.mode = "CTR" =>
                 /\ In1(j) = j.iv /\ In2(j) = Successor(j.iv)
                 /\ Enc1(j) = Xor(C(j, In1(j)), j.data[1])
                 /\ Enc2(j) = Xor(C(j, In2(j)), j.data[2])
                 /\ Xor(C(j, In1(j)), Enc1(j)) = j.data[1]
                 /\ Xor(C(j, In2(j)), Enc2(j)) = j.data[2]
  <1> DEFINE d1 == j.data[1]
             d2 == j.data[2]
             iv == j.iv
             next == Successor(j.iv)
  <1>1. /\ j.mode \in Modes /\ d1 \in Block /\ d2 \in Block /\ iv \in Block
        /\ next \in Block
    BY JobTypes
  <1>2. ASSUME NEW c \in Block, NEW d \in Block
        PROVE  Xor(c, Xor(c, d)) = d /\ Xor(Xor(d, c), c) = d /\ Xor(c, d) \in Block
    <2>1. Xor(c, d) = Xor(d, c) /\ Xor(c, d) \in Block /\ Xor(Xor(d, c), c) = d
      BY XorLaws
    <2>2. Xor(c, Xor(d, c)) = Xor(Xor(d, c), c)
      BY <2>1, XorLaws
    <2> QED
      BY <2>1, <2>2
  <1>3. \A x \in Block : C(j, x) \in Block
    BY JobKeys
  <1> HIDE DEF d1, d2, iv, next
  <1>4. CASE j.mode \in {"ECB", "ECB256"}
    <2>1. In1(j) = d1 /\ In2(j) = d2 /\ Enc1(j) = C(j, In1(j)) /\ Enc2(j) = C(j, In2(j))
      BY <1>4 DEF In1, In2, Enc1, Enc2, d1, d2
    <2> QED
      BY <1>1, <1>3, <1>4, <2>1 DEF d1, d2
  <1>5. CASE j.mode = "CBC"
    <2>1. /\ In1(j) = Xor(d1, iv) /\ Enc1(j) = C(j, In1(j))
          /\ In2(j) = Xor(d2, Enc1(j)) /\ Enc2(j) = C(j, In2(j))
      BY <1>5 DEF In1, In2, Enc1, Enc2, d1, d2, iv
    <2>2. In1(j) \in Block /\ Enc1(j) \in Block /\ Xor(In1(j), iv) = d1
      BY <1>1, <1>2, <1>3, <2>1
    <2>3. In2(j) \in Block /\ Enc2(j) \in Block /\ Xor(In2(j), Enc1(j)) = d2
      BY <1>1, <1>2, <1>3, <2>1, <2>2
    <2> QED
      BY <1>5, <2>1, <2>2, <2>3 DEF d1, d2, iv
  <1>6. CASE j.mode = "CTR"
    <2>1. /\ In1(j) = iv /\ Enc1(j) = Xor(C(j, In1(j)), d1)
          /\ In2(j) = next /\ Enc2(j) = Xor(C(j, In2(j)), d2)
      BY <1>6 DEF In1, In2, Enc1, Enc2, d1, d2, iv, next
    <2>2. C(j, In1(j)) \in Block /\ C(j, In2(j)) \in Block
      BY <1>1, <1>3, <2>1
    <2>3. Enc1(j) \in Block /\ Xor(C(j, In1(j)), Enc1(j)) = d1
      BY <1>1, <1>2, <2>1, <2>2
    <2>4. Enc2(j) \in Block /\ Xor(C(j, In2(j)), Enc2(j)) = d2
      BY <1>1, <1>2, <2>1, <2>2
    <2> QED
      BY <1>1, <1>6, <2>1, <2>2, <2>3, <2>4 DEF d1, d2, iv, next
  <1> QED
    BY <1>1, <1>4, <1>5, <1>6 DEF Modes

\* What a call of the cipher works on and leaves behind.
CipherCall(j, p, m) ==
    LET c == CallAt(j.mode, p)
    IN /\ p > ExpandCall(j.mode)
       /\ c.from \in Buffer /\ c.to \in Buffer /\ c.add \in Buffer \cup {"none"}
       /\ c.op # "Decrypt" =>
             /\ Xor(m[c.from], LastAt(j, p)) = Input(j, p)
             /\ Result(j, p) = Xor(C(j, Input(j, p)), IF c.add = "none" THEN ZeroBlock ELSE m[c.add])
       /\ c.op = "Decrypt" =>
             /\ m[c.from] = C(j, Input(j, p)) /\ c.add = "none"
             /\ Result(j, p) = Xor(Input(j, p), LastAt(j, p))
       /\ MemIs([m EXCEPT ![c.to] = Result(j, p)], j, p + 1)
       /\ LastAt(j, p + 1) = IF c.op = "EncryptCBC" THEN Result(j, p) ELSE LastAt(j, p)

\* What any other call does.
OtherCall(j, p, m) ==
    LET c == CallAt(j.mode, p)
    IN /\ p + 1 > ExpandCall(j.mode) /\ c.op # "ExpandKey" => p > ExpandCall(j.mode)
       /\ p > 1 \/ c.op = "InitAESEncryption"
       /\ c.op \in {"InitAESEncryption", "InitAESDecryption"} =>
             MemIs(m, j, p + 1) /\ LastAt(j, p + 1) = ZeroBlock
       /\ c.op = "LoadIV" =>
             c.from \in Buffer /\ MemIs(m, j, p + 1) /\ LastAt(j, p + 1) = m[c.from]
       /\ c.op = "memcpy" =>
             /\ MemIs([m EXCEPT !["counter"] = m["iv"]], j, p + 1)
             /\ LastAt(j, p + 1) = LastAt(j, p)
       /\ c.op = "Swap" =>
             /\ MemIs([m EXCEPT !["counter"] = Successor(m["counter"])], j, p + 1)
             /\ LastAt(j, p + 1) = LastAt(j, p)
       /\ c.op = "ExpandKey" =>
             p + 1 > ExpandCall(j.mode) /\ MemIs(m, j, p + 1) /\ LastAt(j, p + 1) = LastAt(j, p)

LEMMA StepOfECB ==
    ASSUME NEW j \in Jobs, j.mode = "ECB", NEW p \in 1 .. 7,
           NEW m \in [Buffer -> Block], MemIs(m, j, p)
    PROVE  IF Op(j, p) \in CipherOps THEN CipherCall(j, p, m) ELSE OtherCall(j, p, m)
  <1>1. /\ In1(j) = j.data[1] /\ In2(j) = j.data[2]
        /\ Enc1(j) = C(j, In1(j)) /\ Enc2(j) = C(j, In2(j))
        /\ In1(j) \in Block /\ In2(j) \in Block /\ Enc1(j) \in Block /\ Enc2(j) \in Block
    BY JobBlocks
  <1>2. /\ Xor(In1(j), ZeroBlock) = In1(j) /\ Xor(In2(j), ZeroBlock) = In2(j)
        /\ Xor(Enc1(j), ZeroBlock) = Enc1(j) /\ Xor(Enc2(j), ZeroBlock) = Enc2(j)
    BY <1>1, XorLaws
  <1>3. CASE p = 1
    BY <1>1, <1>2, CallsOfECB, <1>3
       DEF CipherCall, OtherCall, Op, CipherOps, Do, MemIs, CounterAt, LastAt, Enc1Call,
           Enc2Call, Dec1Call, Dec2Call, ExpandCall, Input, Result, Buffer
  <1>4. CASE p = 2
    BY <1>1, <1>2, CallsOfECB, <1>4
       DEF CipherCall, OtherCall, Op, CipherOps, Do, MemIs, CounterAt, LastAt, Enc1Call,
           Enc2Call, Dec1Call, Dec2Call, ExpandCall, Input, Result, Buffer
  <1>5. CASE p = 3
    BY <1>1, <1>2, CallsOfECB, <1>5
       DEF CipherCall, OtherCall, Op, CipherOps, Do, MemIs, CounterAt, LastAt, Enc1Call,
           Enc2Call, Dec1Call, Dec2Call, ExpandCall, Input, Result, Buffer
  <1>6. CASE p = 4
    BY <1>1, <1>2, CallsOfECB, <1>6
       DEF CipherCall, OtherCall, Op, CipherOps, Do, MemIs, CounterAt, LastAt, Enc1Call,
           Enc2Call, Dec1Call, Dec2Call, ExpandCall, Input, Result, Buffer
  <1>7. CASE p = 5
    BY <1>1, <1>2, CallsOfECB, <1>7
       DEF CipherCall, OtherCall, Op, CipherOps, Do, MemIs, CounterAt, LastAt, Enc1Call,
           Enc2Call, Dec1Call, Dec2Call, ExpandCall, Input, Result, Buffer
  <1>8. CASE p = 6
    BY <1>1, <1>2, CallsOfECB, <1>8
       DEF CipherCall, OtherCall, Op, CipherOps, Do, MemIs, CounterAt, LastAt, Enc1Call,
           Enc2Call, Dec1Call, Dec2Call, ExpandCall, Input, Result, Buffer
  <1>9. CASE p = 7
    BY <1>1, <1>2, CallsOfECB, <1>9
       DEF CipherCall, OtherCall, Op, CipherOps, Do, MemIs, CounterAt, LastAt, Enc1Call,
           Enc2Call, Dec1Call, Dec2Call, ExpandCall, Input, Result, Buffer
  <1> QED
    BY <1>3, <1>4, <1>5, <1>6, <1>7, <1>8, <1>9

LEMMA StepOfCBC ==
    ASSUME NEW j \in Jobs, j.mode = "CBC", NEW p \in 1 .. 10,
           NEW m \in [Buffer -> Block], MemIs(m, j, p)
    PROVE  IF Op(j, p) \in CipherOps THEN CipherCall(j, p, m) ELSE OtherCall(j, p, m)
  <1>1. /\ In1(j) = Xor(j.data[1], j.iv) /\ Xor(In1(j), j.iv) = j.data[1]
        /\ In2(j) = Xor(j.data[2], Enc1(j)) /\ Xor(In2(j), Enc1(j)) = j.data[2]
        /\ Enc1(j) = C(j, In1(j)) /\ Enc2(j) = C(j, In2(j))
        /\ In1(j) \in Block /\ In2(j) \in Block /\ Enc1(j) \in Block /\ Enc2(j) \in Block
    BY JobBlocks
  <1>2. /\ Xor(Enc1(j), ZeroBlock) = Enc1(j) /\ Xor(Enc2(j), ZeroBlock) = Enc2(j)
    BY <1>1, XorLaws
  <1>3. CASE p = 1
    BY <1>1, <1>2, CallsOfCBC, <1>3
       DEF CipherCall, OtherCall, Op, CipherOps, Do, MemIs, CounterAt, LastAt, Enc1Call,
           Enc2Call, Dec1Call, Dec2Call, ExpandCall, Input, Result, Buffer
  <1>4. CASE p = 2
    BY <1>1, <1>2, CallsOfCBC, <1>4
       DEF CipherCall, OtherCall, Op, CipherOps, Do, MemIs, CounterAt, LastAt, Enc1Call,
           Enc2Call, Dec1Call, Dec2Call, ExpandCall, Input, Result, Buffer
  <1>5. CASE p = 3
    BY <1>1, <1>2, CallsOfCBC, <1>5
       DEF CipherCall, OtherCall, Op, CipherOps, Do, MemIs, CounterAt, LastAt, Enc1Call,
           Enc2Call, Dec1Call, Dec2Call, ExpandCall, Input, Result, Buffer
  <1>6. CASE p = 4
    BY <1>1, <1>2, CallsOfCBC, <1>6
       DEF CipherCall, OtherCall, Op, CipherOps, Do, MemIs, CounterAt, LastAt, Enc1Call,
           Enc2Call, Dec1Call, Dec2Call, ExpandCall, Input, Result, Buffer
  <1>7. CASE p = 5
    BY <1>1, <1>2, CallsOfCBC, <1>7
       DEF CipherCall, OtherCall, Op, CipherOps, Do, MemIs, CounterAt, LastAt, Enc1Call,
           Enc2Call, Dec1Call, Dec2Call, ExpandCall, Input, Result, Buffer
  <1>8. CASE p = 6
    BY <1>1, <1>2, CallsOfCBC, <1>8
       DEF CipherCall, OtherCall, Op, CipherOps, Do, MemIs, CounterAt, LastAt, Enc1Call,
           Enc2Call, Dec1Call, Dec2Call, ExpandCall, Input, Result, Buffer
  <1>9. CASE p = 7
    BY <1>1, <1>2, CallsOfCBC, <1>9
       DEF CipherCall, OtherCall, Op, CipherOps, Do, MemIs, CounterAt, LastAt, Enc1Call,
           Enc2Call, Dec1Call, Dec2Call, ExpandCall, Input, Result, Buffer
  <1>10. CASE p = 8
    BY <1>1, <1>2, CallsOfCBC, <1>10
       DEF CipherCall, OtherCall, Op, CipherOps, Do, MemIs, CounterAt, LastAt, Enc1Call,
           Enc2Call, Dec1Call, Dec2Call, ExpandCall, Input, Result, Buffer
  <1>11. CASE p = 9
    BY <1>1, <1>2, CallsOfCBC, <1>11
       DEF CipherCall, OtherCall, Op, CipherOps, Do, MemIs, CounterAt, LastAt, Enc1Call,
           Enc2Call, Dec1Call, Dec2Call, ExpandCall, Input, Result, Buffer
  <1>12. CASE p = 10
    BY <1>1, <1>2, CallsOfCBC, <1>12
       DEF CipherCall, OtherCall, Op, CipherOps, Do, MemIs, CounterAt, LastAt, Enc1Call,
           Enc2Call, Dec1Call, Dec2Call, ExpandCall, Input, Result, Buffer
  <1> QED
    BY <1>3, <1>4, <1>5, <1>6, <1>7, <1>8, <1>9, <1>10, <1>11, <1>12

LEMMA StepOfCTR ==
    ASSUME NEW j \in Jobs, j.mode = "CTR", NEW p \in 1 .. 10,
           NEW m \in [Buffer -> Block], MemIs(m, j, p)
    PROVE  IF Op(j, p) \in CipherOps THEN CipherCall(j, p, m) ELSE OtherCall(j, p, m)
  <1>1. /\ In1(j) = j.iv /\ In2(j) = Successor(j.iv)
        /\ Enc1(j) = Xor(C(j, In1(j)), j.data[1]) /\ Enc2(j) = Xor(C(j, In2(j)), j.data[2])
        /\ Xor(C(j, In1(j)), Enc1(j)) = j.data[1] /\ Xor(C(j, In2(j)), Enc2(j)) = j.data[2]
        /\ In1(j) \in Block /\ In2(j) \in Block
    BY JobBlocks
  <1>2. Xor(In1(j), ZeroBlock) = In1(j) /\ Xor(In2(j), ZeroBlock) = In2(j)
    BY <1>1, XorLaws
  <1>3. CASE p = 1
    BY <1>1, <1>2, CallsOfCTR, <1>3
       DEF CipherCall, OtherCall, Op, CipherOps, Do, MemIs, CounterAt, LastAt, Enc1Call,
           Enc2Call, Dec1Call, Dec2Call, ExpandCall, Input, Result, Buffer
  <1>4. CASE p = 2
    BY <1>1, <1>2, CallsOfCTR, <1>4
       DEF CipherCall, OtherCall, Op, CipherOps, Do, MemIs, CounterAt, LastAt, Enc1Call,
           Enc2Call, Dec1Call, Dec2Call, ExpandCall, Input, Result, Buffer
  <1>5. CASE p = 3
    BY <1>1, <1>2, CallsOfCTR, <1>5
       DEF CipherCall, OtherCall, Op, CipherOps, Do, MemIs, CounterAt, LastAt, Enc1Call,
           Enc2Call, Dec1Call, Dec2Call, ExpandCall, Input, Result, Buffer
  <1>6. CASE p = 4
    BY <1>1, <1>2, CallsOfCTR, <1>6
       DEF CipherCall, OtherCall, Op, CipherOps, Do, MemIs, CounterAt, LastAt, Enc1Call,
           Enc2Call, Dec1Call, Dec2Call, ExpandCall, Input, Result, Buffer
  <1>7. CASE p = 5
    BY <1>1, <1>2, CallsOfCTR, <1>7
       DEF CipherCall, OtherCall, Op, CipherOps, Do, MemIs, CounterAt, LastAt, Enc1Call,
           Enc2Call, Dec1Call, Dec2Call, ExpandCall, Input, Result, Buffer
  <1>8. CASE p = 6
    BY <1>1, <1>2, CallsOfCTR, <1>8
       DEF CipherCall, OtherCall, Op, CipherOps, Do, MemIs, CounterAt, LastAt, Enc1Call,
           Enc2Call, Dec1Call, Dec2Call, ExpandCall, Input, Result, Buffer
  <1>9. CASE p = 7
    BY <1>1, <1>2, CallsOfCTR, <1>9
       DEF CipherCall, OtherCall, Op, CipherOps, Do, MemIs, CounterAt, LastAt, Enc1Call,
           Enc2Call, Dec1Call, Dec2Call, ExpandCall, Input, Result, Buffer
  <1>10. CASE p = 8
    BY <1>1, <1>2, CallsOfCTR, <1>10
       DEF CipherCall, OtherCall, Op, CipherOps, Do, MemIs, CounterAt, LastAt, Enc1Call,
           Enc2Call, Dec1Call, Dec2Call, ExpandCall, Input, Result, Buffer
  <1>11. CASE p = 9
    BY <1>1, <1>2, CallsOfCTR, <1>11
       DEF CipherCall, OtherCall, Op, CipherOps, Do, MemIs, CounterAt, LastAt, Enc1Call,
           Enc2Call, Dec1Call, Dec2Call, ExpandCall, Input, Result, Buffer
  <1>12. CASE p = 10
    BY <1>1, <1>2, CallsOfCTR, <1>12
       DEF CipherCall, OtherCall, Op, CipherOps, Do, MemIs, CounterAt, LastAt, Enc1Call,
           Enc2Call, Dec1Call, Dec2Call, ExpandCall, Input, Result, Buffer
  <1> QED
    BY <1>3, <1>4, <1>5, <1>6, <1>7, <1>8, <1>9, <1>10, <1>11, <1>12

LEMMA StepOfECB256 ==
    ASSUME NEW j \in Jobs, j.mode = "ECB256", NEW p \in 1 .. 5,
           NEW m \in [Buffer -> Block], MemIs(m, j, p)
    PROVE  IF Op(j, p) \in CipherOps THEN CipherCall(j, p, m) ELSE OtherCall(j, p, m)
  <1>1. /\ In1(j) = j.data[1] /\ In2(j) = j.data[2]
        /\ Enc1(j) = C(j, In1(j)) /\ Enc2(j) = C(j, In2(j))
        /\ In1(j) \in Block /\ In2(j) \in Block /\ Enc1(j) \in Block /\ Enc2(j) \in Block
    BY JobBlocks
  <1>2. /\ Xor(In1(j), ZeroBlock) = In1(j) /\ Xor(In2(j), ZeroBlock) = In2(j)
        /\ Xor(Enc1(j), ZeroBlock) = Enc1(j) /\ Xor(Enc2(j), ZeroBlock) = Enc2(j)
    BY <1>1, XorLaws
  <1>3. CASE p = 1
    BY <1>1, <1>2, CallsOfECB256, <1>3
       DEF CipherCall, OtherCall, Op, CipherOps, Do, MemIs, CounterAt, LastAt, Enc1Call,
           Enc2Call, Dec1Call, Dec2Call, ExpandCall, Input, Result, Buffer
  <1>4. CASE p = 2
    BY <1>1, <1>2, CallsOfECB256, <1>4
       DEF CipherCall, OtherCall, Op, CipherOps, Do, MemIs, CounterAt, LastAt, Enc1Call,
           Enc2Call, Dec1Call, Dec2Call, ExpandCall, Input, Result, Buffer
  <1>5. CASE p = 3
    BY <1>1, <1>2, CallsOfECB256, <1>5
       DEF CipherCall, OtherCall, Op, CipherOps, Do, MemIs, CounterAt, LastAt, Enc1Call,
           Enc2Call, Dec1Call, Dec2Call, ExpandCall, Input, Result, Buffer
  <1>6. CASE p = 4
    BY <1>1, <1>2, CallsOfECB256, <1>6
       DEF CipherCall, OtherCall, Op, CipherOps, Do, MemIs, CounterAt, LastAt, Enc1Call,
           Enc2Call, Dec1Call, Dec2Call, ExpandCall, Input, Result, Buffer
  <1>7. CASE p = 5
    BY <1>1, <1>2, CallsOfECB256, <1>7
       DEF CipherCall, OtherCall, Op, CipherOps, Do, MemIs, CounterAt, LastAt, Enc1Call,
           Enc2Call, Dec1Call, Dec2Call, ExpandCall, Input, Result, Buffer
  <1> QED
    BY <1>3, <1>4, <1>5, <1>6, <1>7

LEMMA StepOfJob ==
    ASSUME NEW j \in Jobs, NEW p \in 1 .. Last(j.mode),
           NEW m \in [Buffer -> Block], MemIs(m, j, p)
    PROVE  IF Op(j, p) \in CipherOps THEN CipherCall(j, p, m) ELSE OtherCall(j, p, m)
  <1>1. j.mode \in {"ECB", "CBC", "CTR", "ECB256"}
    BY JobTypes DEF Modes
  <1>2. Last(j.mode) = Lengths(j.mode)
    BY <1>1, RoutineTypes DEF Last
  <1>3. CASE j.mode = "ECB"
    <2>1. p \in 1 .. 7
      BY <1>2, <1>3 DEF Lengths
    <2> QED
      BY <1>3, <2>1, StepOfECB
  <1>4. CASE j.mode = "CBC"
    <2>1. p \in 1 .. 10
      BY <1>2, <1>4 DEF Lengths
    <2> QED
      BY <1>4, <2>1, StepOfCBC
  <1>5. CASE j.mode = "CTR"
    <2>1. p \in 1 .. 10
      BY <1>2, <1>5 DEF Lengths
    <2> QED
      BY <1>5, <2>1, StepOfCTR
  <1>6. CASE j.mode = "ECB256"
    <2>1. p \in 1 .. 5
      BY <1>2, <1>6 DEF Lengths
    <2> QED
      BY <1>6, <2>1, StepOfECB256
  <1> QED
    BY <1>1, <1>3, <1>4, <1>5, <1>6

----------------------------------------------------------------------------
(* The rounds and the key schedule of the unit.                             *)

LEMMA RoundType ==
    ASSUME NEW d \in Datapath, NEW x \in Block, NEW k \in Block, NEW v \in Block
    PROVE  Round(d, x, k, v) \in Block
  <1>1. Xor(Xor(x, k), v) \in Block /\ Xor(x, k) \in Block
    BY XorLaws
  <1>2. Xor(Mix(SubShift(x)), k) \in Block /\ Xor(SubShift(x), k) \in Block
    BY LayerLaws, XorLaws
  <1>3. InvMix(Xor(InvSubShift(x), k)) \in Block /\ Xor(Xor(InvSubShift(x), k), v) \in Block
    BY LayerLaws, XorLaws
  <1> QED
    BY <1>1, <1>2, <1>3 DEF Round, Datapath

LEMMA ScheduleType ==
    ASSUME NEW x \in Block, NEW w \in Block, NEW rcon \in Word, NEW rotate \in BOOLEAN
    PROVE  Schedule(x, w, rcon, rotate) \in Block
  <1> DEFINE sub == SubWord(IF rotate THEN RotWord(x[4]) ELSE x[4])
             a == XorWord(XorWord(sub, w[1]), rcon)
             b == XorWord(a, w[2])
             c == XorWord(b, w[3])
             e == XorWord(c, w[4])
  <1>1. x[4] \in Word /\ w[1] \in Word /\ w[2] \in Word /\ w[3] \in Word /\ w[4] \in Word
    BY DEF Block
  <1>2. sub \in Word
    BY <1>1, AesAlgebra
  <1> DEFINE w1 == w[1]
             w2 == w[2]
             w3 == w[3]
             w4 == w[4]
  <1>3. w1 \in Word /\ w2 \in Word /\ w3 \in Word /\ w4 \in Word
    BY <1>1
  <1>4. Schedule(x, w, rcon, rotate) = <<a, b, c, e>>
    BY DEF Schedule
  <1> HIDE DEF sub, w1, w2, w3, w4
  <1>5. XorWord(XorWord(sub, w1), rcon) \in Word
    BY <1>2, <1>3, AesAlgebra
  <1>6. a \in Word
    BY <1>5 DEF w1
  <1> HIDE DEF a
  <1>7. XorWord(a, w2) \in Word
    BY <1>3, <1>6, AesAlgebra
  <1>8. b \in Word
    BY <1>7 DEF w2
  <1> HIDE DEF b
  <1>9. XorWord(b, w3) \in Word
    BY <1>3, <1>8, AesAlgebra
  <1>10. c \in Word
    BY <1>9 DEF w3
  <1> HIDE DEF c
  <1>11. XorWord(c, w4) \in Word
    BY <1>3, <1>10, AesAlgebra
  <1>12. e \in Word
    BY <1>11 DEF w4
  <1> HIDE DEF e
  <1> QED
    BY <1>4, <1>6, <1>8, <1>10, <1>12 DEF Block

LEMMA CallTypes ==
    ASSUME NEW j \in Jobs, NEW p
    PROVE  /\ Input(j, p) \in Block /\ Result(j, p) \in Block /\ LastAt(j, p) \in Block
           /\ C(j, Input(j, p)) \in Block
  <1>1. /\ In1(j) \in Block /\ In2(j) \in Block /\ Enc1(j) \in Block /\ Enc2(j) \in Block
        /\ j.data[1] \in Block /\ j.data[2] \in Block /\ j.iv \in Block /\ ZeroBlock \in Block
    BY JobBlocks, JobTypes
  <1>2. Input(j, p) \in Block /\ Result(j, p) \in Block /\ LastAt(j, p) \in Block
    BY <1>1, Zenon DEF Input, Result, LastAt
  <1> QED
    BY <1>2, JobKeys

\* The states of the call p, as those of the software.
LEMMA CallStates ==
    ASSUME NEW j \in Jobs, NEW p
    PROVE  LET s == States(K(j), j.is256, Input(j, p))
               nr == Rounds(j.is256)
               k(r) == RoundKey(j.key, j.is256, r)
           IN /\ s \in [0 .. nr - 1 -> Block] /\ nr \in Nat /\ nr > 0
              /\ s[0] = Xor(Input(j, p), k(0))
              /\ \A r \in 1 .. nr - 1 : s[r] = Xor(Mix(SubShift(s[r - 1])), k(r))
              /\ C(j, Input(j, p)) = Xor(SubShift(s[nr - 1]), k(nr))
              /\ \A r \in 0 .. nr : k(r) \in Block
  <1> DEFINE ks == K(j)
             in == Input(j, p)
             nr == Rounds(j.is256)
             k(r) == RoundKey(j.key, j.is256, r)
             s == States(ks, j.is256, in)
  <1>1. j.is256 \in BOOLEAN /\ ks \in [0 .. nr -> Block] /\ in \in Block
    BY JobTypes, JobKeys, CallTypes
  <1>2. \A r \in 0 .. nr : ks[r] = k(r)
    BY JobKeys
  <1>3. nr \in Nat /\ nr > 0
    BY <1>1, RoundsType
  <1> HIDE DEF ks, in
  <1>4. /\ s \in [0 .. nr - 1 -> Block] /\ s[0] = Xor(in, ks[0])
        /\ \A r \in 1 .. nr - 1 : s[r] = Xor(Mix(SubShift(s[r - 1])), ks[r])
        /\ Cipher(ks, j.is256, in) = Xor(SubShift(s[nr - 1]), ks[nr])
    BY <1>1, StatesAre
  <1> HIDE DEF s, nr, k
  <1>5. /\ 0 \in 0 .. nr /\ nr \in 0 .. nr /\ \A r \in 1 .. nr - 1 : r \in 0 .. nr
    BY <1>3
  <1>6. /\ s[0] = Xor(in, k(0))
        /\ \A r \in 1 .. nr - 1 : s[r] = Xor(Mix(SubShift(s[r - 1])), k(r))
        /\ Cipher(ks, j.is256, in) = Xor(SubShift(s[nr - 1]), k(nr))
    BY <1>2, <1>4, <1>5
  <1>7. \A r \in 0 .. nr : k(r) \in Block
    BY <1>1, <1>2
  <1> QED
    BY <1>3, <1>4, <1>6, <1>7 DEF C, s, nr, k, ks, in

\* The first run of a call leads to the state before round 1.
LEMMA FirstRound ==
    ASSUME NEW j \in Jobs, NEW p, NEW x \in Block, NEW last \in Block,
           Op(j, p) # "Decrypt" => Xor(x, last) = Input(j, p),
           Op(j, p) = "Decrypt" => x = C(j, Input(j, p))
    PROVE  Round(IF Op(j, p) = "Decrypt" THEN "InvFirstAdd" ELSE "FirstAdd", x,
                 RoundKey(j.key, j.is256, IF Op(j, p) = "Decrypt" THEN Rounds(j.is256) ELSE 0),
                 last)
              = RoundState(j, p, 1)
  <1> DEFINE s == States(K(j), j.is256, Input(j, p))
             nr == Rounds(j.is256)
             k(r) == RoundKey(j.key, j.is256, r)
             in == Input(j, p)
  <1>1. /\ s \in [0 .. nr - 1 -> Block] /\ nr \in Nat /\ nr > 0
        /\ s[0] = Xor(in, k(0))
        /\ C(j, in) = Xor(SubShift(s[nr - 1]), k(nr))
        /\ \A r \in 0 .. nr : k(r) \in Block
    BY CallStates
  <1>2. CASE Op(j, p) = "Decrypt"
    <2>1. RoundState(j, p, 1) = SubShift(s[nr - 1])
      BY <1>2 DEF RoundState
    <2> DEFINE b == s[nr - 1]
               key == k(nr)
    <2>2. b \in Block /\ key \in Block
      BY <1>1
    <2>3. x = Xor(SubShift(b), key)
      BY <1>1, <1>2
    <2> HIDE DEF b, key
    <2>4. Xor(x, key) = SubShift(b)
      BY <2>2, <2>3, XorLaws, LayerLaws
    <2> QED
      BY <1>2, <2>1, <2>4 DEF Round, b, key
  <1>3. CASE Op(j, p) # "Decrypt"
    <2>1. RoundState(j, p, 1) = Xor(in, k(0))
      BY <1>1, <1>3 DEF RoundState
    <2> DEFINE key == k(0)
    <2>2. key \in Block
      BY <1>1
    <2>3. in = Xor(x, last)
      BY <1>3
    <2> HIDE DEF key, in
    <2>4. /\ Xor(Xor(x, key), last) = Xor(x, Xor(key, last))
          /\ Xor(Xor(x, last), key) = Xor(x, Xor(last, key))
          /\ Xor(key, last) = Xor(last, key)
      BY <2>2, XorLaws
    <2>5. Xor(Xor(x, key), last) = Xor(in, key)
      BY <2>3, <2>4
    <2> QED
      BY <1>3, <2>1, <2>5 DEF Round, key, in
  <1> QED
    BY <1>2, <1>3

LEMMA MiddleRound ==
    ASSUME NEW j \in Jobs, NEW p, NEW last, NEW n \in 1 .. Rounds(j.is256) - 1
    PROVE  Round(IF Op(j, p) = "Decrypt" THEN "InvRound" ELSE "Round", RoundState(j, p, n),
                 RoundKey(j.key, j.is256, IF Op(j, p) = "Decrypt" THEN Rounds(j.is256) - n ELSE n),
                 last)
              = RoundState(j, p, n + 1)
  <1> DEFINE s == States(K(j), j.is256, Input(j, p))
             nr == Rounds(j.is256)
             k(r) == RoundKey(j.key, j.is256, r)
  <1>1. /\ s \in [0 .. nr - 1 -> Block] /\ nr \in Nat
        /\ \A r \in 1 .. nr - 1 : s[r] = Xor(Mix(SubShift(s[r - 1])), k(r))
        /\ \A r \in 0 .. nr : k(r) \in Block
    BY CallStates
  <1>2. CASE Op(j, p) = "Decrypt"
    <2> DEFINE r == nr - n
               b == s[r]
               c == s[r - 1]
               key == k(r)
    <2>1. r \in 1 .. nr - 1 /\ r - 1 = nr - (n + 1) /\ r - 1 \in 0 .. nr - 1 /\ r \in 0 .. nr
      BY <1>1
    <2>2. RoundState(j, p, n) = SubShift(b) /\ RoundState(j, p, n + 1) = SubShift(c)
      BY <1>2, <2>1 DEF RoundState
    <2> HIDE DEF r
    <2>3. b \in Block /\ c \in Block /\ key \in Block /\ b = Xor(Mix(SubShift(c)), key)
      <3>1. r \in 0 .. nr - 1
        BY <2>1
      <3> HIDE DEF s, k, nr
      <3>2. b \in Block /\ c \in Block
        BY <1>1, <2>1, <3>1
      <3>3. key \in Block
        BY <1>1, <2>1
      <3>4. s[r] = Xor(Mix(SubShift(s[r - 1])), k(r))
        BY <1>1, <2>1
      <3> QED
        BY <3>2, <3>3, <3>4
    <2> HIDE DEF b, c, key
    <2>4. SubShift(c) \in Block /\ Mix(SubShift(c)) \in Block
      BY <2>3, LayerLaws
    <2>5. InvSubShift(SubShift(b)) = b /\ Xor(b, key) = Mix(SubShift(c))
      BY <2>3, <2>4, XorLaws, LayerLaws
    <2>6. InvMix(Xor(InvSubShift(SubShift(b)), key)) = SubShift(c)
      BY <2>4, <2>5, LayerLaws
    <2> QED
      BY <1>2, <2>2, <2>6 DEF Round, key, r
  <1>3. CASE Op(j, p) # "Decrypt"
    <2>1. RoundState(j, p, n) = s[n - 1] /\ RoundState(j, p, n + 1) = s[n]
      BY <1>3 DEF RoundState
    <2>2. s[n] = Xor(Mix(SubShift(s[n - 1])), k(n))
      BY <1>1
    <2> QED
      BY <1>3, <2>1, <2>2 DEF Round
  <1> QED
    BY <1>2, <1>3

LEMMA LastRound ==
    ASSUME NEW j \in Jobs, NEW p, NEW last \in Block
    PROVE  Round(IF Op(j, p) = "Decrypt" THEN "InvLastRound" ELSE "LastRound",
                 RoundState(j, p, Rounds(j.is256)),
                 RoundKey(j.key, j.is256, IF Op(j, p) = "Decrypt" THEN 0 ELSE Rounds(j.is256)),
                 last)
              = IF Op(j, p) = "Decrypt" THEN Xor(Input(j, p), last) ELSE C(j, Input(j, p))
  <1> DEFINE s == States(K(j), j.is256, Input(j, p))
             nr == Rounds(j.is256)
             k(r) == RoundKey(j.key, j.is256, r)
             in == Input(j, p)
  <1>1. /\ s \in [0 .. nr - 1 -> Block] /\ nr \in Nat /\ nr > 0 /\ in \in Block
        /\ s[0] = Xor(in, k(0))
        /\ C(j, in) = Xor(SubShift(s[nr - 1]), k(nr))
        /\ \A r \in 0 .. nr : k(r) \in Block
    BY CallStates, CallTypes
  <1>2. CASE Op(j, p) = "Decrypt"
    <2> DEFINE b == s[0]
               key == k(0)
    <2>1. b \in Block /\ key \in Block /\ b = Xor(in, key)
      BY <1>1
    <2>2. RoundState(j, p, nr) = SubShift(b)
      BY <1>1, <1>2 DEF RoundState
    <2> HIDE DEF b, key, in
    <2>3. InvSubShift(SubShift(b)) = b /\ Xor(b, key) = in
      BY <1>1, <2>1, XorLaws, LayerLaws
    <2>4. Xor(Xor(InvSubShift(SubShift(b)), key), last) = Xor(in, last)
      BY <2>3
    <2> QED
      BY <1>2, <2>2, <2>4 DEF Round, key, in
  <1>3. CASE Op(j, p) # "Decrypt"
    <2>1. RoundState(j, p, nr) = s[nr - 1]
      BY <1>3 DEF RoundState
    <2> QED
      BY <1>1, <1>3, <2>1 DEF Round
  <1> QED
    BY <1>2, <1>3

----------------------------------------------------------------------------
(* Steps.                                                                   *)

\* The call in progress is call p.
LEMMA CallIs ==
    ASSUME TypeOK, NEW p \in 1 .. Last(job.mode) + 1, At(p), pc \notin {"idle", "done"}
    PROVE  /\ p \in 1 .. Last(job.mode) /\ p + 1 \in 1 .. Last(job.mode) + 1
           /\ call = CallAt(job.mode, p) /\ call.op = Op(job, p)
           /\ Tail(script) = From(job.mode, p + 1)
           /\ Tail(script) = << >> <=> p + 1 = Last(job.mode) + 1
           /\ Op(job, p) \in CipherOps => CipherCall(job, p, mem)
           /\ Op(job, p) \notin CipherOps => OtherCall(job, p, mem)
  <1>1. /\ job \in Jobs /\ mem \in [Buffer -> Block]
        /\ script = From(job.mode, p) /\ p # Last(job.mode) + 1 /\ MemIs(mem, job, p)
    BY DEF TypeOK, At
  <1>2. job.mode \in {"ECB", "CBC", "CTR", "ECB256"} /\ Last(job.mode) \in Nat
    <2>1. job.mode \in {"ECB", "CBC", "CTR", "ECB256"}
      BY <1>1, JobTypes DEF Modes
    <2>2. Last(job.mode) = Lengths(job.mode)
      BY <2>1, RoutineTypes DEF Last
    <2> QED
      BY <2>1, <2>2 DEF Lengths
  <1>3. p \in 1 .. Last(job.mode) /\ p + 1 \in 1 .. Last(job.mode) + 1 /\ p <= Last(job.mode)
    BY <1>1, <1>2
  <1>4. Head(script) = CallAt(job.mode, p) /\ Tail(script) = From(job.mode, p + 1)
    BY <1>1, <1>2, <1>3, Scripts, ZenonT(30)
  <1>5. Tail(script) = << >> <=> p + 1 = Last(job.mode) + 1
    <2> DEFINE q == p + 1
               mode == job.mode
    <2>1. mode \in {"ECB", "CBC", "CTR", "ECB256"} /\ q \in 1 .. Last(mode) + 1
      BY <1>2, <1>3
    <2> HIDE DEF q, mode
    <2>2. From(mode, q) = << >> <=> q = Last(mode) + 1
      BY <2>1, Scripts
    <2> QED
      BY <1>4, <2>2 DEF q, mode
  <1>6. IF Op(job, p) \in CipherOps THEN CipherCall(job, p, mem) ELSE OtherCall(job, p, mem)
    BY <1>1, <1>3, StepOfJob
  <1> QED
    BY <1>3, <1>4, <1>5, <1>6, Zenon DEF call, Op

LEMMA EffTypes ==
    ASSUME TypeOK
    PROVE  /\ RunResult \in Block /\ EffState \in Block /\ EffLast \in Block /\ EffAdd \in Block
           /\ EffKeys \in [RegFile -> Block]
  <1>1. /\ run \in Config /\ keys \in [RegFile -> Block]
        /\ state \in Block /\ lastResult \in Block /\ lastValToAdd \in Block
        /\ ZeroBlock \in Block
    BY XorLaws DEF TypeOK
  <1>2. /\ run.datapath \in Datapath /\ run.sel0 \in RegFile /\ run.sel1 \in RegFile
        /\ run.selIn \in RegFile /\ run.rcon \in Word /\ run.rotate \in BOOLEAN
    BY <1>1 DEF Config
  <1>3. keys[run.sel0] \in Block /\ keys[run.sel1] \in Block
    BY <1>1, <1>2
  <1> DEFINE k0 == keys[run.sel0]
             k1 == keys[run.sel1]
             d == run.datapath
             rcon == run.rcon
             rotate == run.rotate
  <1> HIDE DEF k0, k1, d, rcon, rotate
  <1>4. k0 \in Block /\ k1 \in Block /\ d \in Datapath /\ rcon \in Word /\ rotate \in BOOLEAN
    BY <1>2, <1>3 DEF k0, k1, d, rcon, rotate
  <1>5. Round(d, state, k0, lastResult) \in Block
    BY <1>1, <1>4, RoundType
  <1>6. Schedule(k1, k0, rcon, rotate) \in Block
    BY <1>4, ScheduleType
  <1>7. RunResult \in Block
    <2>1. Xor(Round(d, state, k0, lastResult), lastValToAdd) \in Block
      BY <1>1, <1>5, XorLaws
    <2> QED
      BY <2>1 DEF RunResult, d, k0
  <1>8. EffKeys \in [RegFile -> Block]
    BY <1>1, <1>2, <1>6 DEF EffKeys, k0, k1, rcon, rotate
  <1> QED
    BY <1>1, <1>7, <1>8 DEF EffState, EffLast, EffAdd

\* A step that touches neither registers nor the run leaves all as it will be.
LEMMA EffSame ==
    ASSUME run' = run, running' = running, registers' = registers
    PROVE  /\ EffState' = EffState /\ EffLast' = EffLast /\ EffAdd' = EffAdd
           /\ EffKeys' = EffKeys
           /\ keys' = keys /\ lastResult' = lastResult /\ lastValToAdd' = lastValToAdd
  BY DEF EffState, EffLast, EffAdd, EffKeys, RunResult, registers

\* So does the end of the run.
LEMMA EffOfRun ==
    ASSUME HwRun
    PROVE  /\ EffState' = EffState /\ EffLast' = EffLast /\ EffAdd' = EffAdd
           /\ EffKeys' = EffKeys
           /\ run.keyDisabled => keys' = keys
           /\ keys' = EffKeys
           /\ running /\ ~running'
  BY DEF HwRun, EffState, EffLast, EffAdd, EffKeys, RunResult

LEMMA InitInv == Init => IInv
  <1> SUFFICES ASSUME Init PROVE IInv
    OBVIOUS
  <1>1. ZeroBlock \in Block /\ Zero \in Word
    BY AesAlgebra DEF ZeroBlock, Block
  <1>2. cfg \in Config
    BY <1>1 DEF Init, Config, Datapath, RegFile
  <1>3. mem \in [Buffer -> Block] /\ keys \in [RegFile -> Block]
    BY <1>1 DEF Init
  <1>4. TypeOK
    <2>1. run \in Config
      BY <1>2, Zenon DEF Init
    <2>2. i \in RegFile
      BY DEF Init, RegFile
    <2> QED
      BY <1>1, <1>2, <1>3, <2>1, <2>2 DEF Init, TypeOK
  <1> QED
    BY <1>4 DEF Init, IInv, Quiet, Idle

\* The key blocks of a job, and the number of the last.
LEMMA KeyFacts ==
    ASSUME job \in Jobs
    PROVE  /\ KeyBlock(0) \in Block /\ KeyBlock(0) = RoundKey(job.key, job.is256, 0)
           /\ job.is256 => KeyBlock(1) \in Block /\ KeyBlock(1) = RoundKey(job.key, job.is256, 1)
           /\ Nr \in RegFile /\ Nr \in Nat /\ Nr > 0
           /\ Expansions \in Nat /\ (job.is256 => Expansions + 1 = Nr)
           /\ ~job.is256 => Expansions = Nr
           /\ \A r \in 0 .. Nr : RoundKey(job.key, job.is256, r) \in Block
           /\ RegFile = 0 .. 15
  <1>1. job.is256 \in BOOLEAN /\ IsKey(job.key, job.is256)
    BY JobTypes
  <1>2. /\ Nr \in RegFile /\ Nr \in Nat /\ Nr > 0
        /\ Expansions \in Nat /\ (job.is256 => Expansions + 1 = Nr /\ Nr > 1)
        /\ ~job.is256 => Expansions = Nr
    BY <1>1, AesRounds, RegFileLargeEnough DEF Nr, Rounds, Expansions, RegFile
  <1>3. \A r \in 0 .. Nr : RoundKey(job.key, job.is256, r) \in Block
    BY <1>1, RoundKeyIs DEF Nr
  <1>4. KeyBlock(0) = RoundKey(job.key, job.is256, 0)
    BY <1>1, FirstRoundKeys DEF KeyBlock
  <1>5. job.is256 => KeyBlock(1) = RoundKey(job.key, job.is256, 1)
    BY <1>1, FirstRoundKeys, Zenon DEF KeyBlock
  <1>6. 0 \in 0 .. Nr /\ (job.is256 => 1 \in 0 .. Nr)
    BY <1>2
  <1> QED
    BY <1>2, <1>3, <1>4, <1>5, <1>6 DEF RegFile

LEMMA TypeNext == IInv /\ [Next]_vars => TypeOK'
  <1> SUFFICES ASSUME IInv, [Next]_vars PROVE TypeOK'
    OBVIOUS
  <1>1. /\ TypeOK
        /\ pc # "idle" => \E p \in 1 .. Last(job.mode) + 1 : At(p)
    BY DEF IInv
  <1>2. job \in Jobs
    BY <1>1 DEF TypeOK
  <1>3. ZeroBlock \in Block
    BY JobTypes, <1>2
  <1>4. CASE Begin
    <2>1. /\ job' \in Jobs /\ job'.data[1] \in Block /\ job'.data[2] \in Block
          /\ job'.iv \in Block
      BY <1>4, JobTypes DEF Begin
    <2>2. mem' \in [Buffer -> Block]
      BY <1>3, <1>4, <2>1 DEF Begin
    <2> QED
      BY <1>1, <1>4, <2>1, <2>2 DEF Begin, TypeOK, registers
  <1>5. CASE CallInit
    BY <1>1, <1>3, <1>5 DEF CallInit, Return, Cleared, TypeOK, Config
  <1>6. CASE CallLoadIV
    <2>1. pc \notin {"idle", "done"} /\ call.op = "LoadIV"
      BY <1>6 DEF CallLoadIV, Calling
    <2>2. PICK p \in 1 .. Last(job.mode) + 1 : At(p)
      BY <1>1, <2>1
    <2>3. call = CallAt(job.mode, p) /\ call.op = Op(job, p)
          /\ (Op(job, p) \notin CipherOps => OtherCall(job, p, mem))
      BY <1>1, <2>1, <2>2, CallIs
    <2>4. call.from \in Buffer
      BY <2>1, <2>3 DEF OtherCall, CipherOps
    <2>5. mem[call.from] \in Block
      BY <1>1, <2>4 DEF TypeOK
    <2> QED
      BY <1>1, <1>6, <2>5 DEF CallLoadIV, Return, TypeOK, Config
  <1>7. CASE CallCounter
    <2>1. "iv" \in Buffer /\ "counter" \in Buffer /\ mem \in [Buffer -> Block]
      BY <1>1 DEF Buffer, TypeOK
    <2>2. Successor(mem["counter"]) \in Block /\ mem["iv"] \in Block
      BY <2>1, SuccessorType
    <2>3. mem' \in [Buffer -> Block]
      BY <1>7, <2>1, <2>2 DEF CallCounter
    <2> QED
      BY <1>1, <1>7, <2>3 DEF CallCounter, Return, TypeOK, registers
  <1>8. CASE CallExpandKey
    <2>1. keys' \in [RegFile -> Block]
      BY <1>1, <1>2, <1>8, KeyFacts DEF CallExpandKey, TypeOK
    <2>2. cfg' \in Config
      BY <1>1, <1>8 DEF CallExpandKey, TypeOK, Config
    <2>3. i' \in RegFile
      BY <1>8 DEF CallExpandKey, RegFile
    <2> QED
      BY <1>1, <1>8, <2>1, <2>2, <2>3 DEF CallExpandKey, TypeOK
  <1>9. CASE ScheduleConfigure
    <2>1. i \in Nat /\ i < Expansions /\ job.is256 \in BOOLEAN
      BY <1>1, <1>2, <1>9, JobTypes DEF ScheduleConfigure, TypeOK, RegFile
    <2>2. RconNow(i) \in Word
      <3>1. i \in 0 .. Rounds(job.is256) /\ i \div 2 \in 0 .. Rounds(job.is256)
        BY <1>2, <2>1, KeyFacts DEF Nr
      <3>2. Rcon(i) \in Word /\ Rcon(i \div 2) \in Word /\ Zero \in Word
        BY <2>1, <3>1, RconType, AesAlgebra
      <3> QED
        BY <3>2, Zenon DEF RconNow
    <2>3. /\ i \in RegFile /\ i + 1 \in RegFile
          /\ job.is256 => i + 2 \in RegFile
      BY <1>2, <2>1, KeyFacts
    <2> DEFINE rcon == RconNow(i)
               sel1 == IF job.is256 THEN i + 1 ELSE i
               selIn == IF job.is256 THEN i + 2 ELSE i + 1
               rotate == ~job.is256 \/ (i + 1) % 2 = 1
    <2>4. rcon \in Word /\ sel1 \in RegFile /\ selIn \in RegFile /\ rotate \in BOOLEAN
      BY <2>2, <2>3
    <2>5. cfg' = [cfg EXCEPT !.rcon = rcon, !.sel0 = i, !.sel1 = sel1, !.selIn = selIn,
                             !.rotate = rotate]
      BY <1>9 DEF ScheduleConfigure
    <2> HIDE DEF rcon, sel1, selIn, rotate
    <2>6. cfg' \in Config
      BY <1>1, <2>3, <2>4, <2>5 DEF TypeOK, Config
    <2> QED
      BY <1>1, <1>9, <2>6 DEF ScheduleConfigure, TypeOK, program, registers
  <1>10. CASE ScheduleRun
    <2>1. PICK p \in 1 .. Last(job.mode) + 1 : At(p)
      BY <1>1, <1>10 DEF ScheduleRun
    <2>2. i < Expansions /\ i \in Nat
      BY <1>1, <1>10, <2>1 DEF ScheduleRun, At, Scheduling, InSchedule, TypeOK, RegFile
    <2>3. i + 1 \in RegFile
      BY <1>2, <2>2, KeyFacts
    <2> QED
      BY <1>1, <1>10, <2>3 DEF ScheduleRun, StartWith, TypeOK, registers
  <1>11. CASE ScheduleEnd
    BY <1>1, <1>11 DEF ScheduleEnd, KeptDisabled, Return, TypeOK, Config, registers
  <1>12. CASE CallCipher
    <2>1. pc \notin {"idle", "done"} /\ call.op \in CipherOps
      BY <1>12 DEF CallCipher, Calling, CipherOps
    <2>2. PICK p \in 1 .. Last(job.mode) + 1 : At(p)
      BY <1>1, <2>1
    <2>3. call = CallAt(job.mode, p) /\ CipherCall(job, p, mem)
      BY <1>1, <2>1, <2>2, CallIs
    <2>4. call.from \in Buffer
      BY <2>3 DEF CipherCall
    <2>5. mem[call.from] \in Block
      BY <1>1, <2>4 DEF TypeOK
    <2>6. Nr \in RegFile /\ 0 \in RegFile /\ 1 \in RegFile
      BY <1>2, KeyFacts
    <2>7. run' \in Config /\ cfg' \in Config
      BY <1>1, <1>12, <2>6 DEF CallCipher, StartWith, TypeOK, Config, Datapath
    <2> QED
      BY <1>1, <1>12, <2>5, <2>6, <2>7 DEF CallCipher, StartWith, TypeOK
  <1>13. CASE RoundConfigure
    <2>1. PICK p \in 1 .. Last(job.mode) + 1 : At(p)
      BY <1>1, <1>13 DEF RoundConfigure
    <2>2. i \in 1 .. Nr
      BY <1>13, <2>1 DEF RoundConfigure, At, Ciphering, InRounds
    <2>3. RoundKeyAt \in RegFile
      BY <1>2, <2>2, KeyFacts DEF RoundKeyAt
    <2>4. cfg' \in Config
      BY <1>1, <1>13, <2>3 DEF RoundConfigure, TypeOK, Config
    <2> QED
      BY <1>1, <1>13, <2>4 DEF RoundConfigure, TypeOK, registers
  <1>14. CASE RoundRun
    <2>1. PICK p \in 1 .. Last(job.mode) + 1 : At(p)
      BY <1>1, <1>14 DEF RoundRun
    <2>2. i \in 1 .. Nr /\ i < Nr
      BY <1>14, <2>1 DEF RoundRun, At, Ciphering, InRounds
    <2>3. i + 1 \in RegFile
      BY <1>2, <2>2, KeyFacts
    <2> QED
      BY <1>1, <1>14, <2>3 DEF RoundRun, StartWith, TypeOK, registers
  <1>15. CASE LastConfigure
    <2>1. i \in RegFile /\ i = Nr
      BY <1>1, <1>15 DEF LastConfigure, TypeOK
    <2>2. RoundKeyAt \in RegFile
      BY <1>2, <2>1, KeyFacts DEF RoundKeyAt
    <2>3. cfg' \in Config
      BY <1>1, <1>15, <2>2 DEF LastConfigure, TypeOK, Config, Datapath
    <2> QED
      BY <1>1, <1>15, <2>3 DEF LastConfigure, TypeOK, registers
  <1>16. CASE LastAdd
    <2>1. PICK p \in 1 .. Last(job.mode) + 1 : At(p)
      BY <1>1, <1>16 DEF LastAdd
    <2>2. pc \notin {"idle", "done"} /\ Op(job, p) \in CipherOps
      BY <1>16, <2>1 DEF LastAdd, At, Ciphering, InLast
    <2>3. call = CallAt(job.mode, p) /\ CipherCall(job, p, mem)
      BY <1>1, <2>1, <2>2, CallIs
    <2>4. call.add = "none" \/ mem[call.add] \in Block
      BY <1>1, <2>3 DEF CipherCall, TypeOK
    <2> QED
      BY <1>1, <1>16, <2>4 DEF LastAdd, TypeOK
  <1>17. CASE LastRun
    BY <1>1, <1>17 DEF LastRun, StartWith, TypeOK, Config, registers
  <1>18. CASE ReadResult
    <2>1. mem' \in [Buffer -> Block]
      BY <1>1, <1>18 DEF ReadResult, TypeOK
    <2> QED
      BY <1>1, <1>18, <2>1 DEF ReadResult, Return, TypeOK, registers
  <1>19. CASE ForeignRun \/ ForeignEnd
    BY <1>1, <1>19 DEF ForeignRun, ForeignEnd, StartWith, TypeOK, registers
  <1>20. CASE HwRun
    <2>1. /\ RunResult \in Block /\ EffKeys \in [RegFile -> Block]
      BY <1>1, EffTypes
    <2>2. keys' = EffKeys /\ state' = RunResult /\ lastResult' \in {RunResult, lastResult}
          /\ lastValToAdd' = ZeroBlock
      BY <1>20 DEF HwRun, EffKeys, RunResult
    <2>3. UNCHANGED <<program, cfg, run>> /\ running' = FALSE
      BY <1>20 DEF HwRun
    <2> QED
      BY <1>1, <1>3, <2>1, <2>2, <2>3 DEF TypeOK, program
  <1>21. CASE UNCHANGED vars
    BY <1>1, <1>21 DEF vars, program, registers, TypeOK
  <1> QED
    BY <1>4, <1>5, <1>6, <1>7, <1>8, <1>9, <1>10, <1>11, <1>12, <1>13, <1>14, <1>15, <1>16, <1>17,
       <1>18, <1>19, <1>20, <1>21 DEF Next

\* Calls that neither expand the key nor run the cipher.
LEMMA StepOther ==
    ASSUME TypeOK, Quiet, NEW p \in 1 .. Last(job.mode) + 1, At(p),
           CallInit \/ CallLoadIV \/ CallCounter
    PROVE  At(p + 1)' /\ p + 1 \in 1 .. Last(job'.mode) + 1
  <1>1. pc = "call" /\ ~running /\ running' = running /\ run' = run /\ job' = job
        /\ keys' = keys /\ cfg'.keyDisabled = cfg.keyDisabled
    <2>1. pc = "call" /\ UNCHANGED <<job, run, running, keys>>
      BY DEF CallInit, CallLoadIV, CallCounter, Calling, registers
    <2>2. cfg'.keyDisabled = cfg.keyDisabled
      BY DEF CallInit, CallLoadIV, CallCounter, TypeOK, Config
    <2> QED
      BY <2>1, <2>2 DEF Quiet, Idle
  <1>2. /\ p \in 1 .. Last(job.mode) /\ p + 1 \in 1 .. Last(job.mode) + 1
        /\ call = CallAt(job.mode, p) /\ call.op = Op(job, p)
        /\ Tail(script) = From(job.mode, p + 1)
        /\ Tail(script) = << >> <=> p + 1 = Last(job.mode) + 1
        /\ Op(job, p) \notin CipherOps => OtherCall(job, p, mem)
    BY <1>1, CallIs
  <1>3. /\ Op(job, p) \in {"InitAESEncryption", "InitAESDecryption", "LoadIV", "memcpy", "Swap"}
        /\ OtherCall(job, p, mem)
    BY <1>2 DEF CallInit, CallLoadIV, CallCounter, Calling, CipherOps
  <1>4. /\ script' = From(job'.mode, p + 1) /\ pc' \in {"call", "done"}
        /\ pc' = "done" <=> p + 1 = Last(job'.mode) + 1
    BY <1>1, <1>2 DEF CallInit, CallLoadIV, CallCounter, Return
  <1>5. /\ MemIs(mem', job, p + 1)
        /\ lastResult' = LastAt(job, p + 1) /\ lastValToAdd' = ZeroBlock /\ cfg'.lastDisabled
    <2>1. CASE CallInit
      <3>1. /\ mem' = mem /\ lastResult' = ZeroBlock /\ lastValToAdd' = ZeroBlock
            /\ cfg' = [cfg EXCEPT !.lastDisabled = TRUE]
            /\ Op(job, p) \in {"InitAESEncryption", "InitAESDecryption"}
        BY <1>2, <2>1 DEF CallInit, Cleared, Calling
      <3>2. MemIs(mem, job, p + 1) /\ LastAt(job, p + 1) = ZeroBlock
        BY <1>3, <3>1 DEF OtherCall, Op
      <3> QED
        BY <3>1, <3>2 DEF TypeOK, Config
    <2>2. CASE CallLoadIV
      <3>1. /\ mem' = mem /\ lastResult' = mem[call.from] /\ lastValToAdd' = lastValToAdd
            /\ cfg' = [cfg EXCEPT !.lastDisabled = TRUE] /\ Op(job, p) = "LoadIV"
        BY <1>2, <2>2 DEF CallLoadIV, Calling
      <3>2. MemIs(mem, job, p + 1) /\ LastAt(job, p + 1) = mem[call.from] /\ p > 1
        BY <1>2, <1>3, <3>1 DEF OtherCall, Op
      <3>3. lastValToAdd = ZeroBlock
        BY <1>1, <3>2 DEF At, Chained, EffAdd
      <3> QED
        BY <3>1, <3>2, <3>3 DEF TypeOK, Config
    <2>3. CASE CallCounter
      <3>1. /\ mem' = [mem EXCEPT !["counter"] = IF call.op = "memcpy" THEN mem["iv"]
                                                 ELSE Successor(mem["counter"])]
            /\ lastResult' = lastResult /\ lastValToAdd' = lastValToAdd /\ cfg' = cfg
            /\ call.op \in {"memcpy", "Swap"}
        BY <2>3 DEF CallCounter, Calling, registers
      <3>2. p > 1 /\ LastAt(job, p + 1) = LastAt(job, p) /\ MemIs(mem', job, p + 1)
        BY <1>2, <1>3, <3>1 DEF OtherCall, Op
      <3>3. lastResult = LastAt(job, p) /\ lastValToAdd = ZeroBlock /\ cfg.lastDisabled
        BY <1>1, <3>2 DEF At, Chained, EffAdd, EffLast, InLast
      <3> QED
        BY <3>1, <3>2, <3>3
    <2> QED
      BY <2>1, <2>2, <2>3
  <1>6. Chained(p + 1)'
    BY <1>1, <1>5 DEF Chained, EffLast, EffAdd
  <1>7. KeysHeld(p + 1)'
    <2>1. p + 1 > ExpandCall(job.mode) => p > ExpandCall(job.mode)
      BY <1>3 DEF OtherCall, Op
    <2>2. KeysHeld(p)
      BY DEF At
    <2> QED
      BY <1>1, <2>1, <2>2 DEF KeysHeld, InSchedule, Nr
  <1>8. Scheduling(p + 1)' /\ Ciphering(p + 1)'
    BY <1>4 DEF Scheduling, Ciphering, InSchedule, InRounds, InLast
  <1> QED
    BY <1>1, <1>2, <1>4, <1>5, <1>6, <1>7, <1>8 DEF At

\* Steps that lend the accelerator to another algorithm, or take it back.
LEMMA StepForeign ==
    ASSUME TypeOK, Quiet, NEW p \in 1 .. Last(job.mode) + 1, At(p), ForeignRun \/ ForeignEnd
    PROVE  At(p)' /\ p \in 1 .. Last(job'.mode) + 1
  <1>1. /\ job' = job /\ script' = script /\ mem' = mem /\ cfg' = cfg /\ keys' = keys
        /\ pc \in {"call", "lent"} /\ pc' \in {"call", "lent"}
        /\ lastResult' = lastResult /\ lastValToAdd' = lastValToAdd /\ ~running
        /\ running' => run' = cfg
    BY DEF ForeignRun, ForeignEnd, StartWith, registers, Idle
  <1>2. script' = From(job'.mode, p) /\ (pc' = "done" <=> p = Last(job'.mode) + 1)
        /\ MemIs(mem', job', p)
    BY <1>1 DEF At
  <1>3. Chained(p)'
    BY <1>1 DEF At, Chained, EffLast, EffAdd, InLast
  <1>4. KeysHeld(p)'
    BY <1>1 DEF At, KeysHeld, InSchedule, Nr
  <1>5. Scheduling(p)' /\ Ciphering(p)'
    BY <1>1 DEF Scheduling, Ciphering, InSchedule, InRounds, InLast
  <1> QED
    BY <1>1, <1>2, <1>3, <1>4, <1>5 DEF At

\* The end of a run, and steps that change nothing.
LEMMA StepRun ==
    ASSUME TypeOK, Quiet, NEW p \in 1 .. Last(job.mode) + 1, At(p), HwRun \/ UNCHANGED vars
    PROVE  At(p)' /\ p \in 1 .. Last(job'.mode) + 1
  <1>1. /\ job' = job /\ script' = script /\ mem' = mem /\ cfg' = cfg /\ pc' = pc /\ i' = i
        /\ run' = run
    BY DEF HwRun, vars, program
  <1>2. /\ EffState' = EffState /\ EffLast' = EffLast /\ EffAdd' = EffAdd /\ EffKeys' = EffKeys
        /\ run.keyDisabled => keys' = keys
        /\ running' => running
        /\ pc = "lastRun" => lastResult' = lastResult /\ lastValToAdd' = lastValToAdd
    <2>1. CASE HwRun
      BY <2>1, EffOfRun DEF Quiet, Idle
    <2>2. CASE UNCHANGED vars
      BY <2>2, EffSame DEF vars
    <2> QED
      BY <2>1, <2>2
  <1>3. keys' = keys \/ (running /\ ~run.keyDisabled)
    <2>1. CASE HwRun
      BY <2>1, EffOfRun
    <2>2. CASE UNCHANGED vars
      BY <2>2 DEF vars, registers
    <2> QED
      BY <2>1, <2>2
  <1>4. script' = From(job'.mode, p) /\ (pc' = "done" <=> p = Last(job'.mode) + 1)
        /\ MemIs(mem', job', p)
    BY <1>1 DEF At
  <1>5. Chained(p)'
    BY <1>1, <1>2 DEF At, Chained, InLast
  <1>6. KeysHeld(p)'
    <2>1. KeysHeld(p)
      BY DEF At
    <2> QED
      BY <1>1, <1>2, <1>3, <2>1 DEF KeysHeld, InSchedule, Nr
  <1>7. Scheduling(p)'
    <2>1. Scheduling(p) /\ Have' = Have
      BY <1>1 DEF At, Have
    <2> QED
      BY <1>1, <1>2, <2>1 DEF Scheduling, InSchedule, Expansions, RconNow
  <1>8. Ciphering(p)'
    <2>1. Ciphering(p)
      BY DEF At
    <2> QED
      BY <1>1, <1>2, <2>1 DEF Ciphering, InRounds, InLast, Nr
  <1> QED
    BY <1>1, <1>4, <1>5, <1>6, <1>7, <1>8 DEF At

\* The key is expanded: the run in progress makes the block after those there are.
LEMMA StepExpand ==
    ASSUME TypeOK, Quiet, NEW p \in 1 .. Last(job.mode) + 1, At(p), CallExpandKey
    PROVE  At(p)' /\ p \in 1 .. Last(job'.mode) + 1
  <1>1. /\ job' = job /\ script' = script /\ mem' = mem /\ pc = "call" /\ pc' = "schedule"
        /\ lastResult' = lastResult /\ lastValToAdd' = lastValToAdd /\ ~running /\ ~running'
        /\ i' = 0 /\ call.op = "ExpandKey"
    BY DEF CallExpandKey, Calling, Quiet, Idle
  <1>2. cfg' \in Config /\ cfg'.lastDisabled = cfg.lastDisabled /\ cfg'.keyDisabled = FALSE
    BY DEF CallExpandKey, TypeOK, Config
  <1>3. script' = From(job'.mode, p) /\ (pc' = "done" <=> p = Last(job'.mode) + 1)
        /\ MemIs(mem', job', p)
    BY <1>1 DEF At
  <1>4. Chained(p)'
    BY <1>1, <1>2 DEF At, Chained, EffLast, EffAdd, InLast
  <1>5. KeysHeld(p)' /\ Ciphering(p)'
    BY <1>1 DEF KeysHeld, Ciphering, InSchedule, InRounds, InLast
  <1>6. Scheduling(p)'
    <2>1. Op(job, p) = "ExpandKey"
      BY <1>1, CallIs
    <2>2. /\ job \in Jobs /\ job.is256 \in BOOLEAN /\ keys \in [RegFile -> Block]
      BY JobTypes DEF TypeOK
    <2>3. /\ keys'[0] = RoundKey(job.key, job.is256, 0)
          /\ job.is256 => keys'[1] = RoundKey(job.key, job.is256, 1)
      BY <2>2, KeyFacts DEF CallExpandKey
    <2>4. EffKeys' = keys'
      BY <1>1 DEF EffKeys
    <2>5. Have' = IF job.is256 THEN 1 ELSE 0
      BY <1>1 DEF Have
    <2>6. \A r \in 0 .. Have' : keys'[r] = RoundKey(job.key, job.is256, r)
      BY <2>2, <2>3, <2>5
    <2>7. 0 <= Expansions /\ Expansions' = Expansions
      BY <1>1, <2>2, KeyFacts DEF Expansions
    <2> QED
      BY <1>1, <1>2, <2>1, <2>4, <2>6, <2>7 DEF Scheduling, InSchedule
  <1> QED
    BY <1>1, <1>3, <1>4, <1>5, <1>6 DEF At

LEMMA StepScheduleConfigure ==
    ASSUME TypeOK, Quiet, NEW p \in 1 .. Last(job.mode) + 1, At(p), ScheduleConfigure
    PROVE  At(p)' /\ p \in 1 .. Last(job'.mode) + 1
  <1>1. /\ job' = job /\ script' = script /\ mem' = mem /\ pc = "schedule" /\ pc' = "scheduleRun"
        /\ run' = run /\ running' = running /\ registers' = registers /\ i' = i /\ i < Expansions
    BY DEF ScheduleConfigure
  <1>2. /\ EffLast' = EffLast /\ EffAdd' = EffAdd /\ EffKeys' = EffKeys
    BY <1>1, EffSame
  <1>3. job \in Jobs /\ job.is256 \in BOOLEAN /\ i \in Nat
    BY JobTypes DEF TypeOK, RegFile
  <1>4. /\ cfg'.lastDisabled = cfg.lastDisabled /\ cfg'.keyDisabled = cfg.keyDisabled
        /\ cfg'.rcon = RconNow(i) /\ cfg'.sel0 = i
        /\ cfg'.sel1 = IF job.is256 THEN i + 1 ELSE i
        /\ cfg'.selIn = IF job.is256 THEN i + 2 ELSE i + 1
        /\ cfg'.rotate <=> ~job.is256 \/ (i + 1) % 2 = 1
    BY DEF ScheduleConfigure, TypeOK, Config
  <1>5. cfg'.sel1 = Have /\ cfg'.selIn = Have + 1 /\ Have' = Have
    BY <1>1, <1>3, <1>4 DEF Have
  <1>6. script' = From(job'.mode, p) /\ (pc' = "done" <=> p = Last(job'.mode) + 1)
        /\ MemIs(mem', job', p)
    BY <1>1 DEF At
  <1>7. Chained(p)'
    BY <1>1, <1>2, <1>4 DEF At, Chained, InLast
  <1>8. KeysHeld(p)' /\ Ciphering(p)'
    BY <1>1 DEF KeysHeld, Ciphering, InSchedule, InRounds, InLast
  <1>9. Scheduling(p)'
    <2>1. Scheduling(p)
      BY DEF At
    <2>2. RconNow(i)' = RconNow(i) /\ Expansions' = Expansions
      BY <1>1 DEF RconNow, Expansions
    <2> QED
      BY <1>1, <1>2, <1>4, <1>5, <2>1, <2>2 DEF Scheduling, InSchedule
  <1> QED
    BY <1>1, <1>6, <1>7, <1>8, <1>9 DEF At

\* The run that is started makes the next block of the key schedule.
LEMMA StepScheduleRun ==
    ASSUME TypeOK, Quiet, NEW p \in 1 .. Last(job.mode) + 1, At(p), ScheduleRun
    PROVE  At(p)' /\ p \in 1 .. Last(job'.mode) + 1
  <1>1. /\ job' = job /\ script' = script /\ mem' = mem /\ pc = "scheduleRun" /\ pc' = "schedule"
        /\ run' = cfg /\ ~running /\ running' /\ registers' = registers /\ i' = i + 1
        /\ cfg' = cfg
    BY DEF ScheduleRun, Idle, StartWith
  <1>2. /\ keys' = keys /\ lastResult' = lastResult /\ lastValToAdd' = lastValToAdd
    BY <1>1 DEF registers
  <1>3. /\ job \in Jobs /\ job.is256 \in BOOLEAN /\ i \in Nat /\ keys \in [RegFile -> Block]
        /\ IsKey(job.key, job.is256)
    BY JobTypes DEF TypeOK, RegFile
  <1>4. /\ Op(job, p) = "ExpandKey" /\ ~cfg.keyDisabled /\ i < Expansions
        /\ \A r \in 0 .. Have : keys[r] = RoundKey(job.key, job.is256, r)
        /\ cfg.rcon = RconNow(i) /\ cfg.sel0 = i
        /\ cfg.sel1 = Have /\ cfg.selIn = Have + 1
        /\ cfg.rotate <=> ~job.is256 \/ (i + 1) % 2 = 1
    BY <1>1 DEF At, Scheduling, InSchedule, EffKeys
  <1>5. Have' = Have + 1 /\ Have \in Nat /\ Have + 1 <= Nr /\ Have + 1 \in RegFile
        /\ i + 1 <= Expansions /\ Expansions' = Expansions
    <2>1. Have' = Have + 1 /\ Have \in Nat
      BY <1>1, <1>3 DEF Have
    <2>2. Have + 1 <= Nr
      BY <1>3, <1>4, KeyFacts DEF Have
    <2>3. Have + 1 \in RegFile /\ i + 1 <= Expansions
      BY <1>3, <1>4, <2>1, <2>2, KeyFacts
    <2> QED
      BY <1>1, <2>1, <2>2, <2>3 DEF Expansions
  <1>6. Schedule(keys[cfg.sel1], keys[cfg.sel0], cfg.rcon, cfg.rotate)
           = RoundKey(job.key, job.is256, Have + 1)
    <2>1. /\ keys[cfg.sel1] = RoundKey(job.key, job.is256, Have)
          /\ keys[cfg.sel0] = RoundKey(job.key, job.is256, i)
      <3>1. Have \in 0 .. Have /\ i \in 0 .. Have
        BY <1>3, <1>5 DEF Have
      <3> QED
        BY <1>4, <3>1
    <2> DEFINE rcon == cfg.rcon
               rotate == cfg.rotate
    <2>2. rotate \in BOOLEAN
      BY DEF TypeOK, Config
    <2>3. rcon = RconNow(i) /\ (rotate <=> ~job.is256 \/ (i + 1) % 2 = 1)
      BY <1>4
    <2> HIDE DEF rcon, rotate
    <2>4. CASE ~job.is256
      <3>1. i < Rounds(job.is256) /\ Have = i
        BY <1>3, <1>4, <2>4, KeyFacts DEF Nr, Have
      <3>2. RoundKey(job.key, job.is256, i + 1)
              = Schedule(RoundKey(job.key, job.is256, i), RoundKey(job.key, job.is256, i),
                         Rcon(i), TRUE)
        BY <1>3, <2>4, <3>1, Schedule128
      <3>3. rcon = Rcon(i) /\ rotate = TRUE
        <4>1. rcon = Rcon(i)
          BY <2>3, <2>4 DEF RconNow
        <4> QED
          BY <2>2, <2>3, <2>4, <4>1
      <3> QED
        BY <2>1, <3>1, <3>2, <3>3 DEF rcon, rotate
    <2>5. CASE job.is256
      <3>1. i + 1 < Rounds(job.is256) /\ Have = i + 1 /\ Nk(job.is256) = 8
        <4>1. Expansions + 1 = Nr /\ Have = i + 1 /\ Nk(job.is256) = 8
          BY <1>3, <2>5, KeyFacts, RoundsType, Zenon DEF Have
        <4> QED
          BY <1>3, <1>4, <4>1, KeyFacts DEF Nr
      <3>2. rcon = IF i % 2 = 1 THEN Zero ELSE Rcon(i \div 2)
        BY <2>3, <2>5, Zenon DEF RconNow
      <3>3. RoundKey(job.key, job.is256, i + 2)
              = Schedule(RoundKey(job.key, job.is256, i + 1), RoundKey(job.key, job.is256, i),
                         rcon, (i + 1) % 2 = 1)
        BY <1>3, <3>1, <3>2, Schedule256
      <3> DEFINE odd == (i + 1) % 2 = 1
      <3>4. odd \in BOOLEAN
        OBVIOUS
      <3>5. rotate <=> odd
        BY <2>3, <2>5, Zenon
      <3> HIDE DEF odd
      <3>6. rotate = odd
        BY <2>2, <3>4, <3>5
      <3>7. Have + 1 = i + 2
        BY <1>3, <3>1
      <3> QED
        BY <2>1, <3>1, <3>3, <3>6, <3>7, Zenon DEF rcon, rotate, odd
    <2> QED
      BY <2>4, <2>5
  <1>7. script' = From(job'.mode, p) /\ (pc' = "done" <=> p = Last(job'.mode) + 1)
        /\ MemIs(mem', job', p)
    BY <1>1 DEF At
  <1>8. Chained(p)'
    BY <1>1, <1>2 DEF At, Chained, EffLast, EffAdd, InLast
  <1>9. KeysHeld(p)' /\ Ciphering(p)'
    BY <1>1 DEF KeysHeld, Ciphering, InSchedule, InRounds, InLast
  <1>10. Scheduling(p)'
    <2>1. EffKeys' = [keys EXCEPT ![Have + 1] = RoundKey(job.key, job.is256, Have + 1)]
      BY <1>1, <1>2, <1>4, <1>6 DEF EffKeys
    <2>2. \A r \in 0 .. Have + 1 : EffKeys'[r] = RoundKey(job.key, job.is256, r)
      <3>1. \A r \in 0 .. Have + 1 : r \in RegFile /\ (r = Have + 1 \/ r \in 0 .. Have)
        BY <1>5 DEF RegFile
      <3> QED
        BY <1>3, <1>4, <2>1, <3>1
    <2> QED
      BY <1>1, <1>4, <1>5, <2>2 DEF Scheduling, InSchedule
  <1> QED
    BY <1>1, <1>7, <1>8, <1>9, <1>10 DEF At

\* The last block is there: the key is complete and is held from now on.
LEMMA StepScheduleEnd ==
    ASSUME TypeOK, Quiet, NEW p \in 1 .. Last(job.mode) + 1, At(p), ScheduleEnd
    PROVE  At(p + 1)' /\ p + 1 \in 1 .. Last(job'.mode) + 1
  <1>1. /\ job' = job /\ mem' = mem /\ pc = "schedule" /\ pc' \in {"call", "done"}
        /\ run' = run /\ ~running /\ ~running' /\ registers' = registers /\ i = Expansions
    BY DEF ScheduleEnd, Return, Idle
  <1>2. keys' = keys /\ EffLast' = EffLast /\ EffAdd' = EffAdd
    BY <1>1, EffSame DEF EffLast, EffAdd, registers
  <1>3. cfg'.lastDisabled = cfg.lastDisabled /\ cfg'.keyDisabled
    BY DEF ScheduleEnd, KeptDisabled, TypeOK, Config
  <1>4. /\ p \in 1 .. Last(job.mode) /\ p + 1 \in 1 .. Last(job.mode) + 1
        /\ Tail(script) = From(job.mode, p + 1)
        /\ Tail(script) = << >> <=> p + 1 = Last(job.mode) + 1
        /\ Op(job, p) \notin CipherOps => OtherCall(job, p, mem)
    BY <1>1, CallIs
  <1>5. /\ Op(job, p) = "ExpandKey"
        /\ \A r \in 0 .. Have : keys[r] = RoundKey(job.key, job.is256, r)
    BY <1>1 DEF At, Scheduling, InSchedule, EffKeys
  <1>6. /\ p + 1 > ExpandCall(job.mode) /\ MemIs(mem, job, p + 1)
        /\ LastAt(job, p + 1) = LastAt(job, p) /\ p > 1
    BY <1>4, <1>5 DEF OtherCall, Op, CipherOps
  <1>7. script' = From(job'.mode, p + 1) /\ (pc' = "done" <=> p + 1 = Last(job'.mode) + 1)
        /\ MemIs(mem', job', p + 1)
    BY <1>1, <1>4, <1>6 DEF ScheduleEnd, Return
  <1>8. Chained(p + 1)'
    BY <1>1, <1>2, <1>3, <1>6 DEF At, Chained, InLast
  <1>9. KeysHeld(p + 1)'
    <2>1. job \in Jobs /\ job.is256 \in BOOLEAN
      BY JobTypes DEF TypeOK
    <2>2. Have = Nr
      BY <1>1, <2>1, KeyFacts DEF Have
    <2> QED
      BY <1>1, <1>2, <1>3, <1>5, <2>2 DEF KeysHeld, Nr
  <1>10. Scheduling(p + 1)' /\ Ciphering(p + 1)'
    BY <1>1 DEF Scheduling, Ciphering, InSchedule, InRounds, InLast
  <1> QED
    BY <1>1, <1>4, <1>7, <1>8, <1>9, <1>10 DEF At

\* A call of the cipher: its first run is started.
LEMMA StepCipher ==
    ASSUME TypeOK, Quiet, NEW p \in 1 .. Last(job.mode) + 1, At(p), CallCipher
    PROVE  At(p)' /\ p \in 1 .. Last(job'.mode) + 1
  <1>1. /\ job' = job /\ script' = script /\ mem' = mem /\ pc = "call" /\ pc' = "round"
        /\ keys' = keys /\ lastResult' = lastResult /\ lastValToAdd' = lastValToAdd
        /\ ~running /\ running' /\ i' = 1 /\ state' = mem[call.from]
        /\ call.op \in CipherOps
    BY DEF CallCipher, Calling, StartWith, Quiet, Idle, CipherOps
  <1>2. /\ call = CallAt(job.mode, p) /\ call.op = Op(job, p) /\ CipherCall(job, p, mem)
    BY <1>1, CallIs
  <1>3. /\ job \in Jobs /\ mem \in [Buffer -> Block] /\ lastResult \in Block /\ i' \in 1 .. Nr
        /\ p > ExpandCall(job.mode) /\ p > 1 /\ call.from \in Buffer
    <2>1. job \in Jobs /\ mem \in [Buffer -> Block] /\ lastResult \in Block
      BY DEF TypeOK
    <2>2. p > ExpandCall(job.mode) /\ call.from \in Buffer
      BY <1>2 DEF CipherCall
    <2>3. p > 1
      BY <2>2 DEF ExpandCall
    <2> QED
      BY <1>1, <2>1, <2>2, <2>3, KeyFacts
  <1>4. /\ run'.datapath = IF Op(job, p) = "Decrypt" THEN "InvFirstAdd" ELSE "FirstAdd"
        /\ run'.sel0 = IF Op(job, p) = "Decrypt" THEN Nr ELSE 0
        /\ run'.keyDisabled = cfg.keyDisabled /\ run'.lastDisabled = cfg.lastDisabled
        /\ cfg'.datapath = IF Op(job, p) = "Decrypt" THEN "InvRound" ELSE "Round"
        /\ cfg'.keyDisabled = cfg.keyDisabled /\ cfg'.lastDisabled = cfg.lastDisabled
    BY <1>2 DEF CallCipher, StartWith, Encrypting, TypeOK, Config
  <1>5. /\ cfg.lastDisabled /\ cfg.keyDisabled /\ lastResult = LastAt(job, p)
        /\ lastValToAdd = ZeroBlock
        /\ \A r \in 0 .. Nr : keys[r] = RoundKey(job.key, job.is256, r)
    BY <1>1, <1>3 DEF At, Chained, KeysHeld, EffLast, EffAdd, InSchedule, InLast
  <1>6. script' = From(job'.mode, p) /\ (pc' = "done" <=> p = Last(job'.mode) + 1)
        /\ MemIs(mem', job', p)
    BY <1>1 DEF At
  <1>7. Chained(p)'
    BY <1>1, <1>4, <1>5 DEF Chained, EffLast, EffAdd, InLast
  <1>8. KeysHeld(p)'
    BY <1>1, <1>4, <1>5 DEF KeysHeld, Nr
  <1>9. Scheduling(p)'
    BY <1>1 DEF Scheduling, InSchedule
  <1>10. Ciphering(p)'
    <2> DEFINE x == mem[call.from]
               last == LastAt(job, p)
    <2>1. x \in Block /\ last \in Block
      BY <1>3, CallTypes
    <2>2. /\ Op(job, p) # "Decrypt" => Xor(x, last) = Input(job, p)
          /\ Op(job, p) = "Decrypt" => x = C(job, Input(job, p))
      BY <1>2 DEF CipherCall, Op
    <2>3. Round(run'.datapath, x, keys[run'.sel0], last) = RoundState(job, p, 1)
      <3>1. keys[run'.sel0] = RoundKey(job.key, job.is256,
                                       IF Op(job, p) = "Decrypt" THEN Rounds(job.is256) ELSE 0)
        <4>1. Nr \in 0 .. Nr /\ 0 \in 0 .. Nr
          BY <1>3, KeyFacts
        <4> QED
          BY <1>4, <1>5, <4>1 DEF Nr
      <3> HIDE DEF x, last
      <3> QED
        BY <1>3, <1>4, <2>1, <2>2, <3>1, FirstRound
    <2>4. RoundState(job, p, 1) \in Block
      <3>1. /\ run'.datapath \in Datapath /\ keys[run'.sel0] \in Block
        <4>1. Nr \in RegFile /\ 0 \in RegFile
          BY <1>3, KeyFacts
        <4> QED
          BY <1>4, <4>1 DEF Datapath, TypeOK
      <3> HIDE DEF x, last
      <3> QED
        BY <2>1, <2>3, <3>1, RoundType
    <2>5. EffState' = Xor(Round(run'.datapath, x, keys[run'.sel0], last), ZeroBlock)
      BY <1>1, <1>5 DEF EffState, RunResult
    <2>6. EffState' = RoundState(job, p, 1)
      BY <2>3, <2>4, <2>5, XorLaws
    <2> QED
      BY <1>1, <1>2, <1>3, <1>4, <2>6 DEF Ciphering, InRounds, InLast, Nr
  <1> QED
    BY <1>1, <1>6, <1>7, <1>8, <1>9, <1>10 DEF At

\* What holds in the midst of a call of the cipher.
LEMMA InCipher ==
    ASSUME TypeOK, NEW p \in 1 .. Last(job.mode) + 1, At(p),
           InRounds \/ InLast \/ pc = "result"
    PROVE  /\ p \in 1 .. Last(job.mode) /\ p + 1 \in 1 .. Last(job.mode) + 1
           /\ call = CallAt(job.mode, p) /\ call.op = Op(job, p) /\ Op(job, p) \in CipherOps
           /\ Encrypting <=> Op(job, p) # "Decrypt"
           /\ Tail(script) = From(job.mode, p + 1)
           /\ Tail(script) = << >> <=> p + 1 = Last(job.mode) + 1
           /\ CipherCall(job, p, mem) /\ p > ExpandCall(job.mode) /\ p > 1
           /\ job \in Jobs /\ KeysHeld(p) /\ Chained(p) /\ Ciphering(p)
           /\ running => run.keyDisabled
           /\ cfg.keyDisabled
           /\ \A r \in 0 .. Nr : keys[r] = RoundKey(job.key, job.is256, r)
           /\ pc # "done"
  <1>1. pc \in {"round", "roundRun", "add", "lastRun", "result"}
    BY DEF InRounds, InLast
  <1>2. Op(job, p) \in CipherOps /\ KeysHeld(p) /\ Chained(p) /\ Ciphering(p)
    BY DEF At, Ciphering
  <1>3. /\ p \in 1 .. Last(job.mode) /\ p + 1 \in 1 .. Last(job.mode) + 1
        /\ call = CallAt(job.mode, p) /\ call.op = Op(job, p)
        /\ Tail(script) = From(job.mode, p + 1)
        /\ Tail(script) = << >> <=> p + 1 = Last(job.mode) + 1
        /\ CipherCall(job, p, mem)
    BY <1>1, <1>2, CallIs
  <1>4. p > ExpandCall(job.mode)
    BY <1>3 DEF CipherCall
  <1>5. p > 1
    BY <1>4 DEF ExpandCall
  <1>6. Encrypting <=> Op(job, p) # "Decrypt"
    BY <1>3 DEF Encrypting
  <1>7. /\ running => run.keyDisabled
        /\ cfg.keyDisabled
        /\ \A r \in 0 .. Nr : keys[r] = RoundKey(job.key, job.is256, r)
    BY <1>1, <1>2, <1>4 DEF KeysHeld, InSchedule
  <1> QED
    BY <1>1, <1>2, <1>3, <1>4, <1>5, <1>6, <1>7 DEF TypeOK

\* The key held and the calls made are not touched within a call.
LEMMA InCipherKept ==
    ASSUME TypeOK, NEW p \in 1 .. Last(job.mode) + 1, At(p),
           InRounds \/ InLast \/ pc = "result",
           job' = job, script' = script, mem' = mem, keys' = keys,
           cfg'.keyDisabled = cfg.keyDisabled,
           (run' = run /\ (running' => running)) \/ run' = cfg,
           pc' \in {"round", "roundRun", "add", "lastRun", "result"}
    PROVE  /\ p \in 1 .. Last(job'.mode) + 1
           /\ script' = From(job'.mode, p) /\ (pc' = "done" <=> p = Last(job'.mode) + 1)
           /\ MemIs(mem', job', p)
           /\ KeysHeld(p)' /\ Scheduling(p)' /\ Nr' = Nr
  <1>1. /\ running => run.keyDisabled
        /\ cfg.keyDisabled
        /\ \A r \in 0 .. Nr : keys[r] = RoundKey(job.key, job.is256, r)
        /\ pc # "done"
    BY InCipher
  <1>2. KeysHeld(p)'
    BY <1>1 DEF KeysHeld, Nr
  <1>3. Scheduling(p)'
    BY DEF Scheduling, InSchedule
  <1> QED
    BY <1>1, <1>2, <1>3 DEF At, Nr

LEMMA StepRoundConfigure ==
    ASSUME TypeOK, Quiet, NEW p \in 1 .. Last(job.mode) + 1, At(p), RoundConfigure
    PROVE  At(p)' /\ p \in 1 .. Last(job'.mode) + 1
  <1>1. /\ job' = job /\ script' = script /\ mem' = mem /\ pc = "round" /\ pc' = "roundRun"
        /\ run' = run /\ running' = running /\ registers' = registers /\ i' = i /\ i < Nr
    BY DEF RoundConfigure
  <1>2. /\ EffState' = EffState /\ EffLast' = EffLast /\ EffAdd' = EffAdd /\ keys' = keys
    BY <1>1, EffSame
  <1>3. /\ InRounds /\ (Encrypting <=> Op(job, p) # "Decrypt") /\ Op(job, p) \in CipherOps
        /\ Chained(p) /\ Ciphering(p)
    BY <1>1, InCipher DEF InRounds
  <1>4. /\ cfg'.lastDisabled = cfg.lastDisabled /\ cfg'.keyDisabled = cfg.keyDisabled
        /\ cfg'.datapath = cfg.datapath
        /\ cfg'.sel0 = IF Op(job, p) = "Decrypt" THEN Nr - i ELSE i
    BY <1>3 DEF RoundConfigure, RoundKeyAt, TypeOK, Config
  <1>5. /\ p \in 1 .. Last(job'.mode) + 1
        /\ script' = From(job'.mode, p) /\ (pc' = "done" <=> p = Last(job'.mode) + 1)
        /\ MemIs(mem', job', p)
        /\ KeysHeld(p)' /\ Scheduling(p)' /\ Nr' = Nr
    BY <1>1, <1>2, <1>3, <1>4, InCipherKept
  <1>6. Chained(p)'
    BY <1>1, <1>2, <1>3, <1>4 DEF Chained, InLast
  <1>7. Ciphering(p)'
    BY <1>1, <1>2, <1>3, <1>4, <1>5 DEF Ciphering, InRounds, InLast
  <1> QED
    BY <1>5, <1>6, <1>7 DEF At

LEMMA StepRoundRun ==
    ASSUME TypeOK, Quiet, NEW p \in 1 .. Last(job.mode) + 1, At(p), RoundRun
    PROVE  At(p)' /\ p \in 1 .. Last(job'.mode) + 1
  <1>1. /\ job' = job /\ script' = script /\ mem' = mem /\ pc = "roundRun" /\ pc' = "round"
        /\ run' = cfg /\ ~running /\ running' /\ registers' = registers /\ i' = i + 1
        /\ cfg' = cfg
    BY DEF RoundRun, Idle, StartWith
  <1>2. /\ keys' = keys /\ state' = state
        /\ lastResult' = lastResult /\ lastValToAdd' = lastValToAdd
    BY <1>1 DEF registers
  <1>3. /\ InRounds /\ Op(job, p) \in CipherOps /\ job \in Jobs /\ p > 1
        /\ Chained(p) /\ Ciphering(p)
        /\ \A r \in 0 .. Nr : keys[r] = RoundKey(job.key, job.is256, r)
    BY <1>1, InCipher DEF InRounds
  <1>4. /\ p \in 1 .. Last(job'.mode) + 1
        /\ script' = From(job'.mode, p) /\ (pc' = "done" <=> p = Last(job'.mode) + 1)
        /\ MemIs(mem', job', p)
        /\ KeysHeld(p)' /\ Scheduling(p)' /\ Nr' = Nr
    BY <1>1, <1>2, <1>3, InCipherKept
  <1>5. /\ lastResult = LastAt(job, p) /\ lastValToAdd = ZeroBlock /\ cfg.lastDisabled
        /\ state = RoundState(job, p, i) /\ i \in 1 .. Nr /\ i < Nr
        /\ cfg.datapath = IF Op(job, p) = "Decrypt" THEN "InvRound" ELSE "Round"
        /\ cfg.sel0 = IF Op(job, p) = "Decrypt" THEN Nr - i ELSE i
    BY <1>1, <1>3 DEF Chained, Ciphering, EffLast, EffAdd, EffState, InLast, InRounds
  <1>6. Chained(p)'
    BY <1>1, <1>2, <1>5 DEF Chained, EffLast, EffAdd, InLast
  <1>7. i \in 1 .. Nr - 1 /\ i + 1 \in 1 .. Nr
        /\ (IF Op(job, p) = "Decrypt" THEN Nr - i ELSE i) \in 0 .. Nr
    BY <1>3, <1>5, KeyFacts
  <1>8. EffState' = RoundState(job, p, i + 1)
    <2>1. keys[cfg.sel0] = RoundKey(job.key, job.is256,
                                    IF Op(job, p) = "Decrypt" THEN Nr - i ELSE i)
      BY <1>3, <1>5, <1>7
    <2>2. Round(cfg.datapath, state, keys[cfg.sel0], lastResult) = RoundState(job, p, i + 1)
      BY <1>3, <1>5, <1>7, <2>1, MiddleRound DEF Nr
    <2>3. RoundState(job, p, i + 1) \in Block
      <3>1. cfg.datapath \in Datapath /\ keys[cfg.sel0] \in Block
        BY DEF TypeOK, Config
      <3> QED
        BY <2>2, <3>1, RoundType DEF TypeOK
    <2>4. EffState' = Xor(Round(cfg.datapath, state, keys[cfg.sel0], lastResult), ZeroBlock)
      BY <1>1, <1>2, <1>5 DEF EffState, RunResult
    <2> QED
      BY <2>2, <2>3, <2>4, XorLaws
  <1>9. Ciphering(p)'
    BY <1>1, <1>3, <1>4, <1>5, <1>7, <1>8 DEF Ciphering, InRounds, InLast
  <1> QED
    BY <1>4, <1>6, <1>9 DEF At

LEMMA StepLastConfigure ==
    ASSUME TypeOK, Quiet, NEW p \in 1 .. Last(job.mode) + 1, At(p), LastConfigure
    PROVE  At(p)' /\ p \in 1 .. Last(job'.mode) + 1
  <1>1. /\ job' = job /\ script' = script /\ mem' = mem /\ pc = "round" /\ pc' = "add"
        /\ run' = run /\ running' = running /\ registers' = registers /\ i = Nr
    BY DEF LastConfigure
  <1>2. /\ EffState' = EffState /\ EffLast' = EffLast /\ EffAdd' = EffAdd /\ keys' = keys
    BY <1>1, EffSame
  <1>3. /\ InRounds /\ (Encrypting <=> Op(job, p) # "Decrypt") /\ Op(job, p) \in CipherOps
        /\ Chained(p) /\ Ciphering(p) /\ p > 1 /\ call.op = Op(job, p) /\ job \in Jobs
    BY <1>1, InCipher DEF InRounds
  <1>4. cfg.lastDisabled
    BY <1>1, <1>3 DEF Chained, InLast
  <1>5. /\ cfg'.lastDisabled <=> Op(job, p) # "EncryptCBC"
        /\ cfg'.keyDisabled = cfg.keyDisabled
        /\ cfg'.datapath = IF Op(job, p) = "Decrypt" THEN "InvLastRound" ELSE "LastRound"
        /\ cfg'.sel0 = IF Op(job, p) = "Decrypt" THEN 0 ELSE Nr
    <2>1. RoundKeyAt = IF Op(job, p) = "Decrypt" THEN 0 ELSE Nr
      BY <1>1, <1>3, KeyFacts DEF RoundKeyAt
    <2>2. /\ cfg' = [cfg EXCEPT
                        !.datapath = IF Encrypting THEN "LastRound" ELSE "InvLastRound",
                        !.sel0 = RoundKeyAt,
                        !.lastDisabled = @ /\ call.op # "EncryptCBC"]
          /\ cfg \in Config
      BY DEF LastConfigure, TypeOK
    <2> QED
      BY <1>3, <1>4, <2>1, <2>2 DEF Config
  <1>6. /\ p \in 1 .. Last(job'.mode) + 1
        /\ script' = From(job'.mode, p) /\ (pc' = "done" <=> p = Last(job'.mode) + 1)
        /\ MemIs(mem', job', p)
        /\ KeysHeld(p)' /\ Scheduling(p)' /\ Nr' = Nr
    BY <1>1, <1>2, <1>3, <1>5, InCipherKept
  <1>7. Chained(p)'
    BY <1>1, <1>2, <1>3 DEF Chained, InLast
  <1>8. Ciphering(p)'
    BY <1>1, <1>2, <1>3, <1>5, <1>6 DEF Ciphering, InRounds, InLast
  <1> QED
    BY <1>6, <1>7, <1>8 DEF At

LEMMA StepLastAdd ==
    ASSUME TypeOK, Quiet, NEW p \in 1 .. Last(job.mode) + 1, At(p), LastAdd
    PROVE  At(p)' /\ p \in 1 .. Last(job'.mode) + 1
  <1>1. /\ job' = job /\ script' = script /\ mem' = mem /\ pc = "add" /\ pc' = "lastRun"
        /\ run' = run /\ ~running /\ ~running' /\ i' = i /\ cfg' = cfg
        /\ keys' = keys /\ state' = state /\ lastResult' = lastResult
        /\ lastValToAdd' = IF call.add = "none" THEN lastValToAdd ELSE mem[call.add]
    BY DEF LastAdd, AddGuard, Idle, TypeOK
  <1>2. /\ InLast /\ call = CallAt(job.mode, p) /\ Op(job, p) \in CipherOps
        /\ Chained(p) /\ Ciphering(p) /\ p > 1
    BY <1>1, InCipher DEF InLast
  <1>3. /\ p \in 1 .. Last(job'.mode) + 1
        /\ script' = From(job'.mode, p) /\ (pc' = "done" <=> p = Last(job'.mode) + 1)
        /\ MemIs(mem', job', p)
        /\ KeysHeld(p)' /\ Scheduling(p)' /\ Nr' = Nr
    BY <1>1, <1>2, InCipherKept
  <1>4. /\ lastResult = LastAt(job, p) /\ lastValToAdd = ZeroBlock
    BY <1>1, <1>2 DEF Chained, EffLast, EffAdd
  <1>5. Chained(p)'
    BY <1>1 DEF Chained, InLast
  <1>6. EffState' = EffState
    BY <1>1 DEF EffState
  <1>7. Ciphering(p)'
    BY <1>1, <1>2, <1>3, <1>4, <1>6 DEF Ciphering, InRounds, InLast
  <1> QED
    BY <1>3, <1>5, <1>7 DEF At

\* The last run is started: it makes the result.
LEMMA StepLastRun ==
    ASSUME TypeOK, Quiet, NEW p \in 1 .. Last(job.mode) + 1, At(p), LastRun
    PROVE  At(p)' /\ p \in 1 .. Last(job'.mode) + 1
  <1>1. /\ job' = job /\ script' = script /\ mem' = mem /\ pc = "lastRun" /\ pc' = "result"
        /\ run' = cfg /\ ~running /\ running' /\ registers' = registers
    BY DEF LastRun, StartWith, Quiet, Idle
  <1>2. /\ keys' = keys /\ state' = state
        /\ lastResult' = lastResult /\ lastValToAdd' = lastValToAdd
    BY <1>1 DEF registers
  <1>3. /\ InLast /\ (Encrypting <=> Op(job, p) # "Decrypt") /\ Op(job, p) \in CipherOps
        /\ Chained(p) /\ Ciphering(p) /\ p > 1 /\ job \in Jobs /\ CipherCall(job, p, mem)
        /\ \A r \in 0 .. Nr : keys[r] = RoundKey(job.key, job.is256, r)
    BY <1>1, InCipher DEF InLast
  <1>4. /\ lastResult = LastAt(job, p)
        /\ lastValToAdd = IF CallAt(job.mode, p).add = "none" THEN ZeroBlock
                          ELSE mem[CallAt(job.mode, p).add]
        /\ state = RoundState(job, p, Nr)
        /\ cfg.datapath = IF Op(job, p) = "Decrypt" THEN "InvLastRound" ELSE "LastRound"
        /\ cfg.sel0 = IF Op(job, p) = "Decrypt" THEN 0 ELSE Nr
        /\ cfg.lastDisabled <=> Op(job, p) # "EncryptCBC"
    BY <1>1, <1>3 DEF Ciphering, EffState, InLast
  <1>5. /\ cfg'.lastDisabled /\ cfg'.keyDisabled = cfg.keyDisabled
    BY <1>3, <1>4 DEF LastRun, TypeOK, Config, CipherOps
  <1>6. /\ p \in 1 .. Last(job'.mode) + 1
        /\ script' = From(job'.mode, p) /\ (pc' = "done" <=> p = Last(job'.mode) + 1)
        /\ MemIs(mem', job', p)
        /\ KeysHeld(p)' /\ Scheduling(p)' /\ Nr' = Nr
    BY <1>1, <1>2, <1>3, <1>5, InCipherKept
  <1>7. Chained(p)'
    BY <1>1, <1>5 DEF Chained, InLast
  <1>8. Xor(Round(cfg.datapath, state, keys[cfg.sel0], lastResult), lastValToAdd) = Result(job, p)
    <2>1. keys[cfg.sel0] = RoundKey(job.key, job.is256, IF Op(job, p) = "Decrypt" THEN 0 ELSE Nr)
      <3>1. 0 \in 0 .. Nr /\ Nr \in 0 .. Nr
        BY <1>3, KeyFacts
      <3> QED
        BY <1>3, <1>4, <3>1
    <2>2. LastAt(job, p) \in Block /\ Result(job, p) \in Block
      BY <1>3, CallTypes
    <2>3. Round(cfg.datapath, state, keys[cfg.sel0], lastResult)
             = IF Op(job, p) = "Decrypt" THEN Xor(Input(job, p), LastAt(job, p))
               ELSE C(job, Input(job, p))
      BY <1>3, <1>4, <2>1, <2>2, LastRound DEF Nr
    <2>4. CASE Op(job, p) = "Decrypt"
      <3>1. Result(job, p) = Xor(Input(job, p), LastAt(job, p)) /\ lastValToAdd = ZeroBlock
        BY <1>3, <1>4, <2>4 DEF CipherCall, Op
      <3> QED
        BY <2>2, <2>3, <2>4, <3>1, XorLaws
    <2>5. CASE Op(job, p) # "Decrypt"
      BY <1>3, <1>4, <2>3, <2>5 DEF CipherCall, Op
    <2> QED
      BY <2>4, <2>5
  <1>9. EffState' = Result(job, p) /\ EffAdd' = ZeroBlock
    BY <1>1, <1>2, <1>8 DEF EffState, EffAdd, RunResult
  <1>10. EffLast' = LastAt(job, p + 1)
    <2>1. LastAt(job, p + 1) = IF Op(job, p) = "EncryptCBC" THEN Result(job, p) ELSE LastAt(job, p)
      BY <1>3 DEF CipherCall, Op
    <2>2. EffLast' = IF ~cfg.lastDisabled THEN Result(job, p) ELSE lastResult
      BY <1>1, <1>2, <1>8 DEF EffLast, RunResult
    <2> QED
      BY <1>4, <2>1, <2>2
  <1>11. Ciphering(p)'
    BY <1>1, <1>3, <1>9, <1>10 DEF Ciphering, InRounds, InLast
  <1> QED
    BY <1>6, <1>7, <1>11 DEF At

LEMMA StepReadResult ==
    ASSUME TypeOK, Quiet, NEW p \in 1 .. Last(job.mode) + 1, At(p), ReadResult
    PROVE  At(p + 1)' /\ p + 1 \in 1 .. Last(job'.mode) + 1
  <1>1. /\ job' = job /\ pc = "result" /\ pc' \in {"call", "done"} /\ ~running
        /\ run' = run /\ running' = running /\ registers' = registers /\ cfg' = cfg
        /\ mem' = [mem EXCEPT ![call.to] = state]
    BY DEF ReadResult, Return, Idle
  <1>2. /\ EffState' = EffState /\ EffLast' = EffLast /\ EffAdd' = EffAdd /\ keys' = keys
    BY <1>1, EffSame
  <1>3. /\ p + 1 \in 1 .. Last(job.mode) + 1 /\ p > 1 /\ call = CallAt(job.mode, p)
        /\ Tail(script) = From(job.mode, p + 1)
        /\ Tail(script) = << >> <=> p + 1 = Last(job.mode) + 1
        /\ CipherCall(job, p, mem) /\ Chained(p) /\ Ciphering(p)
        /\ cfg.keyDisabled
        /\ \A r \in 0 .. Nr : keys[r] = RoundKey(job.key, job.is256, r)
    BY <1>1, InCipher
  <1>4. /\ state = Result(job, p) /\ EffLast = LastAt(job, p + 1) /\ EffAdd = ZeroBlock
        /\ cfg.lastDisabled
    BY <1>1, <1>3 DEF Ciphering, Chained, EffState, InLast
  <1>5. MemIs(mem', job', p + 1)
    BY <1>1, <1>3, <1>4 DEF CipherCall
  <1>6. script' = From(job'.mode, p + 1) /\ (pc' = "done" <=> p + 1 = Last(job'.mode) + 1)
    BY <1>1, <1>3 DEF ReadResult, Return
  <1>7. Chained(p + 1)'
    BY <1>1, <1>2, <1>4 DEF Chained
  <1>8. KeysHeld(p + 1)'
    BY <1>1, <1>2, <1>3 DEF KeysHeld, Nr
  <1>9. Scheduling(p + 1)' /\ Ciphering(p + 1)'
    BY <1>1 DEF Scheduling, Ciphering, InSchedule, InRounds, InLast
  <1> QED
    BY <1>1, <1>3, <1>5, <1>6, <1>7, <1>8, <1>9 DEF At

----------------------------------------------------------------------------
(* The theorems.                                                            *)

\* Every step keeps Quiet: the steps that come to a place where registers are
\* written wait for the accelerator, or come from such a place and start no run.
LEMMA QuietNext == Quiet /\ [Next]_vars => Quiet'
  <1> SUFFICES ASSUME Quiet, [Next]_vars PROVE Quiet'
    OBVIOUS
  <1> USE DEF Quiet, Idle
  <1>1. CASE Begin
    BY <1>1 DEF Begin
  <1>2. CASE CallInit \/ CallLoadIV \/ CallCounter
    BY <1>2 DEF CallInit, CallLoadIV, CallCounter, Calling, Return
  <1>3. CASE CallExpandKey \/ ScheduleConfigure \/ ScheduleRun
    BY <1>3 DEF CallExpandKey, ScheduleConfigure, ScheduleRun
  <1>4. CASE ScheduleEnd
    BY <1>4 DEF ScheduleEnd, Return
  <1>5. CASE CallCipher \/ RoundConfigure \/ RoundRun \/ LastConfigure
    BY <1>5 DEF CallCipher, RoundConfigure, RoundRun, LastConfigure
  <1>6. CASE LastAdd \/ LastRun
    BY <1>6 DEF LastAdd, AddGuard, LastRun
  <1>7. CASE ReadResult
    BY <1>7 DEF ReadResult, Return
  <1>8. CASE ForeignRun \/ ForeignEnd
    BY <1>8 DEF ForeignRun, ForeignEnd
  <1>9. CASE HwRun
    BY <1>9 DEF HwRun
  <1>10. CASE UNCHANGED vars
    BY <1>10 DEF vars, program
  <1> QED
    BY <1>1, <1>2, <1>3, <1>4, <1>5, <1>6, <1>7, <1>8, <1>9, <1>10 DEF Next

\* A job begins with nothing held and the buffers of its routine.
LEMMA StepBegin == Begin => At(1)' /\ 1 \in 1 .. Last(job'.mode) + 1
  <1> SUFFICES ASSUME Begin PROVE At(1)' /\ 1 \in 1 .. Last(job'.mode) + 1
    OBVIOUS
  <1>1. job' \in Jobs /\ pc' = "call" /\ script' = Routine(job'.mode)
    BY DEF Begin
  <1>2. job'.mode \in {"ECB", "CBC", "CTR", "ECB256"}
    BY <1>1, JobTypes DEF Modes
  <1>3. Last(job'.mode) = Lengths(job'.mode)
    BY <1>2, RoutineTypes DEF Last
  <1>4. Last(job'.mode) \in Nat /\ Last(job'.mode) > 1
    BY <1>2, <1>3 DEF Lengths
  <1>5. script' = From(job'.mode, 1)
    <2>1. 1 \in 1 .. Last(job'.mode) + 1
      BY <1>4
    <2> QED
      BY <1>1, <1>2, <2>1, Scripts
  <1>6. MemIs(mem', job', 1)
    BY <1>2 DEF Begin, MemIs, Buffer, CounterAt, Enc1Call, Enc2Call, Dec1Call, Dec2Call
  <1>7. Chained(1)' /\ KeysHeld(1)'
    BY <1>1, <1>2 DEF Chained, KeysHeld, ExpandCall
  <1>8. Scheduling(1)' /\ Ciphering(1)'
    BY <1>1 DEF Scheduling, Ciphering, InSchedule, InRounds, InLast
  <1> QED
    BY <1>1, <1>4, <1>5, <1>6, <1>7, <1>8 DEF At

LEMMA InvNext == IInv /\ [Next]_vars => IInv'
  <1> SUFFICES ASSUME IInv, [Next]_vars PROVE IInv'
    OBVIOUS
  <1>1. TypeOK /\ Quiet
    BY DEF IInv
  <1>2. TypeOK' /\ Quiet'
    BY TypeNext, QuietNext DEF IInv
  <1>3. (\E p \in 1 .. Last(job'.mode) + 1 : At(p)') \/ pc' = "idle"
    <2>1. CASE Begin
      BY <2>1, StepBegin
    <2>2. CASE ~Begin /\ pc = "idle"
      <3>1. pc' = "idle"
        BY <2>2
           DEF Next, vars, program, CallInit, CallLoadIV, CallCounter, CallExpandKey,
               ScheduleConfigure, ScheduleRun, ScheduleEnd, CallCipher, RoundConfigure, RoundRun,
               LastConfigure, LastAdd, LastRun, ReadResult, ForeignRun, ForeignEnd, HwRun, Calling
      <3> QED
        BY <3>1
    <2>3. CASE ~Begin /\ pc # "idle"
      <3>1. PICK p \in 1 .. Last(job.mode) + 1 : At(p)
        BY <2>3 DEF IInv
      <3>2. CASE CallInit \/ CallLoadIV \/ CallCounter
        BY <1>1, <3>1, <3>2, StepOther
      <3>3. CASE CallExpandKey
        BY <1>1, <3>1, <3>3, StepExpand
      <3>4. CASE ScheduleConfigure
        BY <1>1, <3>1, <3>4, StepScheduleConfigure
      <3>5. CASE ScheduleRun
        BY <1>1, <3>1, <3>5, StepScheduleRun
      <3>6. CASE ScheduleEnd
        BY <1>1, <3>1, <3>6, StepScheduleEnd
      <3>7. CASE CallCipher
        BY <1>1, <3>1, <3>7, StepCipher
      <3>8. CASE RoundConfigure
        BY <1>1, <3>1, <3>8, StepRoundConfigure
      <3>9. CASE RoundRun
        BY <1>1, <3>1, <3>9, StepRoundRun
      <3>10. CASE LastConfigure
        BY <1>1, <3>1, <3>10, StepLastConfigure
      <3>11. CASE LastAdd
        BY <1>1, <3>1, <3>11, StepLastAdd
      <3>12. CASE LastRun
        BY <1>1, <3>1, <3>12, StepLastRun
      <3>13. CASE ReadResult
        BY <1>1, <3>1, <3>13, StepReadResult
      <3>14. CASE ForeignRun \/ ForeignEnd
        BY <1>1, <3>1, <3>14, StepForeign
      <3>15. CASE HwRun \/ UNCHANGED vars
        BY <1>1, <3>1, <3>15, StepRun
      <3> QED
        BY <2>3, <3>2, <3>3, <3>4, <3>5, <3>6, <3>7, <3>8, <3>9, <3>10, <3>11, <3>12, <3>13,
           <3>14, <3>15 DEF Next
    <2> QED
      BY <2>1, <2>2, <2>3
  <1> QED
    BY <1>2, <1>3 DEF IInv

THEOREM Invariance == Spec => []IInv
  BY InitInv, InvNext, PTL DEF Spec

\* Types, for every cipher, number of rounds and set of jobs.
THEOREM TypeCorrect == Spec => []TypeOK
  <1>1. IInv => TypeOK
    BY DEF IInv
  <1> QED
    BY Invariance, <1>1, PTL

\* The expanded key is in place: once ExpandKey has returned no run disturbs it,
\* and every run of the expansion adds a block of the software's key schedule.
LEMMA KeyOfInv == IInv => KeyScheduleKept
  <1> SUFFICES ASSUME IInv PROVE KeyScheduleKept
    OBVIOUS
  <1>1. TypeOK /\ job \in Jobs /\ job.is256 \in BOOLEAN
    BY JobTypes DEF IInv, TypeOK
  <1>2. \A r \in 0 .. Nr : Keys[r] = RoundKey(job.key, job.is256, r)
    BY DEF Keys, RoundKey
  <1>3. CASE Expanded
    <2>1. pc # "idle" /\ \A n \in DOMAIN script : script[n].op # "ExpandKey"
      BY <1>3 DEF Expanded
    <2>2. PICK p \in 1 .. Last(job.mode) + 1 : At(p)
      BY <2>1 DEF IInv
    <2>3. script = From(job.mode, p) /\ KeysHeld(p) /\ Scheduling(p)
      BY <2>2 DEF At
    <2>4. job.mode \in {"ECB", "CBC", "CTR", "ECB256"} /\ Last(job.mode) \in Nat
          /\ ExpandCall(job.mode) \in 1 .. Last(job.mode)
          /\ CallAt(job.mode, ExpandCall(job.mode)).op = "ExpandKey"
      <3>1. job.mode \in {"ECB", "CBC", "CTR", "ECB256"}
        BY <1>1, JobTypes DEF Modes
      <3>2. Last(job.mode) = Lengths(job.mode)
        BY <3>1, RoutineTypes DEF Last
      <3> QED
        BY <3>1, <3>2, CallsOfECB, CallsOfCBC, CallsOfCTR, CallsOfECB256
           DEF Lengths, ExpandCall, Do
    <2>5. /\ DOMAIN script = 1 .. Last(job.mode) + 1 - p
          /\ \A n \in 1 .. Last(job.mode) + 1 - p : script[n] = CallAt(job.mode, p + n - 1)
      <3> DEFINE s == Routine(job.mode)
      <3>1. PICK S : s \in Seq(S)
        BY <2>4, RoutineTypes
      <3>2. script = SubSeq(s, p, Last(job.mode)) /\ Last(job.mode) = Len(s)
        BY <2>3 DEF From, Last
      <3> HIDE DEF s
      <3>3. script \in Seq(S)
        BY <3>1, <3>2, <2>4
      <3>4. Len(script) = Last(job.mode) + 1 - p
        BY <2>3, <2>4, Scripts
      <3>5. DOMAIN script = 1 .. Len(script)
        BY <3>3
      <3> QED
        BY <2>3, <2>4, <3>4, <3>5, Scripts
    <2>6. p > ExpandCall(job.mode)
      <3> SUFFICES ASSUME ~(p > ExpandCall(job.mode)) PROVE FALSE
        OBVIOUS
      <3> DEFINE e == ExpandCall(job.mode)
                 last == Last(job.mode)
                 n == e - p + 1
      <3>1. e \in 1 .. last /\ last \in Nat /\ p \in 1 .. last + 1 /\ ~(p > e)
        BY <2>4
      <3> HIDE DEF e, last
      <3>2. n \in 1 .. last + 1 - p /\ p + n - 1 = e
        BY <3>1
      <3> HIDE DEF n
      <3>3. script[n].op = "ExpandKey" /\ n \in DOMAIN script
        BY <2>4, <2>5, <3>2 DEF e, last
      <3> QED
        BY <2>1, <3>3
    <2>7. ~InSchedule
      <3> SUFFICES ASSUME InSchedule PROVE FALSE
        OBVIOUS
      <3>1. Op(job, p) = "ExpandKey" /\ pc \notin {"idle", "done"}
        BY <2>3 DEF Scheduling, InSchedule
      <3>2. p \in 1 .. Last(job.mode)
        BY <1>1, <2>2, <3>1, CallIs
      <3>3. 1 \in DOMAIN script /\ script[1] = CallAt(job.mode, p)
        <4>1. 1 \in 1 .. Last(job.mode) + 1 - p /\ p + 1 - 1 = p
          BY <2>4, <3>2
        <4> QED
          BY <2>5, <4>1
      <3> QED
        BY <2>1, <3>1, <3>3 DEF Op
    <2>8. \A r \in 0 .. Nr : keys[r] = RoundKey(job.key, job.is256, r)
      BY <2>3, <2>6, <2>7 DEF KeysHeld
    <2> QED
      BY <1>2, <2>7, <2>8 DEF KeyScheduleKept, InSchedule
  <1>4. ASSUME InSchedule PROVE \A r \in 0 .. ExpandedTo : keys[r] = Keys[r]
    <2>1. PICK p \in 1 .. Last(job.mode) + 1 : At(p)
      BY <1>4 DEF IInv, InSchedule
    <2>2. /\ i <= Expansions /\ i \in Nat
          /\ running => run.selIn = Have
          /\ \A r \in 0 .. Have : EffKeys[r] = RoundKey(job.key, job.is256, r)
      BY <1>1, <1>4, <2>1 DEF At, Scheduling, TypeOK, RegFile
    <2>3. Have \in Nat /\ Have <= Nr /\ ExpandedTo = Have - (IF running THEN 1 ELSE 0)
          /\ RegFile = 0 .. 15 /\ Nr \in RegFile
      BY <1>1, <2>2, KeyFacts DEF Have, ExpandedTo
    <2>4. ASSUME NEW r \in 0 .. ExpandedTo PROVE keys[r] = Keys[r]
      <3>1. r \in 0 .. Have /\ r \in 0 .. Nr /\ (running => r # Have)
        BY <1>1, <2>3 DEF TypeOK
      <3>2. EffKeys[r] = keys[r]
        BY <1>1, <2>2, <3>1 DEF EffKeys, TypeOK
      <3> QED
        BY <1>2, <2>2, <3>1, <3>2
    <2> QED
      BY <2>4
  <1>5. CASE ~Expanded
    BY <1>4, <1>5 DEF KeyScheduleKept, InSchedule
  <1> QED
    BY <1>3, <1>5

THEOREM KeySchedule == Spec => []KeyScheduleKept
  BY Invariance, KeyOfInv, PTL

\* A job that is done has encrypted as the software does in its mode, and has
\* decrypted back to its data, for every key, vector and pair of blocks, whatever
\* job came before it and whatever ran on the unit in between.
LEMMA ModesOfInv == IInv => ModesCorrect
  <1> SUFFICES ASSUME IInv, pc = "done" PROVE ModesCorrect
    BY DEF ModesCorrect
  <1>1. PICK p \in 1 .. Last(job.mode) + 1 : At(p)
    BY DEF IInv
  <1>2. p = Last(job.mode) + 1 /\ MemIs(mem, job, p)
    BY <1>1 DEF At
  <1>3. job \in Jobs /\ job.mode \in {"ECB", "CBC", "CTR", "ECB256"}
        /\ job.data \in Block \X Block /\ job.iv \in Block
    BY JobTypes, JobsAreTyped DEF IInv, TypeOK, Modes
  <1>4. Last(job.mode) = Lengths(job.mode)
    BY <1>3, RoutineTypes DEF Last
  <1>5. mem["enc1"] = Enc1(job) /\ mem["enc2"] = Enc2(job)
    BY <1>2, <1>3, <1>4 DEF MemIs, Lengths, Enc1Call, Enc2Call
  <1>6. job.mode # "ECB256" => mem["dec1"] = job.data[1] /\ mem["dec2"] = job.data[2]
    BY <1>2, <1>3, <1>4 DEF MemIs, Lengths, Dec1Call, Dec2Call
  <1>7. job.data = <<job.data[1], job.data[2]>>
    BY <1>3
  <1>8. ASSUME NoCounterOverflow
        PROVE  <<Enc1(job), Enc2(job)>>
                 = Encrypted(job.mode, Keys, job.is256, job.iv, job.data)
    <2> DEFINE c(x) == Cipher(Keys, job.is256, x)
               d1 == job.data[1]
               d2 == job.data[2]
    <2>1. \A x : C(job, x) = c(x)
      BY DEF C, K, Keys
    <2>2. CASE job.mode \in {"ECB", "ECB256"}
      <3>1. Enc1(job) = c(d1) /\ Enc2(job) = c(d2)
        BY <1>3, <2>1, <2>2, JobBlocks
      <3> QED
        BY <2>2, <3>1 DEF Encrypted
    <2>3. CASE job.mode = "CBC"
      <3>1. Enc1(job) = c(Xor(d1, job.iv)) /\ Enc2(job) = c(Xor(d2, Enc1(job)))
        BY <1>3, <2>1, <2>3, JobBlocks
      <3> QED
        BY <2>3, <3>1 DEF Encrypted
    <2>4. CASE job.mode = "CTR"
      <3>1. Increment(job.iv) = Successor(job.iv)
        <4>1. job.iv[4] # Max32
          BY <1>8, <2>4 DEF NoCounterOverflow
        <4> DEFINE iv == job.iv
        <4>2. iv \in Block /\ iv[4] # Max32
          BY <1>3, <4>1
        <4> HIDE DEF iv
        <4>3. Increment(iv)[4] = Plus1(iv[4]) /\ \A n \in 1 .. 3 : Increment(iv)[n] = iv[n]
          BY <4>2 DEF Increment
        <4>4. Increment(iv) = [n \in 1 .. 4 |-> Increment(iv)[n]]
          BY DEF Increment
        <4>5. Successor(iv) = [n \in 1 .. 4 |-> IF n = 4 THEN Plus1(iv[4]) ELSE iv[n]]
          BY <4>2 DEF Successor, Block
        <4>6. \A n \in 1 .. 4 : Increment(iv)[n] = IF n = 4 THEN Plus1(iv[4]) ELSE iv[n]
          BY <4>3
        <4>7. Increment(iv) = Successor(iv)
          <5> DEFINE f == Increment(iv)
                     last == Plus1(iv[4])
          <5>1. f = [n \in 1 .. 4 |-> f[n]]
            BY <4>4
          <5>2. \A n \in 1 .. 4 : f[n] = IF n = 4 THEN last ELSE iv[n]
            BY <4>6
          <5>3. Successor(iv) = [n \in 1 .. 4 |-> IF n = 4 THEN last ELSE iv[n]]
            BY <4>5
          <5> HIDE DEF f, last
          <5>4. f = [n \in 1 .. 4 |-> IF n = 4 THEN last ELSE iv[n]]
            BY <5>1, <5>2
          <5> QED
            BY <5>3, <5>4 DEF f
        <4> QED
          BY <4>7 DEF iv
      <3>2. /\ Enc1(job) = Xor(c(job.iv), d1)
            /\ Enc2(job) = Xor(c(Increment(job.iv)), d2)
            /\ c(job.iv) \in Block /\ c(Increment(job.iv)) \in Block
            /\ d1 \in Block /\ d2 \in Block
        BY <1>3, <2>1, <2>4, <3>1, JobBlocks, JobTypes
      <3>3. /\ Enc1(job) = Xor(d1, c(job.iv))
            /\ Enc2(job) = Xor(d2, c(Increment(job.iv)))
        <4> HIDE DEF c, d1, d2
        <4> QED
          BY <3>2, XorLaws
      <3> QED
        BY <2>4, <3>3 DEF Encrypted
    <2> QED
      BY <1>3, <2>2, <2>3, <2>4
  <1> QED
    BY <1>5, <1>6, <1>7, <1>8 DEF ModesCorrect

THEOREM ModesAreCorrect == Spec => []ModesCorrect
  BY Invariance, ModesOfInv, PTL

\* Of the steps during a run only its end touches a register.
LEMMA RegistersKept ==
  Quiet /\ [Next]_vars => [running => registers' = registers \/ ~running']_vars
  <1> SUFFICES ASSUME Quiet, [Next]_vars, running PROVE registers' = registers \/ ~running'
    OBVIOUS
  <1>1. pc \notin {"idle", "done", "call", "lastRun"}
    BY DEF Quiet, Idle
  <1>2. CASE HwRun
    BY <1>2 DEF HwRun
  <1>3. CASE ScheduleConfigure \/ ScheduleRun \/ ScheduleEnd
    BY <1>3 DEF ScheduleConfigure, ScheduleRun, ScheduleEnd
  <1>4. CASE RoundConfigure \/ RoundRun \/ LastConfigure \/ ReadResult
    BY <1>4 DEF RoundConfigure, RoundRun, LastConfigure, ReadResult
  <1>5. CASE LastAdd
    BY <1>5 DEF LastAdd, AddGuard, Idle
  <1>6. CASE ForeignEnd
    BY <1>6 DEF ForeignEnd
  <1>7. CASE UNCHANGED vars
    BY <1>7 DEF vars
  <1>8. ~ (Begin \/ CallInit \/ CallLoadIV \/ CallCounter \/ CallExpandKey \/ CallCipher
             \/ LastRun \/ ForeignRun)
    BY <1>1 DEF Begin, CallInit, CallLoadIV, CallCounter, CallExpandKey, CallCipher, LastRun,
                ForeignRun, Calling
  <1> QED
    BY <1>2, <1>3, <1>4, <1>5, <1>6, <1>7, <1>8 DEF Next

\* For every cipher, number of rounds and set of jobs: registers are written by
\* the program only while the accelerator is at rest.
THEOREM WritesOnlyAtRest == Spec => NoWriteDuringRun
  <1>1. IInv => Quiet
    BY DEF IInv
  <1>2. Quiet /\ [Next]_vars => [running => registers' = registers \/ ~running']_vars
    BY RegistersKept
  <1> QED
    BY Invariance, <1>1, <1>2, PTL DEF Spec, NoWriteDuringRun
============================================================================
