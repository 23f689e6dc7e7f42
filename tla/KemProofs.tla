----------------------------- MODULE KemProofs -----------------------------
(***************************************************************************)
(* What is proved of the key generation, and of the caller that uses its   *)
(* keys.                                                                   *)
(*                                                                         *)
(* The keys are those of the first good seed, for any number of attempts   *)
(* and all sizes.  KeysOfOneSeed speaks of the end only; the invariant     *)
(* follows the attempt t that is going on: what came before it failed, its *)
(* seed is the t-th of the chain, and every variable that a later step     *)
(* reads, the part of sk written so far included, is of attempt t.         *)
(*                                                                         *)
(* It holds where the key generation is used, with outcomes computed from  *)
(* the expansions, and with what the caller does before it and after: only *)
(* Return touches what the invariant is about, and leaves it as an initial *)
(* state has it.                                                           *)
(*                                                                         *)
(* The error is of one draw, because the loop of gen_e keeps a prefix of   *)
(* the positions it sees; the generator hands out no block twice, because  *)
(* its keys are a chain that starts at the zero key; and the types of keys *)
(* and ciphertexts hold, because whatever pk_gen reduces, the columns of   *)
(* the identity are not stored.  Loops are recursive functions;            *)
(* LoopHasResult and LoopKeeps are the induction over their turns.         *)
(*                                                                         *)
(* The support that decapsulation computes is the one of the public key.   *)
(* uint64_sort sorts: each distance merges with comparisons that can be    *)
(* put in the order of layers, a layer being all comparisons at one        *)
(* distance, and a layer keeps what those before it have ordered.  The     *)
(* layers of benes.c do to the bits of words, transposed or not, what      *)
(* those of controlbits.c do to a permutation; the rest is that the bits   *)
(* in use are bits that were tested, of the same attempt.                  *)
(***************************************************************************)
EXTENDS Kem, FiniteSetTheorems, WellFoundedInduction, TLAPS

----------------------------------------------------------------------------
(* The loop of the key generation.                                          *)

\* What the attempt that starts from seed t has made, at every place of the loop.
Seeded(t) ==
    /\ DOMAIN sk = 0 .. SizeOfSk - 1
    /\ pc = "expand" => seed = SeedOf(t)
    /\ pc # "expand" =>
          /\ r = Bytes("r", t, SizeOfR)
          /\ seed = NextSeed(t)
          /\ \A n \in 0 .. SEED - 1 : sk[n] = SeedOf(t)[n]

AtGenpoly(t) ==
    pc = "genpoly" =>
        /\ skp = SEED + PIVOTS /\ rp = TAIL + PERM
        /\ elem = [m \in 0 .. IRR - 1 |-> Byte("r", t, TAIL + PERM + m)]

AfterGenpoly(t) ==
    pc \in {"pk_gen", "control"} =>
        /\ outcome[t] # "noPolynomial"
        /\ skp = SEED + PIVOTS + IRR /\ rp = TAIL
        /\ perm = [m \in 0 .. PERM - 1 |-> Byte("r", t, TAIL + m)]
        /\ \A m \in 0 .. IRR - 1 : sk[SEED + PIVOTS + m] = Byte("irr", t, m)

AtControl(t) ==
    pc = "control" => /\ outcome[t] = "good"
                      /\ pi = perm /\ pk = PublicKey(t)

AtDone(t) ==
    pc = "done" => /\ outcome[t] = "good"
                   /\ sk = SecretKey(t) /\ pk = PublicKey(t)

Chain(t) == \A m \in Attempt : m < t => outcome[m] # "good"

Of(t) == Seeded(t) /\ AtGenpoly(t) /\ AfterGenpoly(t) /\ AtControl(t) /\ AtDone(t) /\ Chain(t)

Valid ==
    /\ outcome \in [Attempt -> Outcome]
    /\ \E n \in Attempt : outcome[n] = "good"
    /\ pc \in {"expand", "genpoly", "pk_gen", "control", "done"}

IInv == Valid /\ \E t \in Attempt : Of(t)

----------------------------------------------------------------------------
LEMMA Sizes ==
    /\ SEED \in Nat /\ SEED > 0 /\ PIVOTS \in Nat /\ PIVOTS > 0 /\ IRR \in Nat /\ IRR > 0
    /\ COND \in Nat /\ COND > 0 /\ PERM \in Nat /\ PERM > 0 /\ TAIL \in Nat /\ TAIL > 0
    /\ ATTEMPTS \in Nat /\ ATTEMPTS > 0
  BY KeygenSizes

\* Where the parts of the secret key start.
LEMMA Offsets ==
    /\ SEED \in Nat /\ SEED + PIVOTS \in Nat /\ SEED + PIVOTS + IRR \in Nat
    /\ SEED + PIVOTS + IRR + COND \in Nat
    /\ PIVOTS \in Nat /\ IRR \in Nat /\ COND \in Nat /\ TAIL \in Nat
  BY Sizes

LEMMA SizeOfs ==
    /\ SizeOfR = TAIL + PERM + IRR + SEED /\ SizeOfR \in Nat /\ SizeOfR > 0
    /\ SizeOfSk = SEED + PIVOTS + IRR + COND + TAIL /\ SizeOfSk \in Nat
  BY Sizes DEF SizeOfR, SizeOfSk

\* No seed of the chain is that of another attempt.
LEMMA SeedsDiffer ==
    ASSUME NEW n \in Attempt, NEW m \in Attempt, SeedOf(n) = SeedOf(m)
    PROVE  n = m
  <1>1. 0 \in 0 .. SEED - 1
    BY Sizes
  <1>2. FirstSeed[0].kind = "random"
    BY <1>1 DEF FirstSeed, Bytes, Byte
  <1>3. ASSUME NEW x
        PROVE  NextSeed(x)[0].kind = "r" /\ NextSeed(x)[0].source = x
    BY <1>1 DEF NextSeed, Byte
  <1>4. ASSUME NEW x PROVE FirstSeed # NextSeed(x)
    BY <1>2, <1>3
  <1>5. CASE n = 0 \/ m = 0
    BY <1>4, <1>5 DEF SeedOf
  <1>6. CASE n # 0 /\ m # 0
    <2>1. NextSeed(n - 1) = NextSeed(m - 1)
      BY <1>6 DEF SeedOf
    <2>2. n - 1 = m - 1
      BY <2>1, <1>3
    <2> QED
      BY <2>2, Sizes DEF Attempt
  <1> QED
    BY <1>5, <1>6

\* The expansion of the seed of an attempt is known by that attempt.
LEMMA ExpandSeedOf ==
    ASSUME NEW t \in Attempt
    PROVE  Expand(SeedOf(t)) = Bytes("r", t, SizeOfR)
  <1>1. \E n \in Attempt : SeedOf(t) = SeedOf(n)
    OBVIOUS
  <1>2. NumberOf(SeedOf(t)) = CHOOSE n \in Attempt : SeedOf(t) = SeedOf(n)
    BY <1>1 DEF NumberOf
  <1>3. NumberOf(SeedOf(t)) \in Attempt /\ SeedOf(t) = SeedOf(NumberOf(SeedOf(t)))
    BY <1>1, <1>2, Zenon
  <1>4. NumberOf(SeedOf(t)) = t
    BY <1>3, SeedsDiffer
  <1> QED
    BY <1>4 DEF Expand

\* A function of bytes of one attempt is of that attempt.
LEMMA SourceOfPart ==
    ASSUME NEW t \in Attempt, NEW from \in Nat, NEW size \in Nat, size > 0
    PROVE  SourceOf([m \in 0 .. size - 1 |-> Byte("r", t, from + m)], from) = t
  <1> DEFINE b == [m \in 0 .. size - 1 |-> Byte("r", t, from + m)]
  <1>1. b = [m \in DOMAIN b |-> Byte("r", t, from + m)]
    OBVIOUS
  <1>3. b[0].source = t
    BY DEF Byte
  <1> HIDE DEF b
  <1>4. SourceOf(b, from) = t
    BY <1>1, <1>3 DEF SourceOf
  <1> QED
    BY <1>4 DEF b

----------------------------------------------------------------------------
(* The secret key, byte by byte. *)

KeyByte(t, n) ==
    IF n < SEED THEN SeedOf(t)[n]
    ELSE IF n < SEED + PIVOTS THEN Byte("pivots", -1, n - SEED)
    ELSE IF n < SEED + PIVOTS + IRR THEN Byte("irr", t, n - (SEED + PIVOTS))
    ELSE IF n < SEED + PIVOTS + IRR + COND THEN Byte("cond", t, n - (SEED + PIVOTS + IRR))
    ELSE Byte("r", t, n - (SEED + PIVOTS + IRR + COND))

LEMMA PasteAny ==
    ASSUME NEW size \in Nat, NEW to \in Nat, NEW length \in Nat,
           NEW s, DOMAIN s = 0 .. size - 1, NEW bytes, DOMAIN bytes = 0 .. length - 1
    PROVE  /\ DOMAIN Paste(s, to, bytes) = 0 .. size - 1
           /\ \A n \in 0 .. size - 1 :
                 /\ n < to \/ n >= to + length => Paste(s, to, bytes)[n] = s[n]
                 /\ n >= to /\ n < to + length => Paste(s, to, bytes)[n] = bytes[n - to]
           /\ Paste(s, to, bytes) = [n \in 0 .. size - 1 |-> Paste(s, to, bytes)[n]]
  <1>1. Paste(s, to, bytes) =
            [n \in 0 .. size - 1 |-> IF n - to \in 0 .. length - 1 THEN bytes[n - to] ELSE s[n]]
    BY DEF Paste
  <1>2. \A n \in 0 .. size - 1 : n - to \in 0 .. length - 1 <=> n >= to /\ n < to + length
    OBVIOUS
  <1>3. \A n \in 0 .. size - 1 :
            Paste(s, to, bytes)[n] = IF n >= to /\ n < to + length THEN bytes[n - to] ELSE s[n]
    BY <1>1, <1>2
  <1>4. \A n \in 0 .. size - 1 : n < to \/ n >= to + length <=> ~(n >= to /\ n < to + length)
    OBVIOUS
  <1>5. DOMAIN Paste(s, to, bytes) = 0 .. size - 1
    BY <1>1, Zenon
  <1>6. Paste(s, to, bytes) = [n \in 0 .. size - 1 |-> Paste(s, to, bytes)[n]]
    BY <1>1, <1>3, <1>2
  <1> QED
    BY <1>3, <1>4, <1>5, <1>6

LEMMA BytesOf ==
    ASSUME NEW k, NEW x, NEW size \in Nat
    PROVE  /\ DOMAIN Bytes(k, x, size) = 0 .. size - 1
           /\ \A n \in 0 .. size - 1 : Bytes(k, x, size)[n] = Byte(k, x, n)
  BY DEF Bytes

\* A key after length bytes were pasted into it.
Pasted(old, new, to, k, x, length) ==
    /\ DOMAIN new = 0 .. SizeOfSk - 1
    /\ new = [n \in 0 .. SizeOfSk - 1 |-> new[n]]
    /\ \A n \in 0 .. SizeOfSk - 1 :
          /\ n < to \/ n >= to + length => new[n] = old[n]
          /\ n >= to /\ n < to + length => new[n] = Byte(k, x, n - to)

LEMMA PasteBytes ==
    ASSUME NEW s, DOMAIN s = 0 .. SizeOfSk - 1, NEW to \in Nat, NEW k, NEW x, NEW length \in Nat
    PROVE  Pasted(s, Paste(s, to, Bytes(k, x, length)), to, k, x, length)
  <1> DEFINE bytes == Bytes(k, x, length)
  <1>1. DOMAIN bytes = 0 .. length - 1 /\ \A n \in 0 .. length - 1 : bytes[n] = Byte(k, x, n)
    BY BytesOf
  <1>2. SizeOfSk \in Nat
    BY SizeOfs
  <1> HIDE DEF bytes
  <1>3. /\ DOMAIN Paste(s, to, bytes) = 0 .. SizeOfSk - 1
        /\ \A n \in 0 .. SizeOfSk - 1 :
                 /\ n < to \/ n >= to + length => Paste(s, to, bytes)[n] = s[n]
                 /\ n >= to /\ n < to + length => Paste(s, to, bytes)[n] = bytes[n - to]
        /\ Paste(s, to, bytes) = [n \in 0 .. SizeOfSk - 1 |-> Paste(s, to, bytes)[n]]
    BY <1>1, <1>2, PasteAny
  <1>4. \A n \in 0 .. SizeOfSk - 1 : n >= to /\ n < to + length => n - to \in 0 .. length - 1
    BY <1>2
  <1>5. \A n \in 0 .. SizeOfSk - 1 : n >= to /\ n < to + length
            => Paste(s, to, bytes)[n] = Byte(k, x, n - to)
    BY <1>1, <1>3, <1>4
  <1> QED
    BY <1>3, <1>5 DEF bytes, Pasted

LEMMA SeedOfDomain ==
    ASSUME NEW t \in Attempt
    PROVE  /\ DOMAIN SeedOf(t) = 0 .. SEED - 1
           /\ SeedOf(t) = [n \in 0 .. SEED - 1 |-> SeedOf(t)[n]]
  BY DEF SeedOf, FirstSeed, NextSeed, Bytes

\* What the definition of a secret key pastes together.
LEMMA SecretKeyBytes ==
    ASSUME NEW t \in Attempt
    PROVE  SecretKey(t) = [n \in 0 .. SizeOfSk - 1 |-> KeyByte(t, n)]
  <1> DEFINE empty == [m \in 0 .. SizeOfSk - 1 |-> Nothing]
             withSeed == Paste(empty, 0, SeedOf(t))
             withPivots == Paste(withSeed, SEED, Bytes("pivots", -1, PIVOTS))
             withIrr == Paste(withPivots, SEED + PIVOTS, Bytes("irr", t, IRR))
             withBits == Paste(withIrr, SEED + PIVOTS + IRR, Bytes("cond", t, COND))
             key == Paste(withBits, SEED + PIVOTS + IRR + COND, Bytes("r", t, TAIL))
  <1>1. SecretKey(t) = key
    BY DEF SecretKey
  <1>2. DOMAIN empty = 0 .. SizeOfSk - 1
    OBVIOUS
  <1> HIDE DEF empty
  <1>3. DOMAIN withSeed = 0 .. SizeOfSk - 1 /\ \A n \in 0 .. SizeOfSk - 1 :
            n < SEED => withSeed[n] = SeedOf(t)[n]
    <2>1. SeedOf(t) = [n \in 0 .. SEED - 1 |-> SeedOf(t)[n]] /\ DOMAIN SeedOf(t) = 0 .. SEED - 1
      BY SeedOfDomain
    <2>2. DOMAIN withSeed = DOMAIN empty
          /\ \A n \in DOMAIN empty : n - 0 \in DOMAIN SeedOf(t) => withSeed[n] = SeedOf(t)[n - 0]
      BY DEF Paste
    <2>3. \A n \in 0 .. SizeOfSk - 1 : n < SEED => n - 0 = n /\ n \in 0 .. SEED - 1
      BY SizeOfs, Sizes
    <2> QED
      BY <1>2, <2>1, <2>2, <2>3
  <1> HIDE DEF withSeed
  <1>4. Pasted(withSeed, withPivots, SEED, "pivots", -1, PIVOTS)
    BY <1>3, Offsets, PasteBytes
  <1> HIDE DEF withPivots
  <1>5. Pasted(withPivots, withIrr, SEED + PIVOTS, "irr", t, IRR)
    <2>1. DOMAIN withPivots = 0 .. SizeOfSk - 1
      BY <1>4 DEF Pasted
    <2> QED
      BY <2>1, Offsets, PasteBytes
  <1> HIDE DEF withIrr
  <1>6. Pasted(withIrr, withBits, SEED + PIVOTS + IRR, "cond", t, COND)
    <2>1. DOMAIN withIrr = 0 .. SizeOfSk - 1
      BY <1>5 DEF Pasted
    <2> QED
      BY <2>1, Offsets, PasteBytes
  <1> HIDE DEF withBits
  <1>7. Pasted(withBits, key, SEED + PIVOTS + IRR + COND, "r", t, TAIL)
    <2>1. DOMAIN withBits = 0 .. SizeOfSk - 1
      BY <1>6 DEF Pasted
    <2> QED
      BY <2>1, Offsets, PasteBytes
  <1> HIDE DEF key
  <1>9. \A n \in 0 .. SizeOfSk - 1 : key[n] = KeyByte(t, n)
    <2> SUFFICES ASSUME NEW n \in 0 .. SizeOfSk - 1 PROVE key[n] = KeyByte(t, n)
      OBVIOUS
    <2> USE Sizes, SizeOfs
    <2>1. CASE n < SEED
      <3>1. withSeed[n] = SeedOf(t)[n]
        BY <2>1, <1>3, SMTT(30) DEF Pasted
      <3>2. withPivots[n] = withSeed[n]
        BY <2>1, <1>4, SMTT(30) DEF Pasted
      <3>3. withIrr[n] = withPivots[n]
        BY <2>1, <1>5, SMTT(30) DEF Pasted
      <3>4. withBits[n] = withIrr[n]
        BY <2>1, <1>6, SMTT(30) DEF Pasted
      <3>5. key[n] = withBits[n]
        BY <2>1, <1>7, SMTT(30) DEF Pasted
      <3>9. KeyByte(t, n) = SeedOf(t)[n]
        BY <2>1 DEF KeyByte
      <3> QED
        BY <3>1, <3>2, <3>3, <3>4, <3>5, <3>9
    <2>2. CASE n >= SEED /\ n < SEED + PIVOTS
      <3>1. withPivots[n] = Byte("pivots", -1, n - SEED)
        BY <2>2, <1>4, SMTT(30) DEF Pasted
      <3>2. withIrr[n] = withPivots[n]
        BY <2>2, <1>5, SMTT(30) DEF Pasted
      <3>3. withBits[n] = withIrr[n]
        BY <2>2, <1>6, SMTT(30) DEF Pasted
      <3>4. key[n] = withBits[n]
        BY <2>2, <1>7, SMTT(30) DEF Pasted
      <3>9. KeyByte(t, n) = Byte("pivots", -1, n - SEED)
        BY <2>2 DEF KeyByte
      <3> QED
        BY <3>1, <3>2, <3>3, <3>4, <3>9
    <2>3. CASE n >= SEED + PIVOTS /\ n < SEED + PIVOTS + IRR
      <3>1. withIrr[n] = Byte("irr", t, n - (SEED + PIVOTS))
        BY <2>3, <1>5, SMTT(30) DEF Pasted
      <3>2. withBits[n] = withIrr[n]
        BY <2>3, <1>6, SMTT(30) DEF Pasted
      <3>3. key[n] = withBits[n]
        BY <2>3, <1>7, SMTT(30) DEF Pasted
      <3>9. KeyByte(t, n) = Byte("irr", t, n - (SEED + PIVOTS))
        BY <2>3 DEF KeyByte
      <3> QED
        BY <3>1, <3>2, <3>3, <3>9
    <2>4. CASE n >= SEED + PIVOTS + IRR /\ n < SEED + PIVOTS + IRR + COND
      <3>1. withBits[n] = Byte("cond", t, n - (SEED + PIVOTS + IRR))
        BY <2>4, <1>6, SMTT(30) DEF Pasted
      <3>2. key[n] = withBits[n]
        BY <2>4, <1>7, SMTT(30) DEF Pasted
      <3>9. KeyByte(t, n) = Byte("cond", t, n - (SEED + PIVOTS + IRR))
        BY <2>4 DEF KeyByte
      <3> QED
        BY <3>1, <3>2, <3>9
    <2>5. CASE n >= SEED + PIVOTS + IRR + COND
      <3>1. key[n] = Byte("r", t, n - (SEED + PIVOTS + IRR + COND))
        BY <2>5, <1>7, SMTT(30) DEF Pasted
      <3>9. KeyByte(t, n) = Byte("r", t, n - (SEED + PIVOTS + IRR + COND))
        BY <2>5 DEF KeyByte
      <3> QED
        BY <3>1, <3>9
    <2> QED
      BY <2>1, <2>2, <2>3, <2>4, <2>5
  <1> QED
    BY <1>1, <1>7, <1>9 DEF Pasted

\* What the program pastes together at the end, over a key that has the seed and the
\* polynomial.
LEMMA FinishedKey ==
    ASSUME NEW t \in Attempt, NEW s, DOMAIN s = 0 .. SizeOfSk - 1,
           \A n \in 0 .. SEED - 1 : s[n] = SeedOf(t)[n],
           \A m \in 0 .. IRR - 1 : s[SEED + PIVOTS + m] = Byte("irr", t, m)
    PROVE  LET bits == Paste(s, SEED + PIVOTS + IRR, Bytes("cond", t, COND))
               string == Paste(bits, SEED + PIVOTS + IRR + COND, Bytes("r", t, TAIL))
           IN Paste(string, SEED, Bytes("pivots", -1, PIVOTS)) = SecretKey(t)
  <1> DEFINE bits == Paste(s, SEED + PIVOTS + IRR, Bytes("cond", t, COND))
             string == Paste(bits, SEED + PIVOTS + IRR + COND, Bytes("r", t, TAIL))
             key == Paste(string, SEED, Bytes("pivots", -1, PIVOTS))
  <1>1. Pasted(s, bits, SEED + PIVOTS + IRR, "cond", t, COND)
    BY Offsets, PasteBytes
  <1> HIDE DEF bits
  <1>2. Pasted(bits, string, SEED + PIVOTS + IRR + COND, "r", t, TAIL)
    <2>1. DOMAIN bits = 0 .. SizeOfSk - 1
      BY <1>1 DEF Pasted
    <2> QED
      BY <2>1, Offsets, PasteBytes
  <1> HIDE DEF string
  <1>3. Pasted(string, key, SEED, "pivots", -1, PIVOTS)
    <2>1. DOMAIN string = 0 .. SizeOfSk - 1
      BY <1>2 DEF Pasted
    <2> QED
      BY <2>1, Offsets, PasteBytes
  <1> HIDE DEF key
  <1>5. \A n \in 0 .. SizeOfSk - 1 :
            n >= SEED + PIVOTS /\ n < SEED + PIVOTS + IRR
                => s[n] = Byte("irr", t, n - (SEED + PIVOTS))
    <2> SUFFICES ASSUME NEW n \in 0 .. SizeOfSk - 1,
                        n >= SEED + PIVOTS, n < SEED + PIVOTS + IRR
                 PROVE  s[n] = Byte("irr", t, n - (SEED + PIVOTS))
      OBVIOUS
    <2> DEFINE m == n - (SEED + PIVOTS)
    <2>1. m \in 0 .. IRR - 1 /\ SEED + PIVOTS + m = n
      BY Sizes, SizeOfs
    <2> QED
      BY <2>1
  <1>6. \A n \in 0 .. SizeOfSk - 1 : key[n] = KeyByte(t, n)
    <2> SUFFICES ASSUME NEW n \in 0 .. SizeOfSk - 1 PROVE key[n] = KeyByte(t, n)
      OBVIOUS
    <2> USE Sizes, SizeOfs
    <2>1. CASE n < SEED
      <3>1. bits[n] = s[n]
        BY <2>1, <1>1, SMTT(30) DEF Pasted
      <3>2. string[n] = bits[n]
        BY <2>1, <1>2, SMTT(30) DEF Pasted
      <3>3. key[n] = string[n]
        BY <2>1, <1>3, SMTT(30) DEF Pasted
      <3>4. s[n] = SeedOf(t)[n]
        BY <2>1, Sizes DEF Pasted
      <3>9. KeyByte(t, n) = SeedOf(t)[n]
        BY <2>1 DEF KeyByte
      <3> QED
        BY <3>1, <3>2, <3>3, <3>4, <3>9
    <2>2. CASE n >= SEED /\ n < SEED + PIVOTS
      <3>1. key[n] = Byte("pivots", -1, n - SEED)
        BY <2>2, <1>3, SMTT(30) DEF Pasted
      <3>9. KeyByte(t, n) = Byte("pivots", -1, n - SEED)
        BY <2>2 DEF KeyByte
      <3> QED
        BY <3>1, <3>9
    <2>3. CASE n >= SEED + PIVOTS /\ n < SEED + PIVOTS + IRR
      <3>1. s[n] = Byte("irr", t, n - (SEED + PIVOTS))
        BY <2>3, <1>5, SMTT(30) DEF Pasted
      <3>2. bits[n] = s[n]
        BY <2>3, <1>1, SMTT(30) DEF Pasted
      <3>3. string[n] = bits[n]
        BY <2>3, <1>2, SMTT(30) DEF Pasted
      <3>4. key[n] = string[n]
        BY <2>3, <1>3, SMTT(30) DEF Pasted
      <3>9. KeyByte(t, n) = Byte("irr", t, n - (SEED + PIVOTS))
        BY <2>3 DEF KeyByte
      <3> QED
        BY <3>1, <3>2, <3>3, <3>4, <3>9
    <2>4. CASE n >= SEED + PIVOTS + IRR /\ n < SEED + PIVOTS + IRR + COND
      <3>1. bits[n] = Byte("cond", t, n - (SEED + PIVOTS + IRR))
        BY <2>4, <1>1, SMTT(30) DEF Pasted
      <3>2. string[n] = bits[n]
        BY <2>4, <1>2, SMTT(30) DEF Pasted
      <3>3. key[n] = string[n]
        BY <2>4, <1>3, SMTT(30) DEF Pasted
      <3>9. KeyByte(t, n) = Byte("cond", t, n - (SEED + PIVOTS + IRR))
        BY <2>4 DEF KeyByte
      <3> QED
        BY <3>1, <3>2, <3>3, <3>9
    <2>5. CASE n >= SEED + PIVOTS + IRR + COND
      <3>1. string[n] = Byte("r", t, n - (SEED + PIVOTS + IRR + COND))
        BY <2>5, <1>2, SMTT(30) DEF Pasted
      <3>2. key[n] = string[n]
        BY <2>5, <1>3, SMTT(30) DEF Pasted
      <3>9. KeyByte(t, n) = Byte("r", t, n - (SEED + PIVOTS + IRR + COND))
        BY <2>5 DEF KeyByte
      <3> QED
        BY <3>1, <3>2, <3>9
    <2> QED
      BY <2>1, <2>2, <2>3, <2>4, <2>5
  <1>7. key = SecretKey(t)
    BY <1>3, <1>6, SecretKeyBytes DEF Pasted
  <1> QED
    BY <1>7 DEF key, string, bits

----------------------------------------------------------------------------
(* The invariant. *)

LEMMA InitInv == Init => IInv
  <1> SUFFICES ASSUME Init PROVE IInv
    OBVIOUS
  <1>1. 0 \in Attempt /\ \A m \in Attempt : ~(m < 0)
    BY Sizes DEF Attempt
  <1>2. Valid
    BY DEF Init, Valid
  <1>3. Of(0)
    BY <1>1 DEF Init, Of, Seeded, AtGenpoly, AfterGenpoly, AtControl, AtDone, Chain, SeedOf
  <1> QED
    BY <1>1, <1>2, <1>3 DEF IInv

\* The program is in the attempt that it expanded last.
LEMMA NowIs ==
    ASSUME NEW t \in Attempt, r = Bytes("r", t, SizeOfR), NEW how
    PROVE  Fails(how) <=> outcome[t] = how
  <1>1. 0 \in 0 .. SizeOfR - 1
    BY SizeOfs
  <1>2. r[0].source = t
    BY <1>1 DEF Bytes, Byte
  <1> QED
    BY <1>2 DEF Fails, Now

\* An attempt that fails is not the last, and leaves the seed of the next.
LEMMA FailedStep ==
    ASSUME Valid, NEW t \in Attempt, Of(t), outcome[t] # "good", pc # "expand",
           pc' = "expand", seed' = seed, sk' = sk, outcome' = outcome
    PROVE  IInv'
  <1>1. PICK g \in Attempt : outcome[g] = "good"
    BY DEF Valid
  <1>2. g > t
    BY <1>1, Sizes DEF Of, Chain, Attempt
  <1>3. t + 1 \in Attempt /\ t + 1 # 0 /\ (t + 1) - 1 = t
    BY <1>2, Sizes DEF Attempt
  <1>4. seed = SeedOf(t + 1)
    BY <1>3 DEF Of, Seeded, SeedOf
  <1>5. \A m \in Attempt : m < t + 1 => outcome[m] # "good"
    <2>1. \A m \in Attempt : m < t + 1 => m < t \/ m = t
      BY Sizes DEF Attempt
    <2> QED
      BY <2>1 DEF Of, Chain
  <1>6. Of(t + 1)'
    BY <1>4, <1>5 DEF Of, Seeded, AtGenpoly, AfterGenpoly, AtControl, AtDone, Chain
  <1>7. Valid'
    BY DEF Valid
  <1> QED
    BY <1>3, <1>6, <1>7 DEF IInv

LEMMA ExpandSeedStep ==
    ASSUME Valid, NEW t \in Attempt, Of(t), ExpandSeed
    PROVE  IInv'
  <1>1. seed = SeedOf(t) /\ DOMAIN sk = 0 .. SizeOfSk - 1
    BY DEF Of, Seeded, ExpandSeed
  <1>2. r' = Bytes("r", t, SizeOfR)
    BY <1>1, ExpandSeedOf DEF ExpandSeed
  <1>3. \A n \in 0 .. SizeOfR - 1 : r'[n] = Byte("r", t, n)
    BY <1>2, SizeOfs, BytesOf
  <1>4. rp' = TAIL + PERM /\ skp' = SEED + PIVOTS
    BY Sizes, SizeOfs DEF ExpandSeed, SkpAfterSeed
  <1>5. elem' = [m \in 0 .. IRR - 1 |-> Byte("r", t, TAIL + PERM + m)]
    <2>1. elem' = [m \in 0 .. IRR - 1 |-> r'[TAIL + PERM + m]]
      BY <1>4 DEF ExpandSeed, Cut
    <2>2. \A m \in 0 .. IRR - 1 : TAIL + PERM + m \in 0 .. SizeOfR - 1
      BY Sizes, SizeOfs
    <2> QED
      BY <2>1, <2>2, <1>3
  <1>6. seed' = NextSeed(t)
    <2>1. seed' = [m \in 0 .. SEED - 1 |-> r'[(SizeOfR - SEED) + m]]
      BY DEF ExpandSeed, SeedAfter, Cut
    <2>2. \A m \in 0 .. SEED - 1 : /\ (SizeOfR - SEED) + m = TAIL + PERM + IRR + m
                                  /\ TAIL + PERM + IRR + m \in 0 .. SizeOfR - 1
      BY Sizes, SizeOfs
    <2> QED
      BY <2>1, <2>2, <1>3 DEF NextSeed
  <1>7. DOMAIN sk' = 0 .. SizeOfSk - 1 /\ \A n \in 0 .. SEED - 1 : sk'[n] = SeedOf(t)[n]
    <2>1. sk' = [n \in 0 .. SizeOfSk - 1 |-> IF n - 0 \in 0 .. SEED - 1 THEN SeedOf(t)[n - 0] ELSE sk[n]]
      BY <1>1, SeedOfDomain DEF ExpandSeed, StoredSeed, Paste
    <2>2. \A n \in 0 .. SEED - 1 : n - 0 = n /\ n \in 0 .. SizeOfSk - 1
      BY Sizes, SizeOfs
    <2> QED
      BY <2>1, <2>2
  <1>8. pc' = "genpoly" /\ outcome' = outcome
    BY DEF ExpandSeed
  <1>9. Of(t)'
    BY <1>2, <1>4, <1>5, <1>6, <1>7, <1>8
       DEF Of, Seeded, AtGenpoly, AfterGenpoly, AtControl, AtDone, Chain
  <1> QED
    BY <1>8, <1>9 DEF IInv, Valid

LEMMA GenpolyStep ==
    ASSUME Valid, NEW t \in Attempt, Of(t), Genpoly
    PROVE  IInv'
  <1>1. /\ r = Bytes("r", t, SizeOfR) /\ seed = NextSeed(t)
        /\ skp = SEED + PIVOTS /\ rp = TAIL + PERM
        /\ elem = [m \in 0 .. IRR - 1 |-> Byte("r", t, TAIL + PERM + m)]
        /\ DOMAIN sk = 0 .. SizeOfSk - 1
        /\ \A n \in 0 .. SEED - 1 : sk[n] = SeedOf(t)[n]
    BY DEF Of, Seeded, AtGenpoly, Genpoly
  <1>2. irr' = Bytes("irr", t, IRR)
    <2>1. TAIL + PERM \in Nat /\ IRR \in Nat /\ IRR > 0
      BY Sizes
    <2>2. SourceOf(elem, TAIL + PERM) = t
      BY <2>1, <1>1, SourceOfPart
    <2> QED
      BY <2>2 DEF Genpoly, GoppaPolynomial
  <1>3. Pasted(sk, sk', SEED + PIVOTS, "irr", t, IRR)
    BY <1>1, <1>2, Offsets, PasteBytes DEF Genpoly
  <1>4. DOMAIN sk' = 0 .. SizeOfSk - 1 /\ \A n \in 0 .. SEED - 1 : sk'[n] = SeedOf(t)[n]
    <2>1. \A n \in 0 .. SEED - 1 : n \in 0 .. SizeOfSk - 1 /\ n < SEED + PIVOTS
      BY Sizes, SizeOfs
    <2>2. \A n \in 0 .. SizeOfSk - 1 : n < SEED + PIVOTS => sk'[n] = sk[n]
      BY <1>3 DEF Pasted
    <2>3. DOMAIN sk' = 0 .. SizeOfSk - 1
      BY <1>3 DEF Pasted
    <2> QED
      BY <1>1, <2>1, <2>2, <2>3
  <1>5. ASSUME NEW m \in 0 .. IRR - 1
        PROVE  sk'[SEED + PIVOTS + m] = Byte("irr", t, m)
    <2> DEFINE n == SEED + PIVOTS + m
    <2>1. /\ n \in 0 .. SizeOfSk - 1 /\ n >= SEED + PIVOTS /\ n < SEED + PIVOTS + IRR
          /\ n - (SEED + PIVOTS) = m
      BY Sizes, SizeOfs
    <2> QED
      BY <2>1, <1>3, SMTT(30) DEF Pasted
  <1>6. skp' = SEED + PIVOTS + IRR /\ rp' = TAIL
    BY <1>1, Sizes DEF Genpoly
  <1>7. perm' = [m \in 0 .. PERM - 1 |-> Byte("r", t, TAIL + m)]
    <2>1. perm' = [m \in 0 .. PERM - 1 |-> r[TAIL + m]]
      BY <1>6 DEF Genpoly, Cut
    <2>2. \A m \in 0 .. PERM - 1 : TAIL + m \in 0 .. SizeOfR - 1
      BY Sizes, SizeOfs
    <2>3. \A n \in 0 .. SizeOfR - 1 : r[n] = Byte("r", t, n)
      BY <1>1, SizeOfs, BytesOf
    <2> QED
      BY <2>1, <2>2, <2>3
  <1>8. outcome[t] # "noPolynomial"
    BY <1>1, NowIs DEF Genpoly
  <1>9. /\ pc' = "pk_gen" /\ outcome' = outcome /\ r' = r /\ seed' = seed
    BY DEF Genpoly
  <1>10. Of(t)'
    BY <1>1, <1>4, <1>5, <1>6, <1>7, <1>8, <1>9
       DEF Of, Seeded, AtGenpoly, AfterGenpoly, AtControl, AtDone, Chain
  <1> QED
    BY <1>9, <1>10 DEF IInv, Valid

LEMMA PkGenStep ==
    ASSUME Valid, NEW t \in Attempt, Of(t), PkGen
    PROVE  IInv'
  <1>1. /\ r = Bytes("r", t, SizeOfR) /\ outcome[t] # "noPolynomial"
        /\ skp = SEED + PIVOTS + IRR
        /\ perm = [m \in 0 .. PERM - 1 |-> Byte("r", t, TAIL + m)]
        /\ \A m \in 0 .. IRR - 1 : sk[SEED + PIVOTS + m] = Byte("irr", t, m)
    BY DEF Of, Seeded, AfterGenpoly, PkGen
  <1>2. outcome[t] = "good"
    <2>1. outcome[t] # "noPermutation" /\ outcome[t] # "notSystematic"
      BY <1>1, NowIs DEF PkGen
    <2>2. outcome[t] \in Outcome
      BY DEF Valid
    <2> QED
      BY <1>1, <2>1, <2>2 DEF Outcome
  <1>3. Cut(sk, skp - IRR, IRR) = Bytes("irr", t, IRR)
    <2>1. skp - IRR = SEED + PIVOTS
      BY <1>1, Sizes
    <2> QED
      BY <1>1, <2>1 DEF Cut, Bytes
  <1>4. pk' = PublicKey(t) /\ pi' = perm
    BY <1>1, <1>3 DEF PkGen, PublicKey
  <1>5. /\ pc = "pk_gen" /\ pc' = "control"
        /\ UNCHANGED <<outcome, seed, r, rp, sk, skp, elem, perm, irr>>
    BY DEF PkGen
  <1>6. Of(t)'
    BY <1>2, <1>4, <1>5 DEF Of, Seeded, AtGenpoly, AfterGenpoly, AtControl, AtDone, Chain
  <1> QED
    BY <1>5, <1>6 DEF IInv, Valid

LEMMA FinishStep ==
    ASSUME Valid, NEW t \in Attempt, Of(t), Finish
    PROVE  IInv'
  <1>1. /\ r = Bytes("r", t, SizeOfR) /\ outcome[t] = "good"
        /\ skp = SEED + PIVOTS + IRR /\ rp = TAIL
        /\ pi = [m \in 0 .. PERM - 1 |-> Byte("r", t, TAIL + m)]
        /\ pk = PublicKey(t)
        /\ DOMAIN sk = 0 .. SizeOfSk - 1
        /\ \A n \in 0 .. SEED - 1 : sk[n] = SeedOf(t)[n]
        /\ \A m \in 0 .. IRR - 1 : sk[SEED + PIVOTS + m] = Byte("irr", t, m)
    BY DEF Of, Seeded, AfterGenpoly, AtControl, Finish
  <1>2. ControlBits(pi) = Bytes("cond", t, COND)
    <2>1. TAIL \in Nat /\ PERM \in Nat /\ PERM > 0
      BY Sizes
    <2>2. SourceOf(pi, TAIL) = t
      BY <2>1, <1>1, SourceOfPart
    <2> QED
      BY <2>2 DEF ControlBits
  <1>3. Cut(r, rp', TAIL) = Bytes("r", t, TAIL)
    <2>1. rp' = 0
      BY <1>1, Sizes DEF Finish
    <2>2. \A m \in 0 .. TAIL - 1 : 0 + m = m /\ m \in 0 .. SizeOfR - 1
      BY Sizes, SizeOfs
    <2>3. \A n \in 0 .. SizeOfR - 1 : r[n] = Byte("r", t, n)
      BY <1>1, SizeOfs, BytesOf
    <2> QED
      BY <2>1, <2>2, <2>3 DEF Cut, Bytes
  <1>4. sk' = SecretKey(t)
    <2>1. skp' = SEED + PIVOTS + IRR + COND
      BY <1>1 DEF Finish
    <2>2. sk' = LET bits == Paste(sk, SEED + PIVOTS + IRR, Bytes("cond", t, COND))
                    string == Paste(bits, SEED + PIVOTS + IRR + COND, Bytes("r", t, TAIL))
                IN Paste(string, SEED, Bytes("pivots", -1, PIVOTS))
      BY <1>1, <1>2, <1>3, <2>1 DEF Finish
    <2> QED
      BY <1>1, <2>2, FinishedKey
  <1>5. DOMAIN sk' = 0 .. SizeOfSk - 1 /\ \A n \in 0 .. SEED - 1 : sk'[n] = SeedOf(t)[n]
    <2>1. \A n \in 0 .. SEED - 1 : n \in 0 .. SizeOfSk - 1 /\ n < SEED
      BY Sizes, SizeOfs
    <2>2. sk' = [n \in 0 .. SizeOfSk - 1 |-> KeyByte(t, n)]
      BY <1>4, SecretKeyBytes
    <2> QED
      BY <2>1, <2>2 DEF KeyByte
  <1>6. /\ pc = "control" /\ pc' = "done"
        /\ UNCHANGED <<outcome, seed, r, elem, perm, irr, pi, pk>>
    BY DEF Finish
  <1>7. Of(t)'
    BY <1>1, <1>4, <1>5, <1>6 DEF Of, Seeded, AtGenpoly, AfterGenpoly, AtControl, AtDone, Chain
  <1> QED
    BY <1>6, <1>7 DEF IInv, Valid

LEMMA StepInv == IInv /\ Step => IInv'
  <1> SUFFICES ASSUME IInv, Step PROVE IInv'
    OBVIOUS
  <1>1. Valid
    BY DEF IInv
  <1>2. PICK t \in Attempt : Of(t)
    BY DEF IInv
  <1>3. pc # "expand" => r = Bytes("r", t, SizeOfR)
    BY <1>2 DEF Of, Seeded
  <1>4. CASE ExpandSeed
    BY <1>1, <1>2, <1>4, ExpandSeedStep
  <1>5. CASE NoPolynomial
    <2>1. outcome[t] # "good"
      BY <1>3, <1>5, NowIs DEF NoPolynomial
    <2> QED
      BY <1>1, <1>2, <1>5, <2>1, FailedStep DEF NoPolynomial
  <1>6. CASE Genpoly
    BY <1>1, <1>2, <1>6, GenpolyStep
  <1>7. CASE NoPermutation
    <2>1. outcome[t] # "good"
      BY <1>3, <1>7, NowIs DEF NoPermutation
    <2> QED
      BY <1>1, <1>2, <1>7, <2>1, FailedStep DEF NoPermutation
  <1>8. CASE NotSystematic
    <2>1. outcome[t] # "good"
      BY <1>3, <1>8, NowIs DEF NotSystematic
    <2> QED
      BY <1>1, <1>2, <1>8, <2>1, FailedStep DEF NotSystematic
  <1>9. CASE PkGen
    BY <1>1, <1>2, <1>9, PkGenStep
  <1>10. CASE Finish
    BY <1>1, <1>2, <1>10, FinishStep
  <1> QED
    BY <1>4, <1>5, <1>6, <1>7, <1>8, <1>9, <1>10 DEF Step

LEMMA StutterInv == IInv /\ UNCHANGED vars => IInv'
  BY DEF IInv, Valid, Of, Seeded, AtGenpoly, AfterGenpoly, AtControl, AtDone, Chain, vars

\* The attempt that succeeds is the first good one of the chain.
LEMMA InvImplies == IInv => KeysOfOneSeed
  <1> SUFFICES ASSUME IInv, pc = "done" PROVE sk = SecretKey(FirstGood) /\ pk = PublicKey(FirstGood)
    BY DEF KeysOfOneSeed
  <1>1. PICK t \in Attempt : Of(t)
    BY DEF IInv
  <1>2. outcome[t] = "good" /\ sk = SecretKey(t) /\ pk = PublicKey(t)
    BY <1>1 DEF Of, AtDone
  <1>3. \A m \in Attempt : outcome[m] = "good" => t <= m
    BY <1>1, Sizes DEF Of, Chain, Attempt
  <1>4. \A n \in Attempt :
            outcome[n] = "good" /\ (\A m \in Attempt : outcome[m] = "good" => n <= m) => n = t
    BY <1>2, <1>3, Sizes DEF Attempt
  <1>5. FirstGood = t
    BY <1>2, <1>3, <1>4 DEF FirstGood
  <1> QED
    BY <1>2, <1>5

\* The keys are of one attempt, the first that succeeds, whole, for any number of
\* attempts and all sizes of seed, polynomial, permutation and control bits.
THEOREM OneSeed == Spec => []KeysOfOneSeed
  <1>1. Init => IInv
    BY InitInv
  <1>2. IInv /\ [Next]_vars => IInv'
    BY StepInv, StutterInv DEF Next, Done
  <1>3. IInv => KeysOfOneSeed
    BY InvImplies
  <1> QED
    BY <1>1, <1>2, <1>3, PTL DEF Spec

----------------------------------------------------------------------------
(* The caller.                                                              *)

LEMMA KemInitInv == KemInit => IInv
  BY InitInv DEF KemInit

LEMMA ReturnStep ==
    ASSUME IInv, Return
    PROVE  IInv'
  <1>1. PICK t \in Attempt : Of(t)
    BY DEF IInv
  <1>2. 0 \in Attempt /\ \A m \in Attempt : ~(m < 0)
    BY Sizes DEF Attempt
  <1>3. /\ outcome' = [n \in Attempt |-> "good"]
        /\ pc' = "expand" /\ seed' = FirstSeed
        /\ sk' = [n \in DOMAIN sk |-> Nothing]
    BY DEF Return
  <1>4. DOMAIN sk' = 0 .. SizeOfSk - 1
    BY <1>1, <1>3 DEF Of, Seeded
  <1>5. Valid'
    BY <1>2, <1>3 DEF Valid, Outcome
  <1>6. Of(0)'
    BY <1>2, <1>3, <1>4 DEF Of, Seeded, AtGenpoly, AfterGenpoly, AtControl, AtDone, Chain, SeedOf
  <1> QED
    BY <1>2, <1>5, <1>6 DEF IInv

\* The invariant is about nothing but the variables of the key generation.
LEMMA KeygenUnchanged ==
    ASSUME IInv, UNCHANGED keygen
    PROVE  IInv'
  BY StutterInv DEF keygen, vars

LEMMA KemStep ==
    ASSUME IInv, [KemNext]_kem
    PROVE  IInv'
  <1>1. CASE Start
    BY <1>1, KeygenUnchanged DEF Start
  <1>2. CASE Generate
    BY <1>2, StepInv DEF Generate
  <1>3. CASE Return
    BY <1>3, ReturnStep
  <1>4. CASE Draw
    BY <1>4, KeygenUnchanged DEF Draw
  <1>5. CASE Encapsulate
    BY <1>5, KeygenUnchanged DEF Encapsulate
  <1>6. CASE ReadSecret
    BY <1>6, KeygenUnchanged DEF ReadSecret
  <1>7. CASE DecapsulateSent
    BY <1>7, KeygenUnchanged DEF DecapsulateSent
  <1>8. CASE DecapsulateOther
    BY <1>8, KeygenUnchanged DEF DecapsulateOther
  <1>9. CASE Answered
    BY <1>9, KeygenUnchanged DEF Answered, kem
  <1>10. CASE UNCHANGED kem
    BY <1>10, KeygenUnchanged DEF kem
  <1> QED
    BY <1>1, <1>2, <1>3, <1>4, <1>5, <1>6, <1>7, <1>8, <1>9, <1>10 DEF KemNext

\* The keys that encapsulation and decapsulation use are of one attempt of the key
\* generation, the first that succeeds, for all sizes and whatever shake expands seeds to.
THEOREM KeysInUseAreOfOneSeed == KemSpec => []KeysOfOneSeed
  <1>1. KemInit => IInv
    BY KemInitInv
  <1>2. IInv /\ [KemNext]_kem => IInv'
    BY KemStep
  <1>3. IInv => KeysOfOneSeed
    BY InvImplies
  <1> QED
    BY <1>1, <1>2, <1>3, PTL DEF KemSpec

----------------------------------------------------------------------------
(* Loops.                                                                   *)

LEMMA CodeSize == SYS_T \in Nat /\ SYS_T > 1 /\ SYS_N \in Int
  BY FieldSizes, CodeSizes

LEMMA Smallest ==
    ASSUME NEW T \in SUBSET Nat, T # {}
    PROVE  \E x \in T : \A y \in T : x <= y
  <1>1. PICK x \in T : \A y \in T : ~(<<y, x>> \in OpToRel(<, Nat))
    BY NatLessThanWellFounded, WFMin
  <1>2. ASSUME NEW y \in T PROVE ~(y < x)
    BY <1>1 DEF OpToRel
  <1> QED
    BY <1>2

LEMMA Induction ==
    ASSUME NEW S \in SUBSET Nat, 0 \in S, \A n \in S : n + 1 \in S
    PROVE  \A n \in Nat : n \in S
  <1> DEFINE T == Nat \ S
  <1> SUFFICES ASSUME T # {} PROVE FALSE
    OBVIOUS
  <1>1. T \in SUBSET Nat
    OBVIOUS
  <1> HIDE DEF T
  <1>2. PICK x \in T : \A y \in T : x <= y
    BY <1>1, Smallest
  <1>3. x \in Nat /\ x \notin S /\ x # 0
    BY <1>2 DEF T
  <1>4. x - 1 \in Nat /\ x - 1 \notin T
    BY <1>1, <1>2, <1>3
  <1>5. (x - 1) + 1 \in S
    BY <1>4 DEF T
  <1> QED
    BY <1>3, <1>5

\* A loop over k = lo .. hi from start, a step of which is a function, has a result.
LoopsOf(S, start, lo, hi, step) ==
    {f \in [lo - 1 .. hi -> S] :
        /\ f[lo - 1] = start
        /\ \A k \in lo .. hi : f[k] = step[<<f[k - 1], k>>]}

LEMMA LoopHasResult ==
    ASSUME NEW S, NEW start \in S, NEW lo \in Int, NEW hi \in Int, lo - 1 <= hi,
           NEW step \in [S \X (lo .. hi) -> S]
    PROVE  LoopsOf(S, start, lo, hi, step) # {}
  <1> USE DEF LoopsOf
  <1> DEFINE Upto(n) == LoopsOf(S, start, lo, n, step)
             T == {n \in Nat : (lo - 1) + n <= hi => Upto((lo - 1) + n) # {}}
  <1>1. 0 \in T
    <2> DEFINE f == [k \in lo - 1 .. lo - 1 |-> start]
    <2>1. f \in [lo - 1 .. lo - 1 -> S] /\ f[lo - 1] = start /\ lo .. lo - 1 = {}
      OBVIOUS
    <2> HIDE DEF f
    <2>2. f \in Upto(lo - 1)
      BY <2>1
    <2>3. (lo - 1) + 0 = lo - 1
      OBVIOUS
    <2> HIDE DEF Upto
    <2> QED
      BY <2>2, <2>3
  <1>2. ASSUME NEW n \in T PROVE n + 1 \in T
    <2> DEFINE m == (lo - 1) + n
               p == (lo - 1) + (n + 1)
    <2>1. n \in Nat /\ m \in Int /\ p = m + 1 /\ m >= lo - 1 /\ p - 1 = m
      OBVIOUS
    <2> SUFFICES ASSUME p <= hi PROVE Upto(p) # {}
      BY <2>1
    <2> HIDE DEF p
    <2>2. PICK f \in Upto(m) : TRUE
      BY <2>1
    <2> HIDE DEF m
    <2> DEFINE g == [k \in lo - 1 .. p |-> IF k = p THEN step[<<f[m], p>>] ELSE f[k]]
    <2>3. /\ f \in [lo - 1 .. m -> S] /\ f[lo - 1] = start
          /\ \A k \in lo .. m : f[k] = step[<<f[k - 1], k>>]
      BY <2>2
    <2>4. f[m] \in S /\ p \in lo .. hi
      BY <2>1, <2>3
    <2>5. step[<<f[m], p>>] \in S
      BY <2>4
    <2>6. g \in [lo - 1 .. p -> S]
      BY <2>1, <2>3, <2>5
    <2>7. /\ g[p] = step[<<f[m], p>>] /\ g[m] = f[m] /\ g[lo - 1] = f[lo - 1]
          /\ \A k \in lo .. m : g[k] = f[k] /\ g[k - 1] = f[k - 1]
      BY <2>1
    <2> HIDE DEF g
    <2>8. \A k \in lo .. p : g[k] = step[<<g[k - 1], k>>]
      <3> TAKE k \in lo .. p
      <3>1. CASE k = p
        BY <3>1, <2>1, <2>7
      <3>2. CASE k # p
        <4>1. k \in lo .. m
          BY <3>2, <2>1
        <4> QED
          BY <4>1, <2>3, <2>7
      <3> QED
        BY <3>1, <3>2
    <2>9. g \in Upto(p)
      BY <2>3, <2>6, <2>7, <2>8
    <2> QED
      BY <2>9
  <1>3. \A n \in Nat : n \in T
    <2> HIDE DEF T
    <2>1. T \in SUBSET Nat
      BY DEF T
    <2> QED
      BY <1>1, <1>2, <2>1, Induction
  <1>4. hi - (lo - 1) \in Nat /\ (lo - 1) + (hi - (lo - 1)) = hi
    OBVIOUS
  <1>5. Upto(hi) # {}
    <2> DEFINE n == hi - (lo - 1)
    <2> HIDE DEF Upto, n
    <2>1. n \in T /\ (lo - 1) + n = hi
      BY <1>3, <1>4 DEF n
    <2> QED
      BY <2>1
  <1> QED
    BY <1>5

\* What holds before the loop and is kept by every turn holds all through it.
LEMMA LoopKeeps ==
    ASSUME NEW S, NEW lo \in Int, NEW hi \in Int, lo - 1 <= hi, NEW f, f[lo - 1] \in S,
           \A k \in lo .. hi : f[k - 1] \in S => f[k] \in S
    PROVE  \A k \in lo - 1 .. hi : f[k] \in S
  <1> DEFINE T == {n \in Nat : (lo - 1) + n <= hi => f[(lo - 1) + n] \in S}
  <1>1. 0 \in T
    <2>1. (lo - 1) + 0 = lo - 1
      OBVIOUS
    <2> QED
      BY <2>1
  <1>2. ASSUME NEW n \in T PROVE n + 1 \in T
    <2>1. n \in Nat
      OBVIOUS
    <2> SUFFICES ASSUME (lo - 1) + (n + 1) <= hi PROVE f[(lo - 1) + (n + 1)] \in S
      BY <2>1
    <2> DEFINE k == (lo - 1) + (n + 1)
    <2>2. k \in lo .. hi /\ k - 1 = (lo - 1) + n /\ (lo - 1) + n <= hi
      BY <2>1
    <2>3. f[(lo - 1) + n] \in S
      BY <2>2
    <2> HIDE DEF k
    <2>4. f[k] \in S
      BY <2>2, <2>3
    <2> QED
      BY <2>4 DEF k
  <1>3. \A n \in Nat : n \in T
    <2> HIDE DEF T
    <2>1. T \in SUBSET Nat
      BY DEF T
    <2> QED
      BY <1>1, <1>2, <2>1, Induction
  <1> TAKE k \in lo - 1 .. hi
  <1>4. k - (lo - 1) \in Nat /\ (lo - 1) + (k - (lo - 1)) = k /\ k <= hi
    OBVIOUS
  <1> QED
    BY <1>3, <1>4

----------------------------------------------------------------------------
(* The error.  The loop of gen_e moves the positions of a draw to the front *)
(* of ind.                                                                  *)

\* One turn of the loop of gen_e.
NextKept(draw, f, i) ==
    IF i = 0 THEN << >> ELSE IF InCode(draw[i]) THEN Append(f[i - 1], draw[i]) ELSE f[i - 1]

\* What is kept of a draw after every turn.
Turns(draw) ==
    {f \in [0 .. Len(draw) -> Seq(Nat)] : \A i \in 0 .. Len(draw) : f[i] = NextKept(draw, f, i)}

LEMMA KeptIsLast ==
    ASSUME NEW draw \in Seq(Nat)
    PROVE  \E f \in Turns(draw) : Kept(draw) = f[Len(draw)]
  <1> DEFINE IsLoop(f) == f = [i \in 0 .. Len(draw) |-> NextKept(draw, f, i)]
             h == CHOOSE f : IsLoop(f)
             S == Seq(Nat)
             n == Len(draw)
             turn == [x \in S \X (1 .. n) |->
                         IF InCode(draw[x[2]]) THEN Append(x[1], draw[x[2]]) ELSE x[1]]
  <1>1. n \in Nat /\ << >> \in S /\ \A i \in 1 .. n : draw[i] \in Nat
    OBVIOUS
  <1>2. turn \in [S \X (1 .. n) -> S]
    OBVIOUS
  <1>3. \A s \in S : \A i \in 1 .. n :
            turn[<<s, i>>] = IF InCode(draw[i]) THEN Append(s, draw[i]) ELSE s
    OBVIOUS
  <1> HIDE DEF turn, S, n
  <1>4. PICK g \in [0 .. n -> S] : g[0] = << >> /\ \A i \in 1 .. n : g[i] = turn[<<g[i - 1], i>>]
    <2> DEFINE one == 1
               empty == << >>
    <2>1. /\ empty \in S /\ one - 1 = 0 /\ one \in Int /\ n \in Int /\ one - 1 <= n
          /\ turn \in [S \X (one .. n) -> S]
      BY <1>1, <1>2
    <2> HIDE DEF one, empty
    <2>2. LoopsOf(S, empty, one, n, turn) # {}
      BY ONLY <2>1, LoopHasResult
    <2>3. \E g \in [0 .. n -> S] :
              g[0] = empty /\ \A i \in one .. n : g[i] = turn[<<g[i - 1], i>>]
      BY <2>1, <2>2 DEF LoopsOf
    <2> QED
      BY <2>3 DEF one, empty
  <1>5. \A i \in 0 .. n : g[i] = NextKept(draw, g, i)
    <2> TAKE i \in 0 .. n
    <2>1. CASE i = 0
      BY <2>1, <1>4 DEF NextKept
    <2>2. CASE i # 0
      <3>1. i \in 1 .. n /\ i - 1 \in 0 .. n
        BY <2>2, <1>1
      <3>2. g[i] = IF InCode(draw[i]) THEN Append(g[i - 1], draw[i]) ELSE g[i - 1]
        BY <1>3, <1>4, <3>1
      <3> QED
        BY <2>2, <3>2 DEF NextKept
    <2> QED
      BY <2>1, <2>2
  <1>6. IsLoop(g)
    BY <1>4, <1>5 DEF n
  <1>7. IsLoop(h)
    BY <1>6, Zenon
  <1>8. Kept(draw) = h[n]
    BY Zenon DEF Kept, NextKept, n
  <1> HIDE DEF h
  <1>9. h = [i \in 0 .. n |-> h[i]] /\ \A i \in 0 .. n : h[i] = NextKept(draw, h, i)
    BY <1>7 DEF n
  <1>10. h[0] \in S
    BY <1>1, <1>9 DEF NextKept
  <1>11. ASSUME NEW i \in 1 .. n, h[i - 1] \in S PROVE h[i] \in S
    <2>1. i # 0 /\ i \in 0 .. n /\ draw[i] \in Nat
      BY <1>1
    <2>2. h[i] = IF InCode(draw[i]) THEN Append(h[i - 1], draw[i]) ELSE h[i - 1]
      BY <1>9, <2>1 DEF NextKept
    <2> QED
      BY <1>11, <2>1, <2>2 DEF S
  <1>12. \A i \in 0 .. n : h[i] \in S
    <2>1. 1 - 1 = 0 /\ 1 \in Int /\ n \in Int /\ 1 - 1 <= n
      BY <1>1
    <2> QED
      BY <1>10, <1>11, <2>1, LoopKeeps
  <1>13. h \in [0 .. n -> S]
    BY <1>9, <1>12
  <1> QED
    BY <1>8, <1>9, <1>13 DEF Turns, n, S

\* The positions among the first n numbers of a draw, and the first n elements of a sequence.
Positions(draw, n) == {draw[k] : k \in 1 .. n} \cap Position
First(s, n) == {s[m] : m \in 1 .. n}

\* After every turn: what is kept are the positions seen, and whatever is a prefix
\* of it was all that was kept at some turn.
LEMMA KeptIsPrefix ==
    ASSUME NEW draw \in Seq(Nat)
    PROVE  /\ Kept(draw) \in Seq(Nat)
           /\ \A j \in 1 .. Len(Kept(draw)) : \E n \in 1 .. Len(draw) :
                  First(Kept(draw), j) = Positions(draw, n)
  <1>1. PICK f \in Turns(draw) : Kept(draw) = f[Len(draw)]
    BY KeptIsLast
  <1>2. /\ f \in [0 .. Len(draw) -> Seq(Nat)]
        /\ \A i \in 0 .. Len(draw) : f[i] = NextKept(draw, f, i)
    BY DEF Turns
  <1> DEFINE Seen(i) == First(f[i], Len(f[i])) = Positions(draw, i)
             PrefixesSeen(i) == \A j \in 1 .. Len(f[i]) : \E n \in 1 .. i :
                                First(f[i], j) = Positions(draw, n)
             S == {i \in Nat : i <= Len(draw) => Seen(i) /\ PrefixesSeen(i)}
  <1>3. 0 \in S
    <2>1. f[0] = << >>
      BY <1>2 DEF NextKept
    <2>2. Positions(draw, 0) = {}
      BY DEF Positions
    <2>3. First(f[0], Len(f[0])) = {} /\ Len(f[0]) = 0
      BY <2>1 DEF First
    <2>4. PrefixesSeen(0)
      BY <2>3
    <2>5. Seen(0)
      BY <2>2, <2>3
    <2> HIDE DEF PrefixesSeen, Seen
    <2> QED
      BY <2>4, <2>5
  <1>4. ASSUME NEW i \in S PROVE i + 1 \in S
    <2> SUFFICES ASSUME i + 1 <= Len(draw) PROVE Seen(i + 1) /\ PrefixesSeen(i + 1)
      OBVIOUS
    <2> DEFINE s == f[i]
               x == draw[i + 1]
    <2>1. i \in Nat /\ i + 1 \in 0 .. Len(draw) /\ i + 1 \in 1 .. Len(draw)
      OBVIOUS
    <2>2. s \in Seq(Nat) /\ x \in Nat
      BY <1>2, <2>1, SMTT(30)
    <2>3. /\ First(s, Len(s)) = Positions(draw, i)
          /\ \A j \in 1 .. Len(s) : \E n \in 1 .. i : First(s, j) = Positions(draw, n)
      BY <2>1
    <2>4. f[i + 1] = IF InCode(x) THEN Append(s, x) ELSE s
      <3>1. i + 1 # 0 /\ (i + 1) - 1 = i
        BY <2>1
      <3>2. f[i + 1] = NextKept(draw, f, i + 1)
        BY <1>2, <2>1
      <3> QED
        BY <3>1, <3>2 DEF NextKept
    <2>5. InCode(x) <=> x \in Position
      BY <2>2, CodeSize DEF InCode, Position
    <2> HIDE DEF s
    <2>6. CASE x \in Position
      <3> DEFINE t == Append(s, x)
      <3>1. /\ t \in Seq(Nat) /\ Len(t) = Len(s) + 1 /\ t[Len(s) + 1] = x
            /\ \A m \in 1 .. Len(s) : t[m] = s[m]
        BY <2>2
      <3>2. f[i + 1] = t /\ Len(s) \in Nat
        BY <2>2, <2>4, <2>5, <2>6
      <3> HIDE DEF t
      <3>3. First(t, Len(t)) = First(s, Len(s)) \cup {x}
        <4>1. 1 .. Len(t) = 1 .. Len(s) \cup {Len(s) + 1}
          BY <3>1, <3>2
        <4>2. First(t, Len(t)) = {t[m] : m \in 1 .. Len(s)} \cup {t[Len(s) + 1]}
          BY <4>1 DEF First
        <4>3. {t[m] : m \in 1 .. Len(s)} = First(s, Len(s))
          BY <3>1 DEF First
        <4> QED
          BY <3>1, <4>2, <4>3
      <3>4. Positions(draw, i + 1) = Positions(draw, i) \cup {x}
        BY <2>1, <2>6 DEF Positions
      <3>5. Seen(i + 1)
        BY <2>3, <3>2, <3>3, <3>4
      <3>6. ASSUME NEW j \in 1 .. Len(t)
            PROVE  \E n \in 1 .. i + 1 : First(t, j) = Positions(draw, n)
        <4>1. CASE j = Len(t)
          BY <4>1, <2>1, <3>2, <3>5
        <4>2. CASE j # Len(t)
          <5>1. j \in 1 .. Len(s) /\ First(t, j) = First(s, j)
            <6>1. j \in 1 .. Len(s) /\ \A m \in 1 .. j : m \in 1 .. Len(s)
              BY <4>2, <3>1, <3>2
            <6>2. \A m \in 1 .. j : t[m] = s[m]
              BY <3>1, <6>1
            <6> QED
              BY <6>1, <6>2 DEF First
          <5>2. PICK n \in 1 .. i : First(s, j) = Positions(draw, n)
            BY <5>1, <2>3
          <5>3. n \in 1 .. i + 1
            BY <2>1
          <5> QED
            BY <5>1, <5>2, <5>3
        <4> QED
          BY <4>1, <4>2
      <3> QED
        BY <3>2, <3>5, <3>6
    <2>7. CASE x \notin Position
      <3>1. f[i + 1] = s
        BY <2>4, <2>5, <2>7
      <3>2. Positions(draw, i + 1) = Positions(draw, i)
        BY <2>1, <2>7 DEF Positions
      <3>3. \A n \in 1 .. i : n \in 1 .. i + 1
        BY <2>1
      <3> QED
        BY <2>3, <3>1, <3>2, <3>3
    <2> QED
      BY <2>6, <2>7
  <1>5. \A n \in Nat : n \in S
    <2> HIDE DEF S
    <2>1. S \in SUBSET Nat
      BY DEF S
    <2> QED
      BY <1>3, <1>4, <2>1, Induction
  <1>6. Len(draw) \in Nat /\ Len(draw) \in 0 .. Len(draw)
    OBVIOUS
  <1>7. PrefixesSeen(Len(draw)) /\ f[Len(draw)] \in Seq(Nat)
    BY <1>2, <1>5, <1>6
  <1> QED
    BY <1>1, <1>7

\* The error is about to be made of the first positions of the draw that is in nums.
DrawIsIn ==
    /\ nums \in [1 .. 2 * SYS_T -> 0 .. N - 1]
    /\ SYS_T <= Len(Kept(nums)) /\ ~Repeated(ind)
    /\ \A j \in 0 .. SYS_T - 1 : ind[j] = Kept(nums)[j + 1]

DrawInv ==
    /\ DOMAIN ind = 0 .. SYS_T - 1
    /\ stage = "encrypt" => DrawIsIn

LEMMA DrawIsSeq ==
    ASSUME NEW draw \in [1 .. 2 * SYS_T -> 0 .. N - 1]
    PROVE  draw \in Seq(Nat) /\ Len(draw) = 2 * SYS_T
  <1>1. 2 * SYS_T \in Nat
    BY CodeSize
  <1>2. \A i \in 1 .. 2 * SYS_T : draw[i] \in Nat
    OBVIOUS
  <1> QED
    BY <1>1, <1>2

LEMMA DrawStep ==
    ASSUME DrawInv, Draw
    PROVE  DrawInv'
  <1>1. PICK draw \in Draws :
            /\ nums' = draw
            /\ ind' = [j \in DOMAIN ind |->
                          IF j < Len(Kept(draw)) THEN Kept(draw)[j + 1] ELSE ind[j]]
            /\ stage' = IF Enough(draw) /\ ~Repeated(ind') THEN "encrypt" ELSE "drawing"
    BY DEF Draw
  <1>2. DOMAIN ind' = 0 .. SYS_T - 1
    BY <1>1 DEF DrawInv
  <1>3. ASSUME stage' = "encrypt" PROVE DrawIsIn'
    <2>1. Enough(draw) /\ ~Repeated(ind')
      BY <1>1, <1>3
    <2>2. draw \in [1 .. 2 * SYS_T -> 0 .. N - 1]
      BY KemInputs
    <2>3. Kept(draw) \in Seq(Nat) /\ SYS_T <= Len(Kept(draw))
      BY <2>1, <2>2, DrawIsSeq, KeptIsPrefix DEF Enough
    <2>4. ASSUME NEW j \in 0 .. SYS_T - 1 PROVE ind'[j] = Kept(draw)[j + 1]
      <3>1. j < Len(Kept(draw)) /\ j \in DOMAIN ind
        BY <2>3, CodeSize DEF DrawInv
      <3> QED
        BY <1>1, <3>1
    <2> QED
      BY <1>1, <2>1, <2>2, <2>3, <2>4 DEF DrawIsIn
  <1> QED
    BY <1>2, <1>3 DEF DrawInv

LEMMA DrawInvStep ==
    ASSUME DrawInv, [KemNext]_kem
    PROVE  DrawInv'
  <1> USE DEF DrawInv, DrawIsIn, drawing
  <1>1. CASE Start
    BY <1>1 DEF Start
  <1>2. CASE Generate
    BY <1>2 DEF Generate
  <1>3. CASE Return
    BY <1>3 DEF Return
  <1>4. CASE Draw
    BY <1>4, DrawStep
  <1>5. CASE Encapsulate
    BY <1>5 DEF Encapsulate, NoIndex
  <1>6. CASE ReadSecret
    BY <1>6 DEF ReadSecret
  <1>7. CASE DecapsulateSent
    BY <1>7 DEF DecapsulateSent
  <1>8. CASE DecapsulateOther
    BY <1>8 DEF DecapsulateOther
  <1>9. CASE UNCHANGED kem
    BY <1>9 DEF kem
  <1> QED
    BY <1>1, <1>2, <1>3, <1>4, <1>5, <1>6, <1>7, <1>8, <1>9 DEF KemNext, Answered

LEMMA DrawIsError == DrawInv => ErrorOfOneDraw
  <1> SUFFICES ASSUME DrawInv, stage = "encrypt"
               PROVE  /\ Cardinality(Range(ind)) = SYS_T
                      /\ \E n \in DOMAIN nums :
                            Range(ind) = {nums[k] : k \in 1 .. n} \cap Position
    BY DEF ErrorOfOneDraw
  <1>1. DrawIsIn /\ DOMAIN ind = 0 .. SYS_T - 1
    BY DEF DrawInv
  <1>2. nums \in Seq(Nat) /\ DOMAIN nums = 1 .. 2 * SYS_T /\ Len(nums) = 2 * SYS_T
    BY <1>1, DrawIsSeq DEF DrawIsIn
  <1>3. /\ Kept(nums) \in Seq(Nat)
        /\ \A j \in 1 .. Len(Kept(nums)) : \E n \in 1 .. Len(nums) :
               First(Kept(nums), j) = Positions(nums, n)
    BY <1>2, KeptIsPrefix
  <1>4. Range(ind) = First(Kept(nums), SYS_T)
    <2>1. \A j \in 0 .. SYS_T - 1 : j + 1 \in 1 .. SYS_T
      BY CodeSize
    <2>2. \A m \in 1 .. SYS_T : m - 1 \in 0 .. SYS_T - 1 /\ ind[m - 1] = Kept(nums)[m]
      BY <1>1, CodeSize DEF DrawIsIn
    <2>3. \A j \in 0 .. SYS_T - 1 : ind[j] = Kept(nums)[j + 1]
      BY <1>1 DEF DrawIsIn
    <2> QED
      BY <1>1, <2>1, <2>2, <2>3 DEF Range, First
  <1>5. SYS_T \in 1 .. Len(Kept(nums))
    BY <1>1, <1>3, CodeSize DEF DrawIsIn
  <1>6. \E n \in DOMAIN nums : Range(ind) = {nums[k] : k \in 1 .. n} \cap Position
    BY <1>2, <1>3, <1>4, <1>5 DEF Positions
  <1>7. Cardinality(Range(ind)) = SYS_T
    <2> DEFINE D == 0 .. SYS_T - 1
               h == [j \in D |-> ind[j]]
    <2>1. IsFiniteSet(D) /\ Cardinality(D) = SYS_T
      BY CodeSize, FS_Interval
    <2>2. h \in [D -> Range(ind)]
      BY <1>1 DEF Range
    <2>3. \A x \in Range(ind) : \E j \in D : h[j] = x
      BY <1>1 DEF Range
    <2>4. \A i, j \in D : h[i] = h[j] => i = j
      BY <1>1 DEF DrawIsIn, Repeated
    <2> HIDE DEF D, h
    <2>5. h \in Bijection(D, Range(ind))
      BY <2>2, <2>3, <2>4 DEF Bijection, Injection, Surjection, IsInjective
    <2>6. ExistsBijection(D, Range(ind))
      BY <2>5 DEF ExistsBijection
    <2> QED
      BY <2>1, <2>6, FS_Bijection
  <1> QED
    BY <1>6, <1>7

\* gen_e returns SYS_T different positions, the first ones of its last draw: for every
\* length of code, number of errors and sequence of draws.
THEOREM ErrorIsOfOneDraw == KemSpec => []ErrorOfOneDraw
  <1>1. KemInit => DrawInv
    BY DEF KemInit, DrawInv, NoIndex
  <1>2. DrawInv /\ [KemNext]_kem => DrawInv'
    BY DrawInvStep
  <1>3. DrawInv => ErrorOfOneDraw
    BY DrawIsError
  <1> QED
    BY <1>1, <1>2, <1>3, PTL DEF KemSpec

----------------------------------------------------------------------------
(* The generator.  Its keys are blocks made with the key before, from the   *)
(* zero key that nist_kat_init starts with, so no two of them are equal.    *)

LEMMA GeneratorSizes == SEED \in Nat /\ 4 * SYS_T \in Nat /\ BLOCK \in Nat \ {0}
  BY KeygenSizes, CodeSize, BlockSize

LEMMA RequestIsNat ==
    ASSUME NEW n \in Nat
    PROVE  Requested(n) \in Nat
  BY GeneratorSizes DEF Requested

\* The n-th key after the zero key is K[n].
KeyChain(K, n) ==
    /\ n \in Nat \ {0}
    /\ K[0] = <<ZeroBlock, ZeroBlock>>
    /\ \A i \in 1 .. n : K[i] # << >> /\ K[i][1].key = K[i - 1]

LEMMA KeysDiffer ==
    ASSUME NEW K, NEW n, KeyChain(K, n)
    PROVE  \A m, i \in 0 .. n : m < i => K[m] # K[i]
  <1> DEFINE S == {m \in Nat : \A i \in 0 .. n : m < i => K[m] # K[i]}
  <1>1. n \in Nat /\ \A i \in 1 .. n : K[i] # << >> /\ K[i][1].key = K[i - 1]
    BY DEF KeyChain
  <1>2. K[0] # << >> /\ K[0][1].key = << >>
    BY DEF KeyChain, ZeroBlock
  <1>3. 0 \in S
    <2> SUFFICES ASSUME NEW i \in 0 .. n, 0 < i, K[0] = K[i] PROVE FALSE
      OBVIOUS
    <2>1. K[i - 1] = << >>
      BY <1>1, <1>2
    <2>2. i - 1 = 0 \/ i - 1 \in 1 .. n
      BY <1>1
    <2> QED
      BY <1>1, <1>2, <2>1, <2>2
  <1>4. ASSUME NEW m \in S PROVE m + 1 \in S
    <2> SUFFICES ASSUME NEW i \in 0 .. n, m + 1 < i, K[m + 1] = K[i] PROVE FALSE
      OBVIOUS
    <2>1. /\ m + 1 \in 1 .. n /\ i \in 1 .. n /\ (m + 1) - 1 = m
          /\ i - 1 \in 0 .. n /\ m < i - 1
      BY <1>1
    <2>2. K[m] = K[i - 1]
      BY <1>1, <2>1
    <2> QED
      BY <2>1, <2>2
  <1>5. \A m \in Nat : m \in S
    <2> HIDE DEF S
    <2>1. S \in SUBSET Nat
      BY DEF S
    <2> QED
      BY <1>3, <1>4, <2>1, Induction
  <1> QED
    BY <1>1, <1>5

\* A context with the n-th key of K, and what was handed out under earlier keys.
Holds(context) ==
    {context.Key[1], context.Key[2], context.V.base}
Handed(K, n, context, blocks) ==
    /\ KeyChain(K, n)
    /\ context.Key = K[n] /\ context.V = Counter(context.V.base)
    /\ \A b \in Holds(context) : b.key = K[n - 1] /\ b \notin blocks
    /\ \A b \in blocks : \E i \in 1 .. n - 1 : b.key = K[i]

DrawnInv ==
    IF stage = "start" THEN drawn = {} ELSE \E K, n : Handed(K, n, drbg, drawn)

LEMMA HandedIsNew ==
    ASSUME NEW K, NEW n, Handed(K, n, drbg, drawn)
    PROVE  NothingDrawnTwice
  <1>1. n \in Nat /\ n > 0
    BY DEF Handed, KeyChain
  <1>2. ASSUME NEW b \in drawn PROVE b.key # drbg.Key
    <2>1. PICK i \in 1 .. n - 1 : b.key = K[i]
      BY DEF Handed
    <2>2. K[i] # K[n]
      BY <1>1, KeysDiffer DEF Handed
    <2> QED
      BY <2>1, <2>2 DEF Handed
  <1>3. Holds(drbg) \cap drawn = {}
    BY DEF Handed
  <1> QED
    BY <1>2, <1>3 DEF NothingDrawnTwice, Holds

LEMMA BlockFields ==
    ASSUME NEW key, NEW base, NEW p \in Nat, NEW i \in Nat
    PROVE  LET b == AES256_ECB(key, Incremented([base |-> base, plus |-> p], i))
           IN  b.key = key /\ b.v.plus = p + i
  BY DEF AES256_ECB, Incremented

LEMMA BlocksFields ==
    ASSUME NEW key, NEW base, NEW p \in Nat, NEW n \in Nat
    PROVE  LET s == Blocks(key, [base |-> base, plus |-> p], n)
           IN  /\ s = [i \in 1 .. n |-> s[i]]
               /\ \A i \in 1 .. n : s[i].key = key /\ s[i].v.plus = p + i
  BY BlockFields DEF Blocks

\* A request hands out blocks under the key it finds, and leaves one made with it.
LEMMA RequestHands ==
    ASSUME NEW K, NEW n, NEW context, NEW blocks, Handed(K, n, context, blocks), NEW m \in Nat
    PROVE  \E L : Handed(L, n + 1, After(context, m), blocks \cup Range(Output(context, m)))
  <1> DEFINE R == Requested(m)
             key == context.Key
             base == context.V.base
             out == Output(context, m)
             temp == Blocks(key, Incremented(context.V, R), 3)
             new == After(context, m)
             all == blocks \cup Range(out)
             L == [i \in 0 .. n + 1 |-> IF i = n + 1 THEN <<temp[1], temp[2]>> ELSE K[i]]
  <1>1. R \in Nat
    BY RequestIsNat
  <1>2. n \in Nat /\ n > 0 /\ key = K[n] /\ context.V = [base |-> base, plus |-> 0]
    BY DEF Handed, KeyChain, Counter
  <1>3. /\ out = [i \in 1 .. R |-> out[i]]
        /\ \A i \in 1 .. R : out[i].key = key /\ out[i].v.plus = 0 + i
    <2> HIDE DEF R
    <2>1. out = Blocks(key, [base |-> base, plus |-> 0], R)
      BY <1>2 DEF Output, R
    <2> HIDE DEF out, key, base
    <2> QED
      BY <1>1, <2>1, BlocksFields
  <1>4. \A i \in 1 .. 3 : temp[i].key = key /\ temp[i].v.plus = R + i
    <2> HIDE DEF R
    <2>1. Incremented(context.V, R) = [base |-> base, plus |-> R]
      BY <1>1, <1>2 DEF Incremented
    <2>2. temp = Blocks(key, [base |-> base, plus |-> R], 3)
      BY <2>1
    <2> HIDE DEF temp, key, base
    <2>3. ASSUME NEW i \in 1 .. 3 PROVE temp[i].key = key /\ temp[i].v.plus = R + i
      <3>1. temp[i] = AES256_ECB(key, Incremented([base |-> base, plus |-> R], i)) /\ i \in Nat
        BY <2>2 DEF Blocks
      <3> QED
        BY <1>1, <3>1, BlockFields
    <2> QED
      BY <2>3
  <1>5. new.Key = <<temp[1], temp[2]>> /\ new.V = Counter(temp[3]) /\ new.V.base = temp[3]
    BY DEF After, Update, Counter
  <1>6. KeyChain(L, n + 1) /\ L[n + 1] = new.Key /\ L[n] = key /\ \A i \in 0 .. n : L[i] = K[i]
    <2>1. n + 1 \in Nat \ {0}
      BY <1>2
    <2> HIDE DEF temp
    <2>2. /\ L[n + 1] = <<temp[1], temp[2]>> /\ \A i \in 0 .. n : L[i] = K[i]
      BY <1>2
    <2> HIDE DEF L
    <2>3. L[0] = <<ZeroBlock, ZeroBlock>>
      BY <1>2, <2>2 DEF Handed, KeyChain
    <2>4. ASSUME NEW i \in 1 .. n PROVE L[i] # << >> /\ L[i][1].key = L[i - 1]
      <3>1. i \in 0 .. n /\ i - 1 \in 0 .. n
        BY <1>2
      <3> QED
        BY <2>2, <3>1 DEF Handed, KeyChain
    <2>5. L[n + 1] # << >> /\ L[n + 1][1].key = L[n]
      BY <1>2, <1>4, <2>2
    <2>6. \A i \in 1 .. n + 1 : L[i] # << >> /\ L[i][1].key = L[i - 1]
      BY <1>2, <2>4, <2>5
    <2> QED
      BY <1>2, <1>5, <2>1, <2>2, <2>3, <2>6 DEF KeyChain
  <1> HIDE DEF L, temp, out, new, R, key, base
  <1>7. ASSUME NEW b \in all PROVE \E i \in 1 .. n : b.key = L[i]
    <2>1. CASE b \in blocks
      <3>1. PICK i \in 1 .. n - 1 : b.key = K[i]
        BY <2>1 DEF Handed
      <3>2. i \in 1 .. n /\ i \in 0 .. n
        BY <1>2
      <3> QED
        BY <1>6, <3>1, <3>2
    <2>2. CASE b \in Range(out)
      <3>1. b.key = key
        BY <1>3, <2>2 DEF Range
      <3>2. n \in 1 .. n
        BY <1>2
      <3> QED
        BY <1>6, <3>1, <3>2
    <2> QED
      BY <2>1, <2>2
  <1>8. ASSUME NEW i \in 1 .. 3 PROVE temp[i] \notin all
    <2>1. temp[i].key = key /\ temp[i].v.plus = R + i
      BY <1>4
    <2>2. temp[i] \notin blocks
      <3> SUFFICES ASSUME temp[i] \in blocks PROVE FALSE
        OBVIOUS
      <3>1. PICK k \in 1 .. n - 1 : temp[i].key = K[k]
        BY DEF Handed
      <3>2. k < n /\ k \in 0 .. n /\ n \in 0 .. n
        BY <1>2
      <3>3. K[k] # K[n]
        BY <3>2, KeysDiffer DEF Handed
      <3> QED
        BY <1>2, <2>1, <3>1, <3>3
    <2>3. \A k \in 1 .. R : out[k].v.plus # temp[i].v.plus
      BY <1>1, <1>3, <2>1
    <2>4. temp[i] \notin Range(out)
      BY <1>3, <2>3 DEF Range
    <2> QED
      BY <2>2, <2>4
  <1>9. \A b \in Holds(new) : b.key = L[(n + 1) - 1] /\ b \notin all
    <2>1. Holds(new) = {temp[1], temp[2], temp[3]} /\ (n + 1) - 1 = n
      BY <1>2, <1>5 DEF Holds
    <2>2. 1 \in 1 .. 3 /\ 2 \in 1 .. 3 /\ 3 \in 1 .. 3
      OBVIOUS
    <2> HIDE DEF all
    <2> QED
      BY <1>4, <1>6, <1>8, <2>1, <2>2
  <1>10. \A b \in all : \E i \in 1 .. (n + 1) - 1 : b.key = L[i]
    BY <1>2, <1>7
  <1>11. new.V = Counter(new.V.base)
    BY <1>5
  <1>12. Handed(L, n + 1, new, all)
    <2> HIDE DEF all
    <2> QED
      BY <1>6, <1>9, <1>10, <1>11 DEF Handed
  <1> QED
    BY <1>12 DEF new, out

\* The first context: its key is made with the zero key.
LEMMA FirstContext == \E K : Handed(K, 1, nist_kat_init(ZeroBlock), {})
  <1> DEFINE zero == <<ZeroBlock, ZeroBlock>>
             temp == Mixed(Blocks(zero, Counter(ZeroBlock), 3), ZeroBlock)
             first == nist_kat_init(ZeroBlock)
             K == [i \in 0 .. 1 |-> IF i = 0 THEN zero ELSE <<temp[1], temp[2]>>]
  <1>1. \A i \in 1 .. 3 : temp[i].key = zero
    BY DEF Mixed, Blocks, AES256_ECB
  <1>2. first.Key = <<temp[1], temp[2]>> /\ first.V = Counter(temp[3]) /\ first.V.base = temp[3]
    BY DEF nist_kat_init, Update, Counter
  <1> HIDE DEF temp, first
  <1>3. /\ K[0] = zero /\ K[1] = <<temp[1], temp[2]>> /\ K[1][1].key = K[0]
        /\ K[1] # << >>
    BY <1>1
  <1> HIDE DEF K
  <1>4. KeyChain(K, 1)
    BY <1>3 DEF KeyChain
  <1>5. \A b \in Holds(first) : b.key = K[1 - 1]
    BY <1>1, <1>2, <1>3 DEF Holds
  <1>6. Handed(K, 1, first, {})
    BY <1>2, <1>3, <1>4, <1>5 DEF Handed
  <1> QED
    BY <1>6 DEF first

LEMMA DrawnStep ==
    ASSUME DrawnInv, [KemNext]_kem
    PROVE  DrawnInv'
  <1>1. CASE Start
    <2>1. /\ stage = "start" /\ stage' = "keypair" /\ drawn = {}
          /\ drbg' = After(nist_kat_init(ZeroBlock), SEED)
          /\ drawn' = drawn \cup Range(Output(nist_kat_init(ZeroBlock), SEED))
      BY <1>1 DEF Start, randombytes, DrawnInv
    <2>2. PICK K : Handed(K, 1, nist_kat_init(ZeroBlock), {})
      BY FirstContext
    <2>3. \E L : Handed(L, 1 + 1, drbg', drawn')
      BY <2>1, <2>2, GeneratorSizes, RequestHands
    <2> QED
      BY <2>1, <2>3 DEF DrawnInv
  <1>2. CASE Draw
    <2>1. /\ stage # "start" /\ stage' # "start"
          /\ drbg' = After(drbg, 4 * SYS_T)
          /\ drawn' = drawn \cup Range(Output(drbg, 4 * SYS_T))
      BY <1>2 DEF Draw, randombytes
    <2>2. PICK K, n : Handed(K, n, drbg, drawn)
      BY <2>1 DEF DrawnInv
    <2>3. \E L : Handed(L, n + 1, drbg', drawn')
      BY <2>1, <2>2, GeneratorSizes, RequestHands
    <2> QED
      BY <2>1, <2>3 DEF DrawnInv
  <1>3. CASE UNCHANGED random /\ (stage' = "start" <=> stage = "start")
    BY <1>3 DEF DrawnInv, random
  <1>4. Generate => UNCHANGED random /\ (stage' = "start" <=> stage = "start")
    BY DEF Generate
  <1>5. Return => UNCHANGED random /\ (stage' = "start" <=> stage = "start")
    BY DEF Return
  <1>6. Encapsulate => UNCHANGED random /\ (stage' = "start" <=> stage = "start")
    BY DEF Encapsulate
  <1>7. ReadSecret => UNCHANGED random /\ (stage' = "start" <=> stage = "start")
    BY DEF ReadSecret
  <1>8. DecapsulateSent => UNCHANGED random /\ (stage' = "start" <=> stage = "start")
    BY DEF DecapsulateSent
  <1>9. DecapsulateOther => UNCHANGED random /\ (stage' = "start" <=> stage = "start")
    BY DEF DecapsulateOther
  <1>10. UNCHANGED kem => UNCHANGED random /\ (stage' = "start" <=> stage = "start")
    BY DEF kem
  <1> QED
    BY <1>1, <1>2, <1>3, <1>4, <1>5, <1>6, <1>7, <1>8, <1>9, <1>10 DEF KemNext, Answered

\* The generator hands out no block twice and none that it keeps, however often it is
\* asked and for any size of block.
THEOREM BlocksAreNew == KemSpec => []NothingDrawnTwice
  <1>1. KemInit => DrawnInv
    BY DEF KemInit, DrawnInv
  <1>2. DrawnInv /\ [KemNext]_kem => DrawnInv'
    BY DrawnStep
  <1>3. DrawnInv => NothingDrawnTwice
    BY HandedIsNew DEF DrawnInv, NothingDrawnTwice
  <1> QED
    BY <1>1, <1>2, <1>3, PTL DEF KemSpec

----------------------------------------------------------------------------
(* Types.  Whatever the elimination of pk_gen is given, its rows are sets   *)
(* of positions, and the columns of the identity are not stored.            *)

LEMMA MatrixSize == GFBITS \in Nat /\ GFBITS > 1 /\ PK_NROWS \in Nat /\ PK_NROWS > 0 /\ SYS_N > 0
  <1>1. GFBITS \in Nat /\ GFBITS > 1 /\ SYS_T \in Nat /\ SYS_T > 1
    BY FieldSizes
  <1>2. GFBITS * SYS_T \in Nat /\ GFBITS * SYS_T > 0
    BY <1>1
  <1> QED
    BY <1>1, <1>2, CodeSizes DEF PK_NROWS

LEMMA OnceIs == ASSUME NEW v PROVE Once(v) = v
  BY DEF Once

LEMMA ChosenIs ==
    ASSUME NEW v
    PROVE  (CHOOSE y \in {v} : TRUE) = v
  OBVIOUS

Bits == SUBSET Position
Matrix == [Row -> Bits]

\* A turn of the loop that makes the pivot of row n.
AddRow(mat, n, row, k) == IF (n \in row) # (n \in mat[k]) THEN SymDiff(row, mat[k]) ELSE row

LEMMA AccumulatedIsRow ==
    ASSUME NEW mat \in Matrix, NEW n \in Row
    PROVE  Accumulated(mat, n) \in Bits
  <1> DEFINE lo == n + 1
             hi == PK_NROWS - 1
             IsLoop(f) == f = [k \in lo - 1 .. hi |->
                 IF k < lo THEN mat[n]
                 ELSE CHOOSE y \in {AddRow(mat, n, x, k) : x \in {f[k - 1]}} : TRUE]
             h == CHOOSE f : IsLoop(f)
             add == [p \in Bits \X (lo .. hi) |-> AddRow(mat, n, p[1], p[2])]
  <1>1. /\ lo \in Int /\ hi \in Int /\ lo - 1 <= hi /\ lo - 1 = n
        /\ \A k \in lo .. hi : k \in Row /\ ~(k < lo) /\ k - 1 \in lo - 1 .. hi
    BY MatrixSize DEF Row
  <1>2. \A row \in Bits : \A k \in lo .. hi : AddRow(mat, n, row, k) \in Bits
    <2> SUFFICES ASSUME NEW row \in Bits, NEW k \in lo .. hi PROVE AddRow(mat, n, row, k) \in Bits
      OBVIOUS
    <2>1. mat[k] \in Bits
      BY <1>1 DEF Matrix
    <2> QED
      BY <2>1 DEF AddRow, SymDiff, Bits
  <1>3. mat[n] \in Bits
    BY DEF Matrix
  <1>4. Accumulated(mat, n) = Once(h[hi])
    BY Zenon DEF Accumulated, For, AddRow
  <1> HIDE DEF lo, hi
  <1>5. add \in [Bits \X (lo .. hi) -> Bits]
    BY <1>2
  <1>6. \A row \in Bits : \A k \in lo .. hi : add[<<row, k>>] = AddRow(mat, n, row, k)
    OBVIOUS
  <1> HIDE DEF add
  <1>7. PICK g \in LoopsOf(Bits, mat[n], lo, hi, add) : TRUE
    BY <1>1, <1>3, <1>5, LoopHasResult
  <1>8. /\ g \in [lo - 1 .. hi -> Bits] /\ g[lo - 1] = mat[n]
        /\ \A k \in lo .. hi : g[k] = add[<<g[k - 1], k>>]
    BY <1>7 DEF LoopsOf
  <1>9. ASSUME NEW f, NEW k
        PROVE  (CHOOSE y \in {AddRow(mat, n, x, k) : x \in {f[k - 1]}} : TRUE)
                   = AddRow(mat, n, f[k - 1], k)
    <2> DEFINE v == AddRow(mat, n, f[k - 1], k)
    <2>1. {AddRow(mat, n, x, k) : x \in {f[k - 1]}} = {v}
      OBVIOUS
    <2> HIDE DEF v
    <2>2. (CHOOSE y \in {v} : TRUE) = v
      BY ChosenIs
    <2> QED
      BY <2>1, <2>2 DEF v
  <1>10. IsLoop(g)
    <2>1. ASSUME NEW k \in lo - 1 .. hi
          PROVE  g[k] = IF k < lo THEN mat[n]
                        ELSE CHOOSE y \in {AddRow(mat, n, x, k) : x \in {g[k - 1]}} : TRUE
      <3>1. CASE k < lo
        <4>1. k = lo - 1
          BY <3>1, <1>1
        <4> QED
          BY <3>1, <4>1, <1>8
      <3>2. CASE ~(k < lo)
        <4>1. k \in lo .. hi
          BY <3>2, <1>1
        <4>2. g[k - 1] \in Bits
          BY <4>1, <1>1, <1>8
        <4>3. g[k] = AddRow(mat, n, g[k - 1], k)
          BY <4>1, <4>2, <1>6, <1>8
        <4> QED
          BY <3>2, <4>3, <1>9
      <3> QED
        BY <3>1, <3>2
    <2> QED
      BY <2>1, <1>8
  <1>11. IsLoop(h)
    BY <1>10, Zenon
  <1> HIDE DEF h
  <1>12. h[lo - 1] \in Bits
    BY <1>1, <1>3, <1>11
  <1>13. ASSUME NEW k \in lo .. hi, h[k - 1] \in Bits PROVE h[k] \in Bits
    <2>1. k \in lo - 1 .. hi /\ ~(k < lo)
      BY <1>1
    <2>2. h[k] = AddRow(mat, n, h[k - 1], k)
      BY <2>1, <1>9, <1>11
    <2> QED
      BY <2>2, <1>2, <1>13
  <1>14. \A k \in lo - 1 .. hi : h[k] \in Bits
    BY <1>1, <1>12, <1>13, LoopKeeps
  <1>15. h[hi] \in Bits
    BY <1>1, <1>14
  <1> QED
    BY <1>4, <1>15, OnceIs

\* A turn of the elimination.
ClearedBy(mat, row, n) ==
    IF n \notin row THEN Failure
    ELSE [k \in Row |-> CASE k = n -> row
                          [] k # n /\ n \in mat[k] -> SymDiff(mat[k], row)
                          [] OTHER -> mat[k]]
EliminateRow(mat, n) ==
    IF mat = Failure THEN Failure ELSE ClearedBy(mat, Once(Accumulated(mat, n)), n)

LEMMA EliminateKeeps ==
    ASSUME NEW mat \in Matrix \cup {Failure}, NEW n \in Row
    PROVE  EliminateRow(mat, n) \in Matrix \cup {Failure}
  <1>1. CASE mat = Failure
    BY <1>1 DEF EliminateRow
  <1>2. CASE mat # Failure
    <2> DEFINE row == Accumulated(mat, n)
               new(k) == CASE k = n -> row
                           [] k # n /\ n \in mat[k] -> SymDiff(mat[k], row)
                           [] OTHER -> mat[k]
    <2>1. mat \in Matrix
      BY <1>2
    <2>2. row \in Bits
      BY <2>1, AccumulatedIsRow
    <2>3. EliminateRow(mat, n) = ClearedBy(mat, row, n)
      BY <1>2, OnceIs, Zenon DEF EliminateRow
    <2> HIDE DEF row
    <2>4. CASE n \notin row
      BY <2>3, <2>4 DEF ClearedBy
    <2>5. CASE n \in row
      <3>1. ASSUME NEW k \in Row PROVE new(k) \in Bits
        <4>1. mat[k] \in Bits
          BY <2>1 DEF Matrix
        <4>2. SymDiff(mat[k], row) \in Bits
          BY <2>2, <4>1 DEF SymDiff, Bits
        <4>3. CASE k = n
          BY <4>3, <2>2
        <4>4. CASE k # n /\ n \in mat[k]
          BY <4>4, <4>2
        <4>5. CASE k # n /\ ~(n \in mat[k])
          BY <4>5, <4>1
        <4> QED
          BY <4>3, <4>4, <4>5
      <3>2. ClearedBy(mat, row, n) = [k \in Row |-> new(k)]
        BY <2>5, Zenon DEF ClearedBy
      <3> HIDE DEF new
      <3>3. [k \in Row |-> new(k)] \in [Row -> Bits]
        BY <3>1
      <3> QED
        BY <2>3, <3>2, <3>3 DEF Matrix
    <2> QED
      BY <2>4, <2>5
  <1> QED
    BY <1>1, <1>2

StoredRows == [Row -> SUBSET (Position \ Row)]

LEMMA SystematicRowsAreStored ==
    ASSUME NEW matrix \in Matrix, SystematicRows(matrix) # Failure
    PROVE  SystematicRows(matrix) \in StoredRows
  <1> DEFINE lo == 0
             hi == PK_NROWS - 1
             S == Matrix \cup {Failure}
             IsLoop(f) == f = [k \in lo - 1 .. hi |->
                 IF k < lo THEN matrix
                 ELSE CHOOSE y \in {EliminateRow(x, k) : x \in {f[k - 1]}} : TRUE]
             h == CHOOSE f : IsLoop(f)
             eliminate == [p \in S \X (lo .. hi) |-> EliminateRow(p[1], p[2])]
             reduced == Once(h[hi])
  <1>1. /\ lo \in Int /\ hi \in Int /\ lo - 1 <= hi
        /\ \A k \in lo .. hi : k \in Row /\ ~(k < lo) /\ k - 1 \in lo - 1 .. hi
        /\ \A k \in lo - 1 .. hi : k < lo => k = lo - 1
        /\ \A k \in lo - 1 .. hi : ~(k < lo) => k \in lo .. hi
        /\ lo - 1 \in lo - 1 .. hi /\ hi \in lo - 1 .. hi /\ lo - 1 < lo
    BY MatrixSize DEF Row
  <1>2. \A mat \in S : \A k \in lo .. hi : EliminateRow(mat, k) \in S
    BY <1>1, EliminateKeeps
  <1>3. matrix \in S
    OBVIOUS
  <1>4. SystematicRows(matrix) = IF reduced = Failure THEN Failure ELSE [k \in Row |-> reduced[k] \ Row]
    BY Zenon DEF SystematicRows, For, EliminateRow, ClearedBy
  <1> HIDE DEF lo, hi, S
  <1>5. eliminate \in [S \X (lo .. hi) -> S]
    BY <1>2
  <1>6. \A mat \in S : \A k \in lo .. hi : eliminate[<<mat, k>>] = EliminateRow(mat, k)
    OBVIOUS
  <1> HIDE DEF eliminate
  <1>7. PICK g \in LoopsOf(S, matrix, lo, hi, eliminate) : TRUE
    <2>1. LoopsOf(S, matrix, lo, hi, eliminate) # {}
      BY ONLY <1>1, <1>3, <1>5, LoopHasResult, Zenon
    <2> QED
      BY <2>1
  <1>8. /\ g \in [lo - 1 .. hi -> S] /\ g[lo - 1] = matrix
        /\ \A k \in lo .. hi : g[k] = eliminate[<<g[k - 1], k>>]
    BY <1>7 DEF LoopsOf
  <1>9. ASSUME NEW f, NEW k
        PROVE  (CHOOSE y \in {EliminateRow(x, k) : x \in {f[k - 1]}} : TRUE)
                   = EliminateRow(f[k - 1], k)
    <2> DEFINE v == EliminateRow(f[k - 1], k)
    <2>1. {EliminateRow(x, k) : x \in {f[k - 1]}} = {v}
      OBVIOUS
    <2> HIDE DEF v
    <2>2. (CHOOSE y \in {v} : TRUE) = v
      BY ChosenIs
    <2> QED
      BY <2>1, <2>2 DEF v
  <1>10. IsLoop(g)
    <2>1. ASSUME NEW k \in lo - 1 .. hi
          PROVE  g[k] = IF k < lo THEN matrix
                        ELSE CHOOSE y \in {EliminateRow(x, k) : x \in {g[k - 1]}} : TRUE
      <3>1. CASE k < lo
        BY <3>1, <1>1, <1>8
      <3>2. CASE ~(k < lo)
        <4>1. k \in lo .. hi
          BY <3>2, <1>1
        <4>2. g[k - 1] \in S
          BY <4>1, <1>1, <1>8
        <4>3. g[k] = EliminateRow(g[k - 1], k)
          BY <4>1, <4>2, <1>6, <1>8
        <4> QED
          BY <3>2, <4>3, <1>9
      <3> QED
        BY <3>1, <3>2
    <2> QED
      BY <2>1, <1>8
  <1>11. IsLoop(h)
    BY <1>10, Zenon
  <1> HIDE DEF h
  <1>12. h[lo - 1] \in S
    BY <1>1, <1>3, <1>11
  <1>13. ASSUME NEW k \in lo .. hi, h[k - 1] \in S PROVE h[k] \in S
    <2>1. k \in lo - 1 .. hi /\ ~(k < lo)
      BY <1>1
    <2>2. h[k] = EliminateRow(h[k - 1], k)
      BY <2>1, <1>9, <1>11
    <2> QED
      BY <2>2, <1>2, <1>13
  <1>14. \A k \in lo - 1 .. hi : h[k] \in S
    BY <1>1, <1>12, <1>13, LoopKeeps
  <1>15. reduced \in Matrix
    <2>1. reduced = h[hi] /\ h[hi] \in S
      BY <1>1, <1>14, OnceIs
    <2>2. reduced # Failure
      BY <1>4
    <2> HIDE DEF reduced
    <2> QED
      BY <2>1, <2>2 DEF S
  <1>16. SystematicRows(matrix) = [k \in Row |-> reduced[k] \ Row]
    BY <1>4
  <1> HIDE DEF reduced
  <1> QED
    BY <1>15, <1>16 DEF Matrix, Bits, StoredRows

LEMMA KeyMatrixIsMatrix == ASSUME NEW g, NEW L PROVE KeyMatrix(g, L) \in Matrix
  BY DEF KeyMatrix, Matrix, Bits

\* A good expansion has made the rows of a key.
LEMMA GoodHasRows ==
    ASSUME NEW x, Made(x).outcome = "good"
    PROVE  Made(x).rows \in StoredRows
  <1> DEFINE g == Once(genpoly_gen(x.f))
             order == Once(PermutationOf(x.perm))
             matrix == KeyMatrix(Monic(g), SupportOf(order))
             rows == Once(SystematicRows(matrix))
             Bad(how) == [from |-> x, outcome |-> how]
             full == [from |-> x, outcome |-> "good", g |-> g, pi |-> order, rows |-> rows,
                      bits |-> controlbitsfrompermutation(order)]
  <1>1. Made(x) = IF g = Failure THEN Bad("noPolynomial")
                  ELSE IF order = Failure THEN Bad("noPermutation")
                  ELSE IF rows = Failure THEN Bad("notSystematic") ELSE full
    BY Zenon DEF Made
  <1>2. matrix \in Matrix
    BY KeyMatrixIsMatrix
  <1> HIDE DEF matrix
  <1>3. rows # Failure => rows \in StoredRows
    BY <1>2, OnceIs, SystematicRowsAreStored
  <1>4. full.rows = rows
    OBVIOUS
  <1> HIDE DEF g, order, rows, full
  <1>5. \A how : Bad(how).outcome = how
    OBVIOUS
  <1> HIDE DEF Bad
  <1>6. Made(x) = full /\ rows # Failure
    BY <1>1, <1>5
  <1> QED
    BY <1>3, <1>4, <1>6

\* Bytes of a key are of kinds a key is made of.
Kinds == {"nothing", "random", "r", "irr", "cond", "pivots"}
OfKinds(s) == \A n \in DOMAIN s : s[n].kind \in Kinds

LEMMA PasteKinds ==
    ASSUME NEW s, OfKinds(s), NEW to, NEW bytes, OfKinds(bytes)
    PROVE  DOMAIN Paste(s, to, bytes) = DOMAIN s /\ OfKinds(Paste(s, to, bytes))
  BY DEF Paste, OfKinds

LEMMA BytesKinds ==
    ASSUME NEW k \in Kinds, NEW x, NEW size
    PROVE  OfKinds(Bytes(k, x, size))
  BY DEF Bytes, Byte, OfKinds

LEMMA SeedKinds == ASSUME NEW t \in Attempt PROVE OfKinds(SeedOf(t))
  <1>1. "random" \in Kinds /\ "r" \in Kinds
    BY DEF Kinds
  <1>2. OfKinds(FirstSeed)
    BY <1>1, BytesKinds DEF FirstSeed
  <1>3. OfKinds(NextSeed(t - 1))
    BY <1>1 DEF NextSeed, Byte, OfKinds
  <1> QED
    BY <1>2, <1>3 DEF SeedOf

LEMMA KeygenTypes ==
    ASSUME IInv, TypeOK, Step
    PROVE  TypeOK'
  <1>1. PICK t \in Attempt : Of(t)
    BY DEF IInv
  <1>2. /\ DOMAIN sk = 0 .. SizeOfSk - 1 /\ OfKinds(sk)
        /\ rp \in 0 .. SizeOfR /\ skp \in 0 .. SizeOfSk
    BY DEF TypeOK, OfKinds, Kinds
  <1>3. IInv'
    BY StepInv
  <1>4. pc' \in {"expand", "genpoly", "pk_gen", "control", "done"}
    BY <1>3 DEF IInv, Valid
  <1>5. /\ "r" \in Kinds /\ "irr" \in Kinds /\ "cond" \in Kinds /\ "pivots" \in Kinds
    BY DEF Kinds
  <1>6. CASE ExpandSeed
    <2>1. seed = SeedOf(t)
      BY <1>1, <1>6 DEF Of, Seeded, ExpandSeed
    <2>2. sk' = Paste(sk, 0, SeedOf(t)) /\ skp' = SEED + PIVOTS /\ rp' = SizeOfR - SEED - IRR
      BY <1>6, <2>1 DEF ExpandSeed, StoredSeed, SkpAfterSeed
    <2>3. OfKinds(SeedOf(t))
      BY SeedKinds
    <2>4. DOMAIN sk' = 0 .. SizeOfSk - 1 /\ OfKinds(sk')
      BY <1>2, <2>2, <2>3, PasteKinds
    <2>5. rp' \in 0 .. SizeOfR /\ skp' \in 0 .. SizeOfSk
      BY <2>2, Sizes, SizeOfs
    <2> QED
      BY <1>4, <2>4, <2>5 DEF TypeOK, OfKinds, Kinds
  <1>7. CASE Genpoly
    <2>1. skp = SEED + PIVOTS /\ rp = TAIL + PERM
      BY <1>1, <1>7 DEF Of, AtGenpoly, Genpoly
    <2>2. sk' = Paste(sk, skp, irr') /\ OfKinds(irr')
      BY <1>5, <1>7, BytesKinds DEF Genpoly, GoppaPolynomial
    <2>3. DOMAIN sk' = 0 .. SizeOfSk - 1 /\ OfKinds(sk')
      BY <1>2, <2>2, PasteKinds
    <2>4. rp' = rp - PERM /\ skp' = skp + IRR
      BY <1>7 DEF Genpoly
    <2>5. rp' \in 0 .. SizeOfR /\ skp' \in 0 .. SizeOfSk
      BY <2>1, <2>4, Sizes, SizeOfs
    <2> QED
      BY <1>4, <2>3, <2>5 DEF TypeOK, OfKinds, Kinds
  <1>8. CASE NoPolynomial \/ NoPermutation \/ NotSystematic \/ PkGen
    <2>1. UNCHANGED <<sk, rp, skp>>
      BY <1>8 DEF NoPolynomial, NoPermutation, NotSystematic, PkGen
    <2> QED
      BY <1>4, <2>1 DEF TypeOK
  <1>9. CASE Finish
    <2>1. /\ skp = SEED + PIVOTS + IRR /\ rp = TAIL /\ r = Bytes("r", t, SizeOfR)
      BY <1>1, <1>9 DEF Of, AfterGenpoly, Seeded, Finish
    <2> DEFINE control == ControlBits(pi)
               tail == Cut(r, rp', TAIL)
               bits == Paste(sk, skp, control)
               string == Paste(bits, skp', tail)
               pivots == Bytes("pivots", -1, PIVOTS)
    <2>2. sk' = Paste(string, SEED, pivots) /\ rp' = rp - TAIL /\ skp' = skp + COND
      BY <1>9 DEF Finish
    <2>3. OfKinds(control) /\ OfKinds(pivots)
      BY <1>5, BytesKinds DEF ControlBits
    <2>4. OfKinds(tail)
      <3>1. \A n \in 0 .. TAIL - 1 : r[rp' + n] = Byte("r", t, rp' + n)
        <4>1. rp' = 0
          BY <2>1, <2>2, Sizes
        <4>2. \A n \in 0 .. TAIL - 1 : 0 + n \in 0 .. SizeOfR - 1
          BY Sizes, SizeOfs
        <4> QED
          BY <2>1, <4>1, <4>2, SizeOfs, BytesOf
      <3>2. \A n \in 0 .. TAIL - 1 : r[rp' + n].kind = "r"
        <4>1. \A m : Byte("r", t, m).kind = "r"
          BY DEF Byte
        <4> QED
          BY <3>1, <4>1
      <3> QED
        BY <1>5, <3>2 DEF OfKinds, Cut
    <2> HIDE DEF control, tail, pivots
    <2>5. DOMAIN bits = DOMAIN sk /\ OfKinds(bits)
      BY <1>2, <2>3, PasteKinds
    <2> HIDE DEF bits
    <2>6. DOMAIN string = DOMAIN bits /\ OfKinds(string)
      BY <2>4, <2>5, PasteKinds
    <2> HIDE DEF string
    <2>7. DOMAIN sk' = DOMAIN string /\ OfKinds(sk')
      BY <2>2, <2>3, <2>6, PasteKinds
    <2>8. rp' \in 0 .. SizeOfR /\ skp' \in 0 .. SizeOfSk
      BY <2>1, <2>2, Sizes, SizeOfs
    <2> QED
      BY <1>2, <1>4, <2>5, <2>6, <2>7, <2>8 DEF TypeOK, OfKinds, Kinds
  <1> QED
    BY <1>6, <1>7, <1>8, <1>9 DEF Step

\* The types of Kem, and while keys are made what the expansions lead to.
DataIsMade ==
    stage \in {"start", "keypair"} =>
        \A n \in Attempt : /\ data[n].outcome = outcome[n]
                           /\ outcome[n] = "good" => data[n].rows \in StoredRows

KemTypes == IInv /\ KemTypeOK /\ DataIsMade

LEMMA NothingIsIndex == NoIndex \in [0 .. SYS_T - 1 -> Position]
  BY MatrixSize, CodeSize DEF NoIndex, Position

LEMMA KemInitTypes == KemInit => KemTypes
  <1> SUFFICES ASSUME KemInit PROVE KemTypes
    OBVIOUS
  <1>1. IInv
    BY KemInitInv
  <1>2. TypeOK
    <2>1. Init
      BY DEF KemInit
    <2>2. 0 \in 0 .. SizeOfR /\ 0 \in 0 .. SizeOfSk
      BY SizeOfs
    <2>3. Nothing.kind = "nothing"
      BY DEF Nothing, Byte
    <2>4. sk = [n \in 0 .. SizeOfSk - 1 |-> Nothing]
      BY <2>1 DEF Init
    <2> QED
      BY <2>1, <2>2, <2>3, <2>4 DEF Init, TypeOK
  <1>3. public \in [Row -> SUBSET (Position \ Row)]
    BY DEF KemInit
  <1>4. nums = NoDraw /\ ind = NoIndex /\ tries = 0 /\ sent.e = {} /\ sent.c = {}
    BY DEF KemInit
  <1>5. KemTypeOK
    BY <1>2, <1>3, <1>4, NothingIsIndex, KemInputs DEF KemTypeOK
  <1>6. DataIsMade
    <2>1. data \in [Attempt -> {Made(x) : x \in Expansions}]
      BY DEF KemInit, Chains
    <2>2. ASSUME NEW n \in Attempt
          PROVE  data[n].outcome = outcome[n] /\ (outcome[n] = "good" => data[n].rows \in StoredRows)
      <3>1. PICK x \in Expansions : data[n] = Made(x)
        BY <2>1
      <3>2. outcome[n] = data[n].outcome
        BY DEF KemInit
      <3> QED
        BY <3>1, <3>2, GoodHasRows
    <2> QED
      BY <2>2 DEF DataIsMade
  <1> QED
    BY <1>1, <1>5, <1>6 DEF KemTypes

LEMMA ReturnTypes ==
    ASSUME KemTypes, Return
    PROVE  KemTypes'
  <1>1. PICK t \in Attempt : Of(t)
    BY DEF KemTypes, IInv
  <1>2. outcome[t] = "good" /\ pk = PublicKey(t)
    BY <1>1 DEF Of, AtDone, Return
  <1>3. pk.perm[0].source = t
    <2>1. 0 \in 0 .. PERM - 1
      BY Sizes
    <2> QED
      BY <1>2, <2>1 DEF PublicKey, Byte
  <1>4. public' = data[t].rows
    BY <1>3 DEF Return
  <1>5. public' \in [Row -> SUBSET (Position \ Row)]
    BY <1>2, <1>4 DEF KemTypes, DataIsMade, Return, StoredRows
  <1>6. TypeOK'
    <2>1. /\ pc' = "expand" /\ rp' = 0 /\ skp' = 0 /\ sk' = [n \in DOMAIN sk |-> Nothing]
      BY DEF Return
    <2>2. 0 \in 0 .. SizeOfR /\ 0 \in 0 .. SizeOfSk
      BY SizeOfs
    <2>3. Nothing.kind = "nothing"
      BY DEF Nothing, Byte
    <2>4. DOMAIN sk = 0 .. SizeOfSk - 1
      BY <1>1 DEF Of, Seeded
    <2> QED
      BY <2>1, <2>2, <2>3, <2>4 DEF TypeOK
  <1>7. UNCHANGED <<nums, ind, tries, sent>> /\ stage' = "keys"
    BY DEF Return, drawing
  <1>8. KemTypeOK'
    BY <1>5, <1>6, <1>7 DEF KemTypes, KemTypeOK
  <1>9. DataIsMade'
    BY <1>7 DEF DataIsMade
  <1>10. IInv'
    BY ReturnStep DEF KemTypes
  <1> QED
    BY <1>8, <1>9, <1>10 DEF KemTypes

LEMMA KeptInCode ==
    ASSUME NEW draw \in Draws, NEW j \in Nat, j < Len(Kept(draw))
    PROVE  Kept(draw)[j + 1] \in Position
  <1>1. draw \in Seq(Nat)
    BY KemInputs, DrawIsSeq
  <1>2. Kept(draw) \in Seq(Nat) /\ j + 1 \in 1 .. Len(Kept(draw))
    BY <1>1, KeptIsPrefix
  <1>3. PICK n \in 1 .. Len(draw) : First(Kept(draw), j + 1) = Positions(draw, n)
    BY <1>1, <1>2, KeptIsPrefix
  <1>4. Kept(draw)[j + 1] \in First(Kept(draw), j + 1)
    BY DEF First
  <1> QED
    BY <1>3, <1>4 DEF Positions

LEMMA DrawTypes ==
    ASSUME KemTypes, Draw
    PROVE  KemTypes'
  <1>1. PICK draw \in Draws :
            /\ nums' = draw
            /\ ind' = [j \in DOMAIN ind |->
                          IF j < Len(Kept(draw)) THEN Kept(draw)[j + 1] ELSE ind[j]]
    BY DEF Draw
  <1>2. ind \in [0 .. SYS_T - 1 -> Position] /\ tries \in 0 .. TRIES
    BY DEF KemTypes, KemTypeOK
  <1>3. ind' \in [0 .. SYS_T - 1 -> Position]
    <2>1. ASSUME NEW j \in 0 .. SYS_T - 1
          PROVE  (IF j < Len(Kept(draw)) THEN Kept(draw)[j + 1] ELSE ind[j]) \in Position
      BY <1>2, KeptInCode, CodeSize
    <2> QED
      BY <1>1, <1>2, <2>1
  <1>4. tries' \in 0 .. TRIES
    BY <1>2, KemInputs DEF Draw
  <1>5. /\ UNCHANGED keygen /\ UNCHANGED <<data, public, sent>>
        /\ stage' \notin {"start", "keypair"}
    BY DEF Draw
  <1>6. TypeOK'
    BY <1>5 DEF keygen, KemTypes, KemTypeOK, TypeOK
  <1>7. KemTypeOK'
    BY <1>1, <1>3, <1>4, <1>5, <1>6 DEF KemTypes, KemTypeOK
  <1>8. DataIsMade'
    BY <1>5 DEF DataIsMade
  <1>9. IInv'
    BY <1>5, KeygenUnchanged DEF KemTypes
  <1> QED
    BY <1>7, <1>8, <1>9 DEF KemTypes

LEMMA EncapsulateTypes ==
    ASSUME KemTypes, Encapsulate
    PROVE  KemTypes'
  <1> DEFINE e == Ones(ind)
             c == Once(syndrome(public, e))
  <1>1. sent' = [e |-> e, c |-> c, key |-> <<1, e, c>>]
    BY Zenon DEF Encapsulate
  <1>2. e \subseteq Position
    BY DEF Ones, Range, KemTypes, KemTypeOK
  <1>3. c \subseteq Row
    <2>1. syndrome(public, e) \subseteq Row
      BY DEF syndrome
    <2> QED
      BY <2>1, OnceIs
  <1> HIDE DEF e, c
  <1>4. sent'.e \subseteq Position /\ sent'.c \subseteq Row
    BY <1>1, <1>2, <1>3
  <1>5. /\ UNCHANGED keygen /\ UNCHANGED <<data, public, tries>>
        /\ nums' = NoDraw /\ ind' = NoIndex /\ stage' = "sent"
    BY DEF Encapsulate
  <1>6. TypeOK'
    BY <1>5 DEF keygen, KemTypes, KemTypeOK, TypeOK
  <1>7. KemTypeOK'
    BY <1>4, <1>5, <1>6, NothingIsIndex DEF KemTypes, KemTypeOK
  <1>8. DataIsMade'
    BY <1>5 DEF DataIsMade
  <1>9. IInv'
    BY <1>5, KeygenUnchanged DEF KemTypes
  <1> QED
    BY <1>7, <1>8, <1>9 DEF KemTypes

LEMMA GenerateTypes ==
    ASSUME KemTypes, Generate
    PROVE  KemTypes'
  <1>1. Step /\ UNCHANGED <<drawing, stage, data, public, sent>>
    BY DEF Generate
  <1>2. outcome' = outcome
    BY <1>1 DEF Step, ExpandSeed, NoPolynomial, Genpoly, NoPermutation, NotSystematic, PkGen, Finish
  <1>3. IInv' /\ TypeOK'
    BY <1>1, StepInv, KeygenTypes DEF KemTypes, KemTypeOK
  <1>4. KemTypeOK'
    BY <1>1, <1>3 DEF KemTypes, KemTypeOK, drawing
  <1>5. DataIsMade'
    BY <1>1, <1>2 DEF KemTypes, DataIsMade
  <1> QED
    BY <1>3, <1>4, <1>5 DEF KemTypes

\* The steps that touch nothing the types are about.
LEMMA OtherTypes ==
    ASSUME KemTypes, UNCHANGED keygen, UNCHANGED <<data, public, nums, ind, tries, sent>>,
           stage' \in {"start", "keypair"} => stage \in {"start", "keypair"}
    PROVE  KemTypes'
  <1>1. TypeOK'
    BY DEF keygen, KemTypes, KemTypeOK, TypeOK
  <1>2. KemTypeOK'
    BY <1>1 DEF KemTypes, KemTypeOK
  <1>3. DataIsMade'
    BY DEF keygen, KemTypes, DataIsMade
  <1>4. IInv'
    BY KeygenUnchanged DEF KemTypes
  <1> QED
    BY <1>2, <1>3, <1>4 DEF KemTypes

LEMMA KemTypesStep ==
    ASSUME KemTypes, [KemNext]_kem
    PROVE  KemTypes'
  <1>1. CASE Start
    BY <1>1, OtherTypes DEF Start, drawing
  <1>2. CASE Generate
    BY <1>2, GenerateTypes
  <1>3. CASE Return
    BY <1>3, ReturnTypes
  <1>4. CASE Draw
    BY <1>4, DrawTypes
  <1>5. CASE Encapsulate
    BY <1>5, EncapsulateTypes
  <1>6. CASE ReadSecret
    BY <1>6, OtherTypes DEF ReadSecret, drawing
  <1>7. CASE DecapsulateSent
    BY <1>7, OtherTypes DEF DecapsulateSent, drawing
  <1>8. CASE DecapsulateOther
    BY <1>8, OtherTypes DEF DecapsulateOther, drawing
  <1>9. CASE UNCHANGED kem
    BY <1>9, OtherTypes DEF kem, drawing
  <1> QED
    BY <1>1, <1>2, <1>3, <1>4, <1>5, <1>6, <1>7, <1>8, <1>9 DEF KemNext, Answered

\* The pointers into the expanded bytes and the secret key stay inside them, and keys,
\* errors and ciphertexts are made of positions of the code, for all sizes, expansions
\* and draws.
THEOREM KemTypeCorrect == KemSpec => []KemTypeOK
  <1>1. KemInit => KemTypes
    BY KemInitTypes
  <1>2. KemTypes /\ [KemNext]_kem => KemTypes'
    BY KemTypesStep
  <1>3. KemTypes => KemTypeOK
    BY DEF KemTypes
  <1> QED
    BY <1>1, <1>2, <1>3, PTL DEF KemSpec

----------------------------------------------------------------------------
(* Powers of two: there are as many as a set has subsets.                   *)

LEMMA TwoPower ==
    ASSUME NEW n \in Nat
    PROVE  2^n \in Nat /\ 2^n > 0 /\ IsFiniteSet(SUBSET (1 .. n)) /\ Cardinality(SUBSET (1 .. n)) = 2^n
  <1>1. IsFiniteSet(1 .. n) /\ Cardinality(1 .. n) = n
    BY FS_Interval
  <1>2. IsFiniteSet(SUBSET (1 .. n)) /\ Cardinality(SUBSET (1 .. n)) = 2^n
    BY <1>1, FS_SUBSET
  <1>3. 2^n \in Nat
    BY <1>2, FS_CardinalityType
  <1>4. 2^n # 0
    BY <1>2, FS_EmptySet
  <1> QED
    BY <1>2, <1>3, <1>4

\* The subsets of 1 .. n + 1 are those of 1 .. n, and those with n + 1 added.
LEMMA TwoDoubles ==
    ASSUME NEW n \in Nat
    PROVE  2^(n + 1) = 2 * 2^n
  <1> DEFINE small == SUBSET (1 .. n)
             large == SUBSET (1 .. n + 1)
             more == {x \cup {n + 1} : x \in small}
             f == [x \in small |-> x \cup {n + 1}]
  <1>1. /\ IsFiniteSet(small) /\ Cardinality(small) = 2^n /\ 2^n \in Nat
        /\ IsFiniteSet(large) /\ Cardinality(large) = 2^(n + 1) /\ 2^(n + 1) \in Nat
    <2>1. n + 1 \in Nat
      OBVIOUS
    <2> QED
      BY <2>1, TwoPower
  <1>2. n + 1 \notin 1 .. n /\ 1 .. n + 1 = (1 .. n) \cup {n + 1}
    OBVIOUS
  <1>3. f \in Bijection(small, more)
    <2>1. \A x \in small : f[x] = x \cup {n + 1} /\ n + 1 \notin x /\ f[x] \in more
      BY <1>2
    <2>2. f \in [small -> more] /\ \A y \in more : \E x \in small : f[x] = y
      OBVIOUS
    <2> HIDE DEF f, small, more
    <2>3. ASSUME NEW x \in small, NEW y \in small, f[x] = f[y] PROVE x = y
      BY <2>1, <2>3
    <2>4. f \in Injection(small, more)
      BY <2>2, <2>3, Zenon DEF Injection, IsInjective
    <2>5. f \in Surjection(small, more)
      BY <2>2, Zenon DEF Surjection
    <2> QED
      BY <2>4, <2>5, Zenon DEF Bijection
  <1>4. IsFiniteSet(more) /\ Cardinality(more) = Cardinality(small)
    <2> HIDE DEF f, small, more
    <2>1. ExistsBijection(small, more)
      BY <1>3, Zenon DEF ExistsBijection
    <2> QED
      BY <1>1, <2>1, FS_Bijection
  <1>5. large = small \cup more
    <2>1. ASSUME NEW x \in large PROVE x \in small \cup more
      <3>1. CASE n + 1 \in x
        <4>1. x = (x \ {n + 1}) \cup {n + 1} /\ x \ {n + 1} \in small
          BY <3>1, <1>2, Zenon
        <4> QED
          BY <4>1, Zenon
      <3>2. CASE n + 1 \notin x
        BY <3>2, <1>2, Zenon
      <3> QED
        BY <3>1, <3>2
    <2>2. ASSUME NEW x \in small \cup more PROVE x \in large
      BY <1>2
    <2> QED
      BY <2>1, <2>2
  <1>6. small \cap more = {}
    BY <1>2, Zenon
  <1> HIDE DEF small, large, more
  <1>7. Cardinality(small \cup more) = Cardinality(small) + Cardinality(more) - Cardinality(small \cap more)
    BY <1>1, <1>4, FS_Union
  <1>8. Cardinality(small \cap more) = 0
    BY <1>6, FS_EmptySet
  <1> QED
    BY <1>1, <1>4, <1>5, <1>7, <1>8

LEMMA TwoSum ==
    ASSUME NEW a \in Nat
    PROVE  \A b \in Nat : 2^(a + b) = 2^a * 2^b
  <1> DEFINE T == {b \in Nat : 2^(a + b) = 2^a * 2^b}
  <1>0. 2^a \in Nat
    BY TwoPower
  <1>1. 0 \in T
    <2>1. 2^0 = 1 /\ a + 0 = a
      OBVIOUS
    <2>2. 2^a * 1 = 2^a
      BY <1>0
    <2> QED
      BY <2>1, <2>2
  <1>2. ASSUME NEW b \in T PROVE b + 1 \in T
    <2>1. b \in Nat /\ a + b \in Nat /\ a + (b + 1) = (a + b) + 1
      OBVIOUS
    <2>2. 2^(a + (b + 1)) = 2 * 2^(a + b) /\ 2^(b + 1) = 2 * 2^b /\ 2^b \in Nat
      BY <2>1, TwoDoubles, TwoPower
    <2>3. 2^(a + b) = 2^a * 2^b
      BY <2>1
    <2>4. ASSUME NEW x \in Nat, NEW y \in Nat PROVE 2 * (x * y) = x * (2 * y)
      OBVIOUS
    <2>5. 2 * (2^a * 2^b) = 2^a * (2 * 2^b)
      BY <1>0, <2>2, <2>4
    <2> QED
      BY <2>1, <2>2, <2>3, <2>5
  <1>3. T \in SUBSET Nat
    OBVIOUS
  <1> HIDE DEF T
  <1>4. \A b \in Nat : b \in T
    BY <1>1, <1>2, <1>3, Induction
  <1> QED
    BY <1>4 DEF T

LEMMA Distances ==
    /\ GFBITS \in Nat /\ GFBITS > 1 /\ N \in Nat /\ N > 0 /\ Distance(0) = N /\ Distance(GFBITS) = 1
    /\ \A k \in 0 .. GFBITS : Distance(k) \in Nat /\ Distance(k) > 0
    /\ \A k \in 1 .. GFBITS : Distance(k - 1) = 2 * Distance(k)
    /\ \A m \in 1 .. GFBITS : \A k \in 0 .. m - 1 :
          \E t \in Nat : t > 0 /\ Distance(k) = 2 * (t * Distance(m))
  <1>1. GFBITS \in Nat /\ GFBITS > 1
    BY FieldSizes
  <1>2. N \in Nat /\ N > 0 /\ Distance(0) = N
    <2>1. N = 2^GFBITS /\ GFBITS - 0 = GFBITS
      BY <1>1 DEF N
    <2> QED
      BY <1>1, <2>1, TwoPower DEF Distance
  <1>3. Distance(GFBITS) = 1
    BY <1>1 DEF Distance
  <1>4. \A k \in 0 .. GFBITS : Distance(k) \in Nat /\ Distance(k) > 0
    <2> TAKE k \in 0 .. GFBITS
    <2>1. GFBITS - k \in Nat
      BY <1>1
    <2> QED
      BY <2>1, TwoPower DEF Distance
  <1>5. \A k \in 1 .. GFBITS : Distance(k - 1) = 2 * Distance(k)
    <2> TAKE k \in 1 .. GFBITS
    <2>1. GFBITS - k \in Nat /\ GFBITS - (k - 1) = (GFBITS - k) + 1
      BY <1>1
    <2> QED
      BY <2>1, TwoDoubles DEF Distance
  <1>6. ASSUME NEW m \in 1 .. GFBITS, NEW k \in 0 .. m - 1
        PROVE  \E t \in Nat : t > 0 /\ Distance(k) = 2 * (t * Distance(m))
    <2> DEFINE j == (m - k) - 1
    <2>1. j \in Nat /\ GFBITS - m \in Nat /\ GFBITS - k = ((GFBITS - m) + j) + 1
      BY <1>1
    <2> HIDE DEF j
    <2>2. 2^(GFBITS - k) = 2 * 2^((GFBITS - m) + j)
      BY <2>1, TwoDoubles
    <2>3. 2^((GFBITS - m) + j) = 2^(GFBITS - m) * 2^j
      BY <2>1, TwoSum
    <2>4. 2^j \in Nat /\ 2^j > 0 /\ 2^(GFBITS - m) \in Nat
      BY <2>1, TwoPower
    <2>5. 2^(GFBITS - m) * 2^j = 2^j * 2^(GFBITS - m)
      BY <2>4
    <2> QED
      BY <2>2, <2>3, <2>4, <2>5 DEF Distance
  <1> QED
    BY <1>1, <1>2, <1>3, <1>4, <1>5, <1>6

\* Which places have the bit p.
LEMMA HasMoved ==
    ASSUME NEW i \in Nat, NEW p \in Nat, p > 0
    PROVE  /\ Has(i + p, p) <=> ~Has(i, p)
           /\ \A t \in Nat : Has(i + 2 * (t * p), p) <=> Has(i, p)
  <1>1. (i + p) \div p = (i \div p) + 1 /\ i \div p \in Nat
    OBVIOUS
  <1>2. ASSUME NEW t \in Nat PROVE (i + 2 * (t * p)) \div p = (i \div p) + 2 * t
    <2>1. 2 * (t * p) = (2 * t) * p /\ 2 * t \in Nat
      OBVIOUS
    <2>2. ASSUME NEW u \in Nat PROVE (i + u * p) \div p = (i \div p) + u
      OBVIOUS
    <2> QED
      BY <2>1, <2>2
  <1>3. \A a \in Nat : (a + 1) % 2 = 1 <=> ~(a % 2 = 1)
    OBVIOUS
  <1>4. \A a, t \in Nat : (a + 2 * t) % 2 = a % 2
    OBVIOUS
  <1>5. Has(i + p, p) <=> ~Has(i, p)
    BY <1>1, <1>3 DEF Has
  <1>6. \A t \in Nat : Has(i + 2 * (t * p), p) <=> Has(i, p)
    BY <1>1, <1>2, <1>4 DEF Has
  <1> QED
    BY <1>5, <1>6
----------------------------------------------------------------------------
(* The sorting network keeps the numbers it sorts.                          *)

Place == 0 .. N - 1
Numbers == [Place -> Nat]
\* The states of a loop: what exchanges do not lead out of.
Closed(S) == S \subseteq Numbers /\ \A y \in S : \A a, b \in Place : MINMAX(y, a, b) \in S

Less(a, b) == IF b < a THEN b ELSE a
More(a, b) == IF b < a THEN a ELSE b

LEMMA ExchangeIs ==
    ASSUME NEW y \in Numbers, NEW a \in Place, NEW b \in Place, a # b
    PROVE  /\ MINMAX(y, a, b) \in Numbers
           /\ MINMAX(y, a, b)[a] = Less(y[a], y[b])
           /\ MINMAX(y, a, b)[b] = More(y[a], y[b])
           /\ \A c \in Place : c # a /\ c # b => MINMAX(y, a, b)[c] = y[c]
  BY DEF MINMAX, Numbers, Less, More

LEMMA DistanceInside ==
    ASSUME NEW m \in 1 .. GFBITS
    PROVE  Distance(m) \in Nat /\ Distance(m) > 0 /\ 2 * Distance(m) <= N /\ N \in Nat
  <1>1. PICK t \in Nat : t > 0 /\ N = 2 * (t * Distance(m))
    <2>1. 0 \in 0 .. m - 1
      OBVIOUS
    <2> QED
      BY <2>1, Distances
  <1>2. Distance(m) \in Nat /\ Distance(m) > 0 /\ N \in Nat
    <2>1. m \in 0 .. GFBITS
      OBVIOUS
    <2> QED
      BY <2>1, Distances
  <1>3. \A d, u \in Nat : u > 0 => d <= u * d
    OBVIOUS
  <1> QED
    BY <1>1, <1>2, <1>3

CompareTurn(m, y, i) == IF Has(i, Distance(m)) THEN y ELSE MINMAX(y, i, i + Distance(m))
InsertTurn(m, i, y, k) == MINMAX(y, i + Distance(m), i + Distance(k))
SweepTurn(m, j, y, i) == IF Has(i, Distance(m)) THEN y ELSE Inserted(y, m, j, i)

\* The loops of uint64_sort, each of which has the states that its turns lead to.
LEMMA ComparedLoop ==
    ASSUME NEW S, Closed(S), NEW x \in S, NEW m \in 1 .. GFBITS
    PROVE  \E h \in [0 - 1 .. N - Distance(m) - 1 -> S] :
              /\ h[0 - 1] = x /\ Compared(x, m) = h[N - Distance(m) - 1]
              /\ \A k \in 0 .. N - Distance(m) - 1 : h[k] = CompareTurn(m, h[k - 1], k)
  <1> DEFINE lo == 0
             hi == N - Distance(m) - 1
             Turn(y, k) == CompareTurn(m, y, k)
             IsLoop(f) == f = [k \in lo - 1 .. hi |->
                 IF k < lo THEN x
                 ELSE CHOOSE y \in {Turn(z, k) : z \in {f[k - 1]}} : TRUE]
             h == CHOOSE f : IsLoop(f)
             step == [p \in S \X (lo .. hi) |-> Turn(p[1], p[2])]
  <1>1. lo \in Int /\ hi \in Int /\ lo - 1 <= hi
    BY DistanceInside
  <1>2. \A y \in S : \A k \in lo .. hi : Turn(y, k) \in S
    <2>1. \A k \in lo .. hi : k \in Place /\ k + Distance(m) \in Place
      BY DistanceInside DEF Place
    <2> QED
      BY <2>1 DEF CompareTurn, Closed
  <1>3. Compared(x, m) = Once(h[hi])
    BY Zenon DEF Compared, CompareTurn, For
  <1> HIDE DEF lo, hi, Turn
  <1>4. \A f, k : (CHOOSE y \in {Turn(z, k) : z \in {f[k - 1]}} : TRUE) = Turn(f[k - 1], k)
    <2> TAKE f, k
    <2>1. {Turn(z, k) : z \in {f[k - 1]}} = {Turn(f[k - 1], k)}
      OBVIOUS
    <2> QED
      BY <2>1, ChosenIs
  <1>5. step \in [S \X (lo .. hi) -> S] /\ \A y \in S : \A k \in lo .. hi : step[<<y, k>>] = Turn(y, k)
    BY <1>2
  <1> HIDE DEF step
  <1>6. PICK g \in LoopsOf(S, x, lo, hi, step) : TRUE
    <2>1. LoopsOf(S, x, lo, hi, step) # {}
      <3> HIDE DEF IsLoop, h
      <3> QED
        BY <1>1, <1>5, LoopHasResult
    <2> QED
      BY <2>1, Zenon
  <1>7. IsLoop(g)
    <2>1. /\ g \in [lo - 1 .. hi -> S] /\ g[lo - 1] = x
          /\ \A k \in lo .. hi : g[k] = step[<<g[k - 1], k>>]
      BY <1>6 DEF LoopsOf
    <2>2. ASSUME NEW k \in lo - 1 .. hi PROVE g[k] = IF k < lo THEN x ELSE Turn(g[k - 1], k)
      <3>1. CASE k < lo
        <4>1. k = lo - 1
          BY <3>1, <1>1
        <4> QED
          BY <3>1, <4>1, <2>1
      <3>2. CASE ~(k < lo)
        <4>1. k \in lo .. hi /\ k - 1 \in lo - 1 .. hi
          BY <3>2, <1>1
        <4> QED
          BY <3>2, <4>1, <2>1, <1>5
      <3> QED
        BY <3>1, <3>2
    <2> QED
      BY <2>1, <2>2, <1>4
  <1>8. IsLoop(h)
    BY <1>7, Zenon
  <1> HIDE DEF h
  <1>9. /\ DOMAIN h = lo - 1 .. hi /\ h[lo - 1] = x
        /\ \A k \in lo .. hi : h[k] = Turn(h[k - 1], k)
    <2>1. DOMAIN h = lo - 1 .. hi
      BY <1>8
    <2>2. h[lo - 1] = x
      BY <1>1, <1>8
    <2>3. ASSUME NEW k \in lo .. hi PROVE h[k] = Turn(h[k - 1], k)
      <3>1. k \in lo - 1 .. hi /\ ~(k < lo)
        BY <1>1
      <3> QED
        BY <3>1, <1>4, <1>8
    <2> QED
      BY <2>1, <2>2, <2>3
  <1>10. \A k \in lo - 1 .. hi : h[k] \in S
    BY <1>1, <1>2, <1>9, LoopKeeps
  <1>11. h \in [lo - 1 .. hi -> S]
    BY <1>8, <1>9, <1>10
  <1>12. Compared(x, m) = h[hi]
    BY <1>3, OnceIs
  <1> QED
    BY <1>9, <1>11, <1>12 DEF lo, hi, Turn

LEMMA DistanceFalls ==
    ASSUME NEW k \in 1 .. GFBITS, NEW j \in 1 .. k
    PROVE  /\ Distance(k) <= Distance(j) /\ Distance(k) \in Nat /\ Distance(k) > 0
           /\ Distance(j) \in Nat /\ 2 * Distance(j) <= N /\ N \in Nat
           /\ j < k => Distance(k) < Distance(j)
  <1>1. Distance(k) \in Nat /\ Distance(k) > 0
    BY DistanceInside
  <1>2. j \in 1 .. GFBITS
    BY Distances
  <1>3. Distance(j) \in Nat /\ 2 * Distance(j) <= N /\ N \in Nat
    BY <1>2, DistanceInside
  <1>4. CASE j = k
    BY <1>1, <1>3, <1>4
  <1>5. CASE j < k
    <2>1. j \in 0 .. k - 1
      BY <1>5
    <2>2. PICK t \in Nat : t > 0 /\ Distance(j) = 2 * (t * Distance(k))
      BY <2>1, Distances
    <2>3. \A d, u \in Nat : u > 0 /\ d > 0 => d < 2 * (u * d)
      OBVIOUS
    <2> QED
      BY <1>1, <1>3, <2>2, <2>3
  <1> QED
    BY <1>4, <1>5

LEMMA SweepRange ==
    ASSUME NEW m \in 1 .. GFBITS, NEW j \in 1 .. m - 1
    PROVE  /\ Distance(j) \in Nat /\ Distance(j) > 0 /\ 2 * Distance(j) <= N /\ N \in Nat
           /\ m \in Nat /\ j \in Nat /\ j - 1 <= m - 1
  <1>1. m \in Nat /\ j \in 1 .. GFBITS
    BY Distances
  <1> QED
    BY <1>1, DistanceInside

\* The loop over r.
LEMMA InsertedLoop ==
    ASSUME NEW S, Closed(S), NEW x \in S, NEW m \in 1 .. GFBITS, NEW j \in 1 .. m - 1,
           NEW i \in Place, i + Distance(j) \in Place
    PROVE  \E h \in [j - 1 .. m - 1 -> S] :
              /\ h[j - 1] = x /\ Inserted(x, m, j, i) = h[m - 1]
              /\ \A k \in j .. m - 1 : h[k] = InsertTurn(m, i, h[k - 1], k)
  <1> DEFINE lo == j
             hi == m - 1
             Turn(y, k) == InsertTurn(m, i, y, k)
             IsLoop(f) == f = [k \in lo - 1 .. hi |->
                 IF k < lo THEN x
                 ELSE CHOOSE y \in {Turn(z, k) : z \in {f[k - 1]}} : TRUE]
             h == CHOOSE f : IsLoop(f)
             step == [p \in S \X (lo .. hi) |-> Turn(p[1], p[2])]
  <1>1. lo \in Int /\ hi \in Int /\ lo - 1 <= hi
    BY Distances
  <1>2. \A y \in S : \A k \in lo .. hi : Turn(y, k) \in S
    <2>1. ASSUME NEW k \in lo .. hi PROVE i + Distance(m) \in Place /\ i + Distance(k) \in Place
      <3>1. m \in Int /\ j \in 1 .. m /\ k \in 1 .. GFBITS /\ j \in 1 .. k /\ k \in 1 .. m
        BY Distances
      <3>2. /\ Distance(m) <= Distance(j) /\ Distance(k) <= Distance(j) /\ N \in Nat
            /\ Distance(m) \in Nat /\ Distance(k) \in Nat /\ Distance(j) \in Nat
        BY <3>1, DistanceFalls
      <3> QED
        BY <3>2 DEF Place
    <2> QED
      BY <2>1 DEF InsertTurn, Closed
  <1>3. Inserted(x, m, j, i) = Once(h[hi])
    BY Zenon DEF Inserted, InsertTurn, For
  <1> HIDE DEF lo, hi, Turn
  <1>4. \A f, k : (CHOOSE y \in {Turn(z, k) : z \in {f[k - 1]}} : TRUE) = Turn(f[k - 1], k)
    <2> TAKE f, k
    <2>1. {Turn(z, k) : z \in {f[k - 1]}} = {Turn(f[k - 1], k)}
      OBVIOUS
    <2> QED
      BY <2>1, ChosenIs
  <1>5. step \in [S \X (lo .. hi) -> S] /\ \A y \in S : \A k \in lo .. hi : step[<<y, k>>] = Turn(y, k)
    BY <1>2
  <1> HIDE DEF step
  <1>6. PICK g \in LoopsOf(S, x, lo, hi, step) : TRUE
    <2>1. LoopsOf(S, x, lo, hi, step) # {}
      <3> HIDE DEF IsLoop, h
      <3> QED
        BY <1>1, <1>5, LoopHasResult
    <2> QED
      BY <2>1, Zenon
  <1>7. IsLoop(g)
    <2>1. /\ g \in [lo - 1 .. hi -> S] /\ g[lo - 1] = x
          /\ \A k \in lo .. hi : g[k] = step[<<g[k - 1], k>>]
      BY <1>6 DEF LoopsOf
    <2>2. ASSUME NEW k \in lo - 1 .. hi PROVE g[k] = IF k < lo THEN x ELSE Turn(g[k - 1], k)
      <3>1. CASE k < lo
        <4>1. k = lo - 1
          BY <3>1, <1>1
        <4> QED
          BY <3>1, <4>1, <2>1
      <3>2. CASE ~(k < lo)
        <4>1. k \in lo .. hi /\ k - 1 \in lo - 1 .. hi
          BY <3>2, <1>1
        <4> QED
          BY <3>2, <4>1, <2>1, <1>5
      <3> QED
        BY <3>1, <3>2
    <2> QED
      BY <2>1, <2>2, <1>4
  <1>8. IsLoop(h)
    BY <1>7, Zenon
  <1> HIDE DEF h
  <1>9. /\ DOMAIN h = lo - 1 .. hi /\ h[lo - 1] = x
        /\ \A k \in lo .. hi : h[k] = Turn(h[k - 1], k)
    <2>1. DOMAIN h = lo - 1 .. hi
      BY <1>8
    <2>2. h[lo - 1] = x
      BY <1>1, <1>8
    <2>3. ASSUME NEW k \in lo .. hi PROVE h[k] = Turn(h[k - 1], k)
      <3>1. k \in lo - 1 .. hi /\ ~(k < lo)
        BY <1>1
      <3> QED
        BY <3>1, <1>4, <1>8
    <2> QED
      BY <2>1, <2>2, <2>3
  <1>10. \A k \in lo - 1 .. hi : h[k] \in S
    BY <1>1, <1>2, <1>9, LoopKeeps
  <1>11. h \in [lo - 1 .. hi -> S]
    BY <1>8, <1>9, <1>10
  <1>12. Inserted(x, m, j, i) = h[hi]
    BY <1>3, OnceIs
  <1> QED
    BY <1>9, <1>11, <1>12 DEF lo, hi, Turn

\* The loop over i, for one q.
LEMMA SweptLoop ==
    ASSUME NEW S, Closed(S), NEW x \in S, NEW m \in 1 .. GFBITS, NEW j \in 1 .. m - 1
    PROVE  \E h \in [N - 2 * Distance(j) - 1 .. N - Distance(j) - 1 -> S] :
              /\ h[N - 2 * Distance(j) - 1] = x /\ Swept(x, m, j) = h[N - Distance(j) - 1]
              /\ \A k \in N - 2 * Distance(j) .. N - Distance(j) - 1 : h[k] = SweepTurn(m, j, h[k - 1], k)
  <1> DEFINE lo == N - 2 * Distance(j)
             hi == N - Distance(j) - 1
             Turn(y, k) == SweepTurn(m, j, y, k)
             IsLoop(f) == f = [k \in lo - 1 .. hi |->
                 IF k < lo THEN x
                 ELSE CHOOSE y \in {Turn(z, k) : z \in {f[k - 1]}} : TRUE]
             h == CHOOSE f : IsLoop(f)
             step == [p \in S \X (lo .. hi) |-> Turn(p[1], p[2])]
  <1>1. lo \in Int /\ hi \in Int /\ lo - 1 <= hi
    BY SweepRange
  <1>2. \A y \in S : \A k \in lo .. hi : Turn(y, k) \in S
    <2> SUFFICES ASSUME NEW y \in S, NEW i \in lo .. hi PROVE SweepTurn(m, j, y, i) \in S
      OBVIOUS
    <2>1. i \in Place /\ i + Distance(j) \in Place
      BY SweepRange DEF Place
    <2>2. Inserted(y, m, j, i) \in S
      <3>1. m - 1 \in j - 1 .. m - 1
        BY SweepRange
      <3> QED
        BY <2>1, <3>1, InsertedLoop
    <2> QED
      BY <2>2 DEF SweepTurn
  <1>3. Swept(x, m, j) = Once(h[hi])
    BY Zenon DEF Swept, SweepTurn, For
  <1> HIDE DEF lo, hi, Turn
  <1>4. \A f, k : (CHOOSE y \in {Turn(z, k) : z \in {f[k - 1]}} : TRUE) = Turn(f[k - 1], k)
    <2> TAKE f, k
    <2>1. {Turn(z, k) : z \in {f[k - 1]}} = {Turn(f[k - 1], k)}
      OBVIOUS
    <2> QED
      BY <2>1, ChosenIs
  <1>5. step \in [S \X (lo .. hi) -> S] /\ \A y \in S : \A k \in lo .. hi : step[<<y, k>>] = Turn(y, k)
    BY <1>2
  <1> HIDE DEF step
  <1>6. PICK g \in LoopsOf(S, x, lo, hi, step) : TRUE
    <2>1. LoopsOf(S, x, lo, hi, step) # {}
      <3> HIDE DEF IsLoop, h
      <3> QED
        BY <1>1, <1>5, LoopHasResult
    <2> QED
      BY <2>1, Zenon
  <1>7. IsLoop(g)
    <2>1. /\ g \in [lo - 1 .. hi -> S] /\ g[lo - 1] = x
          /\ \A k \in lo .. hi : g[k] = step[<<g[k - 1], k>>]
      BY <1>6 DEF LoopsOf
    <2>2. ASSUME NEW k \in lo - 1 .. hi PROVE g[k] = IF k < lo THEN x ELSE Turn(g[k - 1], k)
      <3>1. CASE k < lo
        <4>1. k = lo - 1
          BY <3>1, <1>1
        <4> QED
          BY <3>1, <4>1, <2>1
      <3>2. CASE ~(k < lo)
        <4>1. k \in lo .. hi /\ k - 1 \in lo - 1 .. hi
          BY <3>2, <1>1
        <4> QED
          BY <3>2, <4>1, <2>1, <1>5
      <3> QED
        BY <3>1, <3>2
    <2> QED
      BY <2>1, <2>2, <1>4
  <1>8. IsLoop(h)
    BY <1>7, Zenon
  <1> HIDE DEF h
  <1>9. /\ DOMAIN h = lo - 1 .. hi /\ h[lo - 1] = x
        /\ \A k \in lo .. hi : h[k] = Turn(h[k - 1], k)
    <2>1. DOMAIN h = lo - 1 .. hi
      BY <1>8
    <2>2. h[lo - 1] = x
      BY <1>1, <1>8
    <2>3. ASSUME NEW k \in lo .. hi PROVE h[k] = Turn(h[k - 1], k)
      <3>1. k \in lo - 1 .. hi /\ ~(k < lo)
        BY <1>1
      <3> QED
        BY <3>1, <1>4, <1>8
    <2> QED
      BY <2>1, <2>2, <2>3
  <1>10. \A k \in lo - 1 .. hi : h[k] \in S
    BY <1>1, <1>2, <1>9, LoopKeeps
  <1>11. h \in [lo - 1 .. hi -> S]
    BY <1>8, <1>9, <1>10
  <1>12. Swept(x, m, j) = h[hi]
    BY <1>3, OnceIs
  <1> QED
    BY <1>9, <1>11, <1>12 DEF lo, hi, Turn

\* The loop over q.
LEMMA MergedLoop ==
    ASSUME NEW S, Closed(S), NEW x \in S, NEW m \in 1 .. GFBITS
    PROVE  \E h \in [1 - 1 .. m - 1 -> S] :
              /\ h[1 - 1] = x /\ Merged(x, m) = h[m - 1]
              /\ \A k \in 1 .. m - 1 : h[k] = Swept(h[k - 1], m, k)
  <1> DEFINE lo == 1
             hi == m - 1
             Turn(y, k) == Swept(y, m, k)
             IsLoop(f) == f = [k \in lo - 1 .. hi |->
                 IF k < lo THEN x
                 ELSE CHOOSE y \in {Turn(z, k) : z \in {f[k - 1]}} : TRUE]
             h == CHOOSE f : IsLoop(f)
             step == [p \in S \X (lo .. hi) |-> Turn(p[1], p[2])]
  <1>1. lo \in Int /\ hi \in Int /\ lo - 1 <= hi
    BY Distances
  <1>2. \A y \in S : \A k \in lo .. hi : Turn(y, k) \in S
    <2> SUFFICES ASSUME NEW y \in S, NEW k \in lo .. hi PROVE Swept(y, m, k) \in S
      OBVIOUS
    <2>1. N - Distance(k) - 1 \in N - 2 * Distance(k) - 1 .. N - Distance(k) - 1 /\ k \in 1 .. m - 1
      BY SweepRange
    <2>2. PICK f \in [N - 2 * Distance(k) - 1 .. N - Distance(k) - 1 -> S] :
              Swept(y, m, k) = f[N - Distance(k) - 1]
      BY <2>1, SweptLoop
    <2> QED
      BY <2>1, <2>2
  <1>3. Merged(x, m) = Once(h[hi])
    BY Zenon DEF Merged, For
  <1> HIDE DEF lo, hi, Turn
  <1>4. \A f, k : (CHOOSE y \in {Turn(z, k) : z \in {f[k - 1]}} : TRUE) = Turn(f[k - 1], k)
    <2> TAKE f, k
    <2>1. {Turn(z, k) : z \in {f[k - 1]}} = {Turn(f[k - 1], k)}
      OBVIOUS
    <2> QED
      BY <2>1, ChosenIs
  <1>5. step \in [S \X (lo .. hi) -> S] /\ \A y \in S : \A k \in lo .. hi : step[<<y, k>>] = Turn(y, k)
    BY <1>2
  <1> HIDE DEF step
  <1>6. PICK g \in LoopsOf(S, x, lo, hi, step) : TRUE
    <2>1. LoopsOf(S, x, lo, hi, step) # {}
      <3> HIDE DEF IsLoop, h
      <3> QED
        BY <1>1, <1>5, LoopHasResult
    <2> QED
      BY <2>1, Zenon
  <1>7. IsLoop(g)
    <2>1. /\ g \in [lo - 1 .. hi -> S] /\ g[lo - 1] = x
          /\ \A k \in lo .. hi : g[k] = step[<<g[k - 1], k>>]
      BY <1>6 DEF LoopsOf
    <2>2. ASSUME NEW k \in lo - 1 .. hi PROVE g[k] = IF k < lo THEN x ELSE Turn(g[k - 1], k)
      <3>1. CASE k < lo
        <4>1. k = lo - 1
          BY <3>1, <1>1
        <4> QED
          BY <3>1, <4>1, <2>1
      <3>2. CASE ~(k < lo)
        <4>1. k \in lo .. hi /\ k - 1 \in lo - 1 .. hi
          BY <3>2, <1>1
        <4> QED
          BY <3>2, <4>1, <2>1, <1>5
      <3> QED
        BY <3>1, <3>2
    <2> QED
      BY <2>1, <2>2, <1>4
  <1>8. IsLoop(h)
    BY <1>7, Zenon
  <1> HIDE DEF h
  <1>9. /\ DOMAIN h = lo - 1 .. hi /\ h[lo - 1] = x
        /\ \A k \in lo .. hi : h[k] = Turn(h[k - 1], k)
    <2>1. DOMAIN h = lo - 1 .. hi
      BY <1>8
    <2>2. h[lo - 1] = x
      BY <1>1, <1>8
    <2>3. ASSUME NEW k \in lo .. hi PROVE h[k] = Turn(h[k - 1], k)
      <3>1. k \in lo - 1 .. hi /\ ~(k < lo)
        BY <1>1
      <3> QED
        BY <3>1, <1>4, <1>8
    <2> QED
      BY <2>1, <2>2, <2>3
  <1>10. \A k \in lo - 1 .. hi : h[k] \in S
    BY <1>1, <1>2, <1>9, LoopKeeps
  <1>11. h \in [lo - 1 .. hi -> S]
    BY <1>8, <1>9, <1>10
  <1>12. Merged(x, m) = h[hi]
    BY <1>3, OnceIs
  <1> QED
    BY <1>9, <1>11, <1>12 DEF lo, hi, Turn

\* The loop over p.
LEMMA SortLoop ==
    ASSUME NEW S, Closed(S), NEW x \in S
    PROVE  \E h \in [1 - 1 .. GFBITS -> S] :
              /\ h[1 - 1] = x /\ uint64_sort(x) = h[GFBITS]
              /\ \A k \in 1 .. GFBITS : h[k] = Merged(Compared(h[k - 1], k), k)
  <1> DEFINE lo == 1
             hi == GFBITS
             Turn(y, k) == Merged(Compared(y, k), k)
             IsLoop(f) == f = [k \in lo - 1 .. hi |->
                 IF k < lo THEN x
                 ELSE CHOOSE y \in {Turn(z, k) : z \in {f[k - 1]}} : TRUE]
             h == CHOOSE f : IsLoop(f)
             step == [p \in S \X (lo .. hi) |-> Turn(p[1], p[2])]
  <1>1. lo \in Int /\ hi \in Int /\ lo - 1 <= hi
    BY Distances
  <1>2. \A y \in S : \A k \in lo .. hi : Turn(y, k) \in S
    <2> SUFFICES ASSUME NEW y \in S, NEW k \in lo .. hi PROVE Merged(Compared(y, k), k) \in S
      OBVIOUS
    <2>1. N - Distance(k) - 1 \in 0 - 1 .. N - Distance(k) - 1 /\ k - 1 \in 1 - 1 .. k - 1
      BY DistanceInside
    <2>2. Compared(y, k) \in S
      BY <2>1, ComparedLoop
    <2> QED
      BY <2>1, <2>2, MergedLoop
  <1>3. uint64_sort(x) = Once(h[hi])
    BY Zenon DEF uint64_sort, For
  <1> HIDE DEF lo, hi, Turn
  <1>4. \A f, k : (CHOOSE y \in {Turn(z, k) : z \in {f[k - 1]}} : TRUE) = Turn(f[k - 1], k)
    <2> TAKE f, k
    <2>1. {Turn(z, k) : z \in {f[k - 1]}} = {Turn(f[k - 1], k)}
      OBVIOUS
    <2> QED
      BY <2>1, ChosenIs
  <1>5. step \in [S \X (lo .. hi) -> S] /\ \A y \in S : \A k \in lo .. hi : step[<<y, k>>] = Turn(y, k)
    BY <1>2
  <1> HIDE DEF step
  <1>6. PICK g \in LoopsOf(S, x, lo, hi, step) : TRUE
    <2>1. LoopsOf(S, x, lo, hi, step) # {}
      <3> HIDE DEF IsLoop, h
      <3> QED
        BY <1>1, <1>5, LoopHasResult
    <2> QED
      BY <2>1, Zenon
  <1>7. IsLoop(g)
    <2>1. /\ g \in [lo - 1 .. hi -> S] /\ g[lo - 1] = x
          /\ \A k \in lo .. hi : g[k] = step[<<g[k - 1], k>>]
      BY <1>6 DEF LoopsOf
    <2>2. ASSUME NEW k \in lo - 1 .. hi PROVE g[k] = IF k < lo THEN x ELSE Turn(g[k - 1], k)
      <3>1. CASE k < lo
        <4>1. k = lo - 1
          BY <3>1, <1>1
        <4> QED
          BY <3>1, <4>1, <2>1
      <3>2. CASE ~(k < lo)
        <4>1. k \in lo .. hi /\ k - 1 \in lo - 1 .. hi
          BY <3>2, <1>1
        <4> QED
          BY <3>2, <4>1, <2>1, <1>5
      <3> QED
        BY <3>1, <3>2
    <2> QED
      BY <2>1, <2>2, <1>4
  <1>8. IsLoop(h)
    BY <1>7, Zenon
  <1> HIDE DEF h
  <1>9. /\ DOMAIN h = lo - 1 .. hi /\ h[lo - 1] = x
        /\ \A k \in lo .. hi : h[k] = Turn(h[k - 1], k)
    <2>1. DOMAIN h = lo - 1 .. hi
      BY <1>8
    <2>2. h[lo - 1] = x
      BY <1>1, <1>8
    <2>3. ASSUME NEW k \in lo .. hi PROVE h[k] = Turn(h[k - 1], k)
      <3>1. k \in lo - 1 .. hi /\ ~(k < lo)
        BY <1>1
      <3> QED
        BY <3>1, <1>4, <1>8
    <2> QED
      BY <2>1, <2>2, <2>3
  <1>10. \A k \in lo - 1 .. hi : h[k] \in S
    BY <1>1, <1>2, <1>9, LoopKeeps
  <1>11. h \in [lo - 1 .. hi -> S]
    BY <1>8, <1>9, <1>10
  <1>12. uint64_sort(x) = h[hi]
    BY <1>3, OnceIs
  <1> QED
    BY <1>9, <1>11, <1>12 DEF lo, hi, Turn

LEMMA Counting ==
    ASSUME NEW lo \in Int, NEW hi \in Int, lo - 1 <= hi, NEW T, lo - 1 \in T,
           \A k \in lo .. hi : k - 1 \in T => k \in T
    PROVE  \A k \in lo - 1 .. hi : k \in T
  <1> DEFINE f == [k \in lo - 1 .. hi |-> k]
  <1>1. \A k \in lo - 1 .. hi : f[k] = k
    OBVIOUS
  <1>2. \A k \in lo .. hi : k \in lo - 1 .. hi /\ k - 1 \in lo - 1 .. hi
    OBVIOUS
  <1>3. f[lo - 1] \in T /\ \A k \in lo .. hi : f[k - 1] \in T => f[k] \in T
    BY <1>1, <1>2
  <1> HIDE DEF f
  <1>4. \A k \in lo - 1 .. hi : f[k] \in T
    BY <1>3, LoopKeeps
  <1> QED
    BY <1>1, <1>4

----------------------------------------------------------------------------
(* A merge.  Before it the numbers at distance 2 * p are in order; after it *)
(* those at distance p are.  The first pass orders every i without the bit  *)
(* p and i + p; then, from the largest distance d down to 2 * p, every      *)
(* i + p and i + d.                                                         *)

Shifts(p) == {2 * (u * p) : u \in Nat}

LEMMA HasShifted ==
    ASSUME NEW i \in Nat, NEW p \in Nat, p > 0
    PROVE  /\ Has(i + p, p) <=> ~Has(i, p)
           /\ Has(i, p) => i - p \in Nat /\ ~Has(i - p, p)
           /\ \A s \in Shifts(p) : s \in Nat /\ (Has(i + s, p) <=> Has(i, p))
           /\ \A s \in Shifts(p) : i - s \in Nat => (Has(i - s, p) <=> Has(i, p))
  <1>1. Has(i, p) => i - p \in Nat
    <2>1. i < p => i \div p = 0
      OBVIOUS
    <2> QED
      BY <2>1 DEF Has
  <1>2. Has(i, p) => ~Has(i - p, p)
    <2> SUFFICES ASSUME Has(i, p) PROVE ~Has(i - p, p)
      OBVIOUS
    <2>1. i - p \in Nat /\ (i - p) + p = i
      BY <1>1
    <2> QED
      BY <2>1, HasMoved
  <1>3. ASSUME NEW s \in Shifts(p)
        PROVE  s \in Nat /\ \A j \in Nat : Has(j + s, p) <=> Has(j, p)
    <2>1. PICK u \in Nat : s = 2 * (u * p)
      BY DEF Shifts
    <2>2. s \in Nat
      <3>1. u * p \in Nat
        OBVIOUS
      <3> QED
        BY <2>1, <3>1
    <2> QED
      BY <2>1, <2>2, HasMoved
  <1>4. ASSUME NEW s \in Shifts(p), i - s \in Nat PROVE Has(i - s, p) <=> Has(i, p)
    <2>1. (i - s) + s = i
      BY <1>3
    <2> QED
      BY <1>3, <1>4, <2>1
  <1> QED
    BY <1>1, <1>2, <1>3, <1>4, HasMoved

InSteps(y, p) == \A i \in Place : \A s \in Shifts(p) : i + s \in Place => y[i] <= y[i + s]
Ordered(y, p, d) ==
    /\ InSteps(y, p)
    /\ \A i \in Place : ~Has(i, p) /\ i + p \in Place => y[i] <= y[i + p]
    /\ \A i \in Place : ~Has(i, p) /\ i + d \in Place => y[i + p] <= y[i + d]

\* What the first pass makes of x.
FirstPass(y, x, p) ==
    \A i \in Place : ~Has(i, p) =>
        IF i + p \in Place THEN y[i] = Less(x[i], x[i + p]) /\ y[i + p] = More(x[i], x[i + p])
        ELSE y[i] = x[i]

LEMMA FirstPassOrders ==
    ASSUME NEW p \in Nat, p > 0, NEW x \in Numbers, NEW y \in Numbers, FirstPass(y, x, p),
           InSteps(x, p)
    PROVE  Ordered(y, p, N)
  <1>0. N \in Nat
    BY Distances
  <1>1. \A i \in Place : i \in Nat /\ x[i] \in Nat /\ y[i] \in Nat
    BY <1>0 DEF Place, Numbers
  <1>2. ASSUME NEW i \in Place, NEW s \in Shifts(p), i + s \in Place PROVE y[i] <= y[i + s]
    <2>1. i \in Nat /\ s \in Nat /\ (Has(i + s, p) <=> Has(i, p))
      BY <1>1, HasShifted
    <2>2. x[i] <= x[i + s]
      BY <1>2 DEF InSteps
    <2>3. CASE ~Has(i, p)
      <3>1. /\ i + p \in Place => /\ y[i] = Less(x[i], x[i + p])
            /\ i + p \notin Place => y[i] = x[i]
            /\ (i + s) + p \in Place => y[i + s] = Less(x[i + s], x[(i + s) + p])
            /\ (i + s) + p \notin Place => y[i + s] = x[i + s]
        BY <1>2, <2>1, <2>3 DEF FirstPass
      <3>2. CASE (i + s) + p \in Place
        <4>1. i + p \in Place /\ (i + p) + s = (i + s) + p
          BY <3>2, <2>1, <1>0 DEF Place
        <4>2. x[i + p] <= x[(i + s) + p]
          BY <3>2, <4>1 DEF InSteps
        <4> QED
          BY ONLY <1>1, <1>2, <2>2, <3>1, <3>2, <4>1, <4>2 DEF Less
      <3>3. CASE (i + s) + p \notin Place
        BY ONLY <1>1, <1>2, <2>2, <3>1, <3>3 DEF Less
      <3> QED
        BY <3>2, <3>3
    <2>4. CASE Has(i, p)
      <3> DEFINE a == i - p
      <3>1. /\ a \in Nat /\ ~Has(a, p) /\ a + p = i /\ a \in Place
            /\ a + s \in Place /\ (a + s) + p = i + s /\ ~Has(a + s, p)
        <4>1. a \in Nat /\ ~Has(a, p) /\ a + p = i
          BY <2>1, <2>4, HasShifted
        <4>2. a \in Place /\ a + s \in Place /\ (a + s) + p = i + s
          BY <1>0, <1>2, <2>1, <4>1 DEF Place
        <4> HIDE DEF a
        <4>3. ~Has(a + s, p)
          BY <4>1, HasShifted
        <4> QED
          BY <4>1, <4>2, <4>3
      <3> HIDE DEF a
      <3>2. y[i] = More(x[a], x[i]) /\ y[i + s] = More(x[a + s], x[i + s])
        BY <1>2, <3>1 DEF FirstPass
      <3>3. x[a] <= x[a + s]
        BY <3>1 DEF InSteps
      <3>4. /\ x[a] \in Nat /\ x[i] \in Nat /\ x[a + s] \in Nat /\ x[i + s] \in Nat
            /\ x[a] <= x[a + s] /\ x[i] <= x[i + s]
        BY <1>1, <1>2, <2>2, <3>1, <3>3
      <3>5. ASSUME NEW n \in Nat, NEW q \in Nat, NEW u \in Nat, NEW v \in Nat, n <= u, q <= v
            PROVE  More(n, q) <= More(u, v)
        BY <3>5 DEF More
      <3> QED
        BY ONLY <3>2, <3>4, <3>5
    <2> QED
      BY <2>3, <2>4
  <1>3. ASSUME NEW i \in Place, ~Has(i, p), i + p \in Place PROVE y[i] <= y[i + p]
    <2>1. y[i] = Less(x[i], x[i + p]) /\ y[i + p] = More(x[i], x[i + p])
      BY <1>3 DEF FirstPass
    <2> QED
      BY ONLY <1>1, <1>3, <2>1 DEF Less, More
  <1>4. ASSUME NEW i \in Place PROVE i + N \notin Place
    BY <1>0 DEF Place
  <1> QED
    BY <1>2, <1>3, <1>4 DEF Ordered, InSteps

LEMMA ComparedIs ==
    ASSUME NEW S, Closed(S), NEW x \in S, NEW m \in 1 .. GFBITS
    PROVE  Compared(x, m) \in S /\ FirstPass(Compared(x, m), x, Distance(m))
  <1> DEFINE p == Distance(m)
             hi == N - p - 1
  <1>1. p \in Nat /\ p > 0 /\ N \in Nat /\ 0 - 1 <= hi /\ hi \in Int
    BY DistanceInside
  <1>2. PICK h \in [0 - 1 .. hi -> S] :
            /\ h[0 - 1] = x /\ Compared(x, m) = h[hi]
            /\ \A k \in 0 .. hi : h[k] = CompareTurn(m, h[k - 1], k)
    BY ComparedLoop
  <1> HIDE DEF p, hi
  <1> DEFINE Upto(y, k) ==
                \A a \in Place : ~Has(a, p) =>
                    IF a + p \in Place /\ a <= k
                    THEN y[a] = Less(x[a], x[a + p]) /\ y[a + p] = More(x[a], x[a + p])
                    ELSE y[a] = x[a] /\ (a + p \in Place => y[a + p] = x[a + p])
             T == {k \in 0 - 1 .. hi : Upto(h[k], k)}
  <1>3. 0 - 1 \in T
    <2>1. \A a \in Place : ~(a <= 0 - 1)
      BY <1>1 DEF Place
    <2> QED
      BY <1>1, <1>2, <2>1
  <1>4. ASSUME NEW k \in 0 .. hi, k - 1 \in T PROVE k \in T
    <2> DEFINE y == h[k - 1]
               z == h[k]
    <2>1. k \in Place /\ k + p \in Place /\ k \in 0 - 1 .. hi /\ k - 1 \in 0 - 1 .. hi
      BY <1>1 DEF Place, hi
    <2>2. Upto(y, k - 1)
      BY <1>4
    <2>3. y \in Numbers /\ z = IF Has(k, p) THEN y ELSE MINMAX(y, k, k + p)
      BY <1>2, <2>1 DEF CompareTurn, Closed, p
    <2> HIDE DEF y, z, Upto
    <2>4. ASSUME NEW a \in Place, ~Has(a, p)
          PROVE  IF a + p \in Place /\ a <= k
                 THEN z[a] = Less(x[a], x[a + p]) /\ z[a + p] = More(x[a], x[a + p])
                 ELSE z[a] = x[a] /\ (a + p \in Place => z[a + p] = x[a + p])
      <3>1. a \in Nat /\ k \in Nat /\ (Has(a + p, p) <=> ~Has(a, p))
        <4>1. a \in Nat /\ k \in Nat
          BY <1>1, <2>1 DEF Place
        <4> QED
          BY <1>1, <4>1, HasShifted
      <3>2. IF a + p \in Place /\ a <= k - 1
            THEN y[a] = Less(x[a], x[a + p]) /\ y[a + p] = More(x[a], x[a + p])
            ELSE y[a] = x[a] /\ (a + p \in Place => y[a + p] = x[a + p])
        BY <2>2, <2>4 DEF Upto
      <3>3. CASE Has(k, p)
        <4>1. a # k /\ z = y /\ (a <= k <=> a <= k - 1)
          BY <2>3, <2>4, <3>1, <3>3
        <4> QED
          BY <3>2, <4>1
      <3>4. CASE ~Has(k, p) /\ a = k
        <4>1. y[a] = x[a] /\ y[a + p] = x[a + p]
          BY <2>1, <3>1, <3>2, <3>4
        <4>2. k # k + p /\ z = MINMAX(y, k, k + p)
          BY <1>1, <2>1, <2>3, <3>1, <3>4
        <4> DEFINE b == k + p
        <4>3. b \in Place /\ k # b /\ z = MINMAX(y, k, b)
          BY <2>1, <4>2
        <4> HIDE DEF b
        <4>4. z[k] = Less(y[k], y[b]) /\ z[b] = More(y[k], y[b])
          BY <2>1, <2>3, <4>3, ExchangeIs
        <4> QED
          BY <2>1, <3>1, <3>4, <4>1, <4>4 DEF b
      <3>5. CASE ~Has(k, p) /\ a # k
        <4>1. k # k + p /\ z = MINMAX(y, k, k + p)
          BY <1>1, <2>1, <2>3, <3>1, <3>5
        <4>2. a # k + p /\ a + p # k /\ a + p # k + p /\ (a <= k <=> a <= k - 1)
          <5>1. a # k + p
            BY <1>1, <2>4, <3>1, <3>5, HasShifted
          <5>2. a + p # k
            BY <2>4, <3>1, <3>5
          <5> QED
            BY <1>1, <3>1, <3>5, <5>1, <5>2
        <4> DEFINE b == k + p
        <4>3. b \in Place /\ k # b /\ z = MINMAX(y, k, b) /\ a # b /\ a + p # b
          BY <2>1, <4>1, <4>2
        <4> HIDE DEF b
        <4>4. \A c \in Place : c # k /\ c # b => z[c] = y[c]
          <5>1. \A c \in Place : c # k /\ c # b => MINMAX(y, k, b)[c] = y[c]
            BY ONLY <2>1, <2>3, <4>3, ExchangeIs
          <5> QED
            BY <5>1, <4>3
        <4> QED
          BY <2>4, <3>2, <3>5, <4>2, <4>3, <4>4
      <3> QED
        BY <3>3, <3>4, <3>5
    <2>5. Upto(z, k)
      BY <2>4 DEF Upto
    <2> QED
      BY <2>1, <2>5 DEF z
  <1> HIDE DEF T
  <1>5. \A k \in 0 - 1 .. hi : k \in T
    <2> DEFINE lo == 0
    <2>1. lo \in Int /\ lo - 1 <= hi /\ lo - 1 \in T /\ \A k \in lo .. hi : k - 1 \in T => k \in T
      BY <1>1, <1>3, <1>4
    <2> HIDE DEF Upto, lo
    <2>2. \A k \in lo - 1 .. hi : k \in T
      BY <1>1, <2>1, Counting
    <2> QED
      BY <2>2 DEF lo
  <1>6. Upto(h[hi], hi)
    BY <1>1, <1>5 DEF T
  <1>7. \A a \in Place : a + p \in Place => a <= hi
    BY <1>1 DEF Place, hi
  <1>8. h[hi] \in S
    BY <1>1, <1>2
  <1> QED
    BY <1>2, <1>6, <1>7, <1>8 DEF FirstPass, p

\* All the comparisons at one distance d of a merge.
Layer(y, p, d) ==
    [c \in Place |->
        IF Has(c, p) THEN IF (c - p) + d \in Place THEN Less(y[c], y[(c - p) + d]) ELSE y[c]
        ELSE IF c - d \in Place THEN More(y[(c - d) + p], y[c]) ELSE y[c]]

LEMMA LayerIs ==
    ASSUME NEW y \in Numbers, NEW p \in Nat, p > 0, NEW d \in Shifts(p), d >= p
    PROVE  /\ Layer(y, p, d) \in Numbers
           /\ \A b \in Place : ~Has(b, p) =>
                 /\ b + d \in Place => /\ b + p \in Place
                                       /\ Layer(y, p, d)[b + p] = Less(y[b + p], y[b + d])
                                       /\ Layer(y, p, d)[b + d] = More(y[b + p], y[b + d])
                 /\ b + d \notin Place /\ b + p \in Place => Layer(y, p, d)[b + p] = y[b + p]
                 /\ b - d \notin Place => Layer(y, p, d)[b] = y[b]
  <1>0. N \in Nat
    BY Distances
  <1>1. 0 \in Nat /\ d \in Nat
    BY HasShifted
  <1>2. \A c \in Place : (c - p) + d \in Place => y[(c - p) + d] \in Nat
    BY DEF Numbers
  <1>3. \A c \in Place : c - d \in Place => (c - d) + p \in Place /\ y[(c - d) + p] \in Nat
    BY <1>0, <1>1 DEF Numbers, Place
  <1>4. \A c \in Place : Layer(y, p, d)[c] \in Nat
    <2> TAKE c \in Place
    <2>1. y[c] \in Nat
      BY DEF Numbers
    <2>2. \A a, b \in Nat : Less(a, b) \in Nat /\ More(a, b) \in Nat
      BY DEF Less, More
    <2> QED
      BY <1>2, <1>3, <2>1, <2>2, Zenon DEF Layer
  <1>5. Layer(y, p, d) \in Numbers
    BY <1>4 DEF Layer, Numbers
  <1>6. ASSUME NEW b \in Place, ~Has(b, p), b + d \in Place
        PROVE  /\ b + p \in Place
               /\ Layer(y, p, d)[b + p] = Less(y[b + p], y[b + d])
               /\ Layer(y, p, d)[b + d] = More(y[b + p], y[b + d])
    <2>1. b \in Nat /\ b + p \in Place /\ (b + p) - p = b /\ (b + d) - d = b
      BY <1>0, <1>1, <1>6 DEF Place
    <2>2. Has(b + p, p) /\ ~Has(b + d, p)
      BY <1>6, <2>1, HasShifted
    <2> QED
      BY <1>6, <2>1, <2>2 DEF Layer
  <1>7. ASSUME NEW b \in Place, ~Has(b, p), b + d \notin Place, b + p \in Place
        PROVE  Layer(y, p, d)[b + p] = y[b + p]
    <2>1. b \in Nat /\ (b + p) - p = b
      BY <1>0 DEF Place
    <2>2. Has(b + p, p)
      BY <1>7, <2>1, HasShifted
    <2> QED
      BY <1>7, <2>1, <2>2 DEF Layer
  <1>8. ASSUME NEW b \in Place, ~Has(b, p), b - d \notin Place
        PROVE  Layer(y, p, d)[b] = y[b]
    BY <1>8 DEF Layer
  <1> QED
    BY <1>5, <1>6, <1>7, <1>8

\* One distance of the merge halves how far i + p may be out of order.
LEMMA LayerOrders ==
    ASSUME NEW y \in Numbers, NEW p \in Nat, p > 0, NEW d \in Shifts(p), d >= p,
           Ordered(y, p, 2 * d)
    PROVE  Ordered(Layer(y, p, d), p, d)
  <1> DEFINE z == Layer(y, p, d)
  <1>0. N \in Nat /\ d \in Nat
    BY Distances, HasShifted
  <1>1. \A i \in Place : i \in Nat /\ y[i] \in Nat
    BY <1>0 DEF Place, Numbers
  <1>2. \A b \in Place : ~Has(b, p) =>
            /\ b + d \in Place => /\ b + p \in Place
                                  /\ z[b + p] = Less(y[b + p], y[b + d])
                                  /\ z[b + d] = More(y[b + p], y[b + d])
            /\ b + d \notin Place /\ b + p \in Place => z[b + p] = y[b + p]
            /\ b - d \notin Place => z[b] = y[b]
    BY LayerIs
  <1> HIDE DEF z
  \* A place without the bit, and the one it is compared with.
  <1>3. ASSUME NEW i \in Place, ~Has(i, p), i - d \in Place
        PROVE  /\ ~Has(i - d, p) /\ (i - d) + d = i /\ (i - d) + p \in Place
               /\ z[i] = More(y[(i - d) + p], y[i])
    <2> DEFINE b == i - d
    <2>1. i \in Nat /\ b \in Nat /\ b \in Place /\ b + d = i
      BY <1>0, <1>1, <1>3
    <2>2. ~Has(b, p)
      BY <1>3, <2>1, HasShifted
    <2> HIDE DEF b
    <2>3. b + p \in Place /\ z[b + d] = More(y[b + p], y[b + d])
      BY <1>2, <2>1, <2>2
    <2> QED
      BY <2>1, <2>2, <2>3 DEF b
  <1>4. \A i \in Place : \A s \in Shifts(p) : i + s \in Place => y[i] <= y[i + s]
    BY DEF Ordered, InSteps
  <1>5. \A i \in Place : ~Has(i, p) /\ i + p \in Place => y[i] <= y[i + p]
    BY DEF Ordered
  <1>6. \A i \in Place : ~Has(i, p) /\ i + 2 * d \in Place => y[i + p] <= y[i + 2 * d]
    BY DEF Ordered
  <1>7. ASSUME NEW n \in Nat, NEW q \in Nat, NEW u \in Nat, NEW v \in Nat, n <= u, q <= v
        PROVE  More(n, q) <= More(u, v) /\ Less(n, q) <= Less(u, v)
    BY <1>7 DEF More, Less
  <1>8. ASSUME NEW n \in Nat, NEW q \in Nat
        PROVE  /\ More(n, q) >= n /\ More(n, q) >= q /\ Less(n, q) <= n /\ Less(n, q) <= q
               /\ More(n, q) \in {n, q} /\ Less(n, q) \in {n, q}
    BY DEF More, Less
  <1>9. ASSUME NEW i \in Place, NEW s \in Shifts(p), i + s \in Place PROVE z[i] <= z[i + s]
    <2>1. /\ i \in Nat /\ s \in Nat /\ (Has(i + s, p) <=> Has(i, p)) /\ y[i] <= y[i + s]
          /\ y[i] \in Nat /\ y[i + s] \in Nat
      BY <1>1, <1>4, <1>9, HasShifted
    <2>2. CASE ~Has(i, p)
      <3>1. CASE i - d \in Place
        <4>1. z[i] = More(y[(i - d) + p], y[i]) /\ (i - d) + p \in Place /\ (i - d) + d = i
          BY <1>3, <2>2, <3>1
        <4>2. (i + s) - d \in Place /\ (i + s) - d = (i - d) + s
          BY <1>0, <1>9, <2>1, <3>1 DEF Place
        <4>3. z[i + s] = More(y[((i + s) - d) + p], y[i + s]) /\ ((i + s) - d) + p \in Place
          BY <1>3, <1>9, <2>1, <2>2, <4>2
        <4>4. ((i + s) - d) + p = ((i - d) + p) + s
          BY <1>0, <2>1
        <4>5. y[(i - d) + p] <= y[((i + s) - d) + p]
          BY <1>4, <4>1, <4>3, <4>4
        <4>6. y[(i - d) + p] \in Nat /\ y[((i + s) - d) + p] \in Nat
          BY <1>1, <4>1, <4>3
        <4> QED
          BY <1>7, <2>1, <4>1, <4>3, <4>5, <4>6
      <3>2. CASE i - d \notin Place
        <4>1. z[i] = y[i]
          BY <1>2, <2>2, <3>2
        <4>2. CASE (i + s) - d \in Place
          <5>1. z[i + s] = More(y[((i + s) - d) + p], y[i + s]) /\ ((i + s) - d) + p \in Place
            BY <1>3, <1>9, <2>1, <2>2, <4>2
          <5>2. y[((i + s) - d) + p] \in Nat
            BY <1>1, <5>1
          <5>3. z[i + s] >= y[i + s] /\ z[i + s] \in Nat
            BY <1>8, <2>1, <5>1, <5>2
          <5> QED
            BY ONLY <2>1, <4>1, <5>3
        <4>3. CASE (i + s) - d \notin Place
          <5>1. z[i + s] = y[i + s]
            BY <1>2, <1>9, <2>1, <2>2, <4>3
          <5> QED
            BY <2>1, <4>1, <5>1
        <4> QED
          BY <4>2, <4>3
      <3> QED
        BY <3>1, <3>2
    <2>3. CASE Has(i, p)
      <3> DEFINE a == i - p
      <3>1. /\ a \in Nat /\ ~Has(a, p) /\ a + p = i /\ a \in Place
            /\ a + s \in Place /\ (a + s) + p = i + s /\ (a + d) + s = (a + s) + d
        <4>1. a \in Nat /\ ~Has(a, p) /\ a + p = i
          BY <2>1, <2>3, HasShifted
        <4> QED
          BY <1>0, <1>9, <2>1, <4>1 DEF Place
      <3> HIDE DEF a
      <3>2. ~Has(a + s, p)
        BY <3>1, HasShifted
      <3>3. CASE (a + s) + d \in Place
        <4>1. a + d \in Place
          BY <1>0, <2>1, <3>1, <3>3 DEF Place
        <4>2. z[i] = Less(y[i], y[a + d]) /\ z[i + s] = Less(y[i + s], y[(a + s) + d])
          BY <1>2, <3>1, <3>2, <3>3, <4>1
        <4>3. y[a + d] <= y[(a + s) + d] /\ y[a + d] \in Nat /\ y[(a + s) + d] \in Nat
          BY <1>1, <1>4, <3>1, <3>3, <4>1
        <4> QED
          BY <1>7, <2>1, <4>2, <4>3
      <3>4. CASE (a + s) + d \notin Place
        <4>1. z[i + s] = y[i + s]
          BY <1>2, <1>9, <3>1, <3>2, <3>4
        <4>2. z[i] <= y[i] /\ z[i] \in Nat
          <5>1. CASE a + d \in Place
            <6>1. z[i] = Less(y[i], y[a + d]) /\ y[a + d] \in Nat
              BY <1>1, <1>2, <3>1, <5>1
            <6> QED
              BY <1>8, <2>1, <6>1
          <5>2. CASE a + d \notin Place
            <6>1. z[i] = y[i]
              BY <1>2, <3>1, <5>2
            <6> QED
              BY <2>1, <6>1
          <5> QED
            BY <5>1, <5>2
        <4> QED
          BY ONLY <2>1, <4>1, <4>2
      <3> QED
        BY <3>3, <3>4
    <2> QED
      BY <2>2, <2>3
  <1>10. ASSUME NEW i \in Place, ~Has(i, p), i + p \in Place PROVE z[i] <= z[i + p]
    <2>1. i \in Nat /\ y[i] \in Nat /\ y[i + p] \in Nat /\ y[i] <= y[i + p]
      BY <1>1, <1>5, <1>10
    <2>2. i + d \in Place => /\ y[i] <= y[i + d] /\ y[i + d] \in Nat
                             /\ z[i + p] = Less(y[i + p], y[i + d])
      BY <1>1, <1>2, <1>4, <1>10
    <2>3. i + d \notin Place => z[i + p] = y[i + p]
      BY <1>2, <1>10
    <2>4. i - d \notin Place => z[i] = y[i]
      BY <1>2, <1>10
    <2>5. ASSUME i - d \in Place
          PROVE  /\ y[(i - d) + p] \in Nat /\ z[i] = More(y[(i - d) + p], y[i])
                 /\ y[(i - d) + p] <= y[i + p]
                 /\ i + d \in Place => y[(i - d) + p] <= y[i + d]
      <3>1. /\ (i - d) + p \in Place /\ z[i] = More(y[(i - d) + p], y[i])
            /\ ~Has(i - d, p)
        BY <1>3, <1>10, <2>5
      <3>2. ((i - d) + p) + d = i + p /\ (i - d) + 2 * d = i + d
        BY <1>0, <2>1
      <3>3. y[(i - d) + p] <= y[i + p]
        BY <1>4, <1>10, <3>1, <3>2
      <3>4. i + d \in Place => y[(i - d) + p] <= y[i + d]
        BY <1>6, <2>5, <3>1, <3>2
      <3> QED
        BY <1>1, <3>1, <3>3, <3>4
    <2>6. CASE i - d \in Place
      <3>1. /\ y[(i - d) + p] \in Nat /\ z[i] \in {y[(i - d) + p], y[i]}
            /\ y[(i - d) + p] <= y[i + p]
            /\ i + d \in Place => y[(i - d) + p] <= y[i + d]
        BY <1>8, <2>1, <2>5, <2>6
      <3>2. CASE i + d \in Place
        <4>1. z[i + p] \in {y[i + p], y[i + d]}
          BY <1>8, <2>1, <2>2, <3>2
        <4> QED
          BY ONLY <2>1, <2>2, <3>1, <3>2, <4>1
      <3>3. CASE i + d \notin Place
        BY ONLY <2>1, <2>3, <3>1, <3>3
      <3> QED
        BY <3>2, <3>3
    <2>7. CASE i - d \notin Place
      <3>2. CASE i + d \in Place
        <4>1. z[i + p] \in {y[i + p], y[i + d]}
          BY <1>8, <2>1, <2>2, <3>2
        <4> QED
          BY ONLY <2>1, <2>2, <2>4, <2>7, <3>2, <4>1
      <3>3. CASE i + d \notin Place
        BY ONLY <2>1, <2>3, <2>4, <2>7, <3>3
      <3> QED
        BY <3>2, <3>3
    <2> QED
      BY <2>6, <2>7
  <1>11. ASSUME NEW i \in Place, ~Has(i, p), i + d \in Place PROVE z[i + p] <= z[i + d]
    <2>1. /\ i + p \in Place /\ z[i + p] = Less(y[i + p], y[i + d])
          /\ z[i + d] = More(y[i + p], y[i + d])
      BY <1>2, <1>11
    <2>2. y[i + p] \in Nat /\ y[i + d] \in Nat
      BY <1>1, <1>11, <2>1
    <2> QED
      BY <2>1, <2>2 DEF Less, More
  <1> QED
    BY <1>9, <1>10, <1>11 DEF Ordered, InSteps, z

----------------------------------------------------------------------------
(* uint64_sort does not go through a merge by distance: i is ascending, and *)
(* for each i the distances descend.  A number has the value that it has    *)
(* after as many distances as have reached it.                              *)

\* The numbers before a merge and after each of its distances.
IsLayers(f, x, m) ==
    /\ f \in [0 .. m - 1 -> Numbers] /\ f[0] = x
    /\ \A e \in 1 .. m - 1 : f[e] = Layer(f[e - 1], Distance(m), Distance(e))

LEMMA DistanceShifts ==
    ASSUME NEW m \in 1 .. GFBITS, NEW e \in 1 .. m - 1
    PROVE  /\ Distance(e) \in Shifts(Distance(m)) /\ Distance(e) >= 2 * Distance(m)
           /\ Distance(e) \in Nat /\ Distance(m) \in Nat /\ Distance(m) > 0
           /\ Distance(e - 1) = 2 * Distance(e)
           /\ \A k \in 1 .. m - 1 : /\ k < e => Distance(k) >= 2 * Distance(e)
                                    /\ k > e => Distance(e) >= 2 * Distance(k)
  <1>0. GFBITS \in Nat /\ m \in Nat /\ e \in 1 .. GFBITS /\ e \in 0 .. m - 1
    BY Distances
  <1>1. PICK t \in Nat : t > 0 /\ Distance(e) = 2 * (t * Distance(m))
    BY <1>0, Distances
  <1>2. Distance(m) \in Nat /\ Distance(m) > 0
    BY DistanceInside
  <1>3. \A d, u \in Nat : u > 0 => 2 * (u * d) >= 2 * d
    OBVIOUS
  <1>4. Distance(e) \in Shifts(Distance(m))
    BY <1>1 DEF Shifts
  <1>5. Distance(e) \in Nat /\ Distance(e - 1) = 2 * Distance(e)
    BY <1>0, Distances, DistanceInside
  <1>6. ASSUME NEW k \in 1 .. m - 1, NEW n \in 1 .. m - 1, k < n PROVE Distance(k) >= 2 * Distance(n)
    <2>1. n \in 1 .. GFBITS /\ k \in 0 .. n - 1
      BY <1>0, <1>6
    <2>2. PICK u \in Nat : u > 0 /\ Distance(k) = 2 * (u * Distance(n))
      BY <2>1, Distances
    <2>3. Distance(n) \in Nat
      BY <2>1, DistanceInside
    <2> QED
      BY <1>3, <2>2, <2>3
  <1> QED
    BY <1>1, <1>2, <1>3, <1>4, <1>5, <1>6

LEMMA LayersExist ==
    ASSUME NEW m \in 1 .. GFBITS, NEW x \in Numbers
    PROVE  \E f : IsLayers(f, x, m)
  <1> DEFINE step == [q \in Numbers \X (1 .. m - 1) |-> Layer(q[1], Distance(m), Distance(q[2]))]
  <1>1. ASSUME NEW y \in Numbers, NEW e \in 1 .. m - 1
        PROVE  Layer(y, Distance(m), Distance(e)) \in Numbers
    <2> DEFINE p == Distance(m)
               d == Distance(e)
    <2>1. d \in Shifts(p) /\ d >= p /\ p \in Nat /\ p > 0
      BY DistanceShifts
    <2> HIDE DEF p, d
    <2>2. Layer(y, p, d) \in Numbers
      BY <2>1, LayerIs
    <2> QED
      BY <2>2 DEF p, d
  <1>2. step \in [Numbers \X (1 .. m - 1) -> Numbers]
    BY <1>1
  <1>3. \A y \in Numbers : \A e \in 1 .. m - 1 : step[<<y, e>>] = Layer(y, Distance(m), Distance(e))
    OBVIOUS
  <1> DEFINE lo == 1
             hi == m - 1
  <1>4. lo \in Int /\ hi \in Int /\ lo - 1 <= hi
    BY Distances
  <1> HIDE DEF step, lo, hi
  <1>5. LoopsOf(Numbers, x, lo, hi, step) # {}
    <2>1. step \in [Numbers \X (lo .. hi) -> Numbers]
      BY <1>2 DEF lo, hi
    <2> QED
      BY <1>4, <2>1, LoopHasResult
  <1>6. PICK f \in LoopsOf(Numbers, x, lo, hi, step) : TRUE
    BY <1>5
  <1>7. /\ f \in [0 .. m - 1 -> Numbers] /\ f[0] = x
        /\ \A e \in 1 .. m - 1 : f[e] = step[<<f[e - 1], e>>]
    BY <1>6 DEF LoopsOf, lo, hi
  <1>8. \A e \in 1 .. m - 1 : e - 1 \in 0 .. m - 1
    BY Distances
  <1>9. \A e \in 1 .. m - 1 : f[e - 1] \in Numbers
    BY <1>7, <1>8
  <1> QED
    BY <1>3, <1>7, <1>9 DEF IsLayers

\* After the last distance the numbers at distance Distance(m) are in order.
LEMMA LayersOrder ==
    ASSUME NEW m \in 1 .. GFBITS, NEW x \in Numbers, NEW f, IsLayers(f, x, m),
           Ordered(x, Distance(m), N)
    PROVE  Ordered(f[m - 1], Distance(m), 2 * Distance(m))
  <1> DEFINE T == {e \in 0 .. m - 1 : Ordered(f[e], Distance(m), Distance(e))}
             lo == 1
             hi == m - 1
  <1>0. m \in Nat /\ GFBITS \in Nat /\ m > 0 /\ m <= GFBITS
    BY Distances
  <1>1. lo \in Int /\ hi \in Int /\ lo - 1 <= hi
    BY <1>0
  <1>2. lo - 1 \in T
    <2>1. Distance(0) = N /\ f[0] = x /\ 0 \in 0 .. m - 1
      BY <1>0, Distances DEF IsLayers
    <2> QED
      BY <2>1
  <1>3. ASSUME NEW e \in lo .. hi, e - 1 \in T PROVE e \in T
    <2> DEFINE p == Distance(m)
               d == Distance(e)
    <2>1. e \in 1 .. m - 1 /\ e \in 0 .. m - 1 /\ e - 1 \in 0 .. m - 1
      BY <1>0
    <2>2. d \in Shifts(p) /\ d >= p /\ p \in Nat /\ p > 0 /\ Distance(e - 1) = 2 * d
      BY <2>1, DistanceShifts
    <2>3. Ordered(f[e - 1], p, 2 * d) /\ f[e - 1] \in Numbers
      BY <1>3, <2>1, <2>2 DEF IsLayers
    <2>4. f[e] = Layer(f[e - 1], p, d)
      BY <2>1 DEF IsLayers
    <2> HIDE DEF p, d
    <2>5. Ordered(Layer(f[e - 1], p, d), p, d)
      BY <2>2, <2>3, LayerOrders
    <2> QED
      BY <2>1, <2>4, <2>5 DEF p, d
  <1> HIDE DEF T, lo, hi
  <1>4. \A e \in lo - 1 .. hi : e \in T
    BY <1>1, <1>2, <1>3, Counting
  <1>5. m - 1 \in T
    BY <1>1, <1>4 DEF hi
  <1>6. Distance(m - 1) = 2 * Distance(m)
    BY Distances
  <1> QED
    BY <1>5, <1>6 DEF T

\* A number that no distance up to l reaches.
Idle(m, c, e) ==
    IF Has(c, Distance(m)) THEN (c - Distance(m)) + Distance(e) \notin Place
    ELSE c - Distance(e) \notin Place

LEMMA IdleStays ==
    ASSUME NEW m \in 1 .. GFBITS, NEW x \in Numbers, NEW f, IsLayers(f, x, m),
           NEW c \in Place, NEW l \in 0 .. m - 1, \A e \in 1 .. l : Idle(m, c, e)
    PROVE  f[l][c] = f[0][c]
  <1> DEFINE T == {e \in 0 .. l : f[e][c] = f[0][c]}
             lo == 1
  <1>0. m \in Nat /\ l \in Int /\ lo \in Int /\ lo - 1 <= l /\ l <= m - 1
    BY Distances
  <1>1. lo - 1 \in T
    BY <1>0
  <1>2. ASSUME NEW e \in lo .. l, e - 1 \in T PROVE e \in T
    <2>1. e \in 1 .. m - 1 /\ e \in 0 .. l /\ e \in 1 .. l
      BY <1>0
    <2>2. f[e] = Layer(f[e - 1], Distance(m), Distance(e)) /\ Idle(m, c, e)
      BY <2>1 DEF IsLayers
    <2>3. f[e][c] = f[e - 1][c]
      BY <2>2 DEF Layer, Idle
    <2> QED
      BY <1>2, <2>1, <2>3
  <1> HIDE DEF T, lo
  <1>3. \A e \in lo - 1 .. l : e \in T
    BY <1>0, <1>1, <1>2, Counting
  <1>4. l \in T
    BY <1>0, <1>3
  <1> QED
    BY <1>4 DEF T

\* The comparison of c at the e-th distance is that of From(m, c, e) with a later place.
From(m, c, e) == IF Has(c, Distance(m)) THEN c - Distance(m) ELSE c - Distance(e)
Settled(m, c, e, i, k) == From(m, c, e) < i \/ (From(m, c, e) = i /\ e < k)
\* All comparisons before the k-th of place i are done.
At(y, f, m, i, k) ==
    \A c \in Place : \A l \in 0 .. m - 1 :
        (\A e \in 1 .. m - 1 : Settled(m, c, e, i, k) <=> e <= l) => y[c] = f[l][c]

LEMMA FromIs ==
    ASSUME NEW m \in 1 .. GFBITS, NEW c \in Place, NEW e \in 1 .. m - 1
    PROVE  /\ From(m, c, e) \in Int /\ c \in Nat /\ N \in Nat
           /\ Has(c, Distance(m)) => From(m, c, e) \in Nat
           /\ From(m, c, e) \in Nat => ~Has(From(m, c, e), Distance(m))
           /\ From(m, c, e) < N - 2 * Distance(m) \/ Has(c, Distance(m))
  <1> DEFINE p == Distance(m)
             d == Distance(e)
  <1>1. d \in Shifts(p) /\ d >= 2 * p /\ p \in Nat /\ p > 0 /\ d \in Nat
    BY DistanceShifts
  <1>2. N \in Nat /\ c \in Nat /\ c < N
    BY Distances DEF Place
  <1>3. From(m, c, e) = IF Has(c, p) THEN c - p ELSE c - d
    BY DEF From
  <1> HIDE DEF p, d
  <1>4. Has(c, p) => c - p \in Nat /\ ~Has(c - p, p)
    BY <1>1, <1>2, HasShifted
  <1>5. c - d \in Nat => (Has(c - d, p) <=> Has(c, p))
    BY <1>1, <1>2, HasShifted
  <1>6. /\ From(m, c, e) \in Int
        /\ Has(c, p) => From(m, c, e) \in Nat
        /\ From(m, c, e) \in Nat => ~Has(From(m, c, e), p)
    BY <1>1, <1>2, <1>3, <1>4, <1>5
  <1>7. From(m, c, e) < N - 2 * p \/ Has(c, p)
    BY <1>1, <1>2, <1>3
  <1> QED
    BY <1>2, <1>6, <1>7 DEF p

\* A comparison of the loop over r.
LEMMA InsertKeepsAt ==
    ASSUME NEW m \in 1 .. GFBITS, NEW x \in Numbers, NEW f, IsLayers(f, x, m),
           NEW i \in Place, ~Has(i, Distance(m)), NEW k \in 1 .. m - 1, i + Distance(k) \in Place,
           NEW y \in Numbers, At(y, f, m, i, k)
    PROVE  At(InsertTurn(m, i, y, k), f, m, i, k + 1)
  <1> DEFINE p == Distance(m)
             d == Distance(k)
             a == i + p
             b == i + d
             z == InsertTurn(m, i, y, k)
  <1>1. /\ d \in Shifts(p) /\ d >= 2 * p /\ p \in Nat /\ p > 0 /\ d \in Nat
        /\ \A e \in 1 .. m - 1 : e < k => Distance(e) >= 2 * d
        /\ \A e \in 1 .. m - 1 : e > k => d >= 2 * Distance(e)
    BY DistanceShifts
  <1>2. m \in Nat /\ k \in Nat /\ N \in Nat /\ i \in Nat /\ \A e \in 1 .. m - 1 : Distance(e) \in Nat
    <2>1. \A e \in 1 .. m - 1 : Distance(e) \in Nat
      BY DistanceShifts
    <2> QED
      BY <2>1, Distances DEF Place
  <1>3. /\ a \in Place /\ b \in Place /\ a # b /\ a - p = i /\ b - d = i
        /\ i + d = b /\ i + p = a
    BY <1>1, <1>2 DEF Place
  <1>4. Has(a, p) /\ ~Has(b, p) /\ ~Has(i, p)
    BY <1>1, <1>2, HasShifted
  <1>5. \A c \in Place : \A e \in 1 .. m - 1 :
            From(m, c, e) = IF Has(c, p) THEN c - p ELSE c - Distance(e)
    BY DEF From
  <1>6. z = MINMAX(y, a, b)
    BY DEF InsertTurn
  <1> HIDE DEF z, a, b
  <1>7. /\ MINMAX(y, a, b)[a] = Less(y[a], y[b]) /\ MINMAX(y, a, b)[b] = More(y[a], y[b])
        /\ \A c \in Place : c # a /\ c # b => MINMAX(y, a, b)[c] = y[c]
    BY ONLY <1>3, ExchangeIs, y \in Numbers
  <1>8. f[k] = Layer(f[k - 1], p, d) /\ f[k - 1] \in Numbers /\ k - 1 \in 0 .. m - 1
    BY <1>2 DEF IsLayers
  <1> HIDE DEF p, d
  <1>9. f[k][a] = Less(f[k - 1][a], f[k - 1][b]) /\ f[k][b] = More(f[k - 1][a], f[k - 1][b])
    <2>1. d >= p
      BY <1>1
    <2>2. /\ Layer(f[k - 1], p, d)[i + p] = Less(f[k - 1][i + p], f[k - 1][i + d])
          /\ Layer(f[k - 1], p, d)[i + d] = More(f[k - 1][i + p], f[k - 1][i + d])
      BY <1>1, <1>3, <1>4, <1>8, <2>1, LayerIs
    <2> QED
      BY <1>3, <1>8, <2>2
  \* Where the two places compared were.
  <1>10. ASSUME NEW c \in {a, b}, NEW e \in 1 .. m - 1
         PROVE  /\ Settled(m, c, e, i, k) <=> e <= k - 1
                /\ Settled(m, c, e, i, k + 1) <=> e <= k
    <2>1. e \in Nat /\ c \in Place /\ c \in Nat
      BY <1>2, <1>3 DEF Place
    <2>2. From(m, c, e) = i \/ (From(m, c, e) = (i + d) - Distance(e))
      BY <1>3, <1>4, <1>5, <2>1
    <2>3. CASE From(m, c, e) = i
      BY <1>2, <2>1, <2>3 DEF Settled
    <2>4. CASE From(m, c, e) = (i + d) - Distance(e) /\ e = k
      <3>1. From(m, c, e) = i
        BY <1>1, <1>2, <2>4 DEF d
      <3> QED
        BY <1>2, <2>1, <3>1 DEF Settled
    <2>5. CASE From(m, c, e) = (i + d) - Distance(e) /\ e < k
      <3>1. Distance(e) > d /\ Distance(e) \in Nat /\ d > 0
        BY <1>1, <1>2, <2>5
      <3>2. From(m, c, e) < i
        BY <1>1, <1>2, <2>5, <3>1
      <3> QED
        BY <1>2, <2>1, <2>5, <3>2 DEF Settled
    <2>6. CASE From(m, c, e) = (i + d) - Distance(e) /\ e > k
      <3>1. Distance(e) < d /\ Distance(e) \in Nat
        BY <1>1, <1>2, <2>6
      <3>2. From(m, c, e) > i /\ From(m, c, e) \in Int
        BY <1>1, <1>2, <2>6, <3>1
      <3> QED
        BY <1>2, <2>1, <2>6, <3>2 DEF Settled
    <2> QED
      BY <1>2, <2>1, <2>2, <2>3, <2>4, <2>5, <2>6
  <1>11. y[a] = f[k - 1][a] /\ y[b] = f[k - 1][b]
    BY <1>3, <1>8, <1>10 DEF At
  <1>12. ASSUME NEW c \in Place, NEW l \in 0 .. m - 1,
                \A e \in 1 .. m - 1 : Settled(m, c, e, i, k + 1) <=> e <= l
         PROVE  z[c] = f[l][c]
    <2>1. CASE c \in {a, b}
      <3>1. \A e \in 1 .. m - 1 : e <= k <=> e <= l
        BY <1>10, <1>12, <2>1
      <3>2. l = k
        <4>1. k <= l
          BY <1>2, <3>1
        <4>2. l >= 1 => l <= k
          BY <1>2, <3>1
        <4> QED
          BY <1>2, <4>1, <4>2
      <3> QED
        BY <1>6, <1>7, <1>9, <1>11, <2>1, <3>2
    <2>2. CASE c \notin {a, b}
      <3>1. ASSUME NEW e \in 1 .. m - 1
            PROVE  Settled(m, c, e, i, k) <=> Settled(m, c, e, i, k + 1)
        <4>1. ~(From(m, c, e) = i /\ e = k)
          <5>1. c \in Nat
            BY <1>2 DEF Place
          <5>2. CASE Has(c, p)
            BY <1>1, <1>2, <1>3, <1>5, <2>2, <5>1, <5>2
          <5>3. CASE ~Has(c, p)
            BY <1>1, <1>2, <1>3, <1>5, <2>2, <5>1, <5>3 DEF d
          <5> QED
            BY <5>2, <5>3
        <4>2. e \in Nat /\ (e < k + 1 <=> (e < k \/ e = k))
          BY <1>2
        <4> QED
          BY <4>1, <4>2 DEF Settled
      <3>2. y[c] = f[l][c]
        BY <1>12, <3>1 DEF At
      <3> QED
        BY <1>6, <1>7, <2>2, <3>2
    <2> QED
      BY <2>1, <2>2
  <1> QED
    BY <1>12 DEF At, z

\* The step from one place to the next.
LEMMA NextPlace ==
    ASSUME NEW m \in 1 .. GFBITS, NEW f, NEW y, NEW i \in Place
    PROVE  /\ At(y, f, m, i, m) => At(y, f, m, i + 1, 1)
           /\ Has(i, Distance(m)) /\ At(y, f, m, i, 1) => At(y, f, m, i + 1, 1)
  <1>1. m \in Nat /\ m > 0 /\ N \in Nat /\ i \in Nat
    BY Distances DEF Place
  <1>2. ASSUME NEW c \in Place, NEW e \in 1 .. m - 1
        PROVE  /\ Settled(m, c, e, i, m) <=> Settled(m, c, e, i + 1, 1)
               /\ Has(i, Distance(m)) => (Settled(m, c, e, i, 1) <=> Settled(m, c, e, i + 1, 1))
    <2>1. From(m, c, e) \in Int /\ (From(m, c, e) \in Nat => ~Has(From(m, c, e), Distance(m)))
      BY FromIs
    <2>2. e \in Nat /\ e < m /\ ~(e < 1)
      BY <1>1
    <2>3. Has(i, Distance(m)) => From(m, c, e) # i
      BY <1>1, <2>1
    <2> HIDE DEF From
    <2>4. Settled(m, c, e, i, m) <=> From(m, c, e) <= i
      BY ONLY <1>1, <2>1, <2>2 DEF Settled
    <2>5. Settled(m, c, e, i + 1, 1) <=> From(m, c, e) <= i
      BY ONLY <1>1, <2>1, <2>2 DEF Settled
    <2>6. Settled(m, c, e, i, 1) <=> From(m, c, e) < i
      BY ONLY <1>1, <2>1, <2>2 DEF Settled
    <2> QED
      BY ONLY <1>1, <2>1, <2>3, <2>4, <2>5, <2>6
  <1>3. ASSUME At(y, f, m, i, m) PROVE At(y, f, m, i + 1, 1)
    BY <1>2, <1>3 DEF At
  <1>4. ASSUME Has(i, Distance(m)), At(y, f, m, i, 1) PROVE At(y, f, m, i + 1, 1)
    BY <1>2, <1>4 DEF At
  <1> QED
    BY <1>3, <1>4

\* The first distances, which lead out of the numbers, are left out.
LEMMA FirstDistance ==
    ASSUME NEW m \in 1 .. GFBITS, NEW x \in Numbers, NEW f, IsLayers(f, x, m),
           NEW i \in Place, NEW j \in 1 .. m - 1, i >= N - 2 * Distance(j),
           NEW y, At(y, f, m, i, 1)
    PROVE  At(y, f, m, i, j)
  <1>1. m \in Nat /\ j \in Nat /\ N \in Nat /\ i \in Nat /\ j \in 0 .. m
    BY Distances DEF Place
  <1>2. ASSUME NEW e \in 1 .. m - 1, e < j PROVE Distance(e) \in Nat /\ i + Distance(e) \notin Place
    <2>1. Distance(e) \in Nat /\ Distance(e) >= 2 * Distance(j) /\ Distance(j) \in Nat
      BY <1>2, DistanceShifts
    <2> QED
      BY <1>1, <2>1 DEF Place
  <1> SUFFICES ASSUME NEW c \in Place, NEW l \in 0 .. m - 1,
                      \A e \in 1 .. m - 1 : Settled(m, c, e, i, j) <=> e <= l
               PROVE  y[c] = f[l][c]
    BY DEF At
  <1>3. \A e \in 1 .. m - 1 : From(m, c, e) \in Int /\ e \in Nat /\ e >= 1
    BY FromIs
  <1>4. CASE \A e \in 1 .. m - 1 : From(m, c, e) # i
    <2>1. \A e \in 1 .. m - 1 : Settled(m, c, e, i, j) <=> Settled(m, c, e, i, 1)
      BY <1>4 DEF Settled
    <2> QED
      BY <2>1 DEF At
  <1>5. CASE Has(c, Distance(m)) /\ c - Distance(m) = i
    <2>1. \A e \in 1 .. m - 1 : From(m, c, e) = i
      BY <1>5 DEF From
    <2>2. \A e \in 1 .. m - 1 : (Settled(m, c, e, i, j) <=> e < j) /\ ~Settled(m, c, e, i, 1)
      BY <1>1, <1>3, <2>1 DEF Settled
    <2>3. l = j - 1
      <3>1. \A e \in 1 .. m - 1 : e < j <=> e <= l
        BY <2>2
      <3>2. l < j
        <4>1. l >= 1 => l < j
          BY <1>1, <3>1
        <4> QED
          BY <1>1, <4>1
      <3>3. j - 1 <= l
        <4>1. j - 1 >= 1 => j - 1 <= l
          BY <1>1, <3>1
        <4> QED
          BY <1>1, <4>1
      <3> QED
        BY <1>1, <3>2, <3>3
    <2>4. y[c] = f[0][c]
      <3>1. 0 \in 0 .. m - 1 /\ \A e \in 1 .. m - 1 : Settled(m, c, e, i, 1) <=> e <= 0
        BY <1>1, <1>3, <2>2
      <3> QED
        BY <3>1 DEF At
    <2>5. \A e \in 1 .. l : Idle(m, c, e)
      <3>1. \A e \in 1 .. l : e \in 1 .. m - 1 /\ e < j
        BY <1>1, <2>3
      <3> QED
        BY <1>2, <1>5, <3>1 DEF Idle
    <2>6. f[l][c] = f[0][c]
      BY <2>5, IdleStays
    <2> QED
      BY <2>4, <2>6
  <1>6. CASE ~Has(c, Distance(m)) /\ \E e \in 1 .. m - 1 : From(m, c, e) = i
    <2>1. ASSUME NEW e \in 1 .. m - 1, From(m, c, e) = i PROVE ~(e < j)
      <3>1. SUFFICES ASSUME e < j PROVE FALSE
        OBVIOUS
      <3>2. c - Distance(e) = i /\ c \in Nat
        BY <1>1, <1>6, <2>1 DEF From, Place
      <3>3. i + Distance(e) = c
        BY <1>1, <1>2, <3>1, <3>2
      <3> QED
        BY <1>2, <3>1, <3>3
    <2>2. \A e \in 1 .. m - 1 : Settled(m, c, e, i, j) <=> Settled(m, c, e, i, 1)
      BY <1>1, <1>3, <2>1 DEF Settled
    <2> QED
      BY <2>2 DEF At
  <1>7. Has(c, Distance(m)) => \A e \in 1 .. m - 1 : From(m, c, e) = c - Distance(m)
    BY DEF From
  <1> QED
    BY <1>4, <1>5, <1>6, <1>7

\* The loop over r for place i, which may have a bit that excludes it.
LEMMA SweepTurnKeepsAt ==
    ASSUME NEW S, Closed(S), NEW m \in 1 .. GFBITS, NEW x \in Numbers, NEW f, IsLayers(f, x, m),
           NEW j \in 1 .. m - 1, NEW i \in N - 2 * Distance(j) .. N - Distance(j) - 1,
           NEW y \in S, At(y, f, m, i, 1)
    PROVE  At(SweepTurn(m, j, y, i), f, m, i + 1, 1)
  <1>1. /\ m \in Nat /\ j \in Nat /\ N \in Nat /\ i \in Place /\ i + Distance(j) \in Place
        /\ j - 1 <= m - 1 /\ i \in Nat /\ i >= N - 2 * Distance(j)
    BY SweepRange DEF Place
  <1>2. CASE Has(i, Distance(m))
    BY <1>1, <1>2, NextPlace DEF SweepTurn
  <1>3. CASE ~Has(i, Distance(m))
    <2>1. SweepTurn(m, j, y, i) = Inserted(y, m, j, i)
      BY <1>3 DEF SweepTurn
    <2>2. PICK h \in [j - 1 .. m - 1 -> S] :
              /\ h[j - 1] = y /\ Inserted(y, m, j, i) = h[m - 1]
              /\ \A k \in j .. m - 1 : h[k] = InsertTurn(m, i, h[k - 1], k)
      BY <1>1, InsertedLoop
    <2> DEFINE T == {k \in j - 1 .. m - 1 : At(h[k], f, m, i, k + 1)}
               hi == m - 1
    <2>3. hi \in Int /\ j \in Int /\ j - 1 <= hi
      BY <1>1
    <2>4. j - 1 \in T
      <3>1. At(y, f, m, i, j) /\ (j - 1) + 1 = j /\ j - 1 \in j - 1 .. m - 1
        BY <1>1, FirstDistance
      <3> QED
        BY <2>2, <3>1
    <2>5. ASSUME NEW k \in j .. hi, k - 1 \in T PROVE k \in T
      <3> DEFINE g == h[k - 1]
      <3>1. k \in 1 .. m - 1 /\ k \in j - 1 .. m - 1 /\ k - 1 \in j - 1 .. m - 1 /\ (k - 1) + 1 = k
        BY <1>1
      <3>2. At(g, f, m, i, k)
        BY <2>5, <3>1
      <3>3. g \in Numbers /\ h[k] = InsertTurn(m, i, g, k)
        BY <2>2, <3>1 DEF Closed
      <3>4. i + Distance(k) \in Place
        <4>1. Distance(k) \in Nat /\ Distance(j) \in Nat /\ Distance(k) <= Distance(j)
          <5>1. k \in 1 .. GFBITS /\ j \in 1 .. k
            BY <1>1, <2>5, Distances
          <5> QED
            BY <5>1, DistanceFalls
        <4> QED
          BY <1>1, <4>1 DEF Place
      <3> HIDE DEF g
      <3>5. At(InsertTurn(m, i, g, k), f, m, i, k + 1)
        BY <1>1, <1>3, <3>1, <3>2, <3>3, <3>4, InsertKeepsAt
      <3> QED
        BY <3>1, <3>3, <3>5
    <2> HIDE DEF T, hi
    <2>6. \A k \in j - 1 .. hi : k \in T
      BY <2>3, <2>4, <2>5, Counting
    <2>7. At(h[hi], f, m, i, hi + 1)
      BY <2>3, <2>6 DEF T
    <2>8. At(h[m - 1], f, m, i, m)
      BY <1>1, <2>7 DEF hi
    <2> QED
      BY <1>1, <2>1, <2>2, <2>8, NextPlace
  <1> QED
    BY <1>2, <1>3

LEMMA SweptKeepsAt ==
    ASSUME NEW S, Closed(S), NEW m \in 1 .. GFBITS, NEW x \in Numbers, NEW f, IsLayers(f, x, m),
           NEW j \in 1 .. m - 1, NEW y \in S, At(y, f, m, N - 2 * Distance(j), 1)
    PROVE  Swept(y, m, j) \in S /\ At(Swept(y, m, j), f, m, N - Distance(j), 1)
  <1> DEFINE lo == N - 2 * Distance(j)
             hi == N - Distance(j) - 1
  <1>1. lo \in Nat /\ hi \in Nat /\ lo - 1 <= hi /\ hi + 1 = N - Distance(j)
    BY SweepRange
  <1>2. PICK h \in [lo - 1 .. hi -> S] :
            /\ h[lo - 1] = y /\ Swept(y, m, j) = h[hi]
            /\ \A i \in lo .. hi : h[i] = SweepTurn(m, j, h[i - 1], i)
    BY SweptLoop
  <1> DEFINE T == {i \in lo - 1 .. hi : At(h[i], f, m, i + 1, 1)}
  <1>3. lo - 1 \in T
    <2>1. (lo - 1) + 1 = lo /\ lo - 1 \in lo - 1 .. hi
      BY <1>1
    <2>2. At(h[lo - 1], f, m, lo, 1)
      BY <1>2
    <2> HIDE DEF lo, hi
    <2> QED
      BY <2>1, <2>2
  <1>4. ASSUME NEW i \in lo .. hi, i - 1 \in T PROVE i \in T
    <2> DEFINE g == h[i - 1]
    <2>1. i \in lo - 1 .. hi /\ i - 1 \in lo - 1 .. hi /\ (i - 1) + 1 = i
      BY <1>1
    <2>2. At(g, f, m, i, 1)
      BY <1>4, <2>1
    <2>3. g \in S /\ h[i] = SweepTurn(m, j, g, i)
      BY <1>2, <2>1
    <2> HIDE DEF g
    <2>4. At(SweepTurn(m, j, g, i), f, m, i + 1, 1)
      BY <2>2, <2>3, SweepTurnKeepsAt
    <2> QED
      BY <2>1, <2>3, <2>4
  <1> HIDE DEF T, lo, hi
  <1>5. \A i \in lo - 1 .. hi : i \in T
    BY <1>1, <1>3, <1>4, Counting
  <1>6. At(h[hi], f, m, hi + 1, 1) /\ h[hi] \in S
    BY <1>1, <1>2, <1>5 DEF T
  <1> QED
    BY <1>1, <1>2, <1>6

\* Before the first comparison, and after the last.
LEMMA AtStart ==
    ASSUME NEW m \in 1 .. GFBITS, NEW x \in Numbers, NEW f, IsLayers(f, x, m)
    PROVE  At(x, f, m, 0, 1)
  <1>1. m \in Nat /\ m > 0 /\ N \in Nat
    BY Distances
  <1> SUFFICES ASSUME NEW c \in Place, NEW l \in 0 .. m - 1,
                      \A e \in 1 .. m - 1 : Settled(m, c, e, 0, 1) <=> e <= l
               PROVE  x[c] = f[l][c]
    BY DEF At
  <1>2. \A e \in 1 .. m - 1 : From(m, c, e) \in Int /\ e \in Nat /\ ~(e < 1)
    BY FromIs
  <1>3. \A e \in 1 .. m - 1 : e <= l <=> From(m, c, e) < 0
    BY <1>2 DEF Settled
  <1>4. ASSUME NEW e \in 1 .. l PROVE Idle(m, c, e)
    <2>1. e \in 1 .. m - 1 /\ e <= l
      BY <1>1
    <2>2. From(m, c, e) < 0 /\ From(m, c, e) \in Int
      BY <1>2, <1>3, <2>1
    <2>3. ~Has(c, Distance(m))
      BY <2>1, <2>2, FromIs
    <2>4. c - Distance(e) < 0
      BY <2>2, <2>3 DEF From
    <2>5. Distance(e) \in Nat /\ c \in Nat
      BY <1>1, <2>1, DistanceShifts DEF Place
    <2> QED
      BY <2>3, <2>4, <2>5 DEF Idle, Place
  <1>5. f[l][c] = f[0][c]
    BY <1>4, IdleStays
  <1> QED
    BY <1>5 DEF IsLayers

LEMMA AtEnd ==
    ASSUME NEW m \in 1 .. GFBITS, NEW x \in Numbers, NEW f, IsLayers(f, x, m),
           NEW y \in Numbers, At(y, f, m, N - 2 * Distance(m), 1)
    PROVE  y = f[m - 1]
  <1>1. /\ m \in Nat /\ m > 0 /\ N \in Nat /\ Distance(m) \in Nat
        /\ 0 \in 0 .. m - 1 /\ m - 1 \in 0 .. m - 1
    BY Distances, DistanceInside
  <1>2. ASSUME NEW c \in Place PROVE y[c] = f[m - 1][c]
    <2>1. \A e \in 1 .. m - 1 : From(m, c, e) \in Int /\ e \in Nat /\ ~(e < 1) /\ e <= m - 1 /\ ~(e <= 0)
      BY <1>1, FromIs
    <2>2. CASE \A e \in 1 .. m - 1 : From(m, c, e) < N - 2 * Distance(m)
      <3>1. \A e \in 1 .. m - 1 : Settled(m, c, e, N - 2 * Distance(m), 1) <=> e <= m - 1
        BY <2>1, <2>2 DEF Settled
      <3> QED
        BY <1>1, <3>1 DEF At
    <2>3. CASE ~\A e \in 1 .. m - 1 : From(m, c, e) < N - 2 * Distance(m)
      <3>1. PICK d \in 1 .. m - 1 : ~(From(m, c, d) < N - 2 * Distance(m))
        BY <2>3
      <3>2. Has(c, Distance(m))
        BY <3>1, FromIs
      <3>3. c - Distance(m) >= N - 2 * Distance(m) /\ c \in Nat
        BY <1>1, <2>1, <3>1, <3>2 DEF From, Place
      <3>4. \A e \in 1 .. m - 1 : ~Settled(m, c, e, N - 2 * Distance(m), 1)
        <4> TAKE e \in 1 .. m - 1
        <4>1. From(m, c, e) = c - Distance(m) /\ ~(e < 1)
          BY <2>1, <3>2 DEF From
        <4> QED
          BY <1>1, <3>3, <4>1 DEF Settled
      <3>5. \A e \in 1 .. m - 1 : Settled(m, c, e, N - 2 * Distance(m), 1) <=> e <= 0
        BY <2>1, <3>4
      <3>6. y[c] = f[0][c]
        BY <1>1, <3>5 DEF At
      <3>7. \A e \in 1 .. m - 1 : Idle(m, c, e)
        <4> TAKE e \in 1 .. m - 1
        <4>1. Distance(e) \in Nat /\ Distance(e) >= 2 * Distance(m)
          BY DistanceShifts
        <4>2. (c - Distance(m)) + Distance(e) >= N
          BY <1>1, <3>3, <4>1
        <4> QED
          BY <1>1, <3>2, <3>3, <4>1, <4>2 DEF Idle, Place
      <3>8. f[m - 1][c] = f[0][c]
        BY <1>1, <3>7, IdleStays
      <3> QED
        BY <3>6, <3>8
    <2> QED
      BY <2>2, <2>3
  <1>3. f[m - 1] \in Numbers
    BY <1>1 DEF IsLayers
  <1> QED
    BY <1>2, <1>3 DEF Numbers

\* A merge: what is at distance p is in order after it.
LEMMA MergedIs ==
    ASSUME NEW S, Closed(S), NEW m \in 1 .. GFBITS, NEW x \in S, NEW f, IsLayers(f, x, m)
    PROVE  Merged(x, m) \in S /\ Merged(x, m) = f[m - 1]
  <1>0. m \in Nat /\ m > 0 /\ GFBITS \in Nat /\ N \in Nat /\ x \in Numbers
    BY Distances DEF Closed
  <1>1. PICK h \in [1 - 1 .. m - 1 -> S] :
            /\ h[1 - 1] = x /\ Merged(x, m) = h[m - 1]
            /\ \A j \in 1 .. m - 1 : h[j] = Swept(h[j - 1], m, j)
    BY MergedLoop
  <1> DEFINE lo == 1
             hi == m - 1
             T == {j \in lo - 1 .. hi : At(h[j], f, m, N - Distance(j), 1)}
  <1>2. lo \in Int /\ hi \in Int /\ lo - 1 <= hi
    BY <1>0
  <1>3. lo - 1 \in T
    <2>1. N - Distance(0) = 0
      BY <1>0, Distances
    <2>2. At(x, f, m, 0, 1)
      BY <1>0, AtStart
    <2> QED
      BY <1>0, <1>1, <2>1, <2>2
  <1>4. ASSUME NEW j \in lo .. hi, j - 1 \in T PROVE j \in T
    <2> DEFINE g == h[j - 1]
    <2>1. j \in 1 .. m - 1 /\ j \in lo - 1 .. hi /\ j - 1 \in lo - 1 .. hi /\ j \in 1 .. GFBITS
      BY <1>0
    <2>2. Distance(j - 1) = 2 * Distance(j)
      BY <2>1, Distances
    <2>3. At(g, f, m, N - 2 * Distance(j), 1)
      BY <1>4, <2>2
    <2>4. g \in S /\ h[j] = Swept(g, m, j)
      BY <1>1, <2>1
    <2> HIDE DEF g
    <2>5. At(Swept(g, m, j), f, m, N - Distance(j), 1)
      BY <1>0, <2>1, <2>3, <2>4, SweptKeepsAt
    <2> QED
      BY <2>1, <2>4, <2>5
  <1> HIDE DEF T, lo, hi
  <1>5. \A j \in lo - 1 .. hi : j \in T
    BY <1>2, <1>3, <1>4, Counting
  <1>6. At(h[m - 1], f, m, N - Distance(m - 1), 1) /\ h[m - 1] \in S
    BY <1>0, <1>1, <1>2, <1>5 DEF T, lo, hi
  <1>7. Distance(m - 1) = 2 * Distance(m)
    BY Distances
  <1>8. h[m - 1] = f[m - 1]
    <2>1. h[m - 1] \in Numbers
      BY <1>6 DEF Closed
    <2> QED
      BY <1>0, <1>6, <1>7, <2>1, AtEnd
  <1> QED
    BY <1>1, <1>6, <1>8

----------------------------------------------------------------------------
(* The whole sort: after the m-th half the numbers at that distance are in  *)
(* order, and after the last, which is 1, all are.                          *)

Multiples(p) == {u * p : u \in Nat}
InOrder(y, p) == \A i \in Place : \A s \in Multiples(p) : i + s \in Place => y[i] <= y[i + s]

LEMMA OrderedIsInOrder ==
    ASSUME NEW p \in Nat, p > 0, NEW y \in Numbers, Ordered(y, p, 2 * p)
    PROVE  InOrder(y, p)
  <1>0. N \in Nat
    BY Distances
  <1>1. \A i \in Place : i \in Nat /\ y[i] \in Nat
    BY <1>0 DEF Place, Numbers
  <1>2. ASSUME NEW i \in Place, i + p \in Place PROVE y[i] <= y[i + p]
    <2>1. CASE ~Has(i, p)
      BY <1>2, <2>1 DEF Ordered
    <2>2. CASE Has(i, p)
      <3> DEFINE a == i - p
      <3>1. a \in Nat /\ ~Has(a, p) /\ a + p = i /\ a + 2 * p = i + p
        <4>1. i \in Nat
          BY <1>1
        <4>2. a \in Nat /\ ~Has(a, p)
          BY <2>2, <4>1, HasShifted
        <4> QED
          BY <4>1, <4>2
      <3>2. a \in Place
        BY <1>0, <3>1 DEF Place
      <3> HIDE DEF a
      <3> QED
        BY <1>2, <3>1, <3>2 DEF Ordered
    <2> QED
      BY <2>1, <2>2
  <1> SUFFICES ASSUME NEW i \in Place, NEW u \in Nat, i + u * p \in Place
               PROVE  y[i] <= y[i + u * p]
    BY DEF InOrder, Multiples
  <1>3. u * p \in Nat
    OBVIOUS
  <1>4. \E v \in Nat : u = 2 * v \/ u = 2 * v + 1
    <2>1. u \div 2 \in Nat /\ (u = 2 * (u \div 2) \/ u = 2 * (u \div 2) + 1)
      OBVIOUS
    <2> QED
      BY <2>1
  <1>5. PICK v \in Nat : u = 2 * v \/ u = 2 * v + 1
    BY <1>4
  <1>6. v * p \in Nat /\ 2 * (v * p) \in Shifts(p)
    BY DEF Shifts
  <1>7. CASE u = 2 * v
    <2>1. u * p = 2 * (v * p)
      BY <1>7
    <2> QED
      BY <1>6, <2>1 DEF Ordered, InSteps
  <1>8. CASE u = 2 * v + 1
    <2>1. u * p = 2 * (v * p) + p
      BY <1>8
    <2>2. i + u * p = (i + p) + 2 * (v * p) /\ i \in Nat
      BY <1>1, <1>6, <2>1
    <2>3. i + p \in Place
      BY <1>0, <1>6, <2>2 DEF Place
    <2>4. y[i + p] <= y[(i + p) + 2 * (v * p)]
      BY <1>6, <2>2, <2>3 DEF Ordered, InSteps
    <2>5. y[i] <= y[i + p]
      BY <1>2, <2>3
    <2>6. y[i] \in Nat /\ y[i + p] \in Nat /\ y[i + u * p] \in Nat
      BY <1>1, <2>3
    <2> QED
      BY <2>2, <2>4, <2>5, <2>6
  <1> QED
    BY <1>5, <1>7, <1>8

LEMMA StageOrders ==
    ASSUME NEW S, Closed(S), NEW m \in 1 .. GFBITS, NEW x \in S, InOrder(x, Distance(m - 1))
    PROVE  /\ Merged(Compared(x, m), m) \in S
           /\ InOrder(Merged(Compared(x, m), m), Distance(m))
  <1> DEFINE y == Compared(x, m)
             p == Distance(m)
  <1>1. p \in Nat /\ p > 0 /\ Distance(m - 1) = 2 * p /\ x \in Numbers
    BY Distances, DistanceInside DEF Closed
  <1>2. y \in S /\ FirstPass(y, x, p)
    BY ComparedIs
  <1>3. y \in Numbers
    BY <1>2 DEF Closed
  <1>4. InSteps(x, p)
    <2>1. Shifts(p) \subseteq Multiples(2 * p)
      <3> SUFFICES ASSUME NEW u \in Nat PROVE 2 * (u * p) \in Multiples(2 * p)
        BY DEF Shifts
      <3>1. 2 * (u * p) = u * (2 * p)
        BY <1>1
      <3> QED
        BY <3>1 DEF Multiples
    <2>2. InOrder(x, 2 * p)
      BY <1>1
    <2> QED
      BY <2>1, <2>2 DEF InSteps, InOrder
  <1> HIDE DEF y
  <1>5. PICK f : IsLayers(f, y, m)
    BY <1>3, LayersExist
  <1>6. Merged(y, m) \in S /\ Merged(y, m) = f[m - 1]
    BY <1>2, <1>5, MergedIs
  <1>7. Ordered(y, p, N)
    <2> HIDE DEF p
    <2> QED
      BY <1>1, <1>2, <1>3, <1>4, FirstPassOrders
  <1>8. Ordered(f[m - 1], p, 2 * p)
    BY <1>3, <1>5, <1>7, LayersOrder
  <1>9. f[m - 1] \in Numbers
    BY <1>6 DEF Closed
  <1> HIDE DEF p
  <1>10. InOrder(f[m - 1], p)
    BY <1>1, <1>8, <1>9, OrderedIsInOrder
  <1> QED
    BY <1>6, <1>10 DEF y, p

LEMMA SortSorts ==
    ASSUME NEW S, Closed(S), NEW x \in S
    PROVE  /\ uint64_sort(x) \in S
           /\ \A i, j \in Place : i <= j => uint64_sort(x)[i] <= uint64_sort(x)[j]
  <1>0. GFBITS \in Nat /\ GFBITS > 0 /\ N \in Nat
    BY Distances
  <1>1. PICK h \in [1 - 1 .. GFBITS -> S] :
            /\ h[1 - 1] = x /\ uint64_sort(x) = h[GFBITS]
            /\ \A m \in 1 .. GFBITS : h[m] = Merged(Compared(h[m - 1], m), m)
    BY SortLoop
  <1> DEFINE lo == 1
             T == {m \in lo - 1 .. GFBITS : InOrder(h[m], Distance(m))}
  <1>2. lo \in Int /\ GFBITS \in Int /\ lo - 1 <= GFBITS
    BY <1>0
  <1>3. lo - 1 \in T
    <2>1. x \in Numbers /\ Distance(0) = N
      BY Distances DEF Closed
    <2>2. ASSUME NEW i \in Place, NEW s \in Multiples(N), i + s \in Place PROVE x[i] <= x[i + s]
      <3>1. PICK u \in Nat : s = u * N
        BY DEF Multiples
      <3>2. x[i] \in Nat /\ i \in Nat
        BY <2>1, <1>0 DEF Numbers, Place
      <3>3. CASE u = 0
        <4>1. i + s = i
          BY <1>0, <3>1, <3>2, <3>3
        <4> QED
          BY <3>2, <4>1
      <3>4. CASE u # 0
        <4>1. ASSUME NEW a \in Nat, NEW b \in Nat, b # 0 PROVE b * a >= a
          BY <4>1
        <4>2. s >= N /\ s \in Nat
          BY <1>0, <3>1, <3>4, <4>1
        <4> QED
          BY <1>0, <2>2, <3>2, <4>2 DEF Place
      <3> QED
        BY <3>3, <3>4
    <2>3. InOrder(x, N)
      BY <2>2 DEF InOrder
    <2> QED
      BY <1>0, <1>1, <2>1, <2>3
  <1>4. ASSUME NEW m \in lo .. GFBITS, m - 1 \in T PROVE m \in T
    <2> DEFINE g == h[m - 1]
    <2>1. m \in 1 .. GFBITS /\ m \in lo - 1 .. GFBITS /\ m - 1 \in lo - 1 .. GFBITS
      BY <1>0
    <2>2. g \in S /\ h[m] = Merged(Compared(g, m), m) /\ InOrder(g, Distance(m - 1))
      BY <1>1, <1>4, <2>1
    <2> HIDE DEF g
    <2>3. InOrder(Merged(Compared(g, m), m), Distance(m))
      BY <2>1, <2>2, StageOrders
    <2> QED
      BY <2>1, <2>2, <2>3
  <1> HIDE DEF T, lo
  <1>5. \A m \in lo - 1 .. GFBITS : m \in T
    BY <1>2, <1>3, <1>4, Counting
  <1>6. InOrder(h[GFBITS], 1) /\ h[GFBITS] \in S
    BY <1>0, <1>1, <1>2, <1>5, Distances DEF T
  <1>7. ASSUME NEW i \in Place, NEW j \in Place, i <= j PROVE h[GFBITS][i] <= h[GFBITS][j]
    <2>1. i \in Nat /\ j - i \in Nat /\ i + (j - i) = j /\ (j - i) * 1 = j - i
      BY <1>0, <1>7 DEF Place
    <2>2. j - i \in Multiples(1)
      BY <2>1 DEF Multiples
    <2> QED
      BY <1>6, <2>1, <2>2 DEF InOrder
  <1> QED
    BY <1>1, <1>6, <1>7

Orders == {p \in [Place -> Place] : \A c \in Place : \E i \in Place : p[i] = c}
Rearranged(x) == {[i \in Place |-> x[p[i]]] : p \in Orders}

LEMMA RearrangedClosed ==
    ASSUME NEW x \in Numbers
    PROVE  Closed(Rearranged(x)) /\ x \in Rearranged(x)
  <1>1. \A p \in Orders : p \in [Place -> Place] /\ \A c \in Place : \E i \in Place : p[i] = c
    BY DEF Orders
  <1>2. Rearranged(x) \subseteq Numbers
    BY <1>1 DEF Rearranged, Numbers
  <1>3. ASSUME NEW y \in Rearranged(x), NEW a \in Place, NEW b \in Place
        PROVE  MINMAX(y, a, b) \in Rearranged(x)
    <2>1. PICK p \in Orders : y = [i \in Place |-> x[p[i]]]
      BY DEF Rearranged
    <2> DEFINE q == [i \in Place |-> IF i = a THEN p[b] ELSE IF i = b THEN p[a] ELSE p[i]]
               z == [y EXCEPT ![a] = y[b], ![b] = y[a]]
    <2>2. q \in [Place -> Place]
      BY <1>1
    <2>3. ASSUME NEW c \in Place PROVE \E i \in Place : q[i] = c
      <3>1. PICK i \in Place : p[i] = c
        BY <1>1
      <3>2. q[a] = p[b] /\ (a # b => q[b] = p[a]) /\ (i # a /\ i # b => q[i] = p[i])
        OBVIOUS
      <3> HIDE DEF q
      <3> QED
        BY <3>1, <3>2
    <2>4. q \in Orders
      BY <2>2, <2>3 DEF Orders
    <2>5. z = [i \in Place |-> x[q[i]]]
      <3>1. y \in [Place -> Nat] /\ \A i \in Place : y[i] = x[p[i]]
        BY <1>2, <2>1 DEF Numbers
      <3>2. z \in [Place -> Nat] /\ \A i \in Place : z[i] = IF i = b THEN y[a] ELSE IF i = a THEN y[b] ELSE y[i]
        BY <3>1
      <3>3. \A i \in Place : z[i] = x[q[i]]
        BY <3>1, <3>2
      <3> HIDE DEF z, q
      <3> QED
        BY <3>2, <3>3
    <2>6. z \in Rearranged(x)
      BY <2>4, <2>5 DEF Rearranged
    <2>7. MINMAX(y, a, b) = IF y[b] < y[a] THEN z ELSE y
      BY DEF MINMAX
    <2> HIDE DEF z
    <2> QED
      BY <2>6, <2>7
  <1>4. x \in Rearranged(x)
    <2> DEFINE p == [i \in Place |-> i]
    <2>1. p \in Orders
      BY DEF Orders
    <2>2. x = [i \in Place |-> x[p[i]]]
      BY DEF Numbers
    <2> HIDE DEF p
    <2> QED
      BY <2>1, <2>2 DEF Rearranged
  <1> QED
    BY <1>2, <1>3, <1>4 DEF Closed

\* uint64_sort rearranges any numbers so that they do not fall, for every power of two
\* of them.
THEOREM SortOrders ==
    ASSUME NEW x \in [Place -> Nat]
    PROVE  /\ \A i, j \in Place : i <= j => uint64_sort(x)[i] <= uint64_sort(x)[j]
           /\ \E p \in [Place -> Place] :
                 /\ \A c \in Place : \E i \in Place : p[i] = c
                 /\ uint64_sort(x) = [i \in Place |-> x[p[i]]]
  <1>1. x \in Numbers
    BY DEF Numbers
  <1>2. Closed(Rearranged(x)) /\ x \in Rearranged(x)
    BY <1>1, RearrangedClosed
  <1>3. /\ uint64_sort(x) \in Rearranged(x)
        /\ \A i, j \in Place : i <= j => uint64_sort(x)[i] <= uint64_sort(x)[j]
    BY <1>2, SortSorts
  <1>4. PICK p \in Orders : uint64_sort(x) = [i \in Place |-> x[p[i]]]
    BY <1>3 DEF Rearranged
  <1> QED
    BY <1>3, <1>4 DEF Orders

----------------------------------------------------------------------------
(* The permutation of a key: the i-th place is that of the number with i    *)
(* smaller ones.                                                            *)

\* The numbers of x, which are different, in another order.
Arrangements(x) ==
    {y \in Numbers :
        /\ \A v \in Nat : (\E a \in Place : y[a] = v) <=> (\E a \in Place : x[a] = v)
        /\ \A a, b \in Place : y[a] = y[b] => a = b}

LEMMA ArrangementsClosed ==
    ASSUME NEW x
    PROVE  Closed(Arrangements(x))
  <1>1. Arrangements(x) \subseteq Numbers
    BY DEF Arrangements
  <1> SUFFICES ASSUME NEW y \in Arrangements(x), NEW a \in Place, NEW b \in Place
               PROVE  MINMAX(y, a, b) \in Arrangements(x)
    BY <1>1 DEF Closed
  <1> DEFINE z == MINMAX(y, a, b)
  <1>2. y \in Numbers /\ \A c \in Place : y[c] \in Nat
    BY <1>1 DEF Numbers
  <1>3. CASE y[b] < y[a]
    <2>1. a # b
      BY <1>2, <1>3
    <2>2. /\ z \in Numbers /\ z[a] = y[b] /\ z[b] = y[a]
          /\ \A c \in Place : c # a /\ c # b => z[c] = y[c]
      BY <1>2, <1>3, <2>1 DEF MINMAX, Numbers
    <2> HIDE DEF z
    <2>3. \A v \in Nat : (\E c \in Place : z[c] = v) <=> (\E c \in Place : y[c] = v)
      <3> TAKE v \in Nat
      <3>1. ASSUME NEW c \in Place, z[c] = v PROVE \E d \in Place : y[d] = v
        BY <2>2, <3>1
      <3>2. ASSUME NEW c \in Place, y[c] = v PROVE \E d \in Place : z[d] = v
        BY <2>2, <3>2
      <3> QED
        BY <3>1, <3>2
    <2>4. \A c, d \in Place : z[c] = z[d] => c = d
      BY <2>2 DEF Arrangements
    <2> QED
      BY <2>2, <2>3, <2>4 DEF Arrangements, z
  <1>4. CASE ~(y[b] < y[a])
    <2>1. z = y
      BY <1>4 DEF MINMAX
    <2> QED
      BY <2>1
  <1> QED
    BY <1>3, <1>4

\* The number and the place in what is sorted.
LEMMA Packed ==
    ASSUME NEW v \in Nat, NEW i \in Place
    PROVE  v * N + i \in Nat /\ (v * N + i) \div N = v /\ (v * N + i) % N = i
  <1>1. N \in Nat /\ N > 0 /\ i \in Nat /\ i < N
    BY Distances DEF Place
  <1>2. ASSUME NEW n \in Nat, n > 0, NEW low \in Nat, low < n
        PROVE  v * n + low \in Nat /\ (v * n + low) \div n = v /\ (v * n + low) % n = low
    BY <1>2
  <1> QED
    BY <1>1, <1>2

LEMMA PermutationRanks ==
    ASSUME NEW values \in [Place -> Nat], PermutationOf(values) # Failure
    PROVE  /\ PermutationOf(values) \in [Place -> Place]
           /\ \A i \in Place :
                 Cardinality({k \in Place : values[k] < values[PermutationOf(values)[i]]}) = i
  <1> DEFINE x == [i \in 0 .. N - 1 |-> values[i] * N + i]
             buf == uint64_sort(x)
  <1>0. N \in Nat /\ N > 0 /\ Place = 0 .. N - 1
    BY Distances DEF Place
  <1>1. \A i \in Place : x[i] = values[i] * N + i
    BY <1>0
  <1>2. \A i \in Place : x[i] \in Nat /\ x[i] \div N = values[i] /\ x[i] % N = i
    <2> TAKE i \in Place
    <2>1. values[i] \in Nat
      OBVIOUS
    <2> QED
      BY <1>1, <2>1, Packed
  <1>3. x \in Numbers
    BY <1>0, <1>2 DEF Numbers
  <1>4. PermutationOf(values) = IF \E i \in 1 .. N - 1 : buf[i - 1] \div N = buf[i] \div N THEN Failure
                                ELSE [i \in 0 .. N - 1 |-> buf[i] % N]
    BY DEF PermutationOf
  <1> HIDE DEF x, buf
  <1>5. x \in Arrangements(x)
    <2>1. \A a, b \in Place : x[a] = x[b] => a = b
      BY <1>2
    <2> QED
      BY <1>3, <2>1 DEF Arrangements
  <1>6. buf \in Arrangements(x) /\ \A i, j \in Place : i <= j => buf[i] <= buf[j]
    <2>1. Closed(Arrangements(x))
      BY ArrangementsClosed
    <2> QED
      BY <1>5, <2>1, SortSorts DEF buf
  <1>7. /\ \A i \in 1 .. N - 1 : buf[i - 1] \div N # buf[i] \div N
        /\ PermutationOf(values) = [i \in Place |-> buf[i] % N]
    BY <1>0, <1>4
  <1> DEFINE at == [i \in Place |-> buf[i] % N]
  \* What is at each place of buf is of one place of values.
  <1>8. ASSUME NEW i \in Place
        PROVE  /\ at[i] \in Place /\ buf[i] = x[at[i]] /\ buf[i] \in Nat
               /\ buf[i] \div N = values[at[i]]
    <2>1. buf[i] \in Nat
      BY <1>6 DEF Arrangements, Numbers
    <2>2. PICK a \in Place : x[a] = buf[i]
      BY <1>6, <2>1 DEF Arrangements
    <2>3. at[i] = a
      BY <1>2, <2>2
    <2> QED
      BY <1>2, <2>1, <2>2, <2>3
  <1>9. at \in [Place -> Place]
    BY <1>8
  <1>10. \A i, j \in Place : at[i] = at[j] => i = j
    BY <1>6, <1>8 DEF Arrangements
  <1>11. \A k \in Place : \E i \in Place : at[i] = k
    <2> TAKE k \in Place
    <2>1. x[k] \in Nat
      BY <1>2
    <2>2. PICK i \in Place : buf[i] = x[k]
      BY <1>6, <2>1 DEF Arrangements
    <2>3. at[i] = k
      BY <1>2, <2>2
    <2> QED
      BY <2>3
  <1> DEFINE q == [i \in Place |-> buf[i] \div N]
  <1>12. \A i \in Place : q[i] = values[at[i]] /\ q[i] \in Nat
    BY <1>8
  \* The numbers, in the order of buf, increase.
  <1>13. ASSUME NEW i \in Place, NEW j \in Place, i <= j PROVE q[i] <= q[j]
    <2>1. buf[i] <= buf[j] /\ buf[i] \in Nat /\ buf[j] \in Nat
      BY <1>6, <1>8, <1>13
    <2>2. ASSUME NEW n \in Nat, n > 0, NEW a \in Nat, NEW b \in Nat, a <= b PROVE a \div n <= b \div n
      BY <2>2
    <2> QED
      BY <1>0, <2>1, <2>2
  <1>14. \A i \in 1 .. N - 1 : q[i - 1] # q[i]
    <2> TAKE i \in 1 .. N - 1
    <2>1. i \in Place /\ i - 1 \in Place
      BY <1>0
    <2> QED
      BY <1>7, <2>1
  <1> HIDE DEF at, q
  <1>15. ASSUME NEW i \in Place, NEW j \in Place, i < j PROVE q[i] < q[j]
    <2>1. /\ i + 1 \in Place /\ i + 1 \in 1 .. N - 1 /\ (i + 1) - 1 = i /\ i <= i + 1 /\ i + 1 <= j
      BY <1>0, <1>15
    <2>2. q[i] <= q[i + 1] /\ q[i + 1] <= q[j] /\ q[i] # q[i + 1]
      BY <1>13, <1>14, <2>1
    <2>3. q[i] \in Nat /\ q[i + 1] \in Nat /\ q[j] \in Nat
      BY <1>12, <2>1
    <2> QED
      BY <2>2, <2>3
  <1>16. ASSUME NEW i \in Place
         PROVE  Cardinality({k \in Place : values[k] < values[at[i]]}) = i
    <2> DEFINE U == {k \in Place : values[k] < values[at[i]]}
               L == 0 .. i - 1
               g == [j \in L |-> at[j]]
    <2>1. i \in Nat /\ L \subseteq Place /\ \A j \in Place : j \in Nat /\ (j \in L <=> j < i)
      BY <1>0
    <2>2. \A j \in Place : values[at[j]] < values[at[i]] <=> j < i
      <3> TAKE j \in Place
      <3>1. CASE j < i
        BY <1>12, <1>15, <3>1
      <3>2. CASE ~(j < i)
        <4>1. i <= j
          BY <2>1, <3>2
        <4>2. q[i] <= q[j] /\ q[i] \in Nat /\ q[j] \in Nat
          BY <1>12, <1>13, <4>1
        <4>3. ~(q[j] < q[i])
          BY <4>2
        <4> QED
          BY <1>12, <3>2, <4>3
      <3> QED
        BY <3>1, <3>2
    <2>3. \A j \in L : g[j] = at[j] /\ j \in Place /\ at[j] \in U
      BY <1>9, <2>1, <2>2
    <2>4. \A k \in U : \E j \in L : g[j] = k
      <3> TAKE k \in U
      <3>1. PICK j \in Place : at[j] = k
        BY <1>11
      <3>2. j < i
        BY <2>2, <3>1
      <3> QED
        BY <2>1, <3>1, <3>2
    <2>5. g \in [L -> U]
      BY <2>3
    <2> HIDE DEF g, U, L
    <2>6. \A a, b \in L : g[a] = g[b] => a = b
      BY <1>10, <2>3
    <2>7. g \in Injection(L, U)
      BY <2>5, <2>6, Zenon DEF Injection, IsInjective
    <2>8. g \in Surjection(L, U)
      BY <2>4, <2>5, Zenon DEF Surjection
    <2>9. ExistsBijection(L, U)
      BY <2>7, <2>8, Zenon DEF Bijection, ExistsBijection
    <2>10. IsFiniteSet(L) /\ Cardinality(L) = i
      <3>1. 0 \in Int /\ i - 1 \in Int
        BY <2>1
      <3>2. IsFiniteSet(0 .. i - 1) /\ Cardinality(0 .. i - 1) = IF 0 > i - 1 THEN 0 ELSE i - 1 - 0 + 1
        BY <3>1, FS_Interval
      <3> QED
        BY <2>1, <3>2 DEF L
    <2> QED
      BY <2>9, <2>10, FS_Bijection DEF U
  <1> QED
    BY <1>7, <1>9, <1>16 DEF at


----------------------------------------------------------------------------
(* The Benes network.  Places are written in words of W bits.               *)

LEMMA Halving ==
    /\ Side \in Nat /\ Side > 0 /\ GFBITS = Side + Side /\ GFBITS \in Nat
    /\ W \in Nat /\ W > 0 /\ N = W * W /\ N \in Nat /\ N > 0
    /\ W \div 2 \in Nat /\ W = 2 * (W \div 2) /\ N \div 2 = W * (W \div 2)
  <1>1. GFBITS \in Nat /\ GFBITS > 1 /\ GFBITS % 2 = 0
    BY FieldSizes, BenesSizes
  <1>2. Side \in Nat /\ Side > 0 /\ GFBITS = Side + Side
    BY <1>1 DEF Side
  <1>3. W \in Nat /\ W > 0
    BY <1>2, TwoPower DEF W
  <1>4. N = W * W
    BY <1>2, TwoSum DEF W, N
  <1>5. N \in Nat /\ N > 0
    BY Distances
  <1>6. PICK h \in Nat : W = 2 * h
    <2>1. Side - 1 \in Nat /\ (Side - 1) + 1 = Side
      BY <1>2
    <2>2. 2^Side = 2 * 2^(Side - 1) /\ 2^(Side - 1) \in Nat
      BY <2>1, TwoDoubles, TwoPower
    <2> QED
      BY <2>2 DEF W
  <1>7. W \div 2 = h
    BY <1>6
  <1>8. N \div 2 = W * h
    <2>1. W * (2 * h) = 2 * (W * h) /\ W * h \in Nat
      BY <1>3, <1>6
    <2>2. \A n \in Nat : (2 * n) \div 2 = n
      OBVIOUS
    <2> QED
      BY <1>4, <1>6, <2>1, <2>2
  <1> QED
    BY <1>1, <1>2, <1>3, <1>4, <1>5, <1>6, <1>7, <1>8

LEMMA Division ==
    ASSUME NEW n \in Nat, n > 0, NEW q \in Nat, NEW low \in Nat, low < n
    PROVE  (n * q + low) \div n = q /\ (n * q + low) % n = low /\ n * q + low \in Nat
  OBVIOUS

LEMMA Divided ==
    ASSUME NEW n \in Nat, n > 0, NEW k \in Nat
    PROVE  k = n * (k \div n) + (k % n) /\ k \div n \in Nat /\ k % n \in Nat /\ k % n < n
  OBVIOUS

\* Division by a product.
LEMMA DividedTwice ==
    ASSUME NEW n \in Nat, n > 0, NEW m \in Nat, m > 0, NEW k \in Nat
    PROVE  /\ k \div (n * m) = (k \div n) \div m
           /\ k % (n * m) = n * ((k \div n) % m) + (k % n)
  <1> DEFINE a == k \div n
             low == k % n
             b == a \div m
             s == a % m
  <1>1. k = n * a + low /\ a \in Nat /\ low \in Nat /\ low < n
    BY Divided
  <1> HIDE DEF a, low
  <1>2. a = m * b + s /\ b \in Nat /\ s \in Nat /\ s < m
    BY <1>1, Divided
  <1> HIDE DEF b, s
  <1>3. n * (m * b + s) = (n * m) * b + n * s /\ n * m \in Nat /\ n * m > 0 /\ n * s \in Nat
    BY <1>2
  <1>4. k = (n * m) * b + (n * s + low)
    BY <1>1, <1>2, <1>3
  <1>5. n * s + low < n * m
    <2>1. s + 1 <= m /\ s + 1 \in Nat
      BY <1>2
    <2>2. ASSUME NEW u \in Nat, NEW v \in Nat, u <= v PROVE n * u <= n * v
      BY <2>2
    <2>3. n * (s + 1) <= n * m /\ n * (s + 1) = n * s + n
      BY <1>2, <2>1, <2>2
    <2> QED
      BY <1>1, <1>3, <2>3
  <1>6. k \div (n * m) = b /\ k % (n * m) = n * s + low
    <2> DEFINE p == n * m
               v == n * s + low
    <2>1. p \in Nat /\ p > 0 /\ v \in Nat /\ v < p /\ k = p * b + v
      BY <1>1, <1>3, <1>4, <1>5
    <2> HIDE DEF p, v
    <2>2. k \div p = b /\ k % p = v
      BY <1>2, <2>1, Division
    <2> QED
      BY <2>2 DEF p, v
  <1> QED
    BY <1>6 DEF a, low, b, s

\* A lower power of two divides a power of two.
LEMMA PowerInside ==
    ASSUME NEW w \in Nat, NEW d \in 0 .. w - 1
    PROVE  /\ 2^w \in Nat /\ 2^d \in Nat /\ 2^d > 0
           /\ \E t \in Nat : t > 0 /\ 2^w = 2^d * (2 * t) /\ (2^w) \div 2 = 2^d * t
  <1> DEFINE e == (w - 1) - d
  <1>1. w \in Nat /\ d \in Nat /\ e \in Nat /\ w = (d + e) + 1 /\ d + e \in Nat
    OBVIOUS
  <1> HIDE DEF e
  <1>2. 2^((d + e) + 1) = 2 * 2^(d + e)
    BY <1>1, TwoDoubles
  <1>3. 2^(d + e) = 2^d * 2^e
    BY <1>1, TwoSum
  <1>4. 2^d \in Nat /\ 2^d > 0 /\ 2^e \in Nat /\ 2^e > 0
    BY <1>1, TwoPower
  <1> DEFINE a == 2^d
             b == 2^e
             p == 2^w
  <1>5. p = 2 * (a * b) /\ a \in Nat /\ b \in Nat /\ b > 0 /\ a > 0
    BY <1>1, <1>2, <1>3, <1>4
  <1> HIDE DEF a, b, p
  <1>6. 2 * (a * b) = a * (2 * b) /\ a * b \in Nat
    BY <1>5
  <1>7. p \div 2 = a * b
    BY <1>5, <1>6
  <1> QED
    BY <1>5, <1>6, <1>7 DEF a, b, p

\* A power of two is a bit of the places below a higher one.
LEMMA BitInside ==
    ASSUME NEW w \in Nat, NEW d \in 0 .. w - 1, NEW k \in 0 .. 2^w - 1
    PROVE  /\ k \in Nat /\ k < 2^w
           /\ Has(k, 2^d) => k - 2^d \in 0 .. 2^w - 1 /\ ~Has(k - 2^d, 2^d) /\ (k - 2^d) + 2^d = k
           /\ ~Has(k, 2^d) => k + 2^d \in 0 .. 2^w - 1 /\ Has(k + 2^d, 2^d) /\ (k + 2^d) - 2^d = k
  <1> DEFINE D == 2^d
             M == 2^w
  <1>1. D \in Nat /\ D > 0
    BY PowerInside
  <1>2. PICK t \in Nat : t > 0 /\ M = D * (2 * t)
    BY PowerInside
  <1>3. M \in Nat /\ k \in Nat /\ k < M /\ k \in 0 .. M - 1
    BY PowerInside
  <1> HIDE DEF D, M
  <1>4. Has(k, D) => k - D \in Nat /\ ~Has(k - D, D)
    BY <1>1, <1>3, HasShifted
  <1>5. Has(k + D, D) <=> ~Has(k, D)
    BY <1>1, <1>3, HasShifted
  <1>6. ASSUME ~Has(k, D) PROVE k + D < M
    <2> DEFINE a == k \div D
               low == k % D
    <2>1. k = D * a + low /\ a \in Nat /\ low \in Nat /\ low < D
      BY <1>1, <1>3, Divided
    <2>2. a % 2 = 0
      BY <1>6, <2>1 DEF Has
    <2> HIDE DEF a, low
    <2>3. ASSUME NEW u \in Nat, NEW v \in Nat, u <= v PROVE D * u <= D * v
      BY <1>1, <2>3
    <2>4. a < 2 * t
      <3>1. SUFFICES ASSUME 2 * t <= a PROVE FALSE
        BY <2>1
      <3>2. D * (2 * t) <= D * a
        BY <2>1, <2>3, <3>1
      <3>3. D * a \in Nat /\ D * (2 * t) \in Nat
        BY <1>1, <2>1
      <3> QED
        BY <1>2, <1>3, <2>1, <3>2, <3>3
    <2>5. a + 2 <= 2 * t
      BY <2>1, <2>2, <2>4
    <2>6. D * (a + 2) <= D * (2 * t) /\ D * (a + 2) = D * a + 2 * D /\ D * a \in Nat
      BY <1>1, <2>1, <2>3, <2>5
    <2> QED
      BY <1>1, <1>2, <1>3, <2>1, <2>6
  <1>7. (k - D) + D = k /\ (k + D) - D = k
    BY <1>1, <1>3
  <1> QED
    BY <1>1, <1>3, <1>4, <1>5, <1>6, <1>7 DEF D, M

LEMMA InsideWord ==
    ASSUME NEW d \in 0 .. Side - 1
    PROVE  /\ 2^d \in Nat /\ 2^d > 0
           /\ \E t \in Nat : t > 0 /\ W = 2^d * (2 * t) /\ W \div 2 = 2^d * t
  BY Halving, PowerInside DEF W

LEMMA BitInWord ==
    ASSUME NEW d \in 0 .. Side - 1, NEW k \in Word
    PROVE  /\ k \in Nat /\ k < W
           /\ Has(k, 2^d) => k - 2^d \in Word /\ ~Has(k - 2^d, 2^d) /\ (k - 2^d) + 2^d = k
           /\ ~Has(k, 2^d) => k + 2^d \in Word /\ Has(k + 2^d, 2^d) /\ (k + 2^d) - 2^d = k
  <1>1. Side \in Nat /\ k \in 0 .. 2^Side - 1
    BY Halving DEF Word, W
  <1> QED
    BY <1>1, BitInside DEF Word, W

LEMMA InsidePlace ==
    ASSUME NEW d \in 0 .. GFBITS - 1
    PROVE  /\ 2^d \in Nat /\ 2^d > 0
           /\ \E t \in Nat : t > 0 /\ N = 2^d * (2 * t) /\ N \div 2 = 2^d * t
  BY Halving, PowerInside DEF N

LEMMA BitInPlace ==
    ASSUME NEW d \in 0 .. GFBITS - 1, NEW k \in Place
    PROVE  /\ k \in Nat /\ k < N
           /\ Has(k, 2^d) => k - 2^d \in Place /\ ~Has(k - 2^d, 2^d) /\ (k - 2^d) + 2^d = k
           /\ ~Has(k, 2^d) => k + 2^d \in Place /\ Has(k + 2^d, 2^d) /\ (k + 2^d) - 2^d = k
  <1>1. GFBITS \in Nat /\ k \in 0 .. 2^GFBITS - 1
    BY Halving DEF Place, N
  <1> QED
    BY <1>1, BitInside DEF Place, N

----------------------------------------------------------------------------
(* transpose_64x64 exchanges rows and columns: after bit d the low d bits   *)
(* of the two are still where they were.                                    *)

Rows == [Word -> SUBSET Word]

Exchanged(out, d) ==
    [j \in Word |->
        IF Has(j, 2^d)
        THEN {k - 2^d : k \in {k \in out[j - 2^d] : Has(k, 2^d)}}
             \cup {k \in out[j] : Has(k, 2^d)}
        ELSE {k \in out[j] : ~Has(k, 2^d)}
             \cup {k + 2^d : k \in {k \in out[j + 2^d] : ~Has(k, 2^d)}}]

LEMMA ExchangedIs ==
    ASSUME NEW out \in Rows, NEW d \in 0 .. Side - 1
    PROVE  /\ Exchanged(out, d) \in Rows
           /\ \A j, c \in Word :
                 c \in Exchanged(out, d)[j] <=>
                     IF Has(j, 2^d) THEN IF Has(c, 2^d) THEN c \in out[j] ELSE c + 2^d \in out[j - 2^d]
                     ELSE IF Has(c, 2^d) THEN c - 2^d \in out[j + 2^d] ELSE c \in out[j]
  <1> DEFINE D == 2^d
  <1>1. \A k \in Word :
            /\ k \in Int
            /\ Has(k, D) => k - D \in Word /\ ~Has(k - D, D) /\ (k - D) + D = k
            /\ ~Has(k, D) => k + D \in Word /\ Has(k + D, D) /\ (k + D) - D = k
    BY BitInWord
  <1>2. \A j \in Word :
            Exchanged(out, d)[j] =
                IF Has(j, D)
                THEN {k - D : k \in {k \in out[j - D] : Has(k, D)}} \cup {k \in out[j] : Has(k, D)}
                ELSE {k \in out[j] : ~Has(k, D)} \cup {k + D : k \in {k \in out[j + D] : ~Has(k, D)}}
    BY DEF Exchanged
  <1>3. \A j \in Word : out[j] \subseteq Word
    BY DEF Rows
  <1>0. DOMAIN Exchanged(out, d) = Word /\ Exchanged(out, d) = [j \in Word |-> Exchanged(out, d)[j]]
    BY DEF Exchanged
  <1> HIDE DEF D
  <1>4. ASSUME NEW j \in Word
        PROVE  /\ Exchanged(out, d)[j] \subseteq Word
               /\ \A c \in Word :
                     c \in Exchanged(out, d)[j] <=>
                         IF Has(j, D) THEN IF Has(c, D) THEN c \in out[j] ELSE c + D \in out[j - D]
                         ELSE IF Has(c, D) THEN c - D \in out[j + D] ELSE c \in out[j]
    <2>1. CASE Has(j, D)
      <3>1. out[j - D] \subseteq Word /\ out[j] \subseteq Word
        BY <1>1, <1>3, <2>1
      <3>2. Exchanged(out, d)[j] = {k - D : k \in {k \in out[j - D] : Has(k, D)}} \cup {k \in out[j] : Has(k, D)}
        BY <1>2, <2>1
      <3>3. ASSUME NEW c \in Word PROVE c \in {k - D : k \in {k \in out[j - D] : Has(k, D)}} <=> ~Has(c, D) /\ c + D \in out[j - D]
        BY <1>1, <3>1
      <3>4. {k - D : k \in {k \in out[j - D] : Has(k, D)}} \subseteq Word
        BY <1>1, <3>1
      <3> QED
        BY <2>1, <3>1, <3>2, <3>3, <3>4
    <2>2. CASE ~Has(j, D)
      <3>1. out[j + D] \subseteq Word /\ out[j] \subseteq Word
        BY <1>1, <1>3, <2>2
      <3>2. Exchanged(out, d)[j] = {k \in out[j] : ~Has(k, D)} \cup {k + D : k \in {k \in out[j + D] : ~Has(k, D)}}
        BY <1>2, <2>2
      <3>3. ASSUME NEW c \in Word PROVE c \in {k + D : k \in {k \in out[j + D] : ~Has(k, D)}} <=> Has(c, D) /\ c - D \in out[j + D]
        BY <1>1, <3>1
      <3>4. {k + D : k \in {k \in out[j + D] : ~Has(k, D)}} \subseteq Word
        BY <1>1, <3>1
      <3> QED
        BY <2>2, <3>1, <3>2, <3>3, <3>4
    <2> QED
      BY <2>1, <2>2
  <1> QED
    BY <1>0, <1>4 DEF Rows, D

\* The loop over the bits of a place in a word.
LEMMA TransposedLoop ==
    ASSUME NEW in \in Rows
    PROVE  \E h \in [1 - 1 .. Side -> Rows] :
              /\ h[1 - 1] = in /\ Transposed(in) = h[Side]
              /\ \A k \in 1 .. Side : h[k] = Exchanged(h[k - 1], Side - k)
  <1> DEFINE lo == 1
             hi == Side
             Turn(y, k) == Exchanged(y, Side - k)
             IsLoop(f) == f = [k \in lo - 1 .. hi |->
                 IF k < lo THEN in
                 ELSE CHOOSE y \in {Turn(z, k) : z \in {f[k - 1]}} : TRUE]
             h == CHOOSE f : IsLoop(f)
             step == [p \in Rows \X (lo .. hi) |-> Turn(p[1], p[2])]
  <1>1. lo \in Int /\ hi \in Int /\ lo - 1 <= hi
    BY Halving
  <1>2. \A y \in Rows : \A k \in lo .. hi : Turn(y, k) \in Rows
    <2>1. \A k \in lo .. hi : Side - k \in 0 .. Side - 1
      BY Halving
    <2> QED
      BY <2>1, ExchangedIs
  <1>3. Transposed(in) = Once(h[hi])
    BY Zenon DEF Transposed, Exchanged, For
  <1> HIDE DEF lo, hi, Turn
  <1>4. \A f, k : (CHOOSE y \in {Turn(z, k) : z \in {f[k - 1]}} : TRUE) = Turn(f[k - 1], k)
    <2> TAKE f, k
    <2>1. {Turn(z, k) : z \in {f[k - 1]}} = {Turn(f[k - 1], k)}
      OBVIOUS
    <2> QED
      BY <2>1, ChosenIs
  <1>5. step \in [Rows \X (lo .. hi) -> Rows] /\ \A y \in Rows : \A k \in lo .. hi : step[<<y, k>>] = Turn(y, k)
    BY <1>2
  <1> HIDE DEF step
  <1>6. PICK g \in LoopsOf(Rows, in, lo, hi, step) : TRUE
    <2>1. LoopsOf(Rows, in, lo, hi, step) # {}
      <3> HIDE DEF IsLoop, h
      <3> QED
        BY <1>1, <1>5, LoopHasResult
    <2> QED
      BY <2>1, Zenon
  <1>7. IsLoop(g)
    <2>1. /\ g \in [lo - 1 .. hi -> Rows] /\ g[lo - 1] = in
          /\ \A k \in lo .. hi : g[k] = step[<<g[k - 1], k>>]
      BY <1>6 DEF LoopsOf
    <2>2. ASSUME NEW k \in lo - 1 .. hi PROVE g[k] = IF k < lo THEN in ELSE Turn(g[k - 1], k)
      <3>1. CASE k < lo
        <4>1. k = lo - 1
          BY <3>1, <1>1
        <4> QED
          BY <3>1, <4>1, <2>1
      <3>2. CASE ~(k < lo)
        <4>1. k \in lo .. hi /\ k - 1 \in lo - 1 .. hi
          BY <3>2, <1>1
        <4> QED
          BY <3>2, <4>1, <2>1, <1>5
      <3> QED
        BY <3>1, <3>2
    <2> QED
      BY <2>1, <2>2, <1>4
  <1>8. IsLoop(h)
    BY <1>7, Zenon
  <1> HIDE DEF h
  <1>9. /\ DOMAIN h = lo - 1 .. hi /\ h[lo - 1] = in
        /\ \A k \in lo .. hi : h[k] = Turn(h[k - 1], k)
    <2>1. DOMAIN h = lo - 1 .. hi
      BY <1>8
    <2>2. h[lo - 1] = in
      BY <1>1, <1>8
    <2>3. ASSUME NEW k \in lo .. hi PROVE h[k] = Turn(h[k - 1], k)
      <3>1. k \in lo - 1 .. hi /\ ~(k < lo)
        BY <1>1
      <3> QED
        BY <3>1, <1>4, <1>8
    <2> QED
      BY <2>1, <2>2, <2>3
  <1>10. \A k \in lo - 1 .. hi : h[k] \in Rows
    BY <1>1, <1>2, <1>9, LoopKeeps
  <1>11. h \in [lo - 1 .. hi -> Rows]
    BY <1>8, <1>9, <1>10
  <1>12. Transposed(in) = h[hi]
    BY <1>3, OnceIs
  <1> QED
    BY <1>9, <1>11, <1>12 DEF lo, hi, Turn

\* The low digit of one number, and the rest of another.
Mix(a, b, n) == n * (b \div n) + (a % n)

\* A step that takes from c and j the digit at n, and gives each that of the other.
LEMMA MixExchanged ==
    ASSUME NEW n \in Nat, n > 0, NEW c \in Nat, NEW j \in Nat, NEW u \in Nat,
           u % n = c % n, (u \div n) % 2 = (j \div n) % 2
    PROVE  Mix(u, j, 2 * n) = Mix(c, j, n)
  <1> DEFINE a == j \div n
             b == u \div n
  <1>1. a \in Nat /\ b \in Nat /\ a % 2 = b % 2 /\ a = 2 * (a \div 2) + (a % 2) /\ a \div 2 \in Nat /\ a % 2 \in Nat
    BY Divided
  <1>2. j \div (n * 2) = a \div 2 /\ u % (n * 2) = n * (b % 2) + (u % n)
    BY DividedTwice
  <1>3. u % n \in Nat /\ n * 2 = 2 * n
    BY Divided
  <1> HIDE DEF a, b
  <1>4. n * a = (2 * n) * (a \div 2) + n * (a % 2)
    <2> DEFINE v == a \div 2
               w == a % 2
    <2>1. a = 2 * v + w /\ v \in Nat /\ w \in Nat
      BY <1>1
    <2> HIDE DEF v, w
    <2>2. n * (2 * v + w) = (2 * n) * v + n * w
      BY <2>1
    <2> QED
      BY <2>1, <2>2 DEF v, w
  <1>5. (2 * n) * (a \div 2) \in Nat /\ n * (a % 2) \in Nat
    BY <1>1
  <1> QED
    <2>1. j \div (2 * n) = a \div 2 /\ u % (2 * n) = n * (a % 2) + (c % n)
      BY <1>1, <1>2, <1>3
    <2>2. Mix(u, j, 2 * n) = (2 * n) * (a \div 2) + (n * (a % 2) + (c % n)) /\ Mix(c, j, n) = n * a + (c % n)
      BY <2>1 DEF Mix, a
    <2>3. c % n \in Nat
      BY <1>3
    <2>4. ASSUME NEW x \in Nat, NEW y \in Nat, NEW z \in Nat PROVE x + (y + z) = (x + y) + z
      OBVIOUS
    <2> QED
      BY <1>4, <1>5, <2>2, <2>3, <2>4

\* The same digit above n, and an even and an odd one.
LEMMA DigitMoved ==
    ASSUME NEW n \in Nat, n > 0, NEW k \in Nat
    PROVE  /\ (k + n) % n = k % n /\ (k + n) \div n = (k \div n) + 1
           /\ ~Has(k, n) => (k + n) \div (2 * n) = k \div (2 * n)
  <1> DEFINE a == k \div n
  <1>1. (k + n) % n = k % n /\ (k + n) \div n = a + 1 /\ a \in Nat
    OBVIOUS
  <1>2. (k + n) \div (n * 2) = (a + 1) \div 2 /\ k \div (n * 2) = a \div 2 /\ n * 2 = 2 * n
    BY <1>1, DividedTwice
  <1>3. ~Has(k, n) => (a + 1) \div 2 = a \div 2
    BY <1>1 DEF Has
  <1> QED
    BY <1>1, <1>2, <1>3

LEMMA TransposedIs ==
    ASSUME NEW in \in Rows
    PROVE  /\ Transposed(in) \in Rows
           /\ \A j, c \in Word : c \in Transposed(in)[j] <=> j \in in[c]
  <1>0. Side \in Nat /\ Side > 0 /\ W \in Nat /\ W > 0
    BY Halving
  <1>1. PICK h \in [1 - 1 .. Side -> Rows] :
            /\ h[1 - 1] = in /\ Transposed(in) = h[Side]
            /\ \A k \in 1 .. Side : h[k] = Exchanged(h[k - 1], Side - k)
    BY TransposedLoop
  <1> DEFINE Part(out, n) == \A j, c \in Word : c \in out[j] <=> Mix(c, j, n) \in in[Mix(j, c, n)]
             lo == 1
             T == {k \in lo - 1 .. Side : Part(h[k], 2^(Side - k))}
  <1>2. lo \in Int /\ Side \in Int /\ lo - 1 <= Side
    BY <1>0
  <1>3. lo - 1 \in T
    <2>1. ASSUME NEW j \in Word, NEW c \in Word PROVE Mix(c, j, W) = c
      <3>1. j \in Nat /\ j < W /\ c \in Nat /\ c < W
        BY <1>0 DEF Word
      <3>2. j \div W = 0 /\ c % W = c /\ W * 0 = 0
        BY <1>0, <3>1
      <3> QED
        BY <3>1, <3>2 DEF Mix
    <2>2. Part(in, W)
      BY <2>1
    <2>3. 2^(Side - 0) = W /\ lo - 1 = 0 /\ 0 \in lo - 1 .. Side /\ h[0] = in
      BY <1>0, <1>1 DEF W
    <2> HIDE DEF Part, lo
    <2> QED
      BY <2>2, <2>3
  <1>4. ASSUME NEW k \in lo .. Side, k - 1 \in T PROVE k \in T
    <2> DEFINE d == Side - k
               n == 2^d
               g == h[k - 1]
    <2>1. /\ d \in 0 .. Side - 1 /\ d \in Nat /\ Side - (k - 1) = d + 1
          /\ k \in 1 .. Side /\ k \in lo - 1 .. Side /\ k - 1 \in lo - 1 .. Side
      BY <1>0
    <2>2. g \in Rows /\ h[k] = Exchanged(g, d)
      BY <1>1, <2>1
    <2>3. 2^(d + 1) = 2 * n /\ n \in Nat /\ n > 0
      BY <2>1, TwoDoubles, TwoPower
    <2>4. Part(g, 2 * n)
      BY <1>4, <2>1, <2>3
    <2> HIDE DEF d, g, lo
    <2>5. \A i \in Word :
              /\ i \in Nat
              /\ Has(i, n) => i - n \in Word /\ ~Has(i - n, n) /\ (i - n) + n = i
              /\ ~Has(i, n) => i + n \in Word /\ Has(i + n, n) /\ (i + n) - n = i
      BY <2>1, BitInWord
    <2>6. \A j, c \in Word :
              c \in Exchanged(g, d)[j] <=>
                  IF Has(j, n) THEN IF Has(c, n) THEN c \in g[j] ELSE c + n \in g[j - n]
                  ELSE IF Has(c, n) THEN c - n \in g[j + n] ELSE c \in g[j]
      BY <2>1, <2>2, ExchangedIs
    <2> HIDE DEF n
    <2>7. ASSUME NEW j \in Word, NEW c \in Word
          PROVE  c \in Exchanged(g, d)[j] <=> Mix(c, j, n) \in in[Mix(j, c, n)]
      \* What the place was before, and how its digits differ.
      <3> DEFINE Same(i, e) ==
                     /\ i \in Word /\ e \in Word
                     /\ i % n = j % n /\ e % n = c % n
                     /\ i \div (2 * n) = j \div (2 * n) /\ e \div (2 * n) = c \div (2 * n)
                     /\ (i \div n) % 2 = (c \div n) % 2 /\ (e \div n) % 2 = (j \div n) % 2
                     /\ c \in Exchanged(g, d)[j] <=> e \in g[i]
      <3>0. j \in Nat /\ c \in Nat
        BY <2>5
      <3>1. \E i, e : Same(i, e)
        <4>1. \A i \in Word : (i \div n) % 2 \in {0, 1} /\ (Has(i, n) <=> (i \div n) % 2 = 1)
          <5> TAKE i \in Word
          <5>1. i \in Nat
            BY <2>5
          <5>2. i \div n \in Nat
            BY <2>3, <5>1, Divided
          <5> QED
            BY <5>2 DEF Has
        <4>2. CASE Has(j, n) <=> Has(c, n)
          <5>1. c \in Exchanged(g, d)[j] <=> c \in g[j]
            BY <2>6, <4>2
          <5>2. (j \div n) % 2 = (c \div n) % 2
            BY <4>1, <4>2
          <5>3. Same(j, c)
            BY <5>1, <5>2
          <5> QED
            BY <5>3
        <4>3. CASE Has(j, n) /\ ~Has(c, n)
          <5> DEFINE i == j - n
                     e == c + n
          <5>1. i \in Word /\ ~Has(i, n) /\ i + n = j /\ e \in Word /\ Has(e, n) /\ i \in Nat
            BY <2>5, <4>3
          <5>2. c \in Exchanged(g, d)[j] <=> e \in g[i]
            BY <2>6, <4>3
          <5> HIDE DEF i
          <5>3. j % n = i % n /\ j \div (2 * n) = i \div (2 * n)
            BY <2>3, <5>1, DigitMoved
          <5>4. e % n = c % n /\ e \div (2 * n) = c \div (2 * n)
            BY <2>3, <3>0, <4>3, DigitMoved
          <5> HIDE DEF e
          <5>5. (i \div n) % 2 = (c \div n) % 2 /\ (e \div n) % 2 = (j \div n) % 2
            BY <4>1, <4>3, <5>1
          <5>6. Same(i, e)
            BY <5>1, <5>2, <5>3, <5>4, <5>5
          <5> QED
            BY <5>6
        <4>4. CASE ~Has(j, n) /\ Has(c, n)
          <5> DEFINE i == j + n
                     e == c - n
          <5>1. i \in Word /\ Has(i, n) /\ e \in Word /\ ~Has(e, n) /\ e + n = c /\ e \in Nat
            BY <2>5, <4>4
          <5>2. c \in Exchanged(g, d)[j] <=> e \in g[i]
            BY <2>6, <4>4
          <5> HIDE DEF e
          <5>3. c % n = e % n /\ c \div (2 * n) = e \div (2 * n)
            BY <2>3, <5>1, DigitMoved
          <5>4. i % n = j % n /\ i \div (2 * n) = j \div (2 * n)
            BY <2>3, <3>0, <4>4, DigitMoved
          <5> HIDE DEF i
          <5>5. (i \div n) % 2 = (c \div n) % 2 /\ (e \div n) % 2 = (j \div n) % 2
            BY <4>1, <4>4, <5>1
          <5>6. Same(i, e)
            BY <5>1, <5>2, <5>3, <5>4, <5>5
          <5> QED
            BY <5>6
        <4> QED
          BY <4>2, <4>3, <4>4
      <3>2. PICK i, e : Same(i, e)
        BY <3>1
      <3>3. i \in Nat /\ e \in Nat
        BY <2>5, <3>2
      <3>4. e \in g[i] <=> Mix(e, i, 2 * n) \in in[Mix(i, e, 2 * n)]
        BY <2>4, <3>2
      <3>5. Mix(e, i, 2 * n) = Mix(e, j, 2 * n) /\ Mix(i, e, 2 * n) = Mix(i, c, 2 * n)
        BY <3>2 DEF Mix
      <3>6. Mix(e, j, 2 * n) = Mix(c, j, n)
        BY <2>3, <3>0, <3>2, <3>3, MixExchanged
      <3>7. Mix(i, c, 2 * n) = Mix(j, c, n)
        BY <2>3, <3>0, <3>2, <3>3, MixExchanged
      <3> QED
        BY <3>2, <3>4, <3>5, <3>6, <3>7
    <2>8. Part(h[k], n)
      BY <2>2, <2>7
    <2> HIDE DEF Part
    <2> QED
      BY <2>1, <2>8 DEF n, d
  <1> HIDE DEF T, lo
  <1>5. \A k \in lo - 1 .. Side : k \in T
    BY <1>2, <1>3, <1>4, Counting
  <1>6. Part(h[Side], 1)
    <2>1. Side \in T /\ Side - Side = 0 /\ 2^0 = 1
      BY <1>0, <1>2, <1>5
    <2> QED
      BY <2>1 DEF T
  <1>7. \A j, c \in Word : Mix(c, j, 1) = j
    <2> TAKE j, c \in Word
    <2>1. j \in Nat /\ c \in Nat
      BY <1>0 DEF Word
    <2>2. j \div 1 = j /\ c % 1 = 0
      BY <2>1
    <2> QED
      BY <2>1, <2>2 DEF Mix
  <1>8. h[Side] \in Rows
    BY <1>0, <1>1
  <1> QED
    BY <1>1, <1>6, <1>7, <1>8

----------------------------------------------------------------------------
(* A layer of the network, in controlbits.c and in benes.c. *)

\* The place at distance n of x, and the number of their bit.
Opposite(x, n) == IF Has(x, n) THEN x - n ELSE x + n
PairOf(x, n) == (x \div (2 * n)) * n + (x % n)

LEMMA LoadIs ==
    ASSUME NEW bits, NEW ptr \in Int, NEW i \in Int, NEW size \in Int, NEW b \in Int
    PROVE  b \in Load(bits, ptr, i, size) <=> b >= 0 /\ b < size /\ ptr + i * size + b \in bits
  <1> DEFINE from == ptr + i * size
             to == ptr + (i + 1) * size - 1
  <1>1. from \in Int /\ to = from + size - 1
    <2>1. (i + 1) * size = i * size + size /\ i * size \in Int
      OBVIOUS
    <2> QED
      BY <2>1
  <1>2. \A x \in Int : x - ptr - i * size = x - from
    <2>1. i * size \in Int
      OBVIOUS
    <2> QED
      BY <2>1
  <1>3. Load(bits, ptr, i, size) = {x - ptr - i * size : x \in bits \cap (from .. to)}
    BY DEF Load
  <1> HIDE DEF from, to
  <1>4. \A x \in bits \cap (from .. to) : x \in Int
    OBVIOUS
  <1>5. ASSUME b \in Load(bits, ptr, i, size) PROVE b >= 0 /\ b < size /\ from + b \in bits
    <2>1. PICK x \in bits \cap (from .. to) : b = x - ptr - i * size
      BY <1>3, <1>5
    <2>2. x \in Int /\ b = x - from /\ from + b = x /\ x >= from /\ x <= to
      BY <1>1, <1>2, <2>1
    <2> QED
      BY <1>1, <2>1, <2>2
  <1>6. ASSUME b >= 0, b < size, from + b \in bits PROVE b \in Load(bits, ptr, i, size)
    <2> DEFINE x == from + b
    <2>1. x \in bits \cap (from .. to) /\ x - from = b /\ x \in Int
      BY <1>1, <1>6
    <2> HIDE DEF x
    <2>2. b = x - ptr - i * size
      BY <1>2, <2>1
    <2> QED
      BY <1>3, <2>1, <2>2
  <1> QED
    BY <1>5, <1>6 DEF from

LEMMA LayerOfWords ==
    ASSUME NEW words \in Rows, NEW bits, NEW d \in 0 .. Side - 1
    PROVE  /\ layer(words, bits, d) \in Rows
           /\ \A j, b \in Word :
                 /\ Opposite(j, 2^d) \in Word
                 /\ b \in layer(words, bits, d)[j] <=>
                        IF b \in bits[PairOf(j, 2^d)] THEN b \in words[Opposite(j, 2^d)] ELSE b \in words[j]
  <1> DEFINE s == 2^d
             Lead(j) == IF (j \div s) % 2 = 0 THEN j ELSE j - s
             dd == [j \in Word |-> SymDiff(words[Lead(j)], words[Lead(j) + s])
                                   \cap bits[(j \div (2 * s)) * s + (j % s)]]
             new == [j \in Word |-> SymDiff(words[j], dd[j])]
  <1>1. \A j \in Word :
            /\ j \in Nat
            /\ Has(j, s) => j - s \in Word /\ (j - s) + s = j
            /\ ~Has(j, s) => j + s \in Word
    BY BitInWord
  <1>2. layer(words, bits, d) = new
    <2>1. layer(words, bits, d) = Once(new)
      BY Zenon DEF layer
    <2> HIDE DEF new
    <2> QED
      BY <2>1, OnceIs
  <1>3. s \in Nat /\ s > 0
    BY InsideWord
  <1> HIDE DEF s
  <1>4. \A j \in Word : (j \div s) % 2 = 0 <=> ~Has(j, s)
    <2> TAKE j \in Word
    <2>1. j \in Nat
      BY <1>1
    <2>2. j \div s \in Nat
      BY <1>3, <2>1, Divided
    <2> QED
      BY <2>2 DEF Has
  <1>5. ASSUME NEW j \in Word
        PROVE  /\ Opposite(j, s) \in Word
               /\ SymDiff(words[Lead(j)], words[Lead(j) + s]) = SymDiff(words[j], words[Opposite(j, s)])
    <2>1. CASE Has(j, s)
      <3>1. Lead(j) = j - s /\ Lead(j) + s = j /\ Opposite(j, s) = j - s
        BY <1>1, <1>4, <2>1 DEF Opposite
      <3> HIDE DEF Lead
      <3>2. SymDiff(words[Lead(j)], words[Lead(j) + s]) = SymDiff(words[Opposite(j, s)], words[j])
        BY <3>1
      <3>3. \A A, B : SymDiff(A, B) = SymDiff(B, A)
        BY DEF SymDiff
      <3> QED
        BY <1>1, <2>1, <3>1, <3>2, <3>3
    <2>2. CASE ~Has(j, s)
      <3>1. Lead(j) = j /\ Opposite(j, s) = j + s
        BY <1>4, <2>2 DEF Opposite
      <3> HIDE DEF Lead
      <3> QED
        BY <1>1, <2>2, <3>1
    <2> QED
      BY <2>1, <2>2
  <1> HIDE DEF Lead
  <1>6. \A j \in Word : dd[j] = SymDiff(words[j], words[Opposite(j, s)]) \cap bits[PairOf(j, s)]
    BY <1>5 DEF PairOf
  <1> HIDE DEF dd
  <1>7. \A j \in Word : words[j] \subseteq Word /\ words[Opposite(j, s)] \subseteq Word
    BY <1>5 DEF Rows
  <1>8. ASSUME NEW j \in Word
        PROVE  /\ new[j] \subseteq Word
               /\ \A b \in Word : b \in new[j] <=>
                     IF b \in bits[PairOf(j, s)] THEN b \in words[Opposite(j, s)] ELSE b \in words[j]
    <2> DEFINE A == words[j]
               B == words[Opposite(j, s)]
               C == bits[PairOf(j, s)]
    <2>1. new[j] = SymDiff(A, SymDiff(A, B) \cap C)
      BY <1>6
    <2>2. A \subseteq Word /\ B \subseteq Word
      BY <1>7
    <2> HIDE DEF A, B, C, new
    <2>3. new[j] \subseteq Word /\ \A b : b \in new[j] <=> IF b \in C THEN b \in B ELSE b \in A
      BY <2>1, <2>2 DEF SymDiff
    <2> QED
      BY <2>3 DEF A, B, C
  <1>9. new \in Rows
    BY <1>8 DEF Rows
  <1> QED
    BY <1>2, <1>5, <1>8, <1>9 DEF s

\* One layer in controlbits.c.
LEMMA SwapLayerIs ==
    ASSUME NEW p \in [Place -> Place], NEW bits, NEW ptr, NEW d \in 0 .. GFBITS - 1
    PROVE  /\ SwapLayer(p, bits, ptr, d) \in [Place -> Place]
           /\ \A x \in Place :
                 /\ Opposite(x, 2^d) \in Place
                 /\ SwapLayer(p, bits, ptr, d)[x] =
                        IF ptr + PairOf(x, 2^d) \in bits THEN p[Opposite(x, 2^d)] ELSE p[x]
  <1> DEFINE s == 2^d
             Partner(x) == IF (x \div s) % 2 = 0 THEN x + s ELSE x - s
             Index(x) == (x \div (2 * s)) * s + (x % s)
             new == [x \in DOMAIN p |-> IF ptr + Index(x) \in bits THEN p[Partner(x)] ELSE p[x]]
  <1>1. SwapLayer(p, bits, ptr, d) = new
    <2>1. SwapLayer(p, bits, ptr, d) = Once(new)
      BY Zenon DEF SwapLayer
    <2> HIDE DEF new
    <2> QED
      BY <2>1, OnceIs
  <1>2. s \in Nat /\ s > 0
    BY InsidePlace
  <1>3. \A x \in Place :
            /\ x \in Nat
            /\ Has(x, s) => x - s \in Place
            /\ ~Has(x, s) => x + s \in Place
    BY BitInPlace
  <1> HIDE DEF s
  <1>4. ASSUME NEW x \in Place PROVE Opposite(x, s) \in Place /\ Partner(x) = Opposite(x, s)
    <2>1. x \div s \in Nat
      BY <1>2, <1>3, Divided
    <2>2. (x \div s) % 2 = 0 <=> ~Has(x, s)
      BY <2>1 DEF Has
    <2>3. Partner(x) = Opposite(x, s)
      BY <2>2 DEF Opposite
    <2>4. Opposite(x, s) \in Place
      BY <1>3 DEF Opposite
    <2> QED
      BY <2>3, <2>4
  <1> HIDE DEF Partner
  <1>5. \A x \in Place : new[x] = IF ptr + PairOf(x, s) \in bits THEN p[Opposite(x, s)] ELSE p[x]
    BY <1>4 DEF PairOf
  <1>6. \A x \in Place : new[x] \in Place
    BY <1>4, <1>5
  <1>7. new \in [Place -> Place]
    <2>1. DOMAIN p = Place
      OBVIOUS
    <2> QED
      BY <1>6, <2>1
  <1> HIDE DEF new
  <1> QED
    BY <1>1, <1>4, <1>5, <1>7 DEF s

\* The bits of a layer are as many as its pairs.
LEMMA PairInside ==
    ASSUME NEW w \in Nat, NEW d \in 0 .. w - 1, NEW k \in 0 .. 2^w - 1
    PROVE  PairOf(k, 2^d) \in 0 .. ((2^w) \div 2) - 1
  <1> DEFINE s == 2^d
             M == 2^w
  <1>1. s \in Nat /\ s > 0 /\ M \in Nat /\ k \in Nat /\ k < M
    BY PowerInside
  <1>2. PICK t \in Nat : t > 0 /\ M = s * (2 * t) /\ M \div 2 = s * t
    BY PowerInside
  <1> HIDE DEF s, M
  <1> DEFINE n == 2 * s
             a == k \div n
             low == k % s
  <1>3. n \in Nat /\ n > 0
    BY <1>1
  <1>4. low \in Nat /\ low < s
    BY <1>1, Divided
  <1>5. k = n * a + (k % n) /\ a \in Nat /\ k % n \in Nat
    BY <1>1, <1>3, Divided
  <1> HIDE DEF a, low
  <1>6. M = n * t
    <2>1. s * (2 * t) = (2 * s) * t
      BY <1>1
    <2> QED
      BY <1>2, <2>1
  <1> HIDE DEF n
  <1>7. a + 1 <= t
    <2> SUFFICES ASSUME t <= a PROVE FALSE
      BY <1>5
    <2>1. ASSUME NEW u \in Nat, NEW v \in Nat, u <= v PROVE n * u <= n * v /\ n * v \in Nat
      BY <1>3, <2>1
    <2>2. n * t <= n * a /\ n * a \in Nat
      BY <1>5, <2>1
    <2> QED
      BY <1>1, <1>5, <1>6, <2>2
  <1>8. s * (a + 1) <= s * t /\ s * (a + 1) = a * s + s /\ a * s \in Nat /\ s * t \in Nat
    <2>1. ASSUME NEW u \in Nat, NEW v \in Nat, u <= v PROVE s * u <= s * v
      BY <1>1, <2>1
    <2>2. a + 1 \in Nat
      BY <1>5
    <2>3. s * (a + 1) <= s * t
      BY <1>7, <2>1, <2>2
    <2>4. s * (a + 1) = a * s + s /\ a * s \in Nat /\ s * t \in Nat
      BY <1>1, <1>5
    <2> QED
      BY <2>3, <2>4
  <1>9. a * s + low \in 0 .. s * t - 1
    BY <1>1, <1>4, <1>8
  <1>10. PairOf(k, s) = a * s + low
    BY DEF PairOf, a, n, low
  <1> QED
    BY <1>2, <1>9, <1>10 DEF s, M

\* The words of a place, and back.
LEMMA WordsOf ==
    ASSUME NEW x \in Place
    PROVE  /\ x \in Nat /\ x \div W \in Word /\ x % W \in Word
           /\ x = W * (x \div W) + (x % W)
  <1>1. x \in Nat /\ x < N /\ N = W * W /\ W \in Nat /\ W > 0
    BY Halving DEF Place
  <1>2. x = W * (x \div W) + (x % W) /\ x \div W \in Nat /\ x % W \in Nat /\ x % W < W
    BY <1>1, Divided
  <1>3. x \div W < W
    <2> DEFINE a == x \div W
    <2> SUFFICES ASSUME W <= a PROVE FALSE
      BY <1>1, <1>2
    <2>1. ASSUME NEW u \in Nat, NEW v \in Nat, u <= v PROVE W * u <= W * v /\ W * v \in Nat
      BY <1>1, <2>1
    <2>2. a \in Nat
      BY <1>2
    <2> HIDE DEF a
    <2>3. W * W <= W * a /\ W * a \in Nat
      BY <1>1, <2>1, <2>2
    <2> QED
      BY <1>1, <1>2, <2>3 DEF a
  <1> QED
    BY <1>1, <1>2, <1>3 DEF Word

LEMMA PlaceOfWords ==
    ASSUME NEW i \in Word, NEW b \in Word
    PROVE  (W * i + b) \div W = i /\ (W * i + b) % W = b
  <1>1. W \in Nat /\ W > 0 /\ i \in Nat /\ b \in Nat /\ b < W
    BY Halving DEF Word
  <1> QED
    BY <1>1, Division

Within(words, x) == x % W \in words[x \div W]
StrideOf(k) == IF k < GFBITS THEN k ELSE 2 * GFBITS - 2 - k

LEMMA Strides ==
    ASSUME NEW k \in 0 .. 2 * GFBITS - 2
    PROVE  /\ StrideOf(k) \in 0 .. GFBITS - 1
           /\ (k < Side \/ 2 * GFBITS - 1 - k <= Side) <=> StrideOf(k) < Side
           /\ StrideOf(k) < Side => StrideOf(k) % Side = StrideOf(k)
           /\ ~(StrideOf(k) < Side) =>
                 /\ StrideOf(k) % Side = StrideOf(k) - Side
                 /\ StrideOf(k) - Side \in 0 .. Side - 1
  <1>1. Side \in Nat /\ Side > 0 /\ GFBITS = Side + Side /\ GFBITS \in Nat
    BY Halving
  <1>2. StrideOf(k) \in 0 .. GFBITS - 1
    BY <1>1 DEF StrideOf
  <1>3. (k < Side \/ 2 * GFBITS - 1 - k <= Side) <=> StrideOf(k) < Side
    BY <1>1 DEF StrideOf
  <1> DEFINE s == StrideOf(k)
  <1>4. s \in Nat /\ s < Side + Side
    BY <1>1, <1>2
  <1> HIDE DEF s
  <1>5. s < Side => s % Side = s
    BY <1>1, <1>4
  <1>6. ~(s < Side) => s % Side = s - Side /\ s - Side \in 0 .. Side - 1
    <2> SUFFICES ASSUME ~(s < Side) PROVE s % Side = s - Side /\ s - Side \in 0 .. Side - 1
      OBVIOUS
    <2> DEFINE low == s - Side
    <2>1. low \in Nat /\ low < Side /\ s = Side * 1 + low
      BY <1>1, <1>4
    <2> HIDE DEF low
    <2>2. s % Side = low
      BY <1>1, <2>1, Division
    <2> QED
      BY <1>1, <2>1, <2>2 DEF low
  <1> QED
    BY <1>2, <1>3, <1>5, <1>6 DEF s

\* A layer of a stride within a word.
LEMMA NarrowLayerIs ==
    ASSUME NEW bs \in Rows, NEW bits, NEW ptr \in Int, NEW d \in 0 .. Side - 1
    PROVE  LET new == Transposed(layer(Transposed(bs), Narrow(bits, ptr), d))
           IN /\ new \in Rows
              /\ \A i, b \in Word :
                    /\ Opposite(b, 2^d) \in Word
                    /\ b \in new[i] <=>
                          IF ptr + (i * (W \div 2) + PairOf(b, 2^d)) \in bits THEN Opposite(b, 2^d) \in bs[i] ELSE b \in bs[i]
  <1> DEFINE half == W \div 2
             given == [i \in Word |-> Load(bits, ptr, i, half)]
             T == Transposed(bs)
             L == layer(T, Narrow(bits, ptr), d)
             new == Transposed(L)
  <1>1. half \in Nat /\ W = 2 * half /\ Word = 0 .. W - 1
    BY Halving DEF Word
  <1>2. Narrow(bits, ptr) = Transposed(given)
    BY DEF Narrow
  <1> HIDE DEF half
  <1>3. ASSUME NEW i \in Word
        PROVE  /\ Load(bits, ptr, i, half) \subseteq Word
               /\ \A b \in Int : b \in Load(bits, ptr, i, half) <=> b >= 0 /\ b < half /\ ptr + i * half + b \in bits
    <2>1. i \in Int /\ half \in Int
      BY <1>1
    <2>2. \A b \in Int : b \in Load(bits, ptr, i, half) <=> b >= 0 /\ b < half /\ ptr + i * half + b \in bits
      BY <2>1, LoadIs
    <2>3. \A b \in Load(bits, ptr, i, half) : b \in Int
      <3>1. i * half \in Int /\ (i + 1) * half \in Int
        BY <2>1
      <3> QED
        BY <3>1 DEF Load
    <2>4. \A b \in Load(bits, ptr, i, half) : b \in Word
      BY <1>1, <2>2, <2>3
    <2> QED
      BY <2>2, <2>4
  <1>4. given \in Rows
    BY <1>3 DEF Rows
  <1>5. T \in Rows /\ \A i, c \in Word : i \in T[c] <=> c \in bs[i]
    BY TransposedIs
  <1>6. \A i, c \in Word : i \in Transposed(given)[c] <=> c \in given[i]
    BY <1>4, TransposedIs
  <1>7. L \in Rows /\ \A j, b \in Word :
            /\ Opposite(j, 2^d) \in Word
            /\ b \in L[j] <=> IF b \in Narrow(bits, ptr)[PairOf(j, 2^d)] THEN b \in T[Opposite(j, 2^d)] ELSE b \in T[j]
    BY <1>5, LayerOfWords
  <1> HIDE DEF L, T
  <1>8. new \in Rows /\ \A i, b \in Word : b \in new[i] <=> i \in L[b]
    BY <1>7, TransposedIs
  <1> HIDE DEF new
  <1>9. ASSUME NEW i \in Word, NEW b \in Word
        PROVE  i \in Narrow(bits, ptr)[PairOf(b, 2^d)] <=> ptr + (i * half + PairOf(b, 2^d)) \in bits
    <2> DEFINE c == PairOf(b, 2^d)
    <2>1. c \in 0 .. half - 1
      <3>1. Side \in Nat /\ b \in 0 .. 2^Side - 1 /\ half = (2^Side) \div 2
        BY Halving DEF Word, W, half
      <3> QED
        BY <3>1, PairInside
    <2> HIDE DEF c
    <2>2. c \in Word /\ c \in Int /\ c >= 0 /\ c < half
      BY <1>1, <2>1
    <2>3. i \in Narrow(bits, ptr)[c] <=> ptr + i * half + c \in bits
      BY <1>2, <1>3, <1>6, <2>2
    <2>4. ptr + i * half + c = ptr + (i * half + c)
      <3>1. i * half \in Int
        BY <1>1
      <3> QED
        BY <2>2, <3>1
    <2> QED
      BY <2>3, <2>4 DEF c
  <1>10. ASSUME NEW i \in Word, NEW b \in Word
         PROVE  /\ Opposite(b, 2^d) \in Word
                /\ b \in new[i] <=>
                      IF ptr + (i * half + PairOf(b, 2^d)) \in bits THEN Opposite(b, 2^d) \in bs[i] ELSE b \in bs[i]
    BY <1>5, <1>7, <1>8, <1>9
  <1> QED
    BY <1>8, <1>10 DEF new, L, T, half

\* A layer of a stride of whole words.
LEMMA WideLayerIs ==
    ASSUME NEW bs \in Rows, NEW bits, NEW ptr \in Int, NEW d \in 0 .. Side - 1
    PROVE  LET new == layer(bs, Wide(bits, ptr), d)
           IN /\ new \in Rows
              /\ \A i, b \in Word :
                    /\ Opposite(i, 2^d) \in Word
                    /\ b \in new[i] <=>
                          IF ptr + (W * PairOf(i, 2^d) + b) \in bits THEN b \in bs[Opposite(i, 2^d)] ELSE b \in bs[i]
  <1> DEFINE new == layer(bs, Wide(bits, ptr), d)
  <1>1. W \in Nat /\ Word = 0 .. W - 1
    BY Halving DEF Word
  <1>2. new \in Rows /\ \A i, b \in Word :
            /\ Opposite(i, 2^d) \in Word
            /\ b \in new[i] <=> IF b \in Wide(bits, ptr)[PairOf(i, 2^d)] THEN b \in bs[Opposite(i, 2^d)] ELSE b \in bs[i]
    BY LayerOfWords
  <1> HIDE DEF new
  <1>3. ASSUME NEW i \in Word, NEW b \in Word
        PROVE  b \in Wide(bits, ptr)[PairOf(i, 2^d)] <=> ptr + (W * PairOf(i, 2^d) + b) \in bits
    <2> DEFINE c == PairOf(i, 2^d)
    <2>1. c \in 0 .. W \div 2 - 1
      <3>1. Side \in Nat /\ i \in 0 .. 2^Side - 1
        BY Halving DEF Word, W
      <3> QED
        BY <3>1, PairInside DEF W
    <2> HIDE DEF c
    <2>2. c \in Int /\ b \in Int /\ b >= 0 /\ b < W
      BY <1>1, <2>1
    <2>3. Wide(bits, ptr)[c] = Load(bits, ptr, c, W)
      BY <2>1 DEF Wide
    <2>4. b \in Load(bits, ptr, c, W) <=> ptr + c * W + b \in bits
      BY <1>1, <2>2, LoadIs
    <2>5. ptr + c * W + b = ptr + (W * c + b)
      <3>1. c * W = W * c /\ W * c \in Int
        BY <1>1, <2>2
      <3> QED
        BY <2>2, <3>1
    <2> QED
      BY <2>3, <2>4, <2>5 DEF c
  <1> QED
    BY <1>2, <1>3 DEF new

\* The number of a place is W times its word, and its place there.  A distance within
\* a word leaves the word alone, one of whole words the place in it.
LEMMA NarrowPlaces ==
    ASSUME NEW x \in Place, NEW d \in 0 .. Side - 1
    PROVE  LET i == x \div W
               b == x % W
           IN /\ Opposite(x, 2^d) = W * i + Opposite(b, 2^d)
              /\ PairOf(x, 2^d) = i * (W \div 2) + PairOf(b, 2^d)
  <1> DEFINE i == x \div W
             b == x % W
             s == 2^d
             half == W \div 2
  <1>1. PICK t \in Nat : t > 0 /\ W = s * (2 * t) /\ half = s * t
    BY InsideWord
  <1>2. s \in Nat /\ s > 0
    BY InsideWord
  <1>3. i \in Nat /\ b \in Nat /\ x = W * i + b
    BY Halving, WordsOf DEF Word
  <1> HIDE DEF i, b, s, half
  <1> DEFINE a == b \div s
             low == b % s
             e == a \div 2
  <1>4. b = s * a + low /\ a \in Nat /\ low \in Nat /\ low < s
    BY <1>2, <1>3, Divided
  <1>5. b \div (2 * s) = e /\ e \in Nat
    <2>1. b \div (s * 2) = e /\ s * 2 = 2 * s
      BY <1>2, <1>3, DividedTwice
    <2>2. e \in Nat
      BY <1>4
    <2> QED
      BY <2>1, <2>2
  <1>6. PairOf(b, s) = e * s + low
    BY <1>5 DEF PairOf
  <1>7. Has(b, s) <=> a % 2 = 1
    BY DEF Has
  <1> HIDE DEF a, low
  <1> DEFINE v == t * i
  <1>8. x = s * (2 * v + a) + low /\ v \in Nat
    <2>1. (s * (2 * t)) * i = s * (2 * (t * i))
      BY <1>2, <1>3
    <2>2. v \in Nat
      BY <1>3
    <2> HIDE DEF v
    <2>3. s * (2 * v + a) = s * (2 * v) + s * a /\ s * (2 * v) \in Nat /\ s * a \in Nat
      BY <1>2, <1>4, <2>2
    <2>4. W * i = s * (2 * v)
      BY <1>1, <2>1 DEF v
    <2> QED
      BY <1>3, <1>4, <2>2, <2>3, <2>4
  <1>9. i * half = v * s
    <2>1. i * (s * t) = (t * i) * s
      BY <1>2, <1>3
    <2> QED
      BY <1>1, <2>1
  <1> HIDE DEF v
  <1> DEFINE q == 2 * v + a
  <1>10. q \in Nat /\ q % 2 = a % 2 /\ q \div 2 = v + (a \div 2)
    BY <1>4, <1>8
  <1>11. x \div s = q /\ x % s = low
    <2>1. q \in Nat /\ x = s * q + low
      BY <1>8, <1>10
    <2> HIDE DEF q
    <2> QED
      BY <1>2, <1>4, <2>1, Division
  <1>12. x \div (2 * s) = v + e
    <2>1. x \in Nat
      BY WordsOf
    <2>2. x \div (s * 2) = (x \div s) \div 2 /\ s * 2 = 2 * s
      BY <1>2, <2>1, DividedTwice
    <2> QED
      BY <1>10, <1>11, <2>2
  <1>13. Has(x, s) <=> Has(b, s)
    BY <1>7, <1>10, <1>11 DEF Has
  <1> HIDE DEF q, e
  <1>14. PairOf(x, s) = i * half + PairOf(b, s)
    <2>1. PairOf(x, s) = (v + e) * s + low
      BY <1>11, <1>12 DEF PairOf
    <2>2. (v + e) * s = v * s + e * s /\ v * s \in Nat /\ e * s \in Nat
      BY <1>2, <1>5, <1>8
    <2> QED
      BY <1>4, <1>6, <1>9, <2>1, <2>2
  <1>15. Opposite(x, s) = W * i + Opposite(b, s)
    <2>1. W * i \in Nat
      BY <1>3, Halving
    <2> QED
      BY <1>2, <1>3, <1>13, <2>1 DEF Opposite
  <1> QED
    BY <1>14, <1>15 DEF i, b, s, half

LEMMA WidePlaces ==
    ASSUME NEW x \in Place, NEW d \in 0 .. Side - 1
    PROVE  LET i == x \div W
               b == x % W
           IN /\ Opposite(x, W * 2^d) = W * Opposite(i, 2^d) + b
              /\ PairOf(x, W * 2^d) = W * PairOf(i, 2^d) + b
  <1> DEFINE i == x \div W
             b == x % W
             s == 2^d
  <1>1. s \in Nat /\ s > 0 /\ W \in Nat /\ W > 0
    BY InsideWord, Halving
  <1>2. i \in Nat /\ b \in Nat /\ x = W * i + b /\ x \in Nat
    BY WordsOf, Halving DEF Word
  <1>3. x \div (W * s) = i \div s /\ x % (W * s) = W * (i % s) + b
    BY <1>1, <1>2, DividedTwice
  <1>4. x \div (2 * (W * s)) = i \div (2 * s)
    <2>1. 2 * s \in Nat /\ 2 * s > 0 /\ W * (2 * s) = 2 * (W * s)
      BY <1>1
    <2> DEFINE n == 2 * s
    <2>2. n \in Nat /\ n > 0
      BY <2>1
    <2> HIDE DEF n
    <2>3. x \div (W * n) = (x \div W) \div n
      BY <1>1, <1>2, <2>2, DividedTwice
    <2> QED
      BY <2>1, <2>3 DEF n
  <1>5. Has(x, W * s) <=> Has(i, s)
    BY <1>3 DEF Has
  <1> DEFINE p == i \div (2 * s)
             low == i % s
  <1>6. p \in Nat /\ low \in Nat
    BY <1>1, <1>2
  <1>7. PairOf(x, W * s) = p * (W * s) + (W * low + b) /\ PairOf(i, s) = p * s + low
    BY <1>3, <1>4 DEF PairOf
  <1> HIDE DEF p, low, i, b, s
  <1>8. p * (W * s) + (W * low + b) = W * (p * s + low) + b
    <2>1. p * (W * s) = W * (p * s) /\ p * s \in Nat /\ W * low \in Nat /\ W * (p * s) \in Nat
      BY <1>1, <1>6
    <2>2. W * (p * s + low) = W * (p * s) + W * low
      BY <1>1, <1>6, <2>1
    <2> QED
      BY <1>2, <2>1, <2>2
  <1>9. W * (i - s) = W * i - W * s /\ W * (i + s) = W * i + W * s /\ W * i \in Nat /\ W * s \in Nat
    BY <1>1, <1>2
  <1>10. Opposite(x, W * s) = W * Opposite(i, s) + b
    <2>1. CASE Has(i, s)
      <3>1. Opposite(x, W * s) = x - W * s /\ Opposite(i, s) = i - s
        BY <1>5, <2>1 DEF Opposite
      <3> QED
        BY <1>2, <1>9, <3>1
    <2>2. CASE ~Has(i, s)
      <3>1. Opposite(x, W * s) = x + W * s /\ Opposite(i, s) = i + s
        BY <1>5, <2>2 DEF Opposite
      <3> QED
        BY <1>2, <1>9, <3>1
    <2> QED
      BY <2>1, <2>2
  <1> QED
    BY <1>7, <1>8, <1>10 DEF i, b, s

\* A layer of benes.c does to the bits of a string what the same layer of controlbits.c
\* does to the values of a permutation.
LEMMA NetworkLayerIs ==
    ASSUME NEW bs \in Rows, NEW bits, NEW k \in 0 .. 2 * GFBITS - 2
    PROVE  /\ NetworkLayer(bs, bits, k) \in Rows
           /\ \A x \in Place :
                 Within(NetworkLayer(bs, bits, k), x) <=>
                     IF k * (N \div 2) + PairOf(x, 2^StrideOf(k)) \in bits
                     THEN Within(bs, Opposite(x, 2^StrideOf(k))) ELSE Within(bs, x)
  <1> DEFINE S == StrideOf(k)
             ptr == k * (N \div 2)
             new == NetworkLayer(bs, bits, k)
  <1>1. ptr \in Int /\ W \in Nat
    <2>1. N \div 2 \in Nat
      BY Halving
    <2> QED
      BY <2>1, Halving
  <1>2. \A x \in Place : x \div W \in Word /\ x % W \in Word
    BY WordsOf
  <1>3. S \in Nat
    BY Strides, Halving
  <1>4. CASE S < Side
    <2>1. S % Side = S /\ S \in 0 .. Side - 1
      BY <1>3, <1>4, Strides, Halving
    <2>2. new = Transposed(layer(Transposed(bs), Narrow(bits, ptr), S))
      BY <1>4, <2>1, Strides DEF NetworkLayer, StrideOf
    <2> HIDE DEF S, ptr, new
    <2>3. /\ new \in Rows
          /\ \A i, b \in Word :
                /\ Opposite(b, 2^S) \in Word
                /\ b \in new[i] <=>
                      IF ptr + (i * (W \div 2) + PairOf(b, 2^S)) \in bits THEN Opposite(b, 2^S) \in bs[i] ELSE b \in bs[i]
      BY <1>1, <2>1, <2>2, NarrowLayerIs
    <2>4. ASSUME NEW x \in Place
          PROVE  Within(new, x) <=>
                     IF ptr + PairOf(x, 2^S) \in bits THEN Within(bs, Opposite(x, 2^S)) ELSE Within(bs, x)
      <3> DEFINE i == x \div W
                 b == x % W
      <3>1. Opposite(x, 2^S) = W * i + Opposite(b, 2^S) /\ PairOf(x, 2^S) = i * (W \div 2) + PairOf(b, 2^S)
        BY <2>1, NarrowPlaces
      <3>2. i \in Word /\ b \in Word
        BY <1>2
      <3>3. Within(new, x) <=> b \in new[i]
        BY DEF Within
      <3>4. Within(bs, x) <=> b \in bs[i]
        BY DEF Within
      <3> HIDE DEF i, b
      <3> DEFINE o == Opposite(b, 2^S)
      <3>5. o \in Word
        BY <2>3, <3>2
      <3>6. Within(bs, W * i + o) <=> o \in bs[i]
        <4> HIDE DEF o
        <4> QED
          BY <3>2, <3>5, PlaceOfWords DEF Within
      <3> QED
        BY <2>3, <3>1, <3>2, <3>3, <3>4, <3>6
    <2> QED
      BY <2>3, <2>4 DEF S, ptr, new
  <1>5. CASE ~(S < Side)
    <2> DEFINE d == S - Side
    <2>1. S % Side = d /\ d \in 0 .. Side - 1
      BY <1>5, Strides
    <2>2. new = layer(bs, Wide(bits, ptr), d)
      BY <1>5, <2>1, Strides DEF NetworkLayer, StrideOf
    <2>3. 2^S = W * 2^d
      <3>1. d \in Nat /\ Side \in Nat /\ S = Side + d
        BY <1>3, <2>1, Halving
      <3> HIDE DEF d, S
      <3>2. 2^(Side + d) = 2^Side * 2^d
        BY <3>1, TwoSum
      <3> QED
        BY <3>1, <3>2 DEF W
    <2> HIDE DEF S, ptr, new, d
    <2>4. /\ new \in Rows
          /\ \A i, b \in Word :
                /\ Opposite(i, 2^d) \in Word
                /\ b \in new[i] <=>
                      IF ptr + (W * PairOf(i, 2^d) + b) \in bits THEN b \in bs[Opposite(i, 2^d)] ELSE b \in bs[i]
      BY <1>1, <2>1, <2>2, WideLayerIs
    <2>5. ASSUME NEW x \in Place
          PROVE  Within(new, x) <=>
                     IF ptr + PairOf(x, W * 2^d) \in bits THEN Within(bs, Opposite(x, W * 2^d)) ELSE Within(bs, x)
      <3> DEFINE i == x \div W
                 b == x % W
      <3>1. Opposite(x, W * 2^d) = W * Opposite(i, 2^d) + b /\ PairOf(x, W * 2^d) = W * PairOf(i, 2^d) + b
        BY <2>1, WidePlaces
      <3>2. i \in Word /\ b \in Word
        BY <1>2
      <3>3. Within(new, x) <=> b \in new[i]
        BY DEF Within
      <3>4. Within(bs, x) <=> b \in bs[i]
        BY DEF Within
      <3> HIDE DEF i, b
      <3> DEFINE o == Opposite(i, 2^d)
      <3>5. o \in Word
        BY <2>4, <3>2
      <3>6. Within(bs, W * o + b) <=> b \in bs[o]
        <4> HIDE DEF o
        <4> QED
          BY <3>2, <3>5, PlaceOfWords DEF Within
      <3> QED
        BY <2>4, <3>1, <3>2, <3>3, <3>4, <3>6
    <2> QED
      BY <2>3, <2>4, <2>5 DEF S, ptr, new
  <1> QED
    BY <1>4, <1>5

\* The loops over the layers, of benes.c and of controlbits.c.
Placings == [Place -> Place]
Permuted(bs, bits) == For(0, 2 * GFBITS - 2, bs, LAMBDA x, k : NetworkLayer(x, bits, k))
Switched(p, bits) ==
    For(0, 2 * GFBITS - 2, p, LAMBDA x, k : SwapLayer(x, bits, k * (N \div 2), StrideOf(k)))

\* Each has the states that its layers lead to.
LEMMA PermutedLoop ==
    ASSUME NEW bs \in Rows, NEW bits
    PROVE  \E h \in [0 - 1 .. 2 * GFBITS - 2 -> Rows] :
              /\ h[0 - 1] = bs /\ Permuted(bs, bits) = h[2 * GFBITS - 2]
              /\ \A k \in 0 .. 2 * GFBITS - 2 : h[k] = NetworkLayer(h[k - 1], bits, k)
  <1> DEFINE lo == 0
             hi == 2 * GFBITS - 2
             Turn(y, k) == NetworkLayer(y, bits, k)
             IsLoop(f) == f = [k \in lo - 1 .. hi |->
                 IF k < lo THEN bs
                 ELSE CHOOSE y \in {Turn(z, k) : z \in {f[k - 1]}} : TRUE]
             h == CHOOSE f : IsLoop(f)
             step == [q \in Rows \X (lo .. hi) |-> Turn(q[1], q[2])]
  <1>1. lo \in Int /\ hi \in Int /\ lo - 1 <= hi
    BY Halving
  <1>2. \A y \in Rows : \A k \in lo .. hi : Turn(y, k) \in Rows
    BY NetworkLayerIs
  <1>3. Permuted(bs, bits) = Once(h[hi])
    BY Zenon DEF Permuted, For
  <1> HIDE DEF lo, hi, Turn
  <1>4. \A f, k : (CHOOSE y \in {Turn(z, k) : z \in {f[k - 1]}} : TRUE) = Turn(f[k - 1], k)
    <2> TAKE f, k
    <2>1. {Turn(z, k) : z \in {f[k - 1]}} = {Turn(f[k - 1], k)}
      OBVIOUS
    <2> QED
      BY <2>1, ChosenIs
  <1>5. step \in [Rows \X (lo .. hi) -> Rows] /\ \A y \in Rows : \A k \in lo .. hi : step[<<y, k>>] = Turn(y, k)
    BY <1>2
  <1> HIDE DEF step
  <1>6. PICK g \in LoopsOf(Rows, bs, lo, hi, step) : TRUE
    <2>1. LoopsOf(Rows, bs, lo, hi, step) # {}
      <3> HIDE DEF IsLoop, h
      <3> QED
        BY <1>1, <1>5, LoopHasResult
    <2> QED
      BY <2>1, Zenon
  <1>7. IsLoop(g)
    <2>1. /\ g \in [lo - 1 .. hi -> Rows] /\ g[lo - 1] = bs
          /\ \A k \in lo .. hi : g[k] = step[<<g[k - 1], k>>]
      BY <1>6 DEF LoopsOf
    <2>2. ASSUME NEW k \in lo - 1 .. hi PROVE g[k] = IF k < lo THEN bs ELSE Turn(g[k - 1], k)
      <3>1. CASE k < lo
        <4>1. k = lo - 1
          BY <3>1, <1>1
        <4> QED
          BY <3>1, <4>1, <2>1
      <3>2. CASE ~(k < lo)
        <4>1. k \in lo .. hi /\ k - 1 \in lo - 1 .. hi
          BY <3>2, <1>1
        <4> QED
          BY <3>2, <4>1, <2>1, <1>5
      <3> QED
        BY <3>1, <3>2
    <2> QED
      BY <2>1, <2>2, <1>4
  <1>8. IsLoop(h)
    BY <1>7, Zenon
  <1> HIDE DEF h
  <1>9. /\ DOMAIN h = lo - 1 .. hi /\ h[lo - 1] = bs
        /\ \A k \in lo .. hi : h[k] = Turn(h[k - 1], k)
    <2>1. DOMAIN h = lo - 1 .. hi
      BY <1>8
    <2>2. h[lo - 1] = bs
      BY <1>1, <1>8
    <2>3. ASSUME NEW k \in lo .. hi PROVE h[k] = Turn(h[k - 1], k)
      <3>1. k \in lo - 1 .. hi /\ ~(k < lo)
        BY <1>1
      <3> QED
        BY <3>1, <1>4, <1>8
    <2> QED
      BY <2>1, <2>2, <2>3
  <1>10. \A k \in lo - 1 .. hi : h[k] \in Rows
    BY <1>1, <1>2, <1>9, LoopKeeps
  <1>11. h \in [lo - 1 .. hi -> Rows]
    BY <1>8, <1>9, <1>10
  <1>12. Permuted(bs, bits) = h[hi]
    BY <1>3, OnceIs
  <1> QED
    BY <1>9, <1>11, <1>12 DEF lo, hi, Turn

\* The test of the control bits.
LEMMA SwitchedLoop ==
    ASSUME NEW p \in Placings, NEW bits
    PROVE  \E h \in [0 - 1 .. 2 * GFBITS - 2 -> Placings] :
              /\ h[0 - 1] = p /\ Switched(p, bits) = h[2 * GFBITS - 2]
              /\ \A k \in 0 .. 2 * GFBITS - 2 : h[k] = SwapLayer(h[k - 1], bits, k * (N \div 2), StrideOf(k))
  <1> DEFINE lo == 0
             hi == 2 * GFBITS - 2
             Turn(y, k) == SwapLayer(y, bits, k * (N \div 2), StrideOf(k))
             IsLoop(f) == f = [k \in lo - 1 .. hi |->
                 IF k < lo THEN p
                 ELSE CHOOSE y \in {Turn(z, k) : z \in {f[k - 1]}} : TRUE]
             h == CHOOSE f : IsLoop(f)
             step == [q \in Placings \X (lo .. hi) |-> Turn(q[1], q[2])]
  <1>1. lo \in Int /\ hi \in Int /\ lo - 1 <= hi
    BY Halving
  <1>2. \A y \in Placings : \A k \in lo .. hi : Turn(y, k) \in Placings
    <2>1. \A k \in lo .. hi : StrideOf(k) \in 0 .. GFBITS - 1
      BY Strides
    <2> QED
      BY <2>1, SwapLayerIs DEF Placings
  <1>3. Switched(p, bits) = Once(h[hi])
    BY Zenon DEF Switched, For
  <1> HIDE DEF lo, hi, Turn
  <1>4. \A f, k : (CHOOSE y \in {Turn(z, k) : z \in {f[k - 1]}} : TRUE) = Turn(f[k - 1], k)
    <2> TAKE f, k
    <2>1. {Turn(z, k) : z \in {f[k - 1]}} = {Turn(f[k - 1], k)}
      OBVIOUS
    <2> QED
      BY <2>1, ChosenIs
  <1>5. step \in [Placings \X (lo .. hi) -> Placings] /\ \A y \in Placings : \A k \in lo .. hi : step[<<y, k>>] = Turn(y, k)
    BY <1>2
  <1> HIDE DEF step
  <1>6. PICK g \in LoopsOf(Placings, p, lo, hi, step) : TRUE
    <2>1. LoopsOf(Placings, p, lo, hi, step) # {}
      <3> HIDE DEF IsLoop, h
      <3> QED
        BY <1>1, <1>5, LoopHasResult
    <2> QED
      BY <2>1, Zenon
  <1>7. IsLoop(g)
    <2>1. /\ g \in [lo - 1 .. hi -> Placings] /\ g[lo - 1] = p
          /\ \A k \in lo .. hi : g[k] = step[<<g[k - 1], k>>]
      BY <1>6 DEF LoopsOf
    <2>2. ASSUME NEW k \in lo - 1 .. hi PROVE g[k] = IF k < lo THEN p ELSE Turn(g[k - 1], k)
      <3>1. CASE k < lo
        <4>1. k = lo - 1
          BY <3>1, <1>1
        <4> QED
          BY <3>1, <4>1, <2>1
      <3>2. CASE ~(k < lo)
        <4>1. k \in lo .. hi /\ k - 1 \in lo - 1 .. hi
          BY <3>2, <1>1
        <4> QED
          BY <3>2, <4>1, <2>1, <1>5
      <3> QED
        BY <3>1, <3>2
    <2> QED
      BY <2>1, <2>2, <1>4
  <1>8. IsLoop(h)
    BY <1>7, Zenon
  <1> HIDE DEF h
  <1>9. /\ DOMAIN h = lo - 1 .. hi /\ h[lo - 1] = p
        /\ \A k \in lo .. hi : h[k] = Turn(h[k - 1], k)
    <2>1. DOMAIN h = lo - 1 .. hi
      BY <1>8
    <2>2. h[lo - 1] = p
      BY <1>1, <1>8
    <2>3. ASSUME NEW k \in lo .. hi PROVE h[k] = Turn(h[k - 1], k)
      <3>1. k \in lo - 1 .. hi /\ ~(k < lo)
        BY <1>1
      <3> QED
        BY <3>1, <1>4, <1>8
    <2> QED
      BY <2>1, <2>2, <2>3
  <1>10. \A k \in lo - 1 .. hi : h[k] \in Placings
    BY <1>1, <1>2, <1>9, LoopKeeps
  <1>11. h \in [lo - 1 .. hi -> Placings]
    BY <1>8, <1>9, <1>10
  <1>12. Switched(p, bits) = h[hi]
    BY <1>3, OnceIs
  <1> QED
    BY <1>9, <1>11, <1>12 DEF lo, hi, Turn

\* A permutation that passes the test of the control bits is the one that apply_benes
\* applies with them to any string of bits, on words and their transposes.
THEOREM NetworkPermutes ==
    ASSUME NEW bits, NEW in \in SUBSET Place, NEW order, ControlBitsPass(bits, order)
    PROVE  order \in [Place -> Place] /\ apply_benes(in, bits) = {x \in Place : order[x] \in in}
  <1> DEFINE start == [i \in Word |-> Load(in, 0, i, W)]
             lo == 0
             hi == 2 * GFBITS - 2
  <1>1. /\ W \in Nat /\ Word = 0 .. W - 1 /\ Place = 0 .. N - 1 /\ N \in Nat
        /\ lo \in Int /\ hi \in Int /\ lo - 1 <= hi /\ hi \in lo - 1 .. hi
    BY Halving DEF Word, Place
  <1>2. order = Switched(Identity(N), bits)
    BY Zenon DEF ControlBitsPass, Switched, StrideOf
  <1>3. apply_benes(in, bits) = {x \in Place : Within(Permuted(start, bits), x)}
    BY Zenon DEF apply_benes, Permuted, Within, Place
  <1>4. \A i \in Word : Load(in, 0, i, W) \subseteq Word
    <2> TAKE i \in Word
    <2>1. i \in Int /\ i * W \in Int /\ (i + 1) * W \in Int
      BY <1>1
    <2>2. \A b \in Load(in, 0, i, W) : b \in Int
      BY <1>1, <2>1 DEF Load
    <2>3. \A b \in Int : b \in Load(in, 0, i, W) => b >= 0 /\ b < W
      BY <1>1, <2>1, LoadIs
    <2> QED
      BY <1>1, <2>2, <2>3
  <1>5. start \in Rows
    BY <1>4 DEF Rows
  <1>6. ASSUME NEW x \in Place PROVE Within(start, x) <=> x \in in
    <2> DEFINE i == x \div W
               b == x % W
    <2>1. i \in Word /\ b \in Word /\ x = W * i + b /\ x \in Nat
      BY WordsOf
    <2>2. Within(start, x) <=> b \in Load(in, 0, i, W)
      BY <2>1 DEF Within
    <2> HIDE DEF i, b
    <2>3. i \in Int /\ b \in Int /\ b >= 0 /\ b < W
      BY <1>1, <2>1
    <2>4. b \in Load(in, 0, i, W) <=> 0 + i * W + b \in in
      BY <1>1, <2>3, LoadIs
    <2>5. 0 + i * W + b = x
      <3>1. i * W = W * i /\ W * i \in Int
        BY <1>1, <2>3
      <3> QED
        BY <2>1, <2>3, <3>1
    <2> QED
      BY <2>2, <2>4, <2>5
  <1>7. Identity(N) \in Placings /\ \A x \in Place : Identity(N)[x] = x
    BY DEF Identity, Place, Placings
  <1> HIDE DEF start
  <1>8. PICK h \in [0 - 1 .. 2 * GFBITS - 2 -> Rows] :
            /\ h[0 - 1] = start /\ Permuted(start, bits) = h[2 * GFBITS - 2]
            /\ \A k \in 0 .. 2 * GFBITS - 2 : h[k] = NetworkLayer(h[k - 1], bits, k)
    BY <1>5, PermutedLoop
  <1>9. PICK g \in [0 - 1 .. 2 * GFBITS - 2 -> Placings] :
            /\ g[0 - 1] = Identity(N) /\ Switched(Identity(N), bits) = g[2 * GFBITS - 2]
            /\ \A k \in 0 .. 2 * GFBITS - 2 : g[k] = SwapLayer(g[k - 1], bits, k * (N \div 2), StrideOf(k))
    BY <1>7, SwitchedLoop
  <1> DEFINE T == {k \in lo - 1 .. hi : \A x \in Place : Within(h[k], x) <=> g[k][x] \in in}
  <1>10. lo - 1 \in T
    <2>1. lo - 1 \in lo - 1 .. hi
      BY <1>1
    <2> QED
      BY <1>6, <1>7, <1>8, <1>9, <2>1
  <1>11. ASSUME NEW k \in lo .. hi, k - 1 \in T PROVE k \in T
    <2> DEFINE s == 2^StrideOf(k)
               at == k * (N \div 2)
               bs == h[k - 1]
               p == g[k - 1]
    <2>1. k \in 0 .. 2 * GFBITS - 2 /\ k - 1 \in 0 - 1 .. 2 * GFBITS - 2 /\ k \in lo - 1 .. hi
      BY <1>1
    <2>2. StrideOf(k) \in 0 .. GFBITS - 1
      BY <2>1, Strides
    <2>3. bs \in Rows /\ p \in [Place -> Place]
      BY <1>8, <1>9, <2>1 DEF Placings
    <2>4. \A x \in Place : Within(bs, x) <=> p[x] \in in
      BY <1>11
    <2>5. h[k] = NetworkLayer(bs, bits, k) /\ g[k] = SwapLayer(p, bits, at, StrideOf(k))
      BY <1>8, <1>9, <2>1
    <2> HIDE DEF bs, p, lo, hi, T
    <2>6. \A x \in Place :
              Within(h[k], x) <=> IF at + PairOf(x, s) \in bits THEN Within(bs, Opposite(x, s)) ELSE Within(bs, x)
      BY <2>1, <2>3, <2>5, NetworkLayerIs
    <2>7. \A x \in Place :
              /\ Opposite(x, s) \in Place
              /\ g[k][x] = IF at + PairOf(x, s) \in bits THEN p[Opposite(x, s)] ELSE p[x]
      BY <2>2, <2>3, <2>5, SwapLayerIs
    <2> HIDE DEF s, at
    <2>8. \A x \in Place : Within(h[k], x) <=> g[k][x] \in in
      BY <2>4, <2>6, <2>7
    <2> QED
      BY <2>1, <2>8 DEF T
  <1> HIDE DEF T
  <1>12. \A k \in lo - 1 .. hi : k \in T
    <2> HIDE DEF lo, hi
    <2> QED
      BY <1>1, <1>10, <1>11, Counting
  <1>13. hi \in T
    BY <1>1, <1>12
  <1>14. \A x \in Place : Within(h[hi], x) <=> g[hi][x] \in in
    BY <1>13 DEF T
  <1>15. order = g[hi]
    BY <1>2, <1>9
  <1>16. order \in [Place -> Place]
    BY <1>1, <1>9, <1>15 DEF Placings
  <1>17. Permuted(start, bits) = h[hi]
    BY <1>8
  <1> HIDE DEF hi
  <1> QED
    BY <1>3, <1>14, <1>15, <1>16, <1>17

\* The support that benes.c computes from such control bits.
LEMMA SupportIs ==
    ASSUME NEW bits, NEW order, ControlBitsPass(bits, order)
    PROVE  /\ order \in [Place -> Place]
           /\ \A i \in Position : support_gen(bits)[i] = bitrev(AsGf(order[i]))
  <1> DEFINE Input(j) == {x \in 0 .. N - 1 : j \in bitrev(AsGf(x))}
             images == [j \in 0 .. GFBITS - 1 |-> apply_benes(Input(j), bits)]
             result == [i \in Position |-> {j \in 0 .. GFBITS - 1 : i \in images[j]}]
  <1>1. order \in [Place -> Place]
    <2>1. {} \in SUBSET Place
      OBVIOUS
    <2> QED
      BY <2>1, NetworkPermutes
  <1>2. support_gen(bits) = result
    <2>1. support_gen(bits) = Once([i \in Position |-> {j \in 0 .. GFBITS - 1 : i \in Once(images)[j]}])
      BY Zenon DEF support_gen
    <2>2. Once(images) = images
      <3> HIDE DEF images
      <3> QED
        BY OnceIs
    <2>3. support_gen(bits) = Once(result)
      <3> HIDE DEF images
      <3> QED
        BY <2>1, <2>2
    <2> HIDE DEF result
    <2> QED
      BY <2>3, OnceIs
  <1>3. \A i \in Position : i \in Place
    BY CodeSizes, Halving DEF Position, Place, N
  <1>4. ASSUME NEW i \in Position, NEW j \in 0 .. GFBITS - 1
        PROVE  i \in images[j] <=> j \in bitrev(AsGf(order[i]))
    <2> DEFINE in == Input(j)
    <2>1. in \in SUBSET Place
      BY DEF Place
    <2>2. images[j] = apply_benes(in, bits)
      OBVIOUS
    <2>3. order[i] \in in <=> j \in bitrev(AsGf(order[i]))
      <3>1. order[i] \in 0 .. N - 1
        BY <1>1, <1>3 DEF Place
      <3> QED
        BY <3>1
    <2> HIDE DEF in, images
    <2>4. apply_benes(in, bits) = {x \in Place : order[x] \in in}
      BY <2>1, NetworkPermutes
    <2> QED
      BY <1>3, <2>2, <2>3, <2>4
  <1>5. \A i \in Position : bitrev(AsGf(order[i])) \subseteq 0 .. GFBITS - 1
    <2> TAKE i \in Position
    <2>1. GFBITS \in Nat
      BY Halving
    <2>2. \A b \in AsGf(order[i]) : b \in 0 .. GFBITS - 1
      BY DEF AsGf
    <2> HIDE DEF images, result
    <2> QED
      BY <2>1, <2>2 DEF bitrev
  <1> HIDE DEF images
  <1>6. ASSUME NEW i \in Position PROVE result[i] = bitrev(AsGf(order[i]))
    <2>1. result[i] = {j \in 0 .. GFBITS - 1 : i \in images[j]}
      OBVIOUS
    <2> HIDE DEF result
    <2> QED
      BY <1>4, <1>5, <2>1
  <1> HIDE DEF result
  <1> QED
    BY <1>1, <1>2, <1>6

----------------------------------------------------------------------------
(* The key in use.  The bits of the secret key have passed the test against *)
(* the order that perm of the same attempt sorts to.                        *)

\* A good expansion has made an order of its permutation.
LEMMA GoodHasOrder ==
    ASSUME NEW x, Made(x).outcome = "good"
    PROVE  /\ Made(x).from = x
           /\ Made(x).pi = PermutationOf(x.perm) /\ Made(x).pi # Failure
  <1> DEFINE g == Once(genpoly_gen(x.f))
             order == Once(PermutationOf(x.perm))
             rows == Once(SystematicRows(KeyMatrix(Monic(g), SupportOf(order))))
             Bad(how) == [from |-> x, outcome |-> how]
             full == [from |-> x, outcome |-> "good", g |-> g, pi |-> order, rows |-> rows,
                      bits |-> controlbitsfrompermutation(order)]
  <1>1. Made(x) = IF g = Failure THEN Bad("noPolynomial")
                  ELSE IF order = Failure THEN Bad("noPermutation")
                  ELSE IF rows = Failure THEN Bad("notSystematic") ELSE full
    BY Zenon DEF Made
  <1>2. order = PermutationOf(x.perm)
    BY OnceIs
  <1>3. full.from = x /\ full.pi = order
    OBVIOUS
  <1> HIDE DEF g, order, rows, full
  <1>4. \A how : Bad(how).outcome = how
    OBVIOUS
  <1> HIDE DEF Bad
  <1>5. Made(x) = full /\ order # Failure
    BY <1>1, <1>4
  <1> QED
    BY <1>2, <1>3, <1>5

Making == stage \in {"start", "keypair"}
Tested(x) == ControlBitsPass(x.bits, x.pi)
FromExpansions == Making => \A n \in Attempt : \E x \in Expansions : data[n] = Made(x)
OneGood == Making => \A n \in Attempt : Good(data[n]) => data[n] = data[ATTEMPTS - 1]
KeyTested == Making /\ pc = "done" => Tested(data[pk.perm[0].source])

\* From Return on, the expansion of the attempt that the keys are of is every data[n].
SecretPermutes ==
    ~Making =>
        \E x \in Expansions : /\ data[0].from = x /\ PermutationOf(x.perm) # Failure
                              /\ ControlBitsPass(secret.bits, PermutationOf(x.perm))
SupportComputed == stage \in {"decapsSent", "decapsOther"} => support = support_gen(secret.bits)

KeyInv ==
    KemTypes /\ FromExpansions /\ OneGood /\ KeyTested /\ SecretPermutes /\ SupportComputed

LEMMA KemInitKey == KemInit => KeyInv
  <1> SUFFICES ASSUME KemInit PROVE KeyInv
    OBVIOUS
  <1>1. KemTypes
    BY KemInitTypes
  <1>2. stage = "start" /\ pc = "expand" /\ Making
    BY DEF KemInit, Init, Making
  <1>3. data \in Chains({Made(x) : x \in Expansions})
    BY DEF KemInit
  <1>4. FromExpansions
    BY <1>3 DEF Chains, FromExpansions
  <1>5. OneGood
    <2>1. PICK n \in Attempt :
              /\ \A m \in 0 .. n - 1 : ~Good(data[m])
              /\ \A m \in n .. ATTEMPTS - 1 : Good(data[m]) /\ data[m] = data[n]
      BY <1>3 DEF Chains
    <2>2. \A m \in Attempt : m \in 0 .. n - 1 \/ m \in n .. ATTEMPTS - 1
      BY Sizes DEF Attempt
    <2>3. ATTEMPTS - 1 \in n .. ATTEMPTS - 1
      BY Sizes DEF Attempt
    <2> QED
      BY <2>1, <2>2, <2>3 DEF OneGood
  <1>6. KeyTested /\ SecretPermutes /\ SupportComputed
    BY <1>2 DEF KeyTested, SecretPermutes, SupportComputed
  <1> QED
    BY <1>1, <1>4, <1>5, <1>6 DEF KeyInv

\* The parts of the secret key of attempt t are of attempt t.
LEMMA BitsOfKey ==
    ASSUME NEW t \in Attempt
    PROVE  SecretKey(t)[SEED + PIVOTS + IRR].source = t
  <1> DEFINE n == SEED + PIVOTS + IRR
  <1>1. n \in 0 .. SizeOfSk - 1 /\ n - (SEED + PIVOTS + IRR) = 0
    BY Sizes, SizeOfs
  <1>2. SecretKey(t)[n] = KeyByte(t, n)
    <2> HIDE DEF n
    <2> QED
      BY <1>1, SecretKeyBytes
  <1>3. KeyByte(t, n).source = t
    BY Sizes DEF KeyByte, Byte
  <1> QED
    BY <1>2, <1>3

\* The steps of the key generation: the last is taken with bits that pass.
LEMMA GenerateKey ==
    ASSUME KeyInv, Generate
    PROVE  KeyInv'
  <1>1. KemTypes'
    BY GenerateTypes DEF KeyInv
  <1>2. stage = "keypair" /\ Step /\ UNCHANGED <<stage, data, secret, support>>
    BY DEF Generate
  <1>3. FromExpansions' /\ OneGood' /\ SecretPermutes' /\ SupportComputed'
    BY <1>2 DEF KeyInv, Making, FromExpansions, OneGood, SecretPermutes, SupportComputed, Good
  <1>4. ASSUME pc' = "done" PROVE Tested(data[pk.perm[0].source])'
    <2>1. pc = "control" /\ UNCHANGED pk
      BY <1>2, <1>4 DEF Step, ExpandSeed, NoPolynomial, Genpoly, NoPermutation, NotSystematic, PkGen, Finish
    <2>2. PICK t \in Attempt : Of(t)
      BY DEF KeyInv, KemTypes, IInv
    <2>3. 0 \in 0 .. PERM - 1
      BY Sizes
    <2>4. pi[0].source = t /\ pk.perm[0].source = t
      <3>1. perm = [m \in 0 .. PERM - 1 |-> Byte("r", t, TAIL + m)]
        BY <2>1, <2>2 DEF Of, AfterGenpoly
      <3>2. pi = perm /\ pk = PublicKey(t)
        BY <2>1, <2>2 DEF Of, AtControl
      <3>3. perm[0].source = t
        BY <2>3, <3>1 DEF Byte
      <3>4. pk.perm[0].source = t
        BY <2>3, <3>2 DEF PublicKey, Byte
      <3> QED
        BY <3>2, <3>3, <3>4
    <2>5. ControlBitsPass(data[pi[0].source].bits, data[pi[0].source].pi)
      BY <2>1 DEF Generate
    <2> QED
      BY <1>2, <2>1, <2>4, <2>5 DEF Tested
  <1>5. KeyTested'
    BY <1>4 DEF KeyTested
  <1> QED
    BY <1>1, <1>3, <1>5 DEF KeyInv

LEMMA ReturnKey ==
    ASSUME KeyInv, Return
    PROVE  KeyInv'
  <1>1. KemTypes'
    BY ReturnTypes DEF KeyInv
  <1>2. stage = "keypair" /\ pc = "done" /\ stage' = "keys" /\ Making /\ ~Making'
    BY DEF Return, Making
  <1>3. PICK t \in Attempt : Of(t)
    BY DEF KeyInv, KemTypes, IInv
  <1>4. outcome[t] = "good" /\ sk = SecretKey(t) /\ pk = PublicKey(t)
    BY <1>2, <1>3 DEF Of, AtDone
  <1>5. pk.perm[0].source = t
    <2>1. 0 \in 0 .. PERM - 1
      BY Sizes
    <2> QED
      BY <1>4, <2>1 DEF PublicKey, Byte
  <1>6. secret'.bits = data[t].bits
    BY <1>4, BitsOfKey DEF Return
  <1>7. PICK x \in Expansions : data[t] = Made(x)
    BY <1>2 DEF KeyInv, FromExpansions
  <1>8. data[t].outcome = "good" /\ Good(data[t])
    BY <1>2, <1>4 DEF KeyInv, KemTypes, DataIsMade, Good
  <1>9. Made(x).from = x /\ Made(x).pi = PermutationOf(x.perm) /\ Made(x).pi # Failure
    BY <1>7, <1>8, GoodHasOrder
  <1>10. Tested(data[t])
    BY <1>2, <1>5 DEF KeyInv, KeyTested
  <1>11. data'[0] = data[t]
    <2>1. data[t] = data[ATTEMPTS - 1]
      BY <1>2, <1>8 DEF KeyInv, OneGood
    <2>2. 0 \in Attempt
      BY Sizes DEF Attempt
    <2>3. data' = [n \in Attempt |-> data[ATTEMPTS - 1]]
      BY DEF Return
    <2> QED
      BY <2>1, <2>2, <2>3
  <1>12. SecretPermutes'
    <2>1. /\ data'[0].from = x /\ PermutationOf(x.perm) # Failure
          /\ ControlBitsPass(secret'.bits, PermutationOf(x.perm))
      BY <1>6, <1>7, <1>9, <1>10, <1>11 DEF Tested
    <2> QED
      BY <2>1 DEF SecretPermutes
  <1>13. FromExpansions' /\ OneGood' /\ KeyTested' /\ SupportComputed'
    BY <1>2 DEF FromExpansions, OneGood, KeyTested, SupportComputed
  <1> QED
    BY <1>1, <1>12, <1>13 DEF KeyInv

\* The steps that leave the keys alone, of which one computes the support.
LEMMA OtherKey ==
    ASSUME KeyInv, KemTypes', UNCHANGED keygen, UNCHANGED <<data, secret>>, Making' <=> Making,
           SupportComputed'
    PROVE  KeyInv'
  <1>1. UNCHANGED <<pc, pk>>
    BY DEF keygen
  <1>2. FromExpansions' /\ OneGood' /\ KeyTested'
    BY <1>1 DEF KeyInv, FromExpansions, OneGood, KeyTested, Tested, Good
  <1>3. SecretPermutes'
    BY DEF KeyInv, SecretPermutes
  <1> QED
    BY <1>2, <1>3 DEF KeyInv

LEMMA KeyStep ==
    ASSUME KeyInv, [KemNext]_kem
    PROVE  KeyInv'
  <1>0. KemTypes'
    BY KemTypesStep DEF KeyInv
  <1>1. CASE Start
    <2>1. SupportComputed' /\ (Making' <=> Making)
      BY <1>1 DEF Start, SupportComputed, Making
    <2> QED
      BY <1>0, <1>1, <2>1, OtherKey DEF Start
  <1>2. CASE Generate
    BY <1>2, GenerateKey
  <1>3. CASE Return
    BY <1>3, ReturnKey
  <1>4. CASE Draw
    <2>1. SupportComputed' /\ (Making' <=> Making)
      BY <1>4 DEF Draw, SupportComputed, Making
    <2> QED
      BY <1>0, <1>4, <2>1, OtherKey DEF Draw
  <1>5. CASE Encapsulate
    <2>1. SupportComputed' /\ (Making' <=> Making)
      BY <1>5 DEF Encapsulate, SupportComputed, Making
    <2> QED
      BY <1>0, <1>5, <2>1, OtherKey DEF Encapsulate
  <1>6. CASE ReadSecret
    <2>1. support' = support_gen(secret.bits) /\ secret' = secret
      BY <1>6 DEF ReadSecret
    <2>2. SupportComputed' /\ (Making' <=> Making)
      BY <1>6, <2>1 DEF ReadSecret, SupportComputed, Making
    <2> QED
      BY <1>0, <1>6, <2>2, OtherKey DEF ReadSecret
  <1>7. CASE DecapsulateSent
    <2>1. SupportComputed' /\ (Making' <=> Making)
      BY <1>7 DEF DecapsulateSent, SupportComputed, Making
    <2> QED
      BY <1>0, <1>7, <2>1, OtherKey DEF DecapsulateSent
  <1>8. CASE DecapsulateOther
    <2>1. SupportComputed' /\ (Making' <=> Making)
      BY <1>8 DEF DecapsulateOther, SupportComputed, Making
    <2> QED
      BY <1>0, <1>8, <2>1, OtherKey DEF DecapsulateOther
  <1>9. CASE UNCHANGED kem
    <2>1. SupportComputed' /\ (Making' <=> Making)
      BY <1>9 DEF kem, KeyInv, SupportComputed, Making
    <2> QED
      BY <1>0, <1>9, <2>1, OtherKey DEF kem
  <1> QED
    BY <1>1, <1>2, <1>3, <1>4, <1>5, <1>6, <1>7, <1>8, <1>9 DEF KemNext, Answered

LEMMA KeySupports == KeyInv => SupportIsPermuted
  <1> SUFFICES ASSUME KeyInv, stage \in {"decapsSent", "decapsOther"}, NEW i \in Position
               PROVE  \E place \in 0 .. N - 1 :
                          /\ Cardinality({k \in 0 .. N - 1 : data[0].from.perm[k] < data[0].from.perm[place]}) = i
                          /\ support[i] = {GFBITS - 1 - b : b \in AsGf(place)}
    BY DEF SupportIsPermuted
  <1>1. ~Making
    BY DEF Making
  <1>2. PICK x \in Expansions :
            /\ data[0].from = x /\ PermutationOf(x.perm) # Failure
            /\ ControlBitsPass(secret.bits, PermutationOf(x.perm))
    BY <1>1 DEF KeyInv, SecretPermutes
  <1>3. support = support_gen(secret.bits)
    BY DEF KeyInv, SupportComputed
  <1> DEFINE perms == x.perm
             order == PermutationOf(perms)
             bits == secret.bits
  <1>4. perms \in [Place -> Nat]
    BY KemInputs DEF Place
  <1>5. i \in Place
    BY CodeSizes, Halving DEF Position, Place, N
  <1>6. order # Failure /\ ControlBitsPass(bits, order) /\ data[0].from.perm = perms /\ support = support_gen(bits)
    BY <1>2, <1>3
  <1> HIDE DEF perms, bits
  <1>7. /\ order \in [Place -> Place]
        /\ Cardinality({k \in Place : perms[k] < perms[order[i]]}) = i
    BY <1>4, <1>5, <1>6, PermutationRanks
  <1> HIDE DEF order
  <1>8. support[i] = bitrev(AsGf(order[i]))
    BY <1>6, SupportIs
  <1>9. order[i] \in 0 .. N - 1 /\ Place = 0 .. N - 1
    BY <1>5, <1>7 DEF Place
  <1> QED
    BY <1>6, <1>7, <1>8, <1>9 DEF bitrev

\* The support that decapsulation computes from the control bits orders the field by
\* perm, as the public key does, for all sizes and whatever shake expands seeds to: the
\* comparisons of uint64_sort sort, and the layers of benes.c, with their transposes,
\* are those that controlbits.c tested the bits with.
THEOREM SupportOfEveryKey == KemSpec => []SupportIsPermuted
  <1>1. KemInit => KeyInv
    BY KemInitKey
  <1>2. KeyInv /\ [KemNext]_kem => KeyInv'
    BY KeyStep
  <1>3. KeyInv => SupportIsPermuted
    BY KeySupports
  <1> QED
    BY <1>1, <1>2, <1>3, PTL DEF KemSpec
=============================================================================
