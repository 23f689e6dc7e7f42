--------------------------- MODULE Fips202Proofs ---------------------------
(***************************************************************************)
(* For every rate, input and number of contexts: the count of a context    *)
(* stays below the rate, the contexts in use partition the places malloc   *)
(* has given out, and what is squeezed out is the stream of the message.   *)
(*                                                                         *)
(* The first two do not depend on the words of the state and have an       *)
(* invariant of their own, Inv.  For the third, IInv says of every handle  *)
(* in use which state it is in: ContextOf(x) when x has been absorbed, and *)
(* so many permutations behind the padded blocks once it is squeezed.      *)
(* That the functions of the sponge go from one such state to another is   *)
(* what IncAbsorbIs, IncFinalizeIs, AbsorbIs, CshakePrefix, IncSqueezeIs   *)
(* and BlocksOutIs say.                                                    *)
(***************************************************************************)
EXTENDS Fips202, FiniteSetTheorems, SequenceTheorems, WellFoundedInduction, TLAPS

Count == 0 .. RATE - 1

\* Every count is below the rate.
Counts == DOMAIN heap = Place /\ \A p \in Place : heap[p].count \in Count

\* No context is free or shared, and every place that is not free is one.
Partition ==
    /\ ctx \in [Handle -> Place \cup {NoPlace}]
    /\ free \subseteq Place
    /\ \A h \in Handle : ctx[h] # NoPlace => ctx[h] \notin free
    /\ \A g, h \in Handle : ctx[g] = ctx[h] /\ ctx[g] # NoPlace => g = h
    /\ \A p \in Place \ free : \E h \in Handle : ctx[h] = p

Inv == Counts /\ Partition

----------------------------------------------------------------------------
(* The counts that the functions of the sponge return. *)

\* The remainder of a division is below the divisor.
LEMMA Remainder ==
    ASSUME NEW n \in Nat
    PROVE  /\ n \div RATE \in Nat
           /\ n - ((n \div RATE) * RATE) \in Count
BY RateAssumption, Z3 DEF Count

LEMMA NoCount == 0 \in Count
BY RateAssumption DEF Count

LEMMA IncAbsorbCount ==
    ASSUME NEW c, c.count \in Nat, NEW in, Len(in) \in Nat
    PROVE  IncAbsorb(c, in).count \in Count
<1>1. c.count + Len(in) \in Nat
  OBVIOUS
<1>2. (c.count + Len(in)) - (Turns(c.count + Len(in)) * RATE) \in Count
  BY <1>1, Remainder DEF Turns
<1> QED  BY <1>2 DEF IncAbsorb

LEMMA LeftEncodeIs ==
    ASSUME NEW v
    PROVE  LeftEncode(v) \in Seq(Byte) /\ Len(LeftEncode(v)) \in Nat
  <1> DEFINE n == Cardinality({k \in 0 .. 3 : k = 0 \/ v >= 256 ^ k})
             rest == [i \in 1 .. n |-> ByteOf((v \div (256 ^ (n - i))) % 256)]
  <1>1. n \in Nat
    <2>1. IsFiniteSet(0 .. 3)
      BY FS_Interval, 0 \in Int, 3 \in Int, Zenon
    <2>2. {k \in 0 .. 3 : k = 0 \/ v >= 256 ^ k} \subseteq 0 .. 3
      OBVIOUS
    <2> QED
      BY <2>1, <2>2, FS_Subset, FS_CardinalityType
  <1>2. \A w : ByteOf(w) \in Byte
    BY DEF ByteOf, Byte
  <1> HIDE DEF n
  <1>3. rest \in Seq(Byte)
    BY <1>1, <1>2
  <1>4. LeftEncode(v) = <<ByteOf(n)>> \o rest
    BY Zenon DEF LeftEncode, n
  <1>5. <<ByteOf(n)>> \in Seq(Byte)
    BY <1>2
  <1> HIDE DEF rest
  <1> QED
    BY <1>3, <1>4, <1>5

LEMMA PrefixCount ==
    ASSUME NEW c, c.count \in Count
    PROVE  PrefixPadded(c).count \in Count
<1> DEFINE full == [lanes |-> c.lanes, count |-> RATE - 1]
<1>1. full.count \in Nat
  BY RateAssumption
<1>2. Len(<< {} >>) \in Nat
  OBVIOUS
<1>3. IncAbsorb(full, << {} >>).count \in Count
  <2> HIDE DEF full
  <2> QED  BY <1>1, <1>2, IncAbsorbCount
<1> QED  BY <1>3 DEF PrefixPadded

\* Whole permutations, less what is taken of the last of them.
LEMMA IncSqueezeCount ==
    ASSUME NEW c, c.count \in Count, NEW n \in Nat
    PROVE  IncSqueeze(c, n).count \in Count
<1> DEFINE new == n - Kept(c, n)
<1>1. c.count \in Nat /\ c.count < RATE /\ RATE \in Nat
  BY RateAssumption DEF Count
<1>2. Kept(c, n) \in Nat /\ new \in Nat
  BY <1>1 DEF Kept
<1>3. CASE NewBlocks(c, n) = 0
  <2>1. new + (RATE - 1) \in Nat
    BY <1>1, <1>2
  <2>2. (new + (RATE - 1)) - (((new + (RATE - 1)) \div RATE) * RATE) \in Count
    BY <2>1, Remainder
  <2>3. (new + (RATE - 1)) \div RATE = 0
    BY <1>1, <1>2, <1>3, <2>1 DEF NewBlocks
  <2>4. new + (RATE - 1) < RATE
    <3> HIDE DEF new
    <3> QED  BY <1>1, <1>2, <2>2, <2>3 DEF Count
  <2>5. n <= c.count
    BY <1>1, <1>2, <2>4 DEF Kept
  <2> QED  BY <1>1, <1>3, <2>5 DEF IncSqueeze, Left, Count
<1>4. CASE NewBlocks(c, n) # 0
  <2> DEFINE q == NewBlocks(c, n)
  <2>1. new + (RATE - 1) \in Nat /\ (new + RATE) - 1 = new + (RATE - 1)
    BY <1>1, <1>2
  <2>2. q \in Nat /\ (new + (RATE - 1)) - (q * RATE) \in Count
    BY <2>1, Remainder DEF NewBlocks
  <2>3. (q * RATE) - new \in Count
    <3> HIDE DEF q, new
    <3>1. q * RATE \in Nat
      BY <2>2, <1>1
    <3> QED  BY <1>1, <1>2, <2>2, <3>1 DEF Count
  <2> QED  BY <1>4, <2>3 DEF IncSqueeze, Left
<1> QED  BY <1>3, <1>4

----------------------------------------------------------------------------
(* The three ways in which a call touches the heap. *)

LEMMA AllocateKeeps ==
    ASSUME Inv, NEW h \in Handle, NEW c, c.count \in Count, Allocate(h, c)
    PROVE  Inv'
<1>1. PICK p \in free :
        /\ ctx' = [ctx EXCEPT ![h] = p]
        /\ heap' = [heap EXCEPT ![p] = c]
        /\ free' = free \ {p}
  BY DEF Allocate
<1>2. ctx[h] = NoPlace
  BY DEF Allocate
<1>3. p \in Place /\ p # NoPlace
  BY HeapAssumption DEF Inv, Partition
<1>4. Counts'
  BY <1>1 DEF Inv, Counts
<1>5. Partition'
  <2>1. ctx' \in [Handle -> Place \cup {NoPlace}] /\ free' \subseteq Place
    BY <1>1, <1>3 DEF Inv, Partition
  <2>2. \A g \in Handle : ctx'[g] # NoPlace => ctx'[g] \notin free'
    BY <1>1 DEF Inv, Partition
  <2>3. \A f, g \in Handle : ctx'[f] = ctx'[g] /\ ctx'[f] # NoPlace => g = f
    BY <1>1, <1>3 DEF Inv, Partition
  <2>4. ASSUME NEW q \in Place \ free'
        PROVE  \E g \in Handle : ctx'[g] = q
    <3>1. CASE q = p
      BY <1>1, <3>1 DEF Inv, Partition
    <3>2. CASE q # p
      <4>1. PICK g \in Handle : ctx[g] = q
        BY <1>1, <3>2 DEF Inv, Partition
      <4>2. q # NoPlace
        BY HeapAssumption
      <4>3. g # h
        BY <1>2, <4>1, <4>2
      <4> QED  BY <1>1, <4>1, <4>3 DEF Inv, Partition
    <3> QED  BY <3>1, <3>2
  <2> QED  BY <2>1, <2>2, <2>3, <2>4 DEF Partition
<1> QED  BY <1>4, <1>5 DEF Inv

LEMMA UpdateKeeps ==
    ASSUME Inv, NEW p, NEW c, c.count \in Count,
           heap' = [heap EXCEPT ![p] = c], UNCHANGED <<ctx, free>>
    PROVE  Inv'
<1>1. Counts'
  BY DEF Inv, Counts
<1>2. Partition'
  BY DEF Inv, Partition
<1> QED  BY <1>1, <1>2 DEF Inv

LEMMA ReleaseKeeps ==
    ASSUME Inv, NEW h \in Handle, ctx[h] # NoPlace, Release(h)
    PROVE  Inv'
<1>1. /\ ctx' = [ctx EXCEPT ![h] = NoPlace]
      /\ free' = free \cup {ctx[h]}
      /\ heap' = [heap EXCEPT ![ctx[h]] = Fresh]
  BY DEF Release, Released
<1>2. ctx[h] \in Place
  BY DEF Inv, Partition
<1>3. Counts'
  <2>1. Fresh.count \in Count
    BY NoCount DEF Fresh
  <2> QED  BY <1>1, <2>1 DEF Inv, Counts
<1>4. Partition'
  <2>1. ctx' \in [Handle -> Place \cup {NoPlace}] /\ free' \subseteq Place
    BY <1>1, <1>2 DEF Inv, Partition
  <2>2. \A g \in Handle : ctx'[g] # NoPlace => ctx'[g] \notin free'
    BY <1>1 DEF Inv, Partition
  <2>3. \A f, g \in Handle : ctx'[f] = ctx'[g] /\ ctx'[f] # NoPlace => g = f
    BY <1>1 DEF Inv, Partition
  <2>4. \A q \in Place \ free' : \E g \in Handle : ctx'[g] = q
    BY <1>1 DEF Inv, Partition
  <2> QED  BY <2>1, <2>2, <2>3, <2>4 DEF Partition
<1> QED  BY <1>3, <1>4 DEF Inv

LEMMA SameHeapKeeps ==
    ASSUME Inv, UNCHANGED <<ctx, heap, free>>
    PROVE  Inv'
BY DEF Inv, Counts, Partition

----------------------------------------------------------------------------

LEMMA InitInv == Init => Inv
<1> SUFFICES ASSUME Init PROVE Inv
  OBVIOUS
<1>1. Counts
  BY NoCount DEF Init, Counts, Fresh
<1>2. Partition
  BY HeapAssumption DEF Init, Partition
<1> QED  BY <1>1, <1>2 DEF Inv

\* A live context has a count below the rate.
LEMMA LiveCount ==
    ASSUME Inv, NEW h \in Handle, Live(h)
    PROVE  ctx[h] \in Place /\ At(h).count \in Count /\ ctx[h] # NoPlace
BY DEF Inv, Counts, Partition, Live, At

LEMMA StepInv == Inv /\ [Next]_vars => Inv'
<1> SUFFICES ASSUME Inv, [Next]_vars PROVE Inv'
  OBVIOUS
<1>1. CASE UNCHANGED vars
  BY <1>1, SameHeapKeeps DEF vars
<1>2. CASE Exhausted
  BY <1>2, SameHeapKeeps DEF Exhausted
<1>3. ASSUME NEW h \in Handle, NEW family, IncInit(h, family) PROVE Inv'
  <2>1. Fresh.count \in Count
    BY NoCount DEF Fresh
  <2> QED  BY <1>3, <2>1, AllocateKeeps DEF IncInit
<1>4. ASSUME NEW h \in Handle, NEW name \in Names, NEW cstm \in Names,
             CshakeIncInit(h, name, cstm)
      PROVE  Inv'
  <2> DEFINE c1 == IncAbsorb(Fresh, LeftEncode(RATE))
             c2 == IncAbsorb(c1, LeftEncode(8 * Len(name)))
             c3 == IncAbsorb(c2, name)
             c4 == IncAbsorb(c3, LeftEncode(8 * Len(cstm)))
             c5 == IncAbsorb(c4, cstm)
  <2>1. Len(name) \in Nat /\ Len(cstm) \in Nat
    BY InputAssumption
  <2>2. \A n : n \in Count => n \in Nat
    BY RateAssumption DEF Count
  <2>3. Fresh.count \in Nat
    BY DEF Fresh
  <2>4. c1.count \in Count
    BY <2>3, IncAbsorbCount, LeftEncodeIs
  <2>5. c2.count \in Count
    <3> HIDE DEF c1
    <3> QED  BY <2>2, <2>4, IncAbsorbCount, LeftEncodeIs
  <2>6. c3.count \in Count
    <3> HIDE DEF c2
    <3> QED  BY <2>1, <2>2, <2>5, IncAbsorbCount
  <2>7. c4.count \in Count
    <3> HIDE DEF c3
    <3> QED  BY <2>2, <2>6, IncAbsorbCount, LeftEncodeIs
  <2>8. c5.count \in Count
    <3> HIDE DEF c4
    <3> QED  BY <2>1, <2>2, <2>7, IncAbsorbCount
  <2>9. PrefixPadded(c5).count \in Count
    <3> HIDE DEF c5
    <3> QED  BY <2>8, PrefixCount
  <2>10. Allocate(h, PrefixPadded(c5))
    BY <1>4 DEF CshakeIncInit
  <2> QED
    <3> HIDE DEF c5
    <3> QED  BY <2>9, <2>10, AllocateKeeps
<1>5. ASSUME NEW h \in Handle, NEW in \in Strings, IncAbsorbInto(h, in) PROVE Inv'
  <2>1. Live(h) /\ heap' = [heap EXCEPT ![ctx[h]] = IncAbsorb(At(h), in)]
    BY <1>5 DEF IncAbsorbInto, At
  <2>2. At(h).count \in Nat
    BY <2>1, LiveCount, RateAssumption DEF Count
  <2>3. IncAbsorb(At(h), in).count \in Count
    BY <2>2, IncAbsorbCount, InputAssumption
  <2> QED  BY <1>5, <2>1, <2>3, UpdateKeeps DEF IncAbsorbInto
<1>6. ASSUME NEW h \in Handle, IncFinalizeXof(h) PROVE Inv'
  <2> DEFINE c == IncFinalize(At(h), Suffix(phase[h]))
  <2>1. heap' = [heap EXCEPT ![ctx[h]] = c]
    BY <1>6 DEF IncFinalizeXof, At
  <2>2. c.count \in Count
    BY NoCount DEF IncFinalize
  <2> HIDE DEF c
  <2> QED  BY <1>6, <2>1, <2>2, UpdateKeeps DEF IncFinalizeXof
<1>7. ASSUME NEW h \in Handle, NEW n \in 0 .. MAXOUT, IncSqueezeFrom(h, n) PROVE Inv'
  <2>1. Live(h) /\ heap' = [heap EXCEPT ![ctx[h]] = IncSqueeze(At(h), n)]
    BY <1>7 DEF IncSqueezeFrom, At
  <2>2. n \in Nat
    BY DigestAssumption
  <2>3. IncSqueeze(At(h), n).count \in Count
    BY <2>1, <2>2, LiveCount, IncSqueezeCount
  <2> QED  BY <1>7, <2>1, <2>3, UpdateKeeps DEF IncSqueezeFrom
<1>8. ASSUME NEW dest \in Handle, NEW src \in Handle, Clone(dest, src) PROVE Inv'
  <2>1. Live(src) /\ Allocate(dest, At(src))
    BY <1>8 DEF Clone
  <2> QED  BY <2>1, LiveCount, AllocateKeeps
<1>9. ASSUME NEW h \in Handle, CtxRelease(h) PROVE Inv'
  BY <1>9, LiveCount, ReleaseKeeps DEF CtxRelease
<1>10. ASSUME NEW h \in Handle, Sha3IncFinalize(h) PROVE Inv'
  BY <1>10, LiveCount, ReleaseKeeps DEF Sha3IncFinalize
<1>11. ASSUME NEW h \in Handle, NEW in \in Strings, ShakeAbsorb(h, in) PROVE Inv'
  <2>1. Absorb(in, SHAKE).count \in Count
    BY NoCount DEF Absorb
  <2> QED  BY <1>11, <2>1, AllocateKeeps DEF ShakeAbsorb
<1>12. ASSUME NEW h \in Handle, NEW n \in 0 .. MAXOUT, ShakeSqueezeBlocks(h, n) PROVE Inv'
  <2>1. Live(h) /\ heap' = [heap EXCEPT ![ctx[h]] = SqueezeBlocks(At(h), n)]
    BY <1>12 DEF ShakeSqueezeBlocks, At
  <2>2. SqueezeBlocks(At(h), n).count \in Count
    BY <2>1, LiveCount DEF SqueezeBlocks
  <2> QED  BY <1>12, <2>1, <2>2, UpdateKeeps DEF ShakeSqueezeBlocks
<1>13. ASSUME NEW h \in Handle, NEW in, NEW n, Shake(h, in, n) PROVE Inv'
  BY <1>13, SameHeapKeeps DEF Shake
<1>14. ASSUME NEW h \in Handle, NEW in, Sha3(h, in) PROVE Inv'
  BY <1>14, SameHeapKeeps DEF Sha3
<1> QED
  BY <1>1, <1>2, <1>3, <1>4, <1>5, <1>6, <1>7, <1>8, <1>9, <1>10, <1>11, <1>12, <1>13, <1>14
  DEF Next

THEOREM Invariant == Spec => []Inv
  BY InitInv, StepInv, PTL DEF Spec

\* The count of every context is below the rate: what the comment in
\* keccak_inc_finalize says of keccak_inc_absorb, for every rate and every
\* way of cutting the input and the output.
THEOREM CountsBelowRate == Spec => []CountBelowRate
<1>1. Inv => CountBelowRate
  BY RateAssumption DEF Inv, Counts, Count, CountBelowRate
<1> QED  BY <1>1, Invariant, PTL

\* Every place is free or the context of exactly one handle, however many
\* contexts are cloned, finalized and released, in any order.
THEOREM HeapPartitioned == Spec => []HeapExact
<1>1. Inv => HeapExact
  <2> SUFFICES ASSUME Inv, NEW p \in Place
               PROVE  Cardinality({h \in Handle : ctx[h] = p}) = IF p \in free THEN 0 ELSE 1
    BY DEF HeapExact
  <2>1. CASE p \in free
    <3>1. {h \in Handle : ctx[h] = p} = {}
      BY <2>1, HeapAssumption DEF Inv, Partition
    <3> QED  BY <2>1, <3>1, FS_EmptySet
  <2>2. CASE p \notin free
    <3>1. PICK g \in Handle : ctx[g] = p
      BY <2>2 DEF Inv, Partition
    <3>2. {h \in Handle : ctx[h] = p} = {g}
      BY <3>1, HeapAssumption DEF Inv, Partition
    <3> QED  BY <2>2, <3>2, FS_Singleton
  <2> QED  BY <2>1, <2>2
<1> QED  BY <1>1, Invariant, PTL

----------------------------------------------------------------------------
(* Arithmetic of blocks.                                                    *)

Whole(n) == n \div RATE
Rest(n) == n - (Whole(n) * RATE)

LEMMA WholeAndRest ==
    ASSUME NEW n \in Nat
    PROVE  /\ Whole(n) \in Nat /\ Rest(n) \in Count /\ Rest(n) \in Nat /\ Rest(n) < RATE
           /\ Whole(n) * RATE \in Nat /\ n = (Whole(n) * RATE) + Rest(n)
  <1>1. Whole(n) \in Nat /\ Rest(n) \in Count
    BY Remainder DEF Whole, Rest
  <1>2. Whole(n) * RATE \in Nat
    BY <1>1, RateAssumption
  <1> QED
    BY <1>1, <1>2, RateAssumption DEF Rest, Count

LEMMA Division ==
    ASSUME NEW q \in Nat, NEW r \in Count
    PROVE  /\ Whole((q * RATE) + r) = q
           /\ ((q * RATE) + r) % RATE = r
           /\ (q * RATE) + r \in Nat
  <1>1. q \in Nat /\ r \in Nat /\ r < RATE /\ RATE \in Nat
    BY RateAssumption DEF Count
  <1>2. ((q * RATE) + r) \div RATE = q /\ ((q * RATE) + r) % RATE = r
    BY <1>1, Z3
  <1> QED
    BY <1>1, <1>2 DEF Whole

LEMMA AddBlocks ==
    ASSUME NEW p \in Nat, NEW q \in Nat
    PROVE  /\ p * RATE \in Nat /\ (p + q) * RATE = (p * RATE) + (q * RATE)
           /\ (p + 1) * RATE = (p * RATE) + RATE
           /\ p <= q => p * RATE <= q * RATE
           /\ p < q => (p * RATE) + RATE <= q * RATE
  <1>1. RATE \in Nat
    BY RateAssumption
  <1>2. p * RATE \in Nat /\ (p + q) * RATE = (p * RATE) + (q * RATE)
    BY <1>1, Z3
  <1>3. (p + 1) * RATE = (p * RATE) + RATE
    BY <1>1, Z3
  <1>4. p <= q => p * RATE <= q * RATE
    BY <1>1, Z3
  <1>5. p < q => (p + 1) * RATE <= q * RATE
    BY <1>1, Z3
  <1> QED
    BY <1>2, <1>3, <1>4, <1>5

\* Blocks and rest of a length to which another is added.
LEMMA WholeAdds ==
    ASSUME NEW n \in Nat, NEW l \in Nat
    PROVE  /\ Whole(n + l) = Whole(n) + Whole(Rest(n) + l)
           /\ Rest(n + l) = Rest(Rest(n) + l)
  <1> DEFINE q == Whole(n)
             r == Rest(n)
             p == Whole(r + l)
             s == Rest(r + l)
  <1>1. q \in Nat /\ r \in Nat /\ q * RATE \in Nat /\ n = (q * RATE) + r
    BY WholeAndRest
  <1>2. r + l \in Nat
    BY <1>1
  <1>3. p \in Nat /\ s \in Count /\ s \in Nat /\ p * RATE \in Nat /\ r + l = (p * RATE) + s
    BY <1>2, WholeAndRest
  <1> HIDE DEF q, r, p, s
  <1>4. (q + p) * RATE = (q * RATE) + (p * RATE) /\ q + p \in Nat
    BY <1>1, <1>3, AddBlocks
  <1>5. n + l = ((q + p) * RATE) + s
    BY <1>1, <1>3, <1>4
  <1>6. Whole(n + l) = q + p
    BY <1>3, <1>4, <1>5, Division
  <1>7. Rest(n + l) = s
    BY <1>1, <1>3, <1>4, <1>5, <1>6 DEF Rest
  <1> QED
    BY <1>6, <1>7 DEF q, r, p, s

LEMMA Smallest ==
    ASSUME NEW T \in SUBSET Nat, T # {}
    PROVE  \E x \in T : \A y \in T : x <= y
  <1>1. PICK x \in T : \A y \in T : ~(<<y, x>> \in OpToRel(<, Nat))
    BY NatLessThanWellFounded, WFMin
  <1>2. ASSUME NEW y \in T PROVE ~(y < x)
    BY <1>1 DEF OpToRel
  <1> QED
    BY <1>2

LEMMA SameElements ==
    ASSUME NEW S, NEW s \in Seq(S), NEW t \in Seq(S), Len(s) = Len(t),
           \A j \in 1 .. Len(s) : s[j] = t[j]
    PROVE  s = t
  OBVIOUS

LEMMA Concatenation ==
    ASSUME NEW S, NEW s \in Seq(S), NEW t \in Seq(S)
    PROVE  /\ s \o t \in Seq(S) /\ Len(s \o t) = Len(s) + Len(t)
           /\ \A j \in 1 .. Len(s) : (s \o t)[j] = s[j]
           /\ \A j \in 1 .. Len(t) : (s \o t)[Len(s) + j] = t[j]
  <1>1. s \o t \in Seq(S) /\ Len(s \o t) = Len(s) + Len(t)
    OBVIOUS
  <1>2. \A j \in 1 .. Len(s) : (s \o t)[j] = s[j]
    OBVIOUS
  <1>3. \A j \in 1 .. Len(t) : (s \o t)[Len(s) + j] = t[j]
    OBVIOUS
  <1> QED
    BY <1>1, <1>2, <1>3

----------------------------------------------------------------------------
(* The blocks of a message.                                                 *)

\* Byte i of block k, and zero behind the end.
LaidByte(x, k, i) ==
    IF ((k - 1) * RATE) + i + 1 <= Len(x) THEN x[((k - 1) * RATE) + i + 1] ELSE {}
LaidBlock(x, k) == [i \in 0 .. RATE - 1 |-> LaidByte(x, k, i)]
LaidTo(x, m) == [k \in 1 .. m |-> LaidBlock(x, k)]

\* The state and the count after x has been absorbed.
Laid(x) == LaidTo(x, Whole(Len(x)) + 1)
ContextOf(x) == [lanes |-> Laid(x), count |-> Rest(Len(x))]

LEMMA PlaceInMessage ==
    ASSUME NEW k \in Nat, k > 0, NEW i \in 0 .. RATE - 1
    PROVE  /\ k - 1 \in Nat /\ (k - 1) * RATE \in Nat
           /\ ((k - 1) * RATE) + i + 1 \in Nat
           /\ ((k - 1) * RATE) + i + 1 > (k - 1) * RATE
           /\ ((k - 1) * RATE) + i + 1 <= k * RATE
           /\ k * RATE = ((k - 1) * RATE) + RATE
  <1>1. k - 1 \in Nat /\ (k - 1) + 1 = k
    OBVIOUS
  <1>2. (k - 1) * RATE \in Nat /\ ((k - 1) + 1) * RATE = ((k - 1) * RATE) + RATE
    BY <1>1, AddBlocks
  <1> DEFINE o == (k - 1) * RATE
  <1>3. o \in Nat /\ k * RATE = o + RATE
    BY <1>1, <1>2
  <1> HIDE DEF o
  <1>4. o + i + 1 \in Nat /\ o + i + 1 > o /\ o + i + 1 <= o + RATE
    BY <1>3, RateAssumption
  <1> QED
    BY <1>1, <1>3, <1>4 DEF o

LEMMA LaidBlockIsBlock ==
    ASSUME NEW x \in Seq(Byte), NEW k \in Nat, k > 0
    PROVE  LaidBlock(x, k) \in Block
  <1>1. ASSUME NEW i \in 0 .. RATE - 1 PROVE LaidByte(x, k, i) \in Byte
    <2> DEFINE n == ((k - 1) * RATE) + i + 1
    <2>1. n \in Nat /\ n > 0
      <3>1. /\ (k - 1) * RATE \in Nat
            /\ ((k - 1) * RATE) + i + 1 \in Nat
            /\ ((k - 1) * RATE) + i + 1 > (k - 1) * RATE
        BY PlaceInMessage
      <3> DEFINE o == (k - 1) * RATE
      <3>2. o \in Nat /\ n \in Nat /\ n > o
        BY <3>1
      <3> HIDE DEF o, n
      <3> QED
        BY <3>2
    <2>2. LaidByte(x, k, i) = IF n <= Len(x) THEN x[n] ELSE {}
      BY DEF LaidByte
    <2>3. {} \in Byte
      BY DEF Byte
    <2> HIDE DEF n
    <2> QED
      BY <2>1, <2>2, <2>3
  <1> QED
    BY <1>1 DEF LaidBlock, Block

LEMMA LaidToIsState ==
    ASSUME NEW x \in Seq(Byte), NEW m \in Nat
    PROVE  /\ LaidTo(x, m) \in State /\ Len(LaidTo(x, m)) = m
           /\ \A k \in 1 .. m : LaidTo(x, m)[k] = LaidBlock(x, k)
  <1>1. \A k \in 1 .. m : LaidBlock(x, k) \in Block
    BY LaidBlockIsBlock
  <1>2. LaidTo(x, m) \in Seq(Block)
    BY <1>1, IsASeq DEF LaidTo
  <1>3. Len(LaidTo(x, m)) = m
    BY <1>2 DEF LaidTo
  <1>4. \A k \in 1 .. m : LaidTo(x, m)[k] = LaidBlock(x, k)
    BY DEF LaidTo
  <1> QED
    BY <1>2, <1>3, <1>4 DEF State

LEMMA ZerosIsBlock == Zeros \in Block /\ ZeroState \in State
  <1>1. {} \in Byte
    BY DEF Byte
  <1>2. Zeros \in Block
    BY <1>1 DEF Zeros, Block
  <1> QED
    BY <1>2 DEF ZeroState, State

\* A block the message does not reach.
LEMMA BehindTheEnd ==
    ASSUME NEW x \in Seq(Byte), NEW k \in Nat, Len(x) <= k * RATE
    PROVE  LaidBlock(x, k + 1) = Zeros
  <1>1. ASSUME NEW i \in 0 .. RATE - 1 PROVE LaidByte(x, k + 1, i) = {}
    <2>1. ((k + 1) - 1) * RATE = k * RATE /\ k * RATE \in Nat
      BY AddBlocks
    <2>2. ((k + 1) - 1) * RATE + i + 1 > k * RATE
      BY <2>1, RateAssumption
    <2> QED
      BY <2>1, <2>2 DEF LaidByte
  <1> QED
    BY <1>1 DEF LaidBlock, Zeros

\* What follows a block does not change it.
LEMMA SameBlocks ==
    ASSUME NEW x \in Seq(Byte), NEW y \in Seq(Byte), NEW k \in Nat, k > 0,
           k * RATE <= Len(x)
    PROVE  LaidBlock(x \o y, k) = LaidBlock(x, k)
  <1>1. ASSUME NEW i \in 0 .. RATE - 1 PROVE LaidByte(x \o y, k, i) = LaidByte(x, k, i)
    <2> DEFINE n == ((k - 1) * RATE) + i + 1
    <2>1. n \in Nat /\ n > 0 /\ n <= k * RATE /\ k * RATE \in Nat
      <3>1. /\ (k - 1) * RATE \in Nat
            /\ ((k - 1) * RATE) + i + 1 \in Nat
            /\ ((k - 1) * RATE) + i + 1 > (k - 1) * RATE
            /\ ((k - 1) * RATE) + i + 1 <= k * RATE
        BY PlaceInMessage
      <3>2. k * RATE \in Nat
        BY AddBlocks
      <3> DEFINE o == (k - 1) * RATE
      <3>3. o \in Nat /\ n \in Nat /\ n > o /\ n <= k * RATE
        BY <3>1
      <3> HIDE DEF o, n
      <3> QED
        BY <3>2, <3>3
    <2>2. n \in 1 .. Len(x) /\ n <= Len(x \o y)
      <3> HIDE DEF n
      <3> QED
        BY <2>1
    <2>3. (x \o y)[n] = x[n]
      <3> HIDE DEF n
      <3> QED
        BY <2>2
    <2>4. LaidByte(x \o y, k, i) = (x \o y)[n] /\ LaidByte(x, k, i) = x[n]
      BY <2>2 DEF LaidByte
    <2> QED
      BY <2>3, <2>4
  <1> QED
    BY <1>1 DEF LaidBlock

----------------------------------------------------------------------------
(* Absorbing into a context.                                                *)

LEMMA XorByteIs ==
    ASSUME NEW a \in Byte, NEW b \in Byte
    PROVE  XorByte(a, b) \in Byte /\ XorByte({}, b) = b
  BY DEF XorByte, Byte

\* XorAt changes the last block only, and that byte by byte.
XoredBlock(b, at, in) ==
    [i \in 0 .. RATE - 1 |-> IF i - at + 1 \in DOMAIN in THEN XorByte(b[i], in[i - at + 1]) ELSE b[i]]

LEMMA XorAtIs ==
    ASSUME NEW s \in State, Len(s) > 0, NEW at \in Int, NEW in \in Seq(Byte)
    PROVE  /\ XoredBlock(s[Len(s)], at, in) \in Block
           /\ XorAt(s, at, in) \in State /\ Len(XorAt(s, at, in)) = Len(s)
           /\ \A j \in 1 .. Len(s) : j # Len(s) => XorAt(s, at, in)[j] = s[j]
           /\ XorAt(s, at, in)[Len(s)] = XoredBlock(s[Len(s)], at, in)
  <1> DEFINE b == s[Len(s)]
             y == XoredBlock(b, at, in)
  <1>1. b \in Block
    BY DEF State
  <1>2. y \in Block
    <2>1. ASSUME NEW i \in 0 .. RATE - 1
          PROVE  (IF i - at + 1 \in DOMAIN in THEN XorByte(b[i], in[i - at + 1]) ELSE b[i]) \in Byte
      <3>1. b[i] \in Byte
        BY <1>1 DEF Block
      <3>2. i - at + 1 \in DOMAIN in => in[i - at + 1] \in Byte
        OBVIOUS
      <3> HIDE DEF b
      <3> QED
        BY <3>1, <3>2, XorByteIs
    <2> HIDE DEF b
    <2> QED
      BY <2>1 DEF XoredBlock, Block
  <1>3. XorAt(s, at, in) = [s EXCEPT ![Len(s)] = y]
    BY DEF XorAt, XoredBlock
  <1> HIDE DEF y
  <1>4. Len(s) \in 1 .. Len(s) /\ s \in Seq(Block)
    BY DEF State
  <1>5. XorAt(s, at, in) \in Seq(Block) /\ Len(XorAt(s, at, in)) = Len(s)
    BY <1>2, <1>3, <1>4
  <1>6. \A j \in 1 .. Len(s) : j # Len(s) => XorAt(s, at, in)[j] = s[j]
    BY <1>3, <1>4
  <1>7. XorAt(s, at, in)[Len(s)] = y
    BY <1>3, <1>4
  <1> QED
    BY <1>2, <1>5, <1>6, <1>7 DEF State, y

LEMMA PermuteIs ==
    ASSUME NEW s \in State
    PROVE  /\ Permute(s) \in State /\ Len(Permute(s)) = Len(s) + 1
           /\ \A j \in 1 .. Len(s) : Permute(s)[j] = s[j]
           /\ Permute(s)[Len(s) + 1] = Zeros
  BY ZerosIsBlock DEF Permute, State

\* A byte of block m + 1 when in comes behind x.
LEMMA ByteOfTurn ==
    ASSUME NEW x \in Seq(Byte), NEW in \in Seq(Byte), NEW m \in Nat, NEW i \in 0 .. RATE - 1
    PROVE  LaidByte(x \o in, m + 1, i) =
             IF i - (Len(x) - (m * RATE)) + 1 \in DOMAIN in
             THEN XorByte(LaidByte(x, m + 1, i), in[i - (Len(x) - (m * RATE)) + 1])
             ELSE LaidByte(x, m + 1, i)
  <1> DEFINE o == m * RATE
             n == o + i + 1
             j == i - (Len(x) - o) + 1
             y == x \o in
  <1>1. o \in Nat /\ ((m + 1) - 1) * RATE = o
    <2>1. (m + 1) - 1 = m
      OBVIOUS
    <2>2. m * RATE \in Nat
      BY AddBlocks
    <2> QED
      BY <2>1, <2>2
  <1>2. /\ LaidByte(y, m + 1, i) = IF n <= Len(y) THEN y[n] ELSE {}
        /\ LaidByte(x, m + 1, i) = IF n <= Len(x) THEN x[n] ELSE {}
    BY <1>1 DEF LaidByte
  <1> HIDE DEF o
  <1>3. i \in Nat /\ n \in Nat /\ n > 0 /\ j \in Int /\ n = Len(x) + j
    BY <1>1, RateAssumption
  <1>4. /\ Len(y) = Len(x) + Len(in) /\ Len(x) \in Nat /\ Len(in) \in Nat
        /\ \A k \in 1 .. Len(x) : y[k] = x[k]
        /\ \A k \in 1 .. Len(in) : y[Len(x) + k] = in[k]
    BY Concatenation
  <1> HIDE DEF n, j, y
  <1>5. LaidByte(y, m + 1, i) =
            IF j \in DOMAIN in THEN XorByte(LaidByte(x, m + 1, i), in[j])
            ELSE LaidByte(x, m + 1, i)
    <2>1. CASE n <= Len(x)
      <3>1. j \notin DOMAIN in /\ n \in 1 .. Len(x) /\ n <= Len(y)
        BY <1>3, <1>4, <2>1
      <3> QED
        BY <1>2, <1>4, <2>1, <3>1
    <2>2. CASE n > Len(x) /\ n <= Len(y)
      <3>1. j \in 1 .. Len(in) /\ ~(n <= Len(x))
        BY <1>3, <1>4, <2>2
      <3>2. y[n] = in[j]
        BY <1>3, <1>4, <3>1
      <3>3. in[j] \in Byte /\ j \in DOMAIN in
        BY <3>1
      <3>4. XorByte({}, in[j]) = in[j]
        BY <3>3, XorByteIs
      <3> QED
        BY <1>2, <2>2, <3>1, <3>2, <3>3, <3>4
    <2>3. CASE n > Len(y)
      <3>1. j \notin DOMAIN in /\ ~(n <= Len(x)) /\ ~(n <= Len(y))
        BY <1>3, <1>4, <2>3
      <3> QED
        BY <1>2, <3>1
    <2> QED
      BY <1>3, <1>4, <2>1, <2>2, <2>3
  <1> QED
    BY <1>5 DEF j, o, y

\* One turn of the loop: in is xored into block m + 1 of x.
LEMMA Turn ==
    ASSUME NEW x \in Seq(Byte), NEW in \in Seq(Byte), NEW m \in Nat,
           NEW s \in State, Len(s) = m + 1, s[m + 1] = LaidBlock(x, m + 1),
           \A k \in 1 .. m : s[k] = LaidBlock(x \o in, k)
    PROVE  XorAt(s, Len(x) - (m * RATE), in) = LaidTo(x \o in, m + 1)
  <1> DEFINE at == Len(x) - (m * RATE)
             t == XorAt(s, at, in)
             y == x \o in
             u == LaidTo(y, m + 1)
  <1>1. at \in Int /\ m * RATE \in Nat
    <2>1. m * RATE \in Nat
      BY AddBlocks
    <2>2. Len(x) \in Nat
      OBVIOUS
    <2> QED
      BY <2>1, <2>2
  <1>2. y \in Seq(Byte) /\ m + 1 \in Nat /\ Len(s) > 0
    OBVIOUS
  <1>3. /\ t \in State /\ Len(t) = m + 1
        /\ \A j \in 1 .. m : t[j] = s[j]
        /\ t[m + 1] = XoredBlock(s[m + 1], at, in)
    <2> HIDE DEF at
    <2> QED
      BY <1>1, <1>2, XorAtIs, SMTT(30)
  <1>4. u \in State /\ Len(u) = m + 1 /\ \A k \in 1 .. m + 1 : u[k] = LaidBlock(y, k)
    <2> HIDE DEF y
    <2> QED
      BY <1>2, LaidToIsState
  <1>5. LaidBlock(y, m + 1) = XoredBlock(LaidBlock(x, m + 1), at, in)
    <2>1. \A i \in 0 .. RATE - 1 : LaidByte(y, m + 1, i) =
             IF i - at + 1 \in DOMAIN in
             THEN XorByte(LaidByte(x, m + 1, i), in[i - at + 1])
             ELSE LaidByte(x, m + 1, i)
      BY ByteOfTurn
    <2>2. \A i \in 0 .. RATE - 1 : LaidBlock(x, m + 1)[i] = LaidByte(x, m + 1, i)
      BY DEF LaidBlock
    <2> HIDE DEF at, y
    <2> QED
      BY <2>1, <2>2 DEF LaidBlock, XoredBlock
  <1> HIDE DEF t, u
  <1>6. \A j \in 1 .. m + 1 : t[j] = u[j]
    BY <1>3, <1>4, <1>5
  <1>7. t = u
    BY <1>3, <1>4, <1>6, SameElements DEF State
  <1> QED
    BY <1>7 DEF t, u

\* Turn k of the loop of keccak_inc_absorb, when f[k - 1] is the state before.
IncTurn(c, in, f, k) ==
    XorAt(IF k = 0 THEN c.lanes ELSE Permute(f[k - 1]), c.count - (k * RATE), in)

LEMMA IncTurnIs ==
    ASSUME NEW x \in Seq(Byte), NEW in \in Seq(Byte), NEW k \in Nat, NEW f,
           k > 0 => f[k - 1] = LaidTo(x \o in, Whole(Len(x)) + k)
    PROVE  IncTurn(ContextOf(x), in, f, k) = LaidTo(x \o in, Whole(Len(x)) + k + 1)
  <1> DEFINE n == Len(x)
             q == Whole(n)
             r == Rest(n)
             m == q + k
             y == x \o in
             s == IF k = 0 THEN Laid(x) ELSE Permute(f[k - 1])
  <1>1. n \in Nat
    OBVIOUS
  <1>2. /\ q \in Nat /\ r \in Nat /\ r < RATE /\ q * RATE \in Nat /\ n = (q * RATE) + r
        /\ y \in Seq(Byte) /\ m \in Nat
    <2>1. q \in Nat /\ r \in Nat /\ r < RATE /\ q * RATE \in Nat /\ n = (q * RATE) + r
      BY <1>1, WholeAndRest
    <2>2. m \in Nat
      <3> HIDE DEF q
      <3> QED
        BY <2>1
    <2>3. y \in Seq(Byte)
      OBVIOUS
    <2> HIDE DEF q, r, n, m, y
    <2> QED
      BY <2>1, <2>2, <2>3
  <1>3. /\ m * RATE = (q * RATE) + (k * RATE) /\ m * RATE \in Nat /\ k * RATE \in Nat
        /\ k > 0 => k * RATE >= RATE
    <2> HIDE DEF q
    <2>1. m * RATE = (q * RATE) + (k * RATE) /\ m * RATE \in Nat /\ k * RATE \in Nat
      BY <1>2, AddBlocks
    <2>2. k > 0 => (0 * RATE) + RATE <= k * RATE
      BY AddBlocks
    <2> QED
      BY <2>1, <2>2, RateAssumption
  <1>4. r - (k * RATE) = n - (m * RATE)
    <2> HIDE DEF q, r, m, n
    <2> QED
      BY <1>1, <1>2, <1>3
  <1>5. IncTurn(ContextOf(x), in, f, k) = XorAt(s, n - (m * RATE), in)
    BY <1>4 DEF IncTurn, ContextOf
  <1>6. /\ s \in State /\ Len(s) = m + 1 /\ s[m + 1] = LaidBlock(x, m + 1)
        /\ \A j \in 1 .. m : s[j] = LaidBlock(y, j)
    <2>1. CASE k = 0
      <3>1. m = q /\ s = LaidTo(x, q + 1) /\ q + 1 \in Nat
        BY <1>2, <2>1 DEF Laid
      <3> HIDE DEF s, m, q
      <3>2. s \in State /\ Len(s) = q + 1 /\ \A j \in 1 .. q + 1 : s[j] = LaidBlock(x, j)
        BY <3>1, LaidToIsState
      <3>3. ASSUME NEW j \in 1 .. q PROVE LaidBlock(y, j) = LaidBlock(x, j)
        <4>1. j \in Nat /\ j > 0 /\ j * RATE <= q * RATE /\ j * RATE \in Nat
          <5>1. j \in Nat /\ j > 0 /\ j <= q
            BY <1>2
          <5> QED
            BY <1>2, <5>1, AddBlocks
        <4>2. j * RATE <= n
          BY <1>1, <1>2, <4>1
        <4> QED
          BY <4>1, <4>2, SameBlocks
      <3> QED
        BY <1>2, <3>1, <3>2, <3>3
    <2>2. CASE k # 0
      <3> DEFINE w == LaidTo(y, m)
      <3>1. s = Permute(w)
        BY <2>2
      <3>2. w \in State /\ Len(w) = m /\ \A j \in 1 .. m : w[j] = LaidBlock(y, j)
        <4> HIDE DEF y, m
        <4> QED
          BY <1>2, LaidToIsState
      <3>3. LaidBlock(x, m + 1) = Zeros
        <4>1. n <= m * RATE
          <5> HIDE DEF q, r, m, n
          <5> QED
            BY <1>1, <1>2, <1>3, <2>2, RateAssumption
        <4> HIDE DEF m
        <4> QED
          BY <1>2, <4>1, BehindTheEnd
      <3> HIDE DEF w, s, m, y
      <3> QED
        BY <1>2, <3>1, <3>2, <3>3, PermuteIs
    <2> QED
      BY <2>1, <2>2
  <1> HIDE DEF s
  <1>7. XorAt(s, n - (m * RATE), in) = LaidTo(y, m + 1)
    <2> HIDE DEF m
    <2> QED
      BY <1>2, <1>6, Turn
  <1>8. m + 1 = q + k + 1
    <2> HIDE DEF q
    <2> QED
      BY <1>2
  <1> QED
    BY <1>5, <1>7, <1>8

\* Absorbing in behind x: however it is cut, the context is that of the whole.
LEMMA IncAbsorbIs ==
    ASSUME NEW x \in Seq(Byte), NEW in \in Seq(Byte)
    PROVE  IncAbsorb(ContextOf(x), in) = ContextOf(x \o in)
  <1> DEFINE n == Len(x)
             l == Len(in)
             q == Whole(n)
             r == Rest(n)
             turns == Turns(r + l)
             D == 0 .. turns
             c == ContextOf(x)
             g == [k \in D |-> LaidTo(x \o in, q + k + 1)]
             IsLoop(f) == f = [k \in D |-> IncTurn(c, in, f, k)]
  <1>1. n \in Nat /\ l \in Nat
    OBVIOUS
  <1>2. q \in Nat /\ r \in Nat
    BY <1>1, WholeAndRest
  <1>3. /\ r + l \in Nat /\ turns = Whole(r + l) /\ turns \in Nat
        /\ q + turns = Whole(n + l) /\ Rest(n + l) = (r + l) - (turns * RATE)
    <2>1. r + l \in Nat
      <3> HIDE DEF r, l
      <3> QED
        BY <1>1, <1>2
    <2>2. turns = Whole(r + l)
      BY DEF Turns, Whole
    <2>3. Whole(r + l) \in Nat
      <3> HIDE DEF r, l
      <3> QED
        BY <2>1, WholeAndRest
    <2>4. Whole(n + l) = q + Whole(r + l) /\ Rest(n + l) = Rest(r + l)
      <3> HIDE DEF n, l
      <3> QED
        BY <1>1, WholeAdds
    <2>5. Rest(r + l) = (r + l) - (turns * RATE)
      BY <2>2 DEF Rest
    <2> QED
      BY <2>1, <2>2, <2>3, <2>4, <2>5
  <1> HIDE DEF turns, q, r, n, l
  <1>4. ASSUME NEW k \in D PROVE IncTurn(c, in, g, k) = g[k]
    <2>1. k \in Nat
      BY <1>3
    <2>2. k > 0 => g[k - 1] = LaidTo(x \o in, q + k)
      <3>1. k > 0 => k - 1 \in D /\ q + (k - 1) + 1 = q + k
        BY <1>2, <1>3, <2>1
      <3> QED
        BY <3>1
    <2>3. g[k] = LaidTo(x \o in, q + k + 1)
      OBVIOUS
    <2> HIDE DEF g
    <2> QED
      BY <2>1, <2>2, <2>3, IncTurnIs DEF q, n
  <1>5. IsLoop(g)
    <2>1. g = [k \in D |-> g[k]]
      OBVIOUS
    <2> HIDE DEF g
    <2> QED
      BY <1>4, <2>1
  <1>6. ASSUME NEW f, IsLoop(f) PROVE f[turns] = g[turns]
    <2> DEFINE T == {k \in D : f[k] # g[k]}
    <2> HIDE DEF g, c
    <2>1. ASSUME T # {} PROVE FALSE
      <3>0. T \in SUBSET Nat
        BY <1>3
      <3>1. PICK k \in T : \A j \in T : k <= j
        BY <2>1, <3>0, Smallest
      <3>2. k \in D /\ f[k] # g[k] /\ k \in Nat
        BY <1>3
      <3>3. \A j \in D : f[j] = IncTurn(c, in, f, j)
        BY <1>6
      <3>4. k # 0 => f[k - 1] = g[k - 1]
        <4>1. k # 0 => k - 1 \in D /\ ~(k <= k - 1)
          BY <1>3, <3>2
        <4> QED
          BY <3>1, <4>1
      <3>5. IncTurn(c, in, f, k) = IncTurn(c, in, g, k)
        BY <3>4, Zenon DEF IncTurn
      <3> QED
        BY <1>4, <3>2, <3>3, <3>5
    <2>2. turns \in D
      BY <1>3
    <2> QED
      BY <2>1, <2>2
  <1>7. IncAbsorb(c, in).lanes = g[turns]
    <2> DEFINE f == CHOOSE f : IsLoop(f)
    <2>0. c.count = r
      BY DEF ContextOf, r, n
    <2>1. IncAbsorb(c, in).lanes = f[Turns(c.count + Len(in))]
      <3>1. IncAbsorb(c, in) =
              [lanes |-> (CHOOSE h : h = [k \in 0 .. Turns(c.count + Len(in)) |-> IncTurn(c, in, h, k)])
                             [Turns(c.count + Len(in))],
               count |-> (c.count + Len(in)) - (Turns(c.count + Len(in)) * RATE)]
        BY Zenon DEF IncAbsorb, IncTurn
      <3>2. D = 0 .. Turns(c.count + Len(in))
        BY <2>0 DEF turns, l
      <3> HIDE DEF c, D
      <3> QED
        BY <3>1, <3>2
    <2>2. IsLoop(f)
      <3> HIDE DEF g, IsLoop
      <3> QED
        BY <1>5
    <2> HIDE DEF f, g, c
    <2>3. f[turns] = g[turns]
      BY <1>6, <2>2
    <2> QED
      BY <2>0, <2>1, <2>3 DEF turns, l
  <1>8. g[turns] = Laid(x \o in)
    <2>1. turns \in D
      BY <1>3
    <2>2. Len(x \o in) = n + l
      BY DEF n, l
    <2> QED
      BY <1>3, <2>1, <2>2 DEF Laid
  <1>9. IncAbsorb(c, in).count = Rest(Len(x \o in))
    <2>1. Len(x \o in) = n + l /\ c.count = r
      BY DEF n, l, r, ContextOf
    <2>2. IncAbsorb(c, in).count = (c.count + Len(in)) - (Turns(c.count + Len(in)) * RATE)
      BY Zenon DEF IncAbsorb
    <2> QED
      BY <1>3, <2>1, <2>2 DEF turns, l
  <1>10. IncAbsorb(c, in) = [lanes |-> IncAbsorb(c, in).lanes, count |-> IncAbsorb(c, in).count]
    BY DEF IncAbsorb
  <1> HIDE DEF g, c
  <1>11. IncAbsorb(c, in) = [lanes |-> Laid(x \o in), count |-> Rest(Len(x \o in))]
    BY <1>7, <1>8, <1>9, <1>10
  <1> QED
    BY <1>11 DEF ContextOf, c

----------------------------------------------------------------------------
(* Padding: incremental, and at once.                                       *)

\* The blocks that go into the permutation for message x and domain byte p.
PaddedBlocks(x, p) == LaidTo(Padded(x, p), Whole(Len(x)) + 1)

\* A domain byte leaves the top bit free.
DomainByte == {p \in Byte : 7 \notin p}

LEMMA DomainBytes ==
    /\ SHAKE \in DomainByte /\ SHA3 \in DomainByte /\ CSHAKE \in DomainByte
    /\ ByteOf(128) = {7}
  <1>1. (31 \div (2 ^ 7)) % 2 = 0 /\ (6 \div (2 ^ 7)) % 2 = 0 /\ (4 \div (2 ^ 7)) % 2 = 0
    OBVIOUS
  <1>2. SHAKE \in DomainByte /\ SHA3 \in DomainByte /\ CSHAKE \in DomainByte
    BY <1>1 DEF SHAKE, SHA3, CSHAKE, ByteOf, DomainByte, Byte
  <1>3. ASSUME NEW i \in 0 .. 7 PROVE (128 \div (2 ^ i)) % 2 = 1 <=> i = 7
    <2>1. \/ i = 0 \/ i = 1 \/ i = 2 \/ i = 3 \/ i = 4 \/ i = 5 \/ i = 6 \/ i = 7
      OBVIOUS
    <2>2. /\ (128 \div (2 ^ 0)) % 2 = 0 /\ (128 \div (2 ^ 1)) % 2 = 0
          /\ (128 \div (2 ^ 2)) % 2 = 0 /\ (128 \div (2 ^ 3)) % 2 = 0
          /\ (128 \div (2 ^ 4)) % 2 = 0 /\ (128 \div (2 ^ 5)) % 2 = 0
          /\ (128 \div (2 ^ 6)) % 2 = 0 /\ (128 \div (2 ^ 7)) % 2 = 1
      OBVIOUS
    <2> DEFINE bit(k) == (128 \div (2 ^ k)) % 2
    <2>3. /\ bit(0) = 0 /\ bit(1) = 0 /\ bit(2) = 0 /\ bit(3) = 0
          /\ bit(4) = 0 /\ bit(5) = 0 /\ bit(6) = 0 /\ bit(7) = 1
      BY <2>2, Zenon
    <2> HIDE DEF bit
    <2>4. bit(i) = 1 <=> i = 7
      BY <2>1, <2>3
    <2> QED
      BY <2>4 DEF bit
  <1>4. ByteOf(128) = {7}
    <2>1. ByteOf(128) = {i \in 0 .. 7 : (128 \div (2 ^ i)) % 2 = 1}
      BY Zenon DEF ByteOf
    <2>2. ByteOf(128) = {i \in 0 .. 7 : i = 7}
      BY <1>3, <2>1, Zenon
    <2> QED
      BY <2>2
  <1> QED
    BY <1>2, <1>4

\* Byte k of x with p behind it, and zero behind that.
LEMMA PaddedIs ==
    ASSUME NEW x \in Seq(Byte), NEW p \in Byte
    PROVE  LET size == (Whole(Len(x)) + 1) * RATE
               y == x \o <<p>>
           IN /\ Padded(x, p) \in Seq(Byte) /\ Len(Padded(x, p)) = size
              /\ y \in Seq(Byte) /\ Len(y) = Len(x) + 1
              /\ size \in Nat /\ Len(y) <= size
              /\ \A k \in 1 .. size : Padded(x, p)[k] =
                   (IF k <= Len(y) THEN y[k] ELSE {}) \cup (IF k = size THEN {7} ELSE {})
  <1> DEFINE q == Whole(Len(x))
             size == (q + 1) * RATE
             y == x \o <<p>>
             byte(k) == (CASE k <= Len(x) -> x[k] [] k = Len(x) + 1 -> p [] OTHER -> {})
                           \cup (IF k = size THEN {7} ELSE {})
  <1>1. Len(x) \in Nat
    OBVIOUS
  <1>2. q \in Nat /\ Rest(Len(x)) < RATE /\ Rest(Len(x)) \in Nat /\ q * RATE \in Nat
        /\ Len(x) = (q * RATE) + Rest(Len(x))
    BY <1>1, WholeAndRest
  <1> HIDE DEF q
  <1>3. size = (q * RATE) + RATE /\ size \in Nat /\ RATE * (q + 1) = size
    <2>1. size = (q * RATE) + RATE
      BY <1>2, AddBlocks
    <2>2. RATE * (q + 1) = size
      BY <1>2, RateAssumption, Z3
    <2> QED
      BY <1>2, <2>1, <2>2, RateAssumption
  <1>4. Padded(x, p) = [k \in 1 .. size |-> byte(k)]
    BY <1>3 DEF Padded, q, Whole
  <1>5. /\ y \in Seq(Byte) /\ Len(y) = Len(x) + 1
        /\ \A k \in 1 .. Len(x) : y[k] = x[k]
        /\ y[Len(x) + 1] = p
    OBVIOUS
  <1> HIDE DEF size, y
  <1>6. Len(y) <= size
    <2> HIDE DEF size
    <2> QED
      BY <1>1, <1>2, <1>3, <1>5, RateAssumption
  <1>7. ASSUME NEW k \in 1 .. size
        PROVE  /\ byte(k) = (IF k <= Len(y) THEN y[k] ELSE {}) \cup (IF k = size THEN {7} ELSE {})
               /\ byte(k) \in Byte
    <2>1. (CASE k <= Len(x) -> x[k] [] k = Len(x) + 1 -> p [] OTHER -> {})
            = IF k <= Len(y) THEN y[k] ELSE {}
      <3>1. k \in Nat /\ k > 0
        BY <1>3
      <3>2. CASE k <= Len(x)
        <4>1. k \in 1 .. Len(x) /\ k <= Len(y)
          BY <1>1, <1>5, <3>1, <3>2
        <4> QED
          BY <1>1, <1>5, <3>1, <3>2, <4>1
      <3>3. CASE k = Len(x) + 1
        BY <1>1, <1>5, <3>1, <3>3
      <3>4. CASE k > Len(x) + 1
        BY <1>1, <1>5, <3>1, <3>4
      <3> QED
        BY <1>1, <3>1, <3>2, <3>3, <3>4
    <2>2. (IF k <= Len(y) THEN y[k] ELSE {}) \in Byte
      <3>1. {} \in Byte
        BY DEF Byte
      <3>2. k \in Nat /\ k > 0
        BY <1>3
      <3> QED
        BY <1>5, <3>1, <3>2
    <2>3. {7} \in Byte /\ {} \in Byte
      BY DEF Byte
    <2>4. \A a, b \in Byte : a \cup b \in Byte
      BY DEF Byte
    <2> QED
      BY <2>1, <2>2, <2>3, <2>4
  <1>8. Padded(x, p) \in Seq(Byte)
    <2>1. \A k \in 1 .. size : byte(k) \in Byte
      BY <1>7
    <2> HIDE DEF byte
    <2>2. [k \in 1 .. size |-> byte(k)] \in Seq(Byte)
      BY <1>3, <2>1, IsASeq
    <2> QED
      BY <1>4, <2>2
  <1>9. DOMAIN Padded(x, p) = 1 .. size
    BY <1>4
  <1>10. Len(Padded(x, p)) = size
    BY <1>3, <1>8, <1>9
  <1>11. \A k \in 1 .. size : Padded(x, p)[k] = byte(k)
    BY <1>4
  <1> HIDE DEF byte
  <1> QED
    BY <1>3, <1>5, <1>6, <1>7, <1>8, <1>10, <1>11 DEF size, y, q

LEMMA PaddedBlocksAre ==
    ASSUME NEW x \in Seq(Byte), NEW p \in Byte
    PROVE  LET q == Whole(Len(x))
           IN /\ q \in Nat /\ PaddedBlocks(x, p) \in State /\ Len(PaddedBlocks(x, p)) = q + 1
              /\ \A k \in 1 .. q + 1 : PaddedBlocks(x, p)[k] = LaidBlock(Padded(x, p), k)
  <1> DEFINE q == Whole(Len(x))
  <1>1. Len(x) \in Nat
    OBVIOUS
  <1>2. q \in Nat /\ q + 1 \in Nat
    <2>1. q \in Nat
      BY <1>1, WholeAndRest
    <2> QED
      BY <2>1
  <1>3. Padded(x, p) \in Seq(Byte)
    BY PaddedIs
  <1> HIDE DEF q
  <1>4. /\ LaidTo(Padded(x, p), q + 1) \in State /\ Len(LaidTo(Padded(x, p), q + 1)) = q + 1
        /\ \A k \in 1 .. q + 1 : LaidTo(Padded(x, p), q + 1)[k] = LaidBlock(Padded(x, p), k)
    BY <1>2, <1>3, LaidToIsState
  <1> QED
    BY <1>2, <1>4 DEF PaddedBlocks, q

\* The padded blocks hold x, p and the top bit.
LEMMA PaddedByteIs ==
    ASSUME NEW x \in Seq(Byte), NEW p \in Byte, NEW k \in 1 .. Whole(Len(x)) + 1,
           NEW i \in 0 .. RATE - 1
    PROVE  LaidByte(Padded(x, p), k, i) =
             LaidByte(x \o <<p>>, k, i)
               \cup (IF k = Whole(Len(x)) + 1 /\ i = RATE - 1 THEN {7} ELSE {})
  <1> DEFINE q == Whole(Len(x))
             size == (q + 1) * RATE
             y == x \o <<p>>
             o == (k - 1) * RATE
             n == o + i + 1
  <1>1. q \in Nat /\ k \in Nat /\ k > 0 /\ k <= q + 1
    <2>1. Len(x) \in Nat
      OBVIOUS
    <2>2. q \in Nat
      BY <2>1, WholeAndRest
    <2> HIDE DEF q
    <2>3. k \in 1 .. q + 1
      BY DEF q
    <2> QED
      BY <2>2, <2>3
  <1>2. /\ o \in Nat /\ n \in Nat /\ n > o /\ n <= k * RATE /\ k * RATE = o + RATE
    <2> HIDE DEF q
    <2> QED
      BY <1>1, PlaceInMessage
  <1>3. /\ k * RATE <= size
        /\ k < q + 1 => (k * RATE) + RATE <= size
        /\ k * RATE \in Nat /\ size \in Nat
    <2>1. q + 1 \in Nat /\ k \in Nat /\ k <= q + 1
      BY <1>1
    <2> HIDE DEF q
    <2> QED
      BY <2>1, AddBlocks
  <1>4. n \in 1 .. size /\ (n = size <=> k = q + 1 /\ i = RATE - 1)
    <2>1. n = o + i + 1 /\ i \in Nat /\ i <= RATE - 1 /\ RATE \in Nat /\ RATE > 0
      BY RateAssumption
    <2>2. k = q + 1 => k * RATE = size
      OBVIOUS
    <2> HIDE DEF n, o, size, q
    <2>3. n > 0 /\ n <= size
      BY <1>2, <1>3, <2>1
    <2>4. ASSUME k = q + 1 PROVE n = size <=> i = RATE - 1
      BY <1>2, <1>3, <2>1, <2>2, <2>4
    <2>5. ASSUME k # q + 1 PROVE n # size
      <3>1. k < q + 1
        BY <1>1, <2>5
      <3> QED
        BY <1>2, <1>3, <2>1, <3>1
    <2> QED
      BY <1>2, <1>3, <2>3, <2>4, <2>5
  <1>5. Len(Padded(x, p)) = size
        /\ Padded(x, p)[n] = (IF n <= Len(y) THEN y[n] ELSE {}) \cup (IF n = size THEN {7} ELSE {})
    <2> HIDE DEF n
    <2> QED
      BY <1>4, PaddedIs
  <1>6. LaidByte(Padded(x, p), k, i) = IF n <= Len(Padded(x, p)) THEN Padded(x, p)[n] ELSE {}
    BY DEF LaidByte
  <1>7. LaidByte(y, k, i) = IF n <= Len(y) THEN y[n] ELSE {}
    BY DEF LaidByte
  <1>8. n <= size
    <2> HIDE DEF n, size
    <2> QED
      BY <1>3, <1>4
  <1> HIDE DEF n, size, y, q
  <1>9. LaidByte(Padded(x, p), k, i) =
          LaidByte(y, k, i) \cup (IF k = q + 1 /\ i = RATE - 1 THEN {7} ELSE {})
    BY <1>4, <1>5, <1>6, <1>7, <1>8
  <1> QED
    BY <1>9 DEF y, q

\* keccak_inc_finalize pads what was absorbed.
LEMMA IncFinalizeIs ==
    ASSUME NEW x \in Seq(Byte), NEW p \in DomainByte
    PROVE  IncFinalize(ContextOf(x), p) = [lanes |-> PaddedBlocks(x, p), count |-> 0]
  <1> DEFINE q == Whole(Len(x))
             y == x \o <<p>>
             s == LaidTo(y, q + 1)
             t == XorAt(s, RATE - 1, <<{7}>>)
             u == PaddedBlocks(x, p)
  <1>0. p \in Byte /\ 7 \notin p /\ {7} \in Byte /\ {} \in Byte
    BY DEF DomainByte, Byte
  <1>1. Len(x) \in Nat
    OBVIOUS
  <1>2. q \in Nat /\ q + 1 \in Nat
    <2>1. q \in Nat
      BY <1>1, WholeAndRest
    <2> QED
      BY <2>1
  <1>3. y \in Seq(Byte) /\ <<p>> \in Seq(Byte) /\ <<{7}>> \in Seq(Byte)
        /\ DOMAIN <<{7}>> = {1} /\ <<{7}>>[1] = {7} /\ Len(y) = Len(x) + 1 /\ y[Len(x) + 1] = p
    BY <1>0
  <1>4. XorAt(Laid(x), Rest(Len(x)), <<p>>) = s
    <2> DEFINE f == <<>>
    <2>1. IncTurn(ContextOf(x), <<p>>, f, 0) = LaidTo(y, q + 0 + 1)
      BY <1>3, IncTurnIs, SMTT(30)
    <2>2. IncTurn(ContextOf(x), <<p>>, f, 0) = XorAt(Laid(x), Rest(Len(x)) - (0 * RATE), <<p>>)
      BY DEF IncTurn, ContextOf
    <2>3. Rest(Len(x)) - (0 * RATE) = Rest(Len(x)) /\ q + 0 + 1 = q + 1
      <3>1. Rest(Len(x)) \in Nat /\ RATE \in Nat
        BY <1>1, WholeAndRest, RateAssumption
      <3> HIDE DEF q
      <3> QED
        BY <1>2, <3>1
    <2> QED
      BY <2>1, <2>2, <2>3
  <1>5. IncFinalize(ContextOf(x), p) = [lanes |-> t, count |-> 0]
    BY <1>4, DomainBytes, Zenon DEF IncFinalize, ContextOf
  <1>6. s \in State /\ Len(s) = q + 1 /\ \A k \in 1 .. q + 1 : s[k] = LaidBlock(y, k)
    <2> HIDE DEF y, q
    <2> QED
      BY <1>2, <1>3, LaidToIsState
  <1>7. u \in State /\ Len(u) = q + 1
        /\ \A k \in 1 .. q + 1 : u[k] = LaidBlock(Padded(x, p), k)
    BY <1>0, PaddedBlocksAre
  <1> HIDE DEF s, u
  <1>8. /\ t \in State /\ Len(t) = q + 1
        /\ \A k \in 1 .. q + 1 : k # q + 1 => t[k] = s[k]
        /\ t[q + 1] = XoredBlock(s[q + 1], RATE - 1, <<{7}>>)
    <2>1. Len(s) > 0 /\ RATE - 1 \in Int
      BY <1>2, <1>6, RateAssumption
    <2> DEFINE at == RATE - 1
               in == <<{7}>>
    <2>2. at \in Int /\ in \in Seq(Byte)
      BY <1>3, <2>1
    <2>3. t = XorAt(s, at, in)
      OBVIOUS
    <2> HIDE DEF q, at, in, t
    <2>4. /\ XorAt(s, at, in) \in State /\ Len(XorAt(s, at, in)) = Len(s)
          /\ \A j \in 1 .. Len(s) : j # Len(s) => XorAt(s, at, in)[j] = s[j]
          /\ XorAt(s, at, in)[Len(s)] = XoredBlock(s[Len(s)], at, in)
      BY <1>6, <2>1, <2>2, XorAtIs
    <2> QED
      BY <1>6, <2>3, <2>4 DEF at, in
  <1> HIDE DEF t
  <1>9. ASSUME NEW k \in 1 .. q + 1, NEW i \in 0 .. RATE - 1
        PROVE  LaidByte(Padded(x, p), k, i) =
                 LaidByte(y, k, i) \cup (IF k = q + 1 /\ i = RATE - 1 THEN {7} ELSE {})
    BY <1>0, PaddedByteIs
  <1>10. 7 \notin LaidByte(y, q + 1, RATE - 1)
    <2> DEFINE n == (((q + 1) - 1) * RATE) + (RATE - 1) + 1
    <2>1. n \in Nat /\ n = (q * RATE) + RATE /\ q * RATE \in Nat
      <3>1. (q + 1) - 1 = q
        BY <1>2
      <3>2. q * RATE \in Nat
        BY <1>2, AddBlocks
      <3> HIDE DEF q
      <3> QED
        BY <3>1, <3>2, RateAssumption
    <2>2. Len(x) = (q * RATE) + Rest(Len(x)) /\ Rest(Len(x)) < RATE /\ Rest(Len(x)) \in Nat
      BY <1>1, WholeAndRest
    <2>3. LaidByte(y, q + 1, RATE - 1) = IF n <= Len(y) THEN y[n] ELSE {}
      BY DEF LaidByte
    <2> HIDE DEF n, q
    <2>4. n <= Len(y) => n = Len(x) + 1
      BY <1>1, <1>3, <2>1, <2>2, RateAssumption
    <2> HIDE DEF y
    <2> QED
      BY <1>0, <1>3, <2>3, <2>4
  <1>11. ASSUME NEW k \in 1 .. q + 1 PROVE t[k] = LaidBlock(Padded(x, p), k)
    <2>1. CASE k # q + 1
      <3>1. \A i \in 0 .. RATE - 1 : LaidByte(Padded(x, p), k, i) = LaidByte(y, k, i)
        <4> HIDE DEF y, q
        <4>1. ASSUME NEW i \in 0 .. RATE - 1
              PROVE  LaidByte(Padded(x, p), k, i) = LaidByte(y, k, i) \cup {}
          BY <1>9, <2>1
        <4> QED
          BY <4>1
      <3>2. LaidBlock(Padded(x, p), k) = LaidBlock(y, k)
        BY <3>1 DEF LaidBlock
      <3> HIDE DEF q, y
      <3> QED
        BY <1>6, <1>8, <2>1, <3>2
    <2>2. CASE k = q + 1
      <3> DEFINE b == LaidBlock(y, k)
      <3>1. t[k] = XoredBlock(b, RATE - 1, <<{7}>>)
        <4> HIDE DEF q, y
        <4> QED
          BY <1>6, <1>8, <2>2
      <3>2. ASSUME NEW i \in 0 .. RATE - 1
            PROVE  (IF i - (RATE - 1) + 1 \in DOMAIN <<{7}>>
                    THEN XorByte(b[i], <<{7}>>[i - (RATE - 1) + 1]) ELSE b[i])
                     = LaidByte(Padded(x, p), k, i)
        <4>1. b[i] = LaidByte(y, k, i)
          BY DEF LaidBlock
        <4>2. i - (RATE - 1) + 1 \in DOMAIN <<{7}>> <=> i = RATE - 1
          <5>1. i \in Int /\ RATE \in Int
            BY RateAssumption
          <5> QED
            BY <1>3, <5>1
        <4>3. ASSUME i = RATE - 1
              PROVE XorByte(b[i], <<{7}>>[i - (RATE - 1) + 1]) = b[i] \cup {7}
          <5>1. i - (RATE - 1) + 1 = 1
            BY <4>3, RateAssumption
          <5>2. 7 \notin b[i]
            BY <1>10, <2>2, <4>1, <4>3
          <5> HIDE DEF b
          <5> QED
            BY <1>3, <5>1, <5>2 DEF XorByte
        <4> HIDE DEF b, q, y
        <4> QED
          <5>1. LaidByte(Padded(x, p), k, i) = b[i] \cup (IF i = RATE - 1 THEN {7} ELSE {})
            BY <1>9, <2>2, <4>1
          <5> QED
            BY <4>2, <4>3, <5>1
      <3> HIDE DEF b
      <3> QED
        BY <3>1, <3>2 DEF XoredBlock, LaidBlock
    <2> QED
      BY <2>1, <2>2
  <1>12. t = u
    <2>1. \A k \in 1 .. Len(t) : t[k] = u[k]
      <3> HIDE DEF q
      <3> QED
        BY <1>7, <1>8, <1>11
    <2> HIDE DEF q
    <2> QED
      BY <1>7, <1>8, <2>1, SameElements DEF State
  <1> QED
    BY <1>5, <1>12 DEF u

\* Turn k of the loop of keccak_absorb, when f[k - 1] is the state before.
OneTurn(in, f, k) ==
    IF k = 0 THEN ZeroState
    ELSE Permute(XorAt(f[k - 1], 0, SubSeq(in, (k - 1) * RATE + 1, k * RATE)))

\* The last block of the loop, behind which nothing is left of in.
LastBlock(in, p) ==
    LET turns == Len(in) \div RATE
        left == Len(in) - (turns * RATE)
    IN [i \in 1 .. RATE |->
          (CASE i <= left -> in[turns * RATE + i] [] i = left + 1 -> p [] OTHER -> {})
              \cup (IF i = RATE THEN ByteOf(128) ELSE {})]

\* A block xored into a state whose last block is zero.
LEMMA XorIntoZeros ==
    ASSUME NEW s \in State, NEW m \in Nat, Len(s) = m + 1, s[m + 1] = Zeros,
           NEW b \in Seq(Byte), Len(b) = RATE,
           NEW w, \A i \in 0 .. RATE - 1 : b[i + 1] = w[i], w \in Block
    PROVE  /\ XorAt(s, 0, b) \in State /\ Len(XorAt(s, 0, b)) = m + 1
           /\ \A j \in 1 .. m : XorAt(s, 0, b)[j] = s[j]
           /\ XorAt(s, 0, b)[m + 1] = w
  <1> DEFINE t == XorAt(s, 0, b)
  <1>1. /\ t \in State /\ Len(t) = m + 1
        /\ \A j \in 1 .. m + 1 : j # m + 1 => t[j] = s[j]
        /\ t[m + 1] = XoredBlock(Zeros, 0, b)
    <2>1. 0 \in Int /\ Len(s) > 0
      OBVIOUS
    <2> QED
      BY <2>1, XorAtIs
  <1> HIDE DEF t
  <1>2. ASSUME NEW i \in 0 .. RATE - 1
        PROVE  (IF i - 0 + 1 \in DOMAIN b THEN XorByte(Zeros[i], b[i - 0 + 1]) ELSE Zeros[i]) = w[i]
    <2>1. i - 0 + 1 = i + 1 /\ i + 1 \in 1 .. Len(b)
      BY RateAssumption
    <2>2. Zeros[i] = {} /\ b[i + 1] \in Byte
      BY <2>1 DEF Zeros
    <2>3. XorByte({}, b[i + 1]) = b[i + 1]
      BY <2>2, XorByteIs
    <2> QED
      BY <2>1, <2>2, <2>3
  <1>3. XoredBlock(Zeros, 0, b) = w
    <2>1. w = [i \in 0 .. RATE - 1 |-> w[i]]
      BY DEF Block
    <2> QED
      BY <1>2, <2>1 DEF XoredBlock
  <1>4. \A j \in 1 .. m : j \in 1 .. m + 1 /\ j # m + 1
    OBVIOUS
  <1> QED
    BY <1>1, <1>3, <1>4 DEF t

\* A block of in that is whole is cut out of it.
LEMMA CutBlock ==
    ASSUME NEW in \in Seq(Byte), NEW k \in Nat, k > 0, k * RATE <= Len(in)
    PROVE  LET b == SubSeq(in, (k - 1) * RATE + 1, k * RATE)
           IN /\ b \in Seq(Byte) /\ Len(b) = RATE
              /\ \A i \in 0 .. RATE - 1 : b[i + 1] = LaidBlock(in, k)[i]
  <1> DEFINE o == (k - 1) * RATE
             e == k * RATE
             b == SubSeq(in, o + 1, e)
  <1>1. o \in Nat /\ e = o + RATE /\ e \in Nat /\ 0 \in 0 .. RATE - 1
    <2>1. (k - 1) \in Nat /\ (k - 1) + 1 = k
      OBVIOUS
    <2>2. (k - 1) * RATE \in Nat /\ ((k - 1) + 1) * RATE = ((k - 1) * RATE) + RATE
      BY <2>1, AddBlocks
    <2>3. RATE \in Nat /\ RATE > 0
      BY RateAssumption
    <2>4. o \in Nat /\ e = o + RATE
      BY <2>1, <2>2
    <2> HIDE DEF o, e
    <2> QED
      BY <2>3, <2>4
  <1>2. \A i \in 0 .. RATE - 1 : LaidBlock(in, k)[i] = IF o + i + 1 <= Len(in) THEN in[o + i + 1] ELSE {}
    BY DEF LaidBlock, LaidByte
  <1>3. e <= Len(in)
    OBVIOUS
  <1> HIDE DEF o, e
  <1>4. b \in Seq(Byte) /\ Len(b) = RATE
    BY <1>1, <1>3, RateAssumption
  <1>5. ASSUME NEW i \in 0 .. RATE - 1 PROVE b[i + 1] = LaidBlock(in, k)[i]
    <2>1. i + 1 \in 1 .. RATE /\ o + i + 1 <= e /\ (o + 1) + (i + 1) - 1 = o + i + 1
      BY <1>1, RateAssumption
    <2>2. b[i + 1] = in[o + i + 1]
      BY <1>1, <1>3, <1>4, <2>1, RateAssumption
    <2>3. o + i + 1 <= Len(in)
      BY <1>1, <1>3, <2>1
    <2> QED
      BY <1>2, <2>2, <2>3
  <1> QED
    BY <1>4, <1>5 DEF b, o, e

LEMMA OneTurnIs ==
    ASSUME NEW in \in Seq(Byte), NEW k \in Nat, k * RATE <= Len(in), NEW f,
           k > 0 => f[k - 1] = Permute(LaidTo(in, k - 1))
    PROVE  OneTurn(in, f, k) = Permute(LaidTo(in, k))
  <1>1. CASE k = 0
    <2>1. LaidTo(in, 0) = << >>
      BY DEF LaidTo
    <2>2. Permute(<< >>) = <<Zeros>>
      BY DEF Permute
    <2> QED
      BY <1>1, <2>1, <2>2 DEF OneTurn, ZeroState
  <1>2. CASE k # 0
    <2> DEFINE m == k - 1
               v == LaidTo(in, m)
               s == Permute(v)
               b == SubSeq(in, (k - 1) * RATE + 1, k * RATE)
               w == LaidBlock(in, k)
               t == XorAt(s, 0, b)
               u == LaidTo(in, k)
    <2>1. m \in Nat /\ k = m + 1 /\ k > 0
      BY <1>2
    <2>2. OneTurn(in, f, k) = Permute(t)
      BY <1>2, <2>1 DEF OneTurn
    <2>3. v \in State /\ Len(v) = m /\ \A j \in 1 .. m : v[j] = LaidBlock(in, j)
      BY <2>1, LaidToIsState
    <2>4. /\ s \in State /\ Len(s) = m + 1 /\ s[m + 1] = Zeros
          /\ \A j \in 1 .. m : s[j] = v[j]
      <3> HIDE DEF v, m
      <3> QED
        BY <2>3, PermuteIs
    <2>5. b \in Seq(Byte) /\ Len(b) = RATE /\ \A i \in 0 .. RATE - 1 : b[i + 1] = w[i]
      BY <2>1, CutBlock
    <2>6. w \in Block
      BY <2>1, LaidBlockIsBlock
    <2>7. u \in State /\ Len(u) = k /\ \A j \in 1 .. k : u[j] = LaidBlock(in, j)
      BY LaidToIsState
    <2> HIDE DEF m, v, s, b
    <2>8. /\ t \in State /\ Len(t) = m + 1
          /\ \A j \in 1 .. m : t[j] = s[j]
          /\ t[m + 1] = w
      <3> HIDE DEF w
      <3>1. \A i \in 0 .. RATE - 1 : b[i + 1] = w[i]
        BY <2>5
      <3>2. XorAt(s, 0, b) \in State /\ Len(XorAt(s, 0, b)) = m + 1
        BY ONLY <2>1, <2>4, <2>5, <2>6, <3>1, XorIntoZeros, SMTT(60)
      <3>3. \A j \in 1 .. m : XorAt(s, 0, b)[j] = s[j]
        BY ONLY <2>1, <2>4, <2>5, <2>6, <3>1, XorIntoZeros, SMTT(60)
      <3>4. XorAt(s, 0, b)[m + 1] = w
        BY ONLY <2>1, <2>4, <2>5, <2>6, <3>1, XorIntoZeros, SMTT(60)
      <3> QED
        BY <3>2, <3>3, <3>4
    <2> HIDE DEF t, u
    <2>9. \A j \in 1 .. m + 1 : t[j] = u[j]
      BY <2>1, <2>3, <2>4, <2>7, <2>8
    <2>10. t = u
      BY <2>1, <2>7, <2>8, <2>9, SameElements DEF State
    <2> QED
      BY <2>2, <2>10 DEF u
  <1> QED
    BY <1>1, <1>2

\* keccak_absorb leaves the padded blocks of its input.
LEMMA AbsorbIs ==
    ASSUME NEW in \in Seq(Byte), NEW p \in DomainByte
    PROVE  Absorb(in, p) = [lanes |-> PaddedBlocks(in, p), count |-> 0]
  <1> DEFINE n == Len(in)
             q == Whole(n)
             D == 0 .. q
             g == [k \in D |-> Permute(LaidTo(in, k))]
             IsLoop(f) == f = [k \in D |-> OneTurn(in, f, k)]
             last == LastBlock(in, p)
             s == Permute(LaidTo(in, q))
             t == XorAt(s, 0, last)
             u == PaddedBlocks(in, p)
  <1>0. p \in Byte /\ {7} \in Byte /\ {} \in Byte
    BY DEF DomainByte, Byte
  <1>1. n \in Nat
    OBVIOUS
  <1>2. /\ q \in Nat /\ q * RATE \in Nat /\ q * RATE <= n
        /\ Rest(n) \in Nat /\ Rest(n) < RATE /\ n = (q * RATE) + Rest(n)
    <2>1. q \in Nat /\ q * RATE \in Nat /\ Rest(n) \in Nat /\ Rest(n) < RATE
          /\ n = (q * RATE) + Rest(n)
      BY <1>1, WholeAndRest
    <2> HIDE DEF q, n
    <2> QED
      BY <2>1
  <1> HIDE DEF q
  <1>3. ASSUME NEW k \in D PROVE OneTurn(in, g, k) = g[k]
    <2>1. k \in Nat /\ k <= q
      BY <1>2
    <2>2. k * RATE <= n
      <3>1. k * RATE <= q * RATE /\ k * RATE \in Nat
        BY <1>2, <2>1, AddBlocks
      <3> QED
        BY <1>1, <1>2, <3>1
    <2>3. k > 0 => g[k - 1] = Permute(LaidTo(in, k - 1))
      <3>1. k > 0 => k - 1 \in D
        BY <1>2, <2>1
      <3> QED
        BY <3>1
    <2>4. g[k] = Permute(LaidTo(in, k))
      OBVIOUS
    <2> HIDE DEF g
    <2> QED
      BY <2>1, <2>2, <2>3, <2>4, OneTurnIs
  <1>4. IsLoop(g)
    <2>1. g = [k \in D |-> g[k]]
      OBVIOUS
    <2> HIDE DEF g
    <2> QED
      BY <1>3, <2>1
  <1>5. ASSUME NEW f, IsLoop(f) PROVE f[q] = g[q]
    <2> DEFINE T == {k \in D : f[k] # g[k]}
    <2> HIDE DEF g
    <2>1. ASSUME T # {} PROVE FALSE
      <3>0. T \in SUBSET Nat
        BY <1>2
      <3>1. PICK k \in T : \A j \in T : k <= j
        BY <2>1, <3>0, Smallest
      <3>2. k \in D /\ f[k] # g[k] /\ k \in Nat
        BY <1>2
      <3>3. \A j \in D : f[j] = OneTurn(in, f, j)
        BY <1>5
      <3>4. k # 0 => f[k - 1] = g[k - 1]
        <4>1. k # 0 => k - 1 \in D /\ ~(k <= k - 1)
          BY <1>2, <3>2
        <4> QED
          BY <3>1, <4>1
      <3>5. OneTurn(in, f, k) = OneTurn(in, g, k)
        BY <3>4, Zenon DEF OneTurn
      <3> QED
        BY <1>3, <3>2, <3>3, <3>5
    <2>2. q \in D
      BY <1>2
    <2> QED
      BY <2>1, <2>2
  <1>6. Absorb(in, p) = [lanes |-> t, count |-> 0]
    <2> DEFINE f == CHOOSE f : IsLoop(f)
    <2>1. Absorb(in, p) = [lanes |-> XorAt(f[q], 0, last), count |-> 0]
      BY Zenon DEF Absorb, OneTurn, LastBlock, q, Whole
    <2>2. IsLoop(f)
      <3> HIDE DEF g, IsLoop
      <3> QED
        BY <1>4
    <2>3. q \in D
      BY <1>2
    <2>4. g[q] = s
      BY <2>3
    <2> HIDE DEF f, g
    <2>5. f[q] = g[q]
      BY <1>5, <2>2
    <2> QED
      BY <2>1, <2>4, <2>5
  <1>7. /\ LaidTo(in, q) \in State /\ Len(LaidTo(in, q)) = q
        /\ \A j \in 1 .. q : LaidTo(in, q)[j] = LaidBlock(in, j)
    BY <1>2, LaidToIsState
  <1>8. /\ s \in State /\ Len(s) = q + 1 /\ s[q + 1] = Zeros
        /\ \A j \in 1 .. q : s[j] = LaidBlock(in, j)
    BY <1>7, PermuteIs
  <1> HIDE DEF s
  <1>9. u \in State /\ Len(u) = q + 1
        /\ \A k \in 1 .. q + 1 : u[k] = LaidBlock(Padded(in, p), k)
    BY <1>0, PaddedBlocksAre DEF q
  <1> HIDE DEF u
  <1>10. ASSUME NEW k \in 1 .. q + 1, NEW i \in 0 .. RATE - 1
        PROVE  LaidByte(Padded(in, p), k, i) =
                 LaidByte(in \o <<p>>, k, i) \cup (IF k = q + 1 /\ i = RATE - 1 THEN {7} ELSE {})
    BY <1>0, PaddedByteIs DEF q
  <1>11. ASSUME NEW k \in 1 .. q PROVE LaidBlock(Padded(in, p), k) = LaidBlock(in, k)
    <2>1. k \in Nat /\ k > 0 /\ k <= q /\ k # q + 1 /\ k \in 1 .. q + 1
      BY <1>2
    <2>2. ASSUME NEW i \in 0 .. RATE - 1
          PROVE  LaidByte(Padded(in, p), k, i) = LaidByte(in \o <<p>>, k, i) \cup {}
      BY <1>10, <2>1
    <2>3. LaidBlock(Padded(in, p), k) = LaidBlock(in \o <<p>>, k)
      BY <2>2 DEF LaidBlock
    <2>4. k * RATE <= n
      <3>1. k * RATE <= q * RATE /\ k * RATE \in Nat
        BY <1>2, <2>1, AddBlocks
      <3> QED
        BY <1>1, <1>2, <3>1
    <2>5. <<p>> \in Seq(Byte)
      BY <1>0
    <2> QED
      BY <2>1, <2>3, <2>4, <2>5, SameBlocks
  <1>12. /\ last \in Seq(Byte) /\ Len(last) = RATE
         /\ \A i \in 0 .. RATE - 1 : last[i + 1] = LaidByte(Padded(in, p), q + 1, i)
    <2> DEFINE o == q * RATE
               left == n - o
               byte(i) == (CASE i <= left -> in[o + i] [] i = left + 1 -> p [] OTHER -> {})
                              \cup (IF i = RATE THEN {7} ELSE {})
               y == in \o <<p>>
    <2>1. last = [i \in 1 .. RATE |-> byte(i)]
      BY DomainBytes, Zenon DEF LastBlock, q, Whole
    <2>2. /\ o \in Nat /\ left \in Nat /\ left < RATE /\ n = o + left /\ ((q + 1) - 1) * RATE = o
      <3>1. (q + 1) - 1 = q
        BY <1>2
      <3>2. left = Rest(n)
        BY DEF Rest, q
      <3> QED
        BY <1>2, <3>1, <3>2
    <2>3. /\ Len(y) = n + 1
          /\ \A k \in 1 .. n : y[k] = in[k]
          /\ y[n + 1] = p
      OBVIOUS
    <2> HIDE DEF o, left, y, n
    <2>4. ASSUME NEW i \in 0 .. RATE - 1
          PROVE  /\ byte(i + 1) = LaidByte(Padded(in, p), q + 1, i)
                 /\ byte(i + 1) \in Byte
      <3>1. i \in Nat /\ i + 1 \in 1 .. RATE /\ (i + 1 = RATE <=> i = RATE - 1)
        BY RateAssumption
      <3>2. LaidByte(y, q + 1, i) = IF o + i + 1 <= n + 1 THEN y[o + i + 1] ELSE {}
        BY <2>2, <2>3 DEF LaidByte
      <3>3. (CASE i + 1 <= left -> in[o + (i + 1)] [] i + 1 = left + 1 -> p [] OTHER -> {})
              = LaidByte(y, q + 1, i)
        <4>1. CASE i + 1 <= left
          <5>1. o + (i + 1) = o + i + 1 /\ o + i + 1 \in 1 .. n /\ o + i + 1 <= n + 1
            BY <2>2, <3>1, <4>1
          <5> DEFINE e == o + i + 1
          <5>2. in[o + (i + 1)] = in[e] /\ e \in 1 .. n /\ e <= n + 1
            BY <5>1
          <5>3. LaidByte(y, q + 1, i) = IF e <= n + 1 THEN y[e] ELSE {}
            BY <3>2
          <5> HIDE DEF e
          <5>4. LaidByte(y, q + 1, i) = in[o + (i + 1)]
            BY <2>3, <5>2, <5>3
          <5>5. i + 1 # left + 1
            BY <2>2, <3>1, <4>1
          <5> DEFINE rest == in[o + (i + 1)]
          <5> HIDE DEF rest
          <5>6. (CASE i + 1 <= left -> rest [] i + 1 = left + 1 -> p [] OTHER -> {}) = rest
            BY <4>1, <5>5
          <5> QED
            BY <5>4, <5>6 DEF rest
        <4>2. CASE i + 1 = left + 1
          <5>1. o + i + 1 = n + 1 /\ ~(i + 1 <= left)
            BY <2>2, <3>1, <4>2
          <5>2. n + 1 <= n + 1
            BY <2>2
          <5> QED
            BY <2>3, <3>2, <4>2, <5>1, <5>2
        <4>3. CASE i + 1 > left + 1
          <5>1. ~(o + i + 1 <= n + 1) /\ ~(i + 1 <= left) /\ i + 1 # left + 1
            BY <2>2, <3>1, <4>3
          <5> QED
            BY <3>2, <5>1
        <4> QED
          BY <2>2, <3>1, <4>1, <4>2, <4>3
      <3>4. byte(i + 1) = LaidByte(y, q + 1, i) \cup (IF i = RATE - 1 THEN {7} ELSE {})
        BY <3>1, <3>3
      <3>5. q + 1 \in 1 .. q + 1
        BY <1>2
      <3>6. LaidByte(Padded(in, p), q + 1, i) =
              LaidByte(y, q + 1, i) \cup (IF i = RATE - 1 THEN {7} ELSE {})
        BY <1>10, <3>5 DEF y
      <3>7. Padded(in, p) \in Seq(Byte)
        BY <1>0, PaddedIs
      <3>8. LaidBlock(Padded(in, p), q + 1) \in Block
        BY <1>2, <3>7, LaidBlockIsBlock
      <3>9. LaidByte(Padded(in, p), q + 1, i) \in Byte
        BY <3>8 DEF LaidBlock, Block
      <3> HIDE DEF byte
      <3> QED
        BY <3>4, <3>6, <3>9
    <2>5. \A i \in 1 .. RATE : byte(i) \in Byte
      <3>1. ASSUME NEW i \in 1 .. RATE PROVE byte(i) \in Byte
        <4>1. i - 1 \in 0 .. RATE - 1 /\ (i - 1) + 1 = i
          BY RateAssumption
        <4>2. byte((i - 1) + 1) \in Byte
          <5> HIDE DEF byte
          <5> QED
            BY <2>4, <4>1
        <4> QED
          BY <4>1, <4>2
      <3> QED
        BY <3>1
    <2> HIDE DEF byte
    <2>6. [i \in 1 .. RATE |-> byte(i)] \in Seq(Byte)
      BY <2>5, RateAssumption, IsASeq
    <2>7. last \in Seq(Byte) /\ DOMAIN last = 1 .. RATE
      BY <2>1, <2>6
    <2> HIDE DEF last
    <2>8. Len(last) = RATE
      BY <2>7, RateAssumption
    <2>9. \A i \in 0 .. RATE - 1 : last[i + 1] = byte(i + 1)
      <3>1. \A i \in 0 .. RATE - 1 : i + 1 \in 1 .. RATE
        BY RateAssumption
      <3> QED
        BY <2>1, <3>1
    <2> QED
      BY <2>4, <2>7, <2>8, <2>9
  <1> HIDE DEF last
  <1>13. /\ t \in State /\ Len(t) = q + 1
         /\ \A j \in 1 .. q : t[j] = s[j]
         /\ t[q + 1] = LaidBlock(Padded(in, p), q + 1)
    <2> DEFINE w == LaidBlock(Padded(in, p), q + 1)
    <2>1. Padded(in, p) \in Seq(Byte) /\ q + 1 \in Nat /\ q + 1 > 0
      <3>1. Padded(in, p) \in Seq(Byte)
        BY <1>0, PaddedIs
      <3>2. q + 1 \in Nat /\ q + 1 > 0
        BY <1>2
      <3> QED
        BY <3>1, <3>2
    <2>2. w \in Block
      BY <2>1, LaidBlockIsBlock
    <2>3. \A i \in 0 .. RATE - 1 : last[i + 1] = w[i]
      BY <1>12 DEF LaidBlock
    <2> HIDE DEF w
    <2>4. /\ t \in State /\ Len(t) = q + 1
          /\ \A j \in 1 .. q : t[j] = s[j]
          /\ t[q + 1] = w
      <3>1. q \in Nat /\ s \in State /\ Len(s) = q + 1 /\ s[q + 1] = Zeros
        BY <1>2, <1>8
      <3>2. last \in Seq(Byte) /\ Len(last) = RATE
        BY <1>12
      <3>3. /\ XorAt(s, 0, last) \in State /\ Len(XorAt(s, 0, last)) = q + 1
            /\ \A j \in 1 .. q : XorAt(s, 0, last)[j] = s[j]
            /\ XorAt(s, 0, last)[q + 1] = w
        BY <2>2, <2>3, <3>1, <3>2, XorIntoZeros
      <3> QED
        BY <3>3
    <2> QED
      BY <2>4 DEF w
  <1> HIDE DEF t
  <1>14. \A j \in 1 .. q + 1 : t[j] = u[j]
    <2>1. \A j \in 1 .. q + 1 : j \in 1 .. q \/ j = q + 1
      BY <1>2
    <2>2. \A j \in 1 .. q : j \in 1 .. q + 1
      BY <1>2
    <2>3. q + 1 \in 1 .. q + 1
      BY <1>2
    <2> QED
      BY <1>8, <1>9, <1>11, <1>13, <2>1, <2>2, <2>3
  <1>15. t = u
    BY <1>9, <1>13, <1>14, SameElements DEF State
  <1> QED
    BY <1>6, <1>15 DEF u

----------------------------------------------------------------------------
(* The prefix of cSHAKE.                                                    *)

LEMMA NothingYet == Fresh = ContextOf(<< >>)
  <1>1. Whole(0) = 0 /\ Rest(0) = 0 /\ Len(<< >>) = 0 /\ << >> \in Seq(Byte)
    <2>1. (0 * RATE) + 0 = 0 /\ 0 \in Count /\ RATE \in Nat
      BY RateAssumption DEF Count
    <2>2. Whole((0 * RATE) + 0) = 0
      BY <2>1, Division
    <2>3. Whole(0) = 0
      BY <2>1, <2>2
    <2> QED
      BY <2>1, <2>3 DEF Rest
  <1>2. 0 * RATE = 0
    BY RateAssumption
  <1>3. LaidBlock(<< >>, 0 + 1) = Zeros
    <2>1. 0 \in Nat /\ Len(<< >>) <= 0 * RATE
      BY <1>1, <1>2
    <2> QED
      BY <1>1, <2>1, BehindTheEnd
  <1>4. LaidTo(<< >>, 1) = <<LaidBlock(<< >>, 1)>>
    BY DEF LaidTo
  <1> QED
    BY <1>1, <1>3, <1>4 DEF Fresh, ContextOf, Laid, ZeroState

\* m zero bytes.
ZeroBytes(m) == [i \in 1 .. m |-> {}]

LEMMA ZeroBytesIs ==
    ASSUME NEW m \in Nat
    PROVE  ZeroBytes(m) \in Seq(Byte) /\ Len(ZeroBytes(m)) = m
           /\ \A i \in 1 .. m : ZeroBytes(m)[i] = {}
  <1>1. {} \in Byte
    BY DEF Byte
  <1>2. ZeroBytes(m) \in Seq(Byte)
    BY <1>1, IsASeq DEF ZeroBytes
  <1> QED
    BY <1>2 DEF ZeroBytes

LEMMA OneBehind ==
    ASSUME NEW a \in Seq(Byte), NEW e \in Byte
    PROVE  /\ a \o <<e>> \in Seq(Byte) /\ Len(a \o <<e>>) = Len(a) + 1
           /\ \A i \in 1 .. Len(a) : (a \o <<e>>)[i] = a[i]
           /\ (a \o <<e>>)[Len(a) + 1] = e
  OBVIOUS

LEMMA ZeroBehindZeros ==
    ASSUME NEW l \in Nat
    PROVE  ZeroBytes(l) \o <<{}>> = ZeroBytes(l + 1)
  <1> DEFINE a == ZeroBytes(l)
             b == ZeroBytes(l + 1)
             d == a \o <<{}>>
  <1>1. a \in Seq(Byte) /\ Len(a) = l /\ \A i \in 1 .. l : a[i] = {}
    BY ZeroBytesIs
  <1>2. l + 1 \in Nat
    OBVIOUS
  <1>3. b \in Seq(Byte) /\ Len(b) = l + 1 /\ \A i \in 1 .. l + 1 : b[i] = {}
    BY <1>2, ZeroBytesIs
  <1> HIDE DEF a, b
  <1>4. {} \in Byte
    BY DEF Byte
  <1>5. /\ d \in Seq(Byte) /\ Len(d) = Len(a) + 1
        /\ \A i \in 1 .. Len(a) : d[i] = a[i]
        /\ d[Len(a) + 1] = {}
    BY <1>1, <1>4, OneBehind
  <1> HIDE DEF d
  <1>6. \A i \in 1 .. l + 1 : d[i] = b[i]
    <2>1. \A i \in 1 .. l + 1 : i \in 1 .. l \/ i = l + 1
      OBVIOUS
    <2>2. \A i \in 1 .. l + 1 : d[i] = {}
      BY <1>1, <1>5, <2>1
    <2> QED
      BY <1>3, <2>2
  <1>7. d = b
    <2>1. Len(d) = l + 1
      BY <1>1, <1>5
    <2> QED
      BY <1>3, <1>5, <1>6, <2>1, SameElements
  <1> QED
    BY <1>7 DEF a, b, d

\* Absorbing zeros up to the last byte of a block only moves the count.
LEMMA ZerosMoveTheCount ==
    ASSUME NEW x \in Seq(Byte)
    PROVE  LET y == x \o ZeroBytes((RATE - 1) - Rest(Len(x)))
           IN /\ y \in Seq(Byte)
              /\ ContextOf(y) = [lanes |-> Laid(x), count |-> RATE - 1]
  <1> DEFINE n == Len(x)
             q == Whole(n)
             r == Rest(n)
             m == (RATE - 1) - r
             z == ZeroBytes(m)
             y == x \o z
  <1>1. n \in Nat /\ RATE \in Nat /\ RATE > 0
    BY RateAssumption
  <1>2. q \in Nat /\ r \in Nat /\ r < RATE /\ q * RATE \in Nat /\ n = (q * RATE) + r
    BY <1>1, WholeAndRest
  <1> HIDE DEF n, q, r
  <1>3. m \in Nat /\ RATE - 1 \in Count /\ RATE - 1 \in Nat
    BY <1>1, <1>2 DEF Count
  <1>4. z \in Seq(Byte) /\ Len(z) = m /\ \A i \in 1 .. m : z[i] = {}
    BY <1>3, ZeroBytesIs
  <1> HIDE DEF z
  <1>5. /\ y \in Seq(Byte) /\ Len(y) = n + m
        /\ \A k \in 1 .. n : y[k] = x[k]
        /\ \A k \in 1 .. m : y[n + k] = z[k]
    BY <1>4, Concatenation DEF n
  <1>6. n + m = (q * RATE) + (RATE - 1)
    BY <1>1, <1>2
  <1>7. Whole(n + m) = q
    BY <1>2, <1>3, <1>6, Division
  <1>8. Rest(n + m) = RATE - 1
    <2>1. Rest(n + m) = (n + m) - (q * RATE)
      BY <1>7 DEF Rest
    <2> QED
      BY <1>1, <1>2, <1>6, <2>1
  <1> HIDE DEF y
  <1>9. ASSUME NEW k \in 1 .. q + 1 PROVE LaidBlock(y, k) = LaidBlock(x, k)
    <2>1. ASSUME NEW i \in 0 .. RATE - 1 PROVE LaidByte(y, k, i) = LaidByte(x, k, i)
      <3> DEFINE e == ((k - 1) * RATE) + i + 1
      <3>1. e \in Nat /\ e > 0
        <4>1. k \in Nat /\ k > 0
          BY <1>2
        <4>2. /\ (k - 1) * RATE \in Nat
              /\ ((k - 1) * RATE) + i + 1 \in Nat
              /\ ((k - 1) * RATE) + i + 1 > (k - 1) * RATE
          BY <4>1, PlaceInMessage
        <4> DEFINE o == (k - 1) * RATE
        <4>3. o \in Nat /\ e \in Nat /\ e > o
          BY <4>2
        <4> HIDE DEF o, e
        <4> QED
          BY <4>3
      <3>2. /\ LaidByte(y, k, i) = IF e <= n + m THEN y[e] ELSE {}
            /\ LaidByte(x, k, i) = IF e <= n THEN x[e] ELSE {}
        BY <1>5 DEF LaidByte, n
      <3> HIDE DEF e, m
      <3>3. CASE e <= n
        <4>1. e \in 1 .. n /\ e <= n + m
          BY <1>1, <1>3, <3>1, <3>3
        <4> QED
          BY <1>5, <3>2, <3>3, <4>1
      <3>4. CASE e > n /\ e <= n + m
        <4>1. ~(e <= n) /\ e - n \in 1 .. m /\ e = n + (e - n)
          BY <1>1, <1>3, <3>1, <3>4
        <4>2. y[e] = {}
          BY <1>4, <1>5, <4>1
        <4> QED
          BY <3>2, <3>4, <4>1, <4>2
      <3>5. CASE e > n + m
        <4>1. ~(e <= n) /\ ~(e <= n + m)
          BY <1>1, <1>3, <3>1, <3>5
        <4> QED
          BY <3>2, <4>1
      <3> QED
        BY <1>1, <1>3, <3>1, <3>3, <3>4, <3>5
    <2> QED
      BY <2>1 DEF LaidBlock
  <1>10. LaidTo(y, q + 1) = LaidTo(x, q + 1)
    BY <1>9 DEF LaidTo
  <1>11. ContextOf(y) = [lanes |-> Laid(x), count |-> RATE - 1]
    BY <1>5, <1>7, <1>8, <1>10 DEF ContextOf, Laid, q, n
  <1> QED
    BY <1>5, <1>11 DEF y, z, r, n

\* bytepad: what keeps PrefixPadded from being the context of the padded prefix
\* is only the rest of the block.
LEMMA PrefixPaddedIs ==
    ASSUME NEW x \in Seq(Byte)
    PROVE  LET y == x \o ZeroBytes((RATE - (Len(x) % RATE)) % RATE)
           IN y \in Seq(Byte) /\ PrefixPadded(ContextOf(x)) = ContextOf(y)
  <1> DEFINE n == Len(x)
             r == Rest(n)
             m == (RATE - (n % RATE)) % RATE
             y == x \o ZeroBytes(m)
  <1>1. n \in Nat /\ RATE \in Nat /\ RATE > 0
    BY RateAssumption
  <1>2. Whole(n) \in Nat /\ r \in Count /\ r \in Nat /\ r < RATE /\ n = (Whole(n) * RATE) + r
    BY <1>1, WholeAndRest
  <1>3. n % RATE = r
    <2> DEFINE q == Whole(n)
    <2> HIDE DEF n, r, q
    <2>1. ((q * RATE) + r) % RATE = r
      BY <1>2, Division DEF q
    <2> QED
      BY <1>2, <2>1 DEF q
  <1>4. ContextOf(x).count = r /\ ContextOf(x).lanes = Laid(x)
    BY DEF ContextOf
  <1>5. CASE r = 0
    <2>1. m = 0
      <3>1. RATE % RATE = 0
        BY <1>1, Z3
      <3>2. RATE - 0 = RATE
        BY <1>1
      <3> HIDE DEF n, r
      <3> QED
        BY <1>3, <1>5, <3>1, <3>2
    <2>2. ZeroBytes(0) = << >>
      BY DEF ZeroBytes
    <2>3. x \o << >> = x
      OBVIOUS
    <2>4. PrefixPadded(ContextOf(x)) = ContextOf(x)
      BY <1>4, <1>5 DEF PrefixPadded
    <2> HIDE DEF m
    <2> QED
      BY <2>1, <2>2, <2>3, <2>4 DEF m
  <1>6. CASE r # 0
    <2> DEFINE l == (RATE - 1) - r
               v == x \o ZeroBytes(l)
    <2>1. m = RATE - r /\ m = l + 1 /\ l \in Nat /\ m \in Nat
      <3> HIDE DEF n, r
      <3>1. RATE - r \in Count
        BY <1>1, <1>2, <1>6 DEF Count
      <3>2. ((0 * RATE) + (RATE - r)) % RATE = RATE - r
        BY <3>1, Division
      <3>3. (0 * RATE) + (RATE - r) = RATE - r
        BY <1>1, <1>2
      <3>4. m = RATE - r
        BY <1>3, <3>2, <3>3
      <3> HIDE DEF m
      <3> QED
        BY <1>1, <1>2, <1>6, <3>4
    <2>2. v \in Seq(Byte) /\ ContextOf(v) = [lanes |-> Laid(x), count |-> RATE - 1]
      BY ZerosMoveTheCount
    <2>3. <<{}>> \in Seq(Byte)
      BY DEF Byte
    <2>4. IncAbsorb(ContextOf(v), <<{}>>) = ContextOf(v \o <<{}>>)
      <3> HIDE DEF v
      <3> QED
        BY <2>2, <2>3, IncAbsorbIs
    <2>5. PrefixPadded(ContextOf(x)) = IncAbsorb([lanes |-> Laid(x), count |-> RATE - 1], <<{}>>)
      BY <1>4, <1>6 DEF PrefixPadded
    <2>6. v \o <<{}>> = y
      <3> HIDE DEF l, m
      <3>1. /\ ZeroBytes(l) \in Seq(Byte) /\ Len(ZeroBytes(l)) = l
            /\ \A i \in 1 .. l : ZeroBytes(l)[i] = {}
            /\ ZeroBytes(m) \in Seq(Byte) /\ Len(ZeroBytes(m)) = m
            /\ \A i \in 1 .. m : ZeroBytes(m)[i] = {}
        BY <2>1, ZeroBytesIs
      <3> DEFINE a == ZeroBytes(l)
                 c == <<{}>>
      <3>2. a \in Seq(Byte) /\ c \in Seq(Byte)
        BY <2>3, <3>1
      <3>3. a \o c = ZeroBytes(m)
        BY <2>1, ZeroBehindZeros
      <3>4. (x \o a) \o c = x \o (a \o c)
        <4> HIDE DEF a, c
        <4> QED
          BY <3>2
      <3> QED
        BY <3>3, <3>4
    <2>7. y \in Seq(Byte)
      <3> HIDE DEF v
      <3>1. v \o <<{}>> \in Seq(Byte)
        BY <2>2, <2>3
      <3> QED
        BY <2>6, <3>1
    <2> QED
      BY <2>2, <2>4, <2>5, <2>6, <2>7
  <1> QED
    BY <1>5, <1>6

\* cshake*_inc_init absorbs the padded prefix.
CshakeContext(name, cstm) ==
    PrefixPadded(IncAbsorb(IncAbsorb(IncAbsorb(IncAbsorb(IncAbsorb(Fresh, LeftEncode(RATE)),
        LeftEncode(8 * Len(name))), name), LeftEncode(8 * Len(cstm))), cstm))

LEMMA CshakePrefix ==
    ASSUME NEW name \in Seq(Byte), NEW cstm \in Seq(Byte)
    PROVE  /\ BytePad(name, cstm) \in Seq(Byte)
           /\ CshakeContext(name, cstm) = ContextOf(BytePad(name, cstm))
  <1> DEFINE a == LeftEncode(RATE)
             b == LeftEncode(8 * Len(name))
             c == LeftEncode(8 * Len(cstm))
             x == a \o b \o name \o c \o cstm
  <1>1. a \in Seq(Byte) /\ b \in Seq(Byte) /\ c \in Seq(Byte)
    BY LeftEncodeIs
  <1>2. BytePad(name, cstm) = x \o ZeroBytes((RATE - (Len(x) % RATE)) % RATE)
    BY Zenon DEF BytePad, ZeroBytes
  <1>3. CshakeContext(name, cstm) =
          PrefixPadded(IncAbsorb(IncAbsorb(IncAbsorb(IncAbsorb(IncAbsorb(Fresh, a), b), name), c), cstm))
    BY Zenon DEF CshakeContext
  <1> HIDE DEF a, b, c
  <1>4. << >> \in Seq(Byte) /\ << >> \o a = a
    BY <1>1
  <1>5. IncAbsorb(Fresh, a) = ContextOf(a)
    BY <1>1, <1>4, NothingYet, IncAbsorbIs
  <1>6. a \o b \in Seq(Byte) /\ IncAbsorb(ContextOf(a), b) = ContextOf(a \o b)
    BY <1>1, IncAbsorbIs
  <1> DEFINE ab == a \o b
  <1> HIDE DEF ab
  <1>7. ab \in Seq(Byte) /\ ab \o name \in Seq(Byte)
        /\ IncAbsorb(ContextOf(ab), name) = ContextOf(ab \o name)
    <2>1. ab \in Seq(Byte)
      BY <1>6 DEF ab
    <2> QED
      BY <2>1, IncAbsorbIs
  <1> DEFINE abn == ab \o name
  <1> HIDE DEF abn
  <1>8. abn \in Seq(Byte) /\ abn \o c \in Seq(Byte)
        /\ IncAbsorb(ContextOf(abn), c) = ContextOf(abn \o c)
    <2>1. abn \in Seq(Byte)
      BY <1>7 DEF abn
    <2> QED
      BY <1>1, <2>1, IncAbsorbIs
  <1> DEFINE abnc == abn \o c
  <1> HIDE DEF abnc
  <1>9. abnc \in Seq(Byte) /\ abnc \o cstm \in Seq(Byte)
        /\ IncAbsorb(ContextOf(abnc), cstm) = ContextOf(abnc \o cstm)
    <2>1. abnc \in Seq(Byte)
      BY <1>8 DEF abnc
    <2> QED
      BY <2>1, IncAbsorbIs
  <1>10. x = abnc \o cstm
    BY Zenon DEF ab, abn, abnc
  <1> HIDE DEF x
  <1>11. x \in Seq(Byte) /\ CshakeContext(name, cstm) = PrefixPadded(ContextOf(x))
    <2>1. IncAbsorb(ContextOf(a), b) = ContextOf(ab)
      BY <1>6 DEF ab
    <2>2. IncAbsorb(ContextOf(ab), name) = ContextOf(abn)
      BY <1>7 DEF abn
    <2>3. IncAbsorb(ContextOf(abn), c) = ContextOf(abnc)
      BY <1>8 DEF abnc
    <2> QED
      BY <1>3, <1>5, <1>9, <1>10, <2>1, <2>2, <2>3, Zenon
  <1> QED
    BY <1>2, <1>11, PrefixPaddedIs

----------------------------------------------------------------------------
(* Squeezing.                                                               *)

\* Byte j of what the sponge gives from the blocks B on.
StreamAt(B, j) == ByteAt(Permuted(B, (j \div RATE) + 1), j % RATE)

LEMMA StreamByteIs ==
    ASSUME NEW x \in Seq(Byte), NEW p \in Byte, NEW j
    PROVE  StreamByte(x, p, j) = StreamAt(PaddedBlocks(x, p), j)
  <1> DEFINE q == Whole(Len(x))
             y == Padded(x, p)
             blocks == [k \in 1 .. Len(y) \div RATE |->
                          [i \in 0 .. RATE - 1 |-> y[(k - 1) * RATE + i + 1]]]
  <1>1. StreamByte(x, p, j) = ByteAt(blocks \o [k \in 1 .. (j \div RATE) + 1 |-> Zeros], j % RATE)
    BY Zenon DEF StreamByte
  <1>2. q \in Nat /\ q + 1 \in Nat /\ (q + 1) * RATE \in Nat
    <2>1. Len(x) \in Nat
      OBVIOUS
    <2>2. q \in Nat
      BY <2>1, WholeAndRest
    <2> HIDE DEF q
    <2>3. q + 1 \in Nat
      BY <2>2
    <2>4. (q + 1) * RATE \in Nat
      BY <2>3, AddBlocks
    <2> QED
      BY <2>2, <2>3, <2>4
  <1>3. y \in Seq(Byte) /\ Len(y) = (q + 1) * RATE
    BY PaddedIs
  <1> HIDE DEF q, y
  <1>4. Len(y) \div RATE = q + 1
    <2>1. 0 \in Count
      BY NoCount
    <2>2. Whole(((q + 1) * RATE) + 0) = q + 1
      BY <1>2, <2>1, Division
    <2> QED
      BY <1>2, <1>3, <2>2 DEF Whole
  <1>5. ASSUME NEW k \in 1 .. q + 1, NEW i \in 0 .. RATE - 1
        PROVE  y[(k - 1) * RATE + i + 1] = LaidByte(y, k, i)
    <2> DEFINE n == ((k - 1) * RATE) + i + 1
    <2>1. k \in Nat /\ k > 0 /\ k <= q + 1
      BY <1>2
    <2>2. n \in Nat /\ n <= k * RATE
      <3>1. /\ ((k - 1) * RATE) + i + 1 \in Nat
            /\ ((k - 1) * RATE) + i + 1 <= k * RATE
        BY <2>1, PlaceInMessage
      <3> QED
        BY <3>1
    <2>3. k * RATE <= (q + 1) * RATE /\ k * RATE \in Nat
      BY <1>2, <2>1, AddBlocks
    <2>4. n <= Len(y)
      <3> HIDE DEF n
      <3> QED
        BY <1>2, <1>3, <2>2, <2>3
    <2> QED
      BY <2>4 DEF LaidByte
  <1>6. blocks = LaidTo(y, q + 1)
    <2> DEFINE D == 1 .. Len(y) \div RATE
    <2>1. D = 1 .. q + 1
      BY <1>4
    <2>2. ASSUME NEW k \in 1 .. q + 1
          PROVE  [i \in 0 .. RATE - 1 |-> y[(k - 1) * RATE + i + 1]] = LaidBlock(y, k)
      BY <1>5 DEF LaidBlock
    <2>3. blocks = [k \in 1 .. q + 1 |-> [i \in 0 .. RATE - 1 |-> y[(k - 1) * RATE + i + 1]]]
      BY <2>1
    <2> QED
      BY <2>2, <2>3 DEF LaidTo
  <1> HIDE DEF blocks
  <1>7. blocks = PaddedBlocks(x, p)
    BY <1>6, Zenon DEF PaddedBlocks, y, q
  <1> QED
    BY <1>1, <1>7, Zenon DEF StreamAt, Permuted

LEMMA PermutedIs ==
    ASSUME NEW B \in State, NEW a \in Nat
    PROVE  /\ Permuted(B, a) \in State /\ Len(Permuted(B, a)) = Len(B) + a
           /\ \A j \in 1 .. Len(B) : Permuted(B, a)[j] = B[j]
           /\ \A j \in 1 .. a : Permuted(B, a)[Len(B) + j] = Zeros
  <1> DEFINE z == [i \in 1 .. a |-> Zeros]
  <1>1. Zeros \in Block
    BY ZerosIsBlock
  <1>2. z \in Seq(Block) /\ Len(z) = a /\ \A j \in 1 .. a : z[j] = Zeros
    <2>1. z \in Seq(Block)
      BY <1>1, IsASeq
    <2> QED
      BY <2>1
  <1>3. Permuted(B, a) = B \o z
    BY DEF Permuted
  <1> HIDE DEF z
  <1>4. B \in Seq(Block)
    BY DEF State
  <1>5. /\ B \o z \in Seq(Block) /\ Len(B \o z) = Len(B) + Len(z)
        /\ \A j \in 1 .. Len(B) : (B \o z)[j] = B[j]
        /\ \A j \in 1 .. Len(z) : (B \o z)[Len(B) + j] = z[j]
    <2>1. B \o z \in Seq(Block) /\ Len(B \o z) = Len(B) + Len(z)
      BY <1>2, <1>4
    <2>2. \A j \in 1 .. Len(B) : (B \o z)[j] = B[j]
      BY <1>2, <1>4
    <2>3. \A j \in 1 .. Len(z) : (B \o z)[Len(B) + j] = z[j]
      BY <1>2, <1>4
    <2> QED
      BY <2>1, <2>2, <2>3
  <1> QED
    BY <1>2, <1>3, <1>5 DEF State

LEMMA PermutedTwice ==
    ASSUME NEW B \in State, NEW a \in Nat, NEW b \in Nat
    PROVE  Permuted(Permuted(B, a), b) = Permuted(B, a + b)
  <1> DEFINE s == Permuted(B, a)
             t == Permuted(s, b)
             u == Permuted(B, a + b)
  <1>1. /\ s \in State /\ Len(s) = Len(B) + a
        /\ \A j \in 1 .. Len(B) : s[j] = B[j]
        /\ \A j \in 1 .. a : s[Len(B) + j] = Zeros
    BY PermutedIs
  <1>2. a + b \in Nat /\ Len(B) \in Nat
    BY DEF State
  <1>3. /\ u \in State /\ Len(u) = Len(B) + (a + b)
        /\ \A j \in 1 .. Len(B) : u[j] = B[j]
        /\ \A j \in 1 .. a + b : u[Len(B) + j] = Zeros
    BY <1>2, PermutedIs
  <1> HIDE DEF s, u
  <1>4. /\ t \in State /\ Len(t) = Len(s) + b
        /\ \A j \in 1 .. Len(s) : t[j] = s[j]
        /\ \A j \in 1 .. b : t[Len(s) + j] = Zeros
    BY <1>1, PermutedIs
  <1> HIDE DEF t
  <1>5. Len(t) = Len(u)
    BY <1>1, <1>2, <1>3, <1>4
  <1>6. ASSUME NEW j \in 1 .. Len(t) PROVE t[j] = u[j]
    <2> DEFINE l == Len(B)
    <2>1. l \in Nat /\ j \in Nat /\ j > 0 /\ j <= l + a + b /\ Len(s) = l + a
      BY <1>1, <1>2, <1>4
    <2> HIDE DEF l
    <2>2. CASE j <= l
      <3>1. j \in 1 .. l /\ j \in 1 .. l + a
        BY <2>1, <2>2
      <3> QED
        BY <1>1, <1>3, <1>4, <2>1, <3>1 DEF l
    <2>3. CASE j > l /\ j <= l + a
      <3>1. j - l \in 1 .. a /\ j - l \in 1 .. a + b /\ l + (j - l) = j /\ j \in 1 .. l + a
        BY <2>1, <2>3
      <3>2. s[l + (j - l)] = Zeros /\ u[l + (j - l)] = Zeros
        BY <1>1, <1>3, <3>1 DEF l
      <3> QED
        BY <1>4, <2>1, <3>1, <3>2
    <2>4. CASE j > l + a
      <3>1. j - (l + a) \in 1 .. b /\ j - l \in 1 .. a + b /\ l + (j - l) = j
            /\ (l + a) + (j - (l + a)) = j
        BY <2>1, <2>4
      <3>2. t[(l + a) + (j - (l + a))] = Zeros
        BY <1>4, <2>1, <3>1
      <3>3. u[l + (j - l)] = Zeros
        BY <1>3, <3>1 DEF l
      <3> QED
        BY <3>1, <3>2, <3>3
    <2> QED
      BY <2>1, <2>2, <2>3, <2>4
  <1>7. t = u
    BY <1>3, <1>4, <1>5, <1>6, SameElements DEF State
  <1> QED
    BY <1>7 DEF t, u, s

\* The n bytes of the stream from byte o on.
Bytes(B, o, n) == [i \in 1 .. n |-> StreamAt(B, o + (i - 1))]

\* The context c is P permutations behind the blocks B, n bytes of which are out.
SqueezedTo(c, B, n) ==
    \E P \in Nat : c.lanes = Permuted(B, P) /\ c.count + n = P * RATE

\* A byte of the next permutations, when those so far are all out.
LEMMA NextBytes ==
    ASSUME NEW B \in State, NEW P \in Nat, NEW j \in Nat
    PROVE  StreamAt(B, (P * RATE) + j) =
             ByteAt(Permuted(Permuted(B, P), (j \div RATE) + 1), j % RATE)
  <1> DEFINE q == Whole(j)
             r == Rest(j)
  <1>1. q \in Nat /\ r \in Count /\ r \in Nat /\ j = (q * RATE) + r /\ q * RATE \in Nat
        /\ j \div RATE = q
    <2>1. q \in Nat /\ r \in Count /\ r \in Nat /\ j = (q * RATE) + r /\ q * RATE \in Nat
      BY WholeAndRest
    <2>2. j \div RATE = q
      BY DEF Whole
    <2> HIDE DEF q, r
    <2> QED
      BY <2>1, <2>2
  <1> HIDE DEF q, r
  <1>2. j % RATE = r
    BY <1>1, Division
  <1>3. (P + q) * RATE = (P * RATE) + (q * RATE) /\ P + q \in Nat /\ P * RATE \in Nat
    <2>1. (P + q) * RATE = (P * RATE) + (q * RATE) /\ P * RATE \in Nat
      BY <1>1, AddBlocks
    <2> QED
      BY <1>1, <2>1
  <1>4. (P * RATE) + j = ((P + q) * RATE) + r
    BY <1>1, <1>3
  <1>5. Whole(((P + q) * RATE) + r) = P + q /\ (((P + q) * RATE) + r) % RATE = r
    BY <1>1, <1>3, Division
  <1>6. ((P * RATE) + j) \div RATE = P + q /\ ((P * RATE) + j) % RATE = r
    BY <1>4, <1>5 DEF Whole
  <1>7. Permuted(Permuted(B, P), q + 1) = Permuted(B, P + (q + 1))
    <2>1. q + 1 \in Nat
      BY <1>1
    <2> QED
      BY <2>1, PermutedTwice
  <1>8. (P + q) + 1 = P + (q + 1)
    BY <1>1
  <1> QED
    BY <1>1, <1>2, <1>6, <1>7, <1>8 DEF StreamAt

\* The bytes that are left of the last permutation.
LEMMA KeptBytes ==
    ASSUME NEW B, NEW P \in Nat, NEW n \in Nat, NEW c \in Count, c + n = P * RATE,
           NEW i \in Nat, i < c
    PROVE  StreamAt(B, n + i) = ByteAt(Permuted(B, P), (RATE - c) + i)
  <1>1. RATE \in Nat /\ RATE > 0 /\ c \in Nat /\ c < RATE
    BY RateAssumption DEF Count
  <1>2. P * RATE \in Nat
    BY AddBlocks
  <1>3. P > 0
    <2>1. P = 0 => P * RATE = 0
      BY <1>1
    <2> QED
      BY <1>1, <1>2, <2>1
  <1>4. P - 1 \in Nat /\ (P - 1) + 1 = P
    BY <1>3
  <1>5. (P - 1) * RATE \in Nat /\ P * RATE = ((P - 1) * RATE) + RATE
    BY <1>4, AddBlocks
  <1> DEFINE o == (P - 1) * RATE
             r == (RATE - c) + i
  <1>6. n + i = o + r /\ r \in Count
    <2>1. o \in Nat /\ P * RATE = o + RATE
      BY <1>5
    <2> HIDE DEF o
    <2> QED
      BY <1>1, <1>2, <2>1 DEF Count
  <1>7. Whole(o + r) = P - 1 /\ (o + r) % RATE = r
    <2> HIDE DEF r
    <2> QED
      BY <1>4, <1>6, Division
  <1> HIDE DEF o, r
  <1>8. (n + i) \div RATE = P - 1 /\ (n + i) % RATE = r
    BY <1>6, <1>7 DEF Whole
  <1> QED
    BY <1>4, <1>8 DEF StreamAt, r

\* keccak_inc_squeeze goes on where the last call stopped.
LEMMA IncSqueezeIs ==
    ASSUME NEW c, c.count \in Count, NEW B \in State, NEW n \in Nat, SqueezedTo(c, B, n),
           NEW m \in Nat
    PROVE  /\ BytesOut(c, m) = Bytes(B, n, m)
           /\ SqueezedTo(IncSqueeze(c, m), B, n + m)
           /\ IncSqueeze(c, m).lanes \in State
  <1>1. PICK P \in Nat : c.lanes = Permuted(B, P) /\ c.count + n = P * RATE
    BY DEF SqueezedTo
  <1> DEFINE left == c.count
             kept == Kept(c, m)
             nb == NewBlocks(c, m)
             new == m - kept
  <1>2. RATE \in Nat /\ RATE > 0 /\ left \in Nat /\ left < RATE /\ P * RATE \in Nat
    BY RateAssumption, AddBlocks DEF Count
  <1>3. /\ kept \in Nat /\ kept <= m /\ kept <= left /\ new \in Nat
        /\ kept < m => kept = left
    BY <1>2 DEF Kept
  <1> HIDE DEF kept
  <1>4. ASSUME NEW i \in 1 .. m
        PROVE  BytesOut(c, m)[i] = StreamAt(B, n + (i - 1))
    <2>1. i \in Nat /\ i - 1 \in Nat /\ i <= m
      OBVIOUS
    <2>2. BytesOut(c, m)[i] =
            IF i <= kept THEN ByteAt(c.lanes, (RATE - left) + (i - 1))
            ELSE ByteAt(Permuted(c.lanes, (((i - 1) - kept) \div RATE) + 1), ((i - 1) - kept) % RATE)
      BY DEF BytesOut, kept
    <2>3. CASE i <= kept
      <3>1. i - 1 < left
        BY <1>2, <1>3, <2>1, <2>3
      <3>2. StreamAt(B, n + (i - 1)) = ByteAt(Permuted(B, P), (RATE - left) + (i - 1))
        <4> HIDE DEF left
        <4>1. left \in Count /\ left + n = P * RATE
          BY <1>1 DEF left
        <4> QED
          BY <2>1, <3>1, <4>1, KeptBytes
      <3> QED
        BY <1>1, <2>2, <2>3, <3>2
    <2>4. CASE ~(i <= kept)
      <3> DEFINE j == (i - 1) - kept
      <3>1. kept = left /\ j \in Nat
        BY <1>2, <1>3, <2>1, <2>4
      <3>2. (P * RATE) + j = n + (i - 1)
        BY <1>1, <1>2, <2>1, <3>1
      <3> HIDE DEF j
      <3>3. StreamAt(B, (P * RATE) + j) =
              ByteAt(Permuted(Permuted(B, P), (j \div RATE) + 1), j % RATE)
        BY <3>1, NextBytes
      <3> QED
        BY <1>1, <2>2, <2>4, <3>2, <3>3 DEF j
    <2> QED
      BY <2>3, <2>4
  <1>5. BytesOut(c, m) = Bytes(B, n, m)
    <2>1. BytesOut(c, m) = [i \in 1 .. m |-> BytesOut(c, m)[i]]
      BY DEF BytesOut
    <2> QED
      BY <1>4, <2>1 DEF Bytes
  <1>6. nb \in Nat /\ (nb = 0 => m <= left /\ kept = m) /\ (nb # 0 => kept = left /\ kept < m)
    <2>1. nb = (new + (RATE - 1)) \div RATE
      <3>1. nb = (new + RATE - 1) \div RATE
        BY DEF NewBlocks, kept
      <3>2. new + RATE - 1 = new + (RATE - 1)
        BY <1>2, <1>3
      <3> QED
        BY <3>1, <3>2
    <2>2. new + (RATE - 1) \in Nat
      BY <1>2, <1>3
    <2> DEFINE e == new + (RATE - 1)
    <2>3. nb \in Nat /\ Rest(e) < RATE /\ Rest(e) \in Nat /\ nb * RATE \in Nat /\ e = (nb * RATE) + Rest(e)
      <3>1. nb = Whole(e)
        BY <2>1 DEF Whole
      <3> HIDE DEF nb, e
      <3>2. e \in Nat
        BY <2>2 DEF e
      <3> QED
        BY <3>1, <3>2, WholeAndRest
    <2> HIDE DEF nb
    <2>4. nb = 0 => new = 0
      <3>1. nb = 0 => nb * RATE = 0
        BY <1>2
      <3> QED
        BY <1>2, <1>3, <2>3, <3>1
    <2>5. nb # 0 => new > 0
      <3>1. nb # 0 => (0 * RATE) + RATE <= nb * RATE
        BY <2>3, AddBlocks
      <3> QED
        BY <1>2, <1>3, <2>3, <3>1
    <2> QED
      BY <1>2, <1>3, <2>3, <2>4, <2>5
  <1>7. IncSqueeze(c, m).lanes = Permuted(B, P + nb) /\ P + nb \in Nat
        /\ Permuted(B, P + nb) \in State
    <2>1. IncSqueeze(c, m).lanes = Permuted(Permuted(B, P), nb)
      BY <1>1 DEF IncSqueeze
    <2>2. P + nb \in Nat
      BY <1>6
    <2> HIDE DEF nb
    <2> QED
      BY <1>6, <2>1, <2>2, PermutedTwice, PermutedIs
  <1>8. IncSqueeze(c, m).count + (n + m) = (P + nb) * RATE
    <2>1. IncSqueeze(c, m).count = IF nb = 0 THEN left - m ELSE (nb * RATE) - new
      BY DEF IncSqueeze, Left, kept
    <2> HIDE DEF nb, left
    <2>2. (P + nb) * RATE = (P * RATE) + (nb * RATE) /\ nb * RATE \in Nat
      BY <1>6, AddBlocks
    <2>3. left + n = P * RATE
      BY <1>1 DEF left
    <2>4. CASE nb = 0
      <3>1. nb * RATE = 0
        BY <1>2, <2>4
      <3> QED
        BY <1>2, <1>6, <2>1, <2>2, <2>3, <2>4, <3>1
    <2>5. CASE nb # 0
      <3>1. new = m - left /\ new \in Nat
        BY <1>3, <1>6, <2>5
      <3> QED
        BY <1>2, <2>1, <2>2, <2>3, <2>5, <3>1
    <2> QED
      BY <2>4, <2>5
  <1> QED
    BY <1>5, <1>7, <1>8 DEF SqueezedTo

\* keccak_squeezeblocks, with nothing left of the last permutation.
LEMMA BlocksOutIs ==
    ASSUME NEW c, c.count = 0, NEW B \in State, NEW n \in Nat, SqueezedTo(c, B, n), NEW m \in Nat
    PROVE  /\ m * RATE \in Nat
           /\ BlocksOut(c, m) = Bytes(B, n, m * RATE)
           /\ SqueezedTo(SqueezeBlocks(c, m), B, n + (m * RATE))
           /\ SqueezeBlocks(c, m).count = 0
           /\ SqueezeBlocks(c, m).lanes \in State
  <1>1. PICK P \in Nat : c.lanes = Permuted(B, P) /\ c.count + n = P * RATE
    BY DEF SqueezedTo
  <1>2. n = P * RATE /\ m * RATE \in Nat /\ (P + m) * RATE = (P * RATE) + (m * RATE)
    <2>1. (P + m) * RATE = (P * RATE) + (m * RATE) /\ P * RATE \in Nat
      BY AddBlocks
    <2>2. m * RATE \in Nat
      BY AddBlocks
    <2> QED
      BY <1>1, <2>1, <2>2
  <1>3. ASSUME NEW i \in 1 .. m * RATE
        PROVE  ByteAt(Permuted(c.lanes, ((i - 1) \div RATE) + 1), (i - 1) % RATE)
                 = StreamAt(B, n + (i - 1))
    <2>1. i - 1 \in Nat
      OBVIOUS
    <2> QED
      BY <1>1, <1>2, <2>1, NextBytes
  <1>4. BlocksOut(c, m) = Bytes(B, n, m * RATE)
    BY <1>3 DEF BlocksOut, Bytes
  <1>5. SqueezeBlocks(c, m).lanes = Permuted(B, P + m) /\ SqueezeBlocks(c, m).count = 0
        /\ P + m \in Nat /\ Permuted(B, P + m) \in State
    <2>1. SqueezeBlocks(c, m).lanes = Permuted(Permuted(B, P), m) /\ SqueezeBlocks(c, m).count = 0
      BY <1>1 DEF SqueezeBlocks
    <2>2. P + m \in Nat
      OBVIOUS
    <2> QED
      BY <2>1, <2>2, PermutedTwice, PermutedIs
  <1>6. SqueezeBlocks(c, m).count + (n + (m * RATE)) = (P + m) * RATE
    BY <1>2, <1>5
  <1> QED
    BY <1>2, <1>4, <1>5, <1>6 DEF SqueezedTo

LEMMA NothingSqueezed ==
    ASSUME NEW B \in State
    PROVE  SqueezedTo([lanes |-> B, count |-> 0], B, 0)
  <1>1. Permuted(B, 0) = B
    <2>1. [i \in 1 .. 0 |-> Zeros] = << >>
      OBVIOUS
    <2> QED
      BY <2>1 DEF Permuted, State
  <1>2. 0 * RATE = 0 /\ 0 \in Nat
    BY RateAssumption
  <1> QED
    BY <1>1, <1>2 DEF SqueezedTo

\* All of its bytes.
StreamBytes(B) == {StreamAt(B, j) : j \in Nat}

LEMMA BytesIs ==
    ASSUME NEW B, NEW o \in Nat, NEW n \in Nat
    PROVE  /\ Bytes(B, o, n) \in Seq(StreamBytes(B)) /\ Len(Bytes(B, o, n)) = n
           /\ \A i \in 1 .. n : Bytes(B, o, n)[i] = StreamAt(B, o + (i - 1))
  <1>1. \A i \in 1 .. n : StreamAt(B, o + (i - 1)) \in StreamBytes(B)
    <2>1. \A i \in 1 .. n : o + (i - 1) \in Nat
      OBVIOUS
    <2> QED
      BY <2>1 DEF StreamBytes
  <1>2. Bytes(B, o, n) \in Seq(StreamBytes(B))
    BY <1>1, IsASeq DEF Bytes
  <1> QED
    BY <1>2 DEF Bytes

LEMMA BytesGoOn ==
    ASSUME NEW B, NEW n \in Nat, NEW m \in Nat
    PROVE  Bytes(B, 0, n) \o Bytes(B, n, m) = Bytes(B, 0, n + m)
  <1> DEFINE s == Bytes(B, 0, n)
             t == Bytes(B, n, m)
             u == Bytes(B, 0, n + m)
             S == StreamBytes(B)
             v == s \o t
  <1>1. s \in Seq(S) /\ Len(s) = n /\ \A i \in 1 .. n : s[i] = StreamAt(B, 0 + (i - 1))
    BY BytesIs
  <1>2. t \in Seq(S) /\ Len(t) = m /\ \A i \in 1 .. m : t[i] = StreamAt(B, n + (i - 1))
    BY BytesIs
  <1>3. u \in Seq(S) /\ Len(u) = n + m /\ \A i \in 1 .. n + m : u[i] = StreamAt(B, 0 + (i - 1))
    <2>1. n + m \in Nat
      OBVIOUS
    <2> QED
      BY <2>1, BytesIs
  <1> HIDE DEF s, t, u, S
  <1>4. /\ v \in Seq(S) /\ Len(v) = n + m
        /\ \A j \in 1 .. n : v[j] = s[j]
        /\ \A j \in 1 .. m : v[n + j] = t[j]
    <2>1. /\ s \o t \in Seq(S) /\ Len(s \o t) = Len(s) + Len(t)
          /\ \A j \in 1 .. Len(s) : (s \o t)[j] = s[j]
          /\ \A j \in 1 .. Len(t) : (s \o t)[Len(s) + j] = t[j]
      <3>1. s \o t \in Seq(S) /\ Len(s \o t) = Len(s) + Len(t)
        <4>1. s \in Seq(S) /\ t \in Seq(S)
          BY <1>1, <1>2
        <4> QED
          BY <4>1
      <3>2. \A j \in 1 .. Len(s) : (s \o t)[j] = s[j]
        BY <1>1, <1>2
      <3>3. \A j \in 1 .. Len(t) : (s \o t)[Len(s) + j] = t[j]
        BY <1>1, <1>2
      <3> QED
        BY <3>1, <3>2, <3>3
    <2> QED
      BY <1>1, <1>2, <2>1
  <1> HIDE DEF v
  <1>5. ASSUME NEW j \in 1 .. n + m PROVE v[j] = u[j]
    <2>1. CASE j <= n
      <3>1. j \in 1 .. n
        BY <2>1
      <3> QED
        BY <1>1, <1>3, <1>4, <3>1
    <2>2. CASE j > n
      <3> DEFINE k == j - n
      <3>1. k \in 1 .. m /\ n + k = j /\ n + (k - 1) = 0 + (j - 1)
        BY <2>2
      <3> HIDE DEF k
      <3>2. v[j] = t[k] /\ t[k] = StreamAt(B, 0 + (j - 1))
        BY <1>2, <1>4, <3>1
      <3> QED
        BY <1>3, <3>2
    <2> QED
      BY <2>1, <2>2
  <1>6. v = u
    BY <1>3, <1>4, <1>5, SameElements
  <1> QED
    BY <1>6 DEF v, s, t, u

\* The start of what was squeezed.
LEMMA BytesCut ==
    ASSUME NEW B, NEW o \in Nat, NEW n \in Nat, NEW m \in Nat, m <= n
    PROVE  SubSeq(Bytes(B, o, n), 1, m) = Bytes(B, o, m)
  <1> DEFINE s == Bytes(B, o, n)
             u == Bytes(B, o, m)
             S == StreamBytes(B)
             v == SubSeq(s, 1, m)
  <1>1. s \in Seq(S) /\ Len(s) = n /\ \A i \in 1 .. n : s[i] = StreamAt(B, o + (i - 1))
    BY BytesIs
  <1>2. u \in Seq(S) /\ Len(u) = m /\ \A i \in 1 .. m : u[i] = StreamAt(B, o + (i - 1))
    BY BytesIs
  <1> HIDE DEF s, u, S
  <1>3. v \in Seq(S) /\ Len(v) = m /\ \A i \in 1 .. m : v[i] = s[i]
    BY <1>1
  <1> HIDE DEF v
  <1>4. \A i \in 1 .. m : v[i] = u[i]
    <2>1. \A i \in 1 .. m : i \in 1 .. n
      OBVIOUS
    <2> QED
      BY <1>1, <1>2, <1>3, <2>1
  <1>5. v = u
    BY <1>2, <1>3, <1>4, SameElements
  <1> QED
    BY <1>5 DEF v, s, u

\* The stream of a message.
LEMMA StreamIs ==
    ASSUME NEW x \in Seq(Byte), NEW p \in Byte, NEW n
    PROVE  Stream(x, p, n) = Bytes(PaddedBlocks(x, p), 0, n)
  <1>1. ASSUME NEW i \in 1 .. n
        PROVE  StreamByte(x, p, i - 1) = StreamAt(PaddedBlocks(x, p), 0 + (i - 1))
    <2>1. 0 + (i - 1) = i - 1
      OBVIOUS
    <2> QED
      BY <2>1, StreamByteIs
  <1> QED
    BY <1>1 DEF Stream, Bytes

----------------------------------------------------------------------------
(* The invariant of the contents: of every handle in use, the context is    *)
(* that of all that was absorbed, or that many permutations behind the      *)
(* padded blocks; and what was squeezed is the start of the stream.         *)

Absorbing == {"shake", "cshake", "sha3"}
Squeezing == {"squeezing", "oneshot"}
Absorbed == [of : Family, prefix : Seq(Byte), bytes : Seq(Byte)]

Sofar(a) == a.prefix \o a.bytes
Source(a) == PaddedBlocks(Sofar(a), Suffix(a.of))

\* s came out after a went in.
Given(a, s) ==
    /\ a \in Absorbed
    /\ Len(s) \in Nat
    /\ s = Bytes(Source(a), 0, Len(s))

Exact(c, ph, a, s) ==
    /\ ph \in Absorbing => a.of = ph /\ c = ContextOf(Sofar(a)) /\ s = << >>
    /\ ph \in Squeezing => SqueezedTo(c, Source(a), Len(s))
    /\ ph = "oneshot" => c.count = 0

HandleExact(h) ==
    /\ ctx[h] = NoPlace <=> phase[h] = "unused"
    /\ Given(absorbed[h], squeezed[h])
    /\ ctx[h] # NoPlace => Exact(At(h), phase[h], absorbed[h], squeezed[h])

Types ==
    /\ heap \in [Place -> Context]
    /\ phase \in [Handle -> Phase]
    /\ exited \in BOOLEAN
    /\ absorbed \in [Handle -> Absorbed]
    /\ squeezed = [h \in Handle |-> squeezed[h]]

IInv == Inv /\ Types /\ \A h \in Handle : HandleExact(h)

LEMMA SuffixIsDomainByte ==
    ASSUME NEW family \in Family
    PROVE  Suffix(family) \in DomainByte /\ Suffix(family) \in Byte
  <1>1. Suffix(family) \in {SHAKE, SHA3, CSHAKE}
    BY DEF Suffix
  <1> QED
    BY <1>1, DomainBytes DEF DomainByte

LEMMA SourceIsState ==
    ASSUME NEW a \in Absorbed
    PROVE  /\ Sofar(a) \in Seq(Byte) /\ Suffix(a.of) \in DomainByte /\ Suffix(a.of) \in Byte
           /\ Source(a) \in State
  <1>1. a.prefix \in Seq(Byte) /\ a.bytes \in Seq(Byte) /\ a.of \in Family
    BY DEF Absorbed
  <1>2. Sofar(a) \in Seq(Byte)
    BY <1>1 DEF Sofar
  <1>3. Suffix(a.of) \in DomainByte /\ Suffix(a.of) \in Byte
    BY <1>1, SuffixIsDomainByte
  <1> QED
    BY <1>2, <1>3, PaddedBlocksAre DEF Source

LEMMA NothingGiven ==
    ASSUME NEW a \in Absorbed
    PROVE  Given(a, << >>)
  <1>1. Bytes(Source(a), 0, 0) = << >>
    BY DEF Bytes
  <1>2. Len(<< >>) = 0
    OBVIOUS
  <1> QED
    BY <1>1, <1>2 DEF Given

LEMMA NothingIs ==
    ASSUME NEW family \in Family, NEW prefix \in Seq(Byte)
    PROVE  /\ Nothing(family, prefix) \in Absorbed
           /\ Nothing(family, prefix).of = family
           /\ Sofar(Nothing(family, prefix)) = prefix
  <1>1. << >> \in Seq(Byte) /\ prefix \o << >> = prefix
    OBVIOUS
  <1> QED
    BY <1>1 DEF Nothing, Absorbed, Sofar

\* What shake128_absorb and the one-shot functions take in.
InOneCall(of, in) == [Nothing(of, << >>) EXCEPT !.bytes = in]

LEMMA OneShotIs ==
    ASSUME NEW family \in Family, NEW in \in Seq(Byte)
    PROVE  /\ InOneCall(family, in) \in Absorbed
           /\ InOneCall(family, in).of = family
           /\ Sofar(InOneCall(family, in)) = in
  <1>1. << >> \in Seq(Byte) /\ << >> \o in = in
    OBVIOUS
  <1>2. InOneCall(family, in) = [of |-> family, prefix |-> << >>, bytes |-> in]
    BY DEF InOneCall, Nothing
  <1> QED
    BY <1>1, <1>2 DEF Absorbed, Sofar

LEMMA ContextOfIs ==
    ASSUME NEW x \in Seq(Byte)
    PROVE  ContextOf(x) \in Context
  <1> DEFINE n == Len(x)
             q == Whole(n)
  <1>1. n \in Nat
    OBVIOUS
  <1>2. q \in Nat /\ Rest(n) \in Nat
    BY <1>1, WholeAndRest
  <1> HIDE DEF n, q
  <1>3. q + 1 \in Nat
    BY <1>2
  <1>4. LaidTo(x, q + 1) \in State
    BY <1>3, LaidToIsState
  <1> QED
    BY <1>2, <1>4 DEF ContextOf, Context, Laid, n, q

----------------------------------------------------------------------------

\* What a call for handle h changes: its pointer, phase and history, and the
\* context at place p.
Call(h, pl, p, c, ph, a, s) ==
    /\ ctx' = [ctx EXCEPT ![h] = pl]
    /\ heap' = [heap EXCEPT ![p] = c]
    /\ phase' = [phase EXCEPT ![h] = ph]
    /\ absorbed' = [absorbed EXCEPT ![h] = a]
    /\ squeezed' = [squeezed EXCEPT ![h] = s]
    /\ exited' = exited

LEMMA CallKeeps ==
    ASSUME IInv, Inv', NEW h \in Handle, NEW pl, NEW p \in Place, NEW c \in Context,
           NEW ph \in Phase, NEW a, NEW s, Call(h, pl, p, c, ph, a, s),
           p \in free \/ p = ctx[h], pl # NoPlace => pl = p,
           pl = NoPlace <=> ph = "unused", Given(a, s), pl # NoPlace => Exact(c, ph, a, s)
    PROVE  IInv'
  <1>1. a \in Absorbed
    BY DEF Given
  <1>2. ctx \in [Handle -> Place \cup {NoPlace}]
    BY DEF IInv, Inv, Partition
  <1>3. Types'
    <2>1. heap' \in [Place -> Context]
      BY DEF Call, IInv, Types
    <2>2. phase' \in [Handle -> Phase]
      BY DEF Call, IInv, Types
    <2>3. exited' \in BOOLEAN
      BY DEF Call, IInv, Types
    <2>4. absorbed' \in [Handle -> Absorbed]
      BY <1>1 DEF Call, IInv, Types
    <2>5. squeezed' = [g \in Handle |-> squeezed'[g]]
      BY DEF Call, IInv, Types
    <2> QED
      BY <2>1, <2>2, <2>3, <2>4, <2>5 DEF Types
  <1>4. ASSUME NEW g \in Handle PROVE HandleExact(g)'
    <2>1. CASE g = h
      <3>1. ctx'[g] = pl /\ phase'[g] = ph /\ absorbed'[g] = a /\ squeezed'[g] = s
        BY <1>2, <2>1 DEF Call, IInv, Types
      <3>2. pl # NoPlace => heap'[ctx'[g]] = c
        BY <3>1 DEF Call, IInv, Types
      <3> QED
        BY <3>1, <3>2 DEF HandleExact, At
    <2>2. CASE g # h
      <3>1. ctx'[g] = ctx[g] /\ phase'[g] = phase[g] /\ absorbed'[g] = absorbed[g]
            /\ squeezed'[g] = squeezed[g]
        BY <1>2, <2>2 DEF Call, IInv, Types
      <3>2. ctx[g] # NoPlace => ctx[g] # p
        BY <2>2 DEF IInv, Inv, Partition
      <3>3. ctx[g] # NoPlace => heap'[ctx'[g]] = heap[ctx[g]]
        <4>1. ctx[g] # NoPlace => ctx[g] \in Place
          BY <1>2
        <4> QED
          BY <3>1, <3>2, <4>1 DEF Call, IInv, Types
      <3>4. HandleExact(g)
        BY DEF IInv
      <3> QED
        BY <3>1, <3>3, <3>4 DEF HandleExact, At
    <2> QED
      BY <2>1, <2>2
  <1> QED
    BY <1>3, <1>4 DEF IInv

\* A function that leaves no context behind.
LEMMA HistoryKeeps ==
    ASSUME IInv, Inv', NEW h \in Handle, ctx[h] = NoPlace, NEW a, NEW s, Given(a, s),
           absorbed' = [absorbed EXCEPT ![h] = a], squeezed' = [squeezed EXCEPT ![h] = s],
           UNCHANGED <<ctx, heap, phase, exited>>
    PROVE  IInv'
  <1>1. a \in Absorbed
    BY DEF Given
  <1>2. Types'
    <2>1. absorbed' \in [Handle -> Absorbed]
      BY <1>1 DEF IInv, Types
    <2>2. squeezed' = [g \in Handle |-> squeezed'[g]]
      BY DEF IInv, Types
    <2> QED
      BY <2>1, <2>2 DEF IInv, Types
  <1>3. ASSUME NEW g \in Handle PROVE HandleExact(g)'
    <2>1. HandleExact(g)
      BY DEF IInv
    <2>2. CASE g = h
      <3>1. absorbed'[g] = a /\ squeezed'[g] = s
        BY <2>2 DEF IInv, Types
      <3> QED
        BY <2>1, <2>2, <3>1 DEF HandleExact
    <2>3. CASE g # h
      <3>1. absorbed'[g] = absorbed[g] /\ squeezed'[g] = squeezed[g]
        BY <2>3 DEF IInv, Types
      <3> QED
        BY <2>1, <3>1 DEF HandleExact, At
    <2> QED
      BY <2>2, <2>3
  <1> QED
    BY <1>2, <1>3 DEF IInv

LEMMA SameKeeps ==
    ASSUME IInv, Inv', exited' \in BOOLEAN,
           UNCHANGED <<ctx, heap, phase, absorbed, squeezed>>
    PROVE  IInv'
  <1>1. Types'
    BY DEF IInv, Types
  <1>2. \A h \in Handle : HandleExact(h)'
    BY DEF IInv, HandleExact, At
  <1> QED
    BY <1>1, <1>2 DEF IInv

LEMMA InitExact == Init => IInv
  <1> SUFFICES ASSUME Init PROVE IInv
    OBVIOUS
  <1>1. Nothing("shake", << >>) \in Absorbed
    <2>1. "shake" \in Family /\ << >> \in Seq(Byte)
      BY DEF Family
    <2> QED
      BY <2>1, NothingIs
  <1>2. Types
    <2>1. Fresh \in Context
      <3>1. ZeroState \in State
        BY ZerosIsBlock
      <3> QED
        BY <3>1 DEF Fresh, Context
    <2> QED
      BY <1>1, <2>1 DEF Init, Types, Phase
  <1>3. ASSUME NEW h \in Handle PROVE HandleExact(h)
    <2>1. Given(Nothing("shake", << >>), << >>)
      BY <1>1, NothingGiven
    <2> QED
      BY <2>1 DEF Init, HandleExact
  <1> QED
    BY <1>2, <1>3, InitInv DEF IInv

\* A handle in use.
LEMMA LiveExact ==
    ASSUME IInv, NEW h \in Handle, Live(h)
    PROVE  /\ ctx[h] \in Place /\ ctx[h] # NoPlace
           /\ At(h) \in Context /\ At(h).count \in Count
           /\ phase[h] # "unused" /\ phase[h] \in Phase
           /\ Given(absorbed[h], squeezed[h])
           /\ absorbed[h] \in Absorbed
           /\ Exact(At(h), phase[h], absorbed[h], squeezed[h])
  <1>1. Inv /\ Types /\ HandleExact(h)
    BY DEF IInv
  <1>2. ctx[h] \in Place /\ At(h).count \in Count /\ ctx[h] # NoPlace
    BY <1>1, LiveCount
  <1>3. At(h) \in Context
    BY <1>1, <1>2 DEF Types, At
  <1> QED
    BY <1>1, <1>2, <1>3 DEF HandleExact, Given, Types

\* malloc for a handle that was not in use.
LEMMA AllocateExact ==
    ASSUME IInv, Inv', NEW h \in Handle, NEW c \in Context, Allocate(h, c),
           NEW ph \in Phase, ph # "unused", NEW a, NEW s, Given(a, s), Exact(c, ph, a, s),
           phase' = [phase EXCEPT ![h] = ph], absorbed' = [absorbed EXCEPT ![h] = a],
           squeezed' = [squeezed EXCEPT ![h] = s], exited' = exited
    PROVE  IInv'
  <1>1. PICK p \in free : /\ ctx' = [ctx EXCEPT ![h] = p]
                          /\ heap' = [heap EXCEPT ![p] = c]
    BY DEF Allocate
  <1>2. p \in Place /\ p # NoPlace
    BY HeapAssumption DEF IInv, Inv, Partition
  <1>3. Call(h, p, p, c, ph, a, s)
    BY <1>1 DEF Call
  <1> QED
    BY <1>2, <1>3, CallKeeps

\* A call for a handle in use, which stays in use.
LEMMA UpdateExact ==
    ASSUME IInv, Inv', NEW h \in Handle, Live(h), NEW c \in Context,
           heap' = [heap EXCEPT ![ctx[h]] = c], NEW ph \in Phase, ph # "unused",
           NEW a, NEW s, Given(a, s), Exact(c, ph, a, s),
           phase' = [phase EXCEPT ![h] = ph], absorbed' = [absorbed EXCEPT ![h] = a],
           squeezed' = [squeezed EXCEPT ![h] = s], UNCHANGED <<ctx, exited>>
    PROVE  IInv'
  <1>1. ctx[h] \in Place /\ ctx[h] # NoPlace
    BY LiveExact
  <1>2. ctx' = [ctx EXCEPT ![h] = ctx[h]]
    BY DEF IInv, Inv, Partition
  <1>3. Call(h, ctx[h], ctx[h], c, ph, a, s)
    BY <1>2 DEF Call
  <1> QED
    BY <1>1, <1>3, CallKeeps

LEMMA ReleaseExact ==
    ASSUME IInv, Inv', NEW h \in Handle, Live(h), Release(h), NEW a, NEW s, Given(a, s),
           absorbed' = [absorbed EXCEPT ![h] = a], squeezed' = [squeezed EXCEPT ![h] = s]
    PROVE  IInv'
  <1>1. ctx[h] \in Place
    BY LiveExact
  <1>2. Fresh \in Context
    BY ZerosIsBlock DEF Fresh, Context
  <1>3. Call(h, NoPlace, ctx[h], Fresh, "unused", a, s)
    BY DEF Call, Release
  <1>4. "unused" \in Phase
    BY DEF Phase
  <1> QED
    BY <1>1, <1>2, <1>3, <1>4, CallKeeps

\* A new context of the incremental functions, with prefix x.
LEMMA NewContext ==
    ASSUME NEW family \in Absorbing, NEW x \in Seq(Byte)
    PROVE  /\ family \in Phase /\ family # "unused" /\ family \in Family
           /\ ContextOf(x) \in Context
           /\ Given(Nothing(family, x), << >>)
           /\ Exact(ContextOf(x), family, Nothing(family, x), << >>)
  <1>1. family \in Phase /\ family # "unused" /\ family \in Family /\ family \notin Squeezing
        /\ family # "oneshot"
    BY DEF Absorbing, Squeezing, Phase, Family
  <1>2. /\ Nothing(family, x) \in Absorbed /\ Nothing(family, x).of = family
        /\ Sofar(Nothing(family, x)) = x
    BY <1>1, NothingIs
  <1>3. ContextOf(x) \in Context
    BY ContextOfIs
  <1>4. Given(Nothing(family, x), << >>)
    BY <1>2, NothingGiven
  <1> QED
    BY <1>1, <1>2, <1>3, <1>4 DEF Exact

LEMMA IncInitExact ==
    ASSUME IInv, Inv', NEW h \in Handle, NEW family \in {"shake", "sha3"}, IncInit(h, family)
    PROVE  IInv'
  <1>1. << >> \in Seq(Byte) /\ family \in Absorbing
    BY DEF Absorbing
  <1>2. /\ family \in Phase /\ family # "unused"
        /\ Fresh \in Context
        /\ Given(Nothing(family, << >>), << >>)
        /\ Exact(Fresh, family, Nothing(family, << >>), << >>)
    BY <1>1, NewContext, NothingYet
  <1>3. /\ Allocate(h, Fresh)
        /\ phase' = [phase EXCEPT ![h] = family]
        /\ absorbed' = [absorbed EXCEPT ![h] = Nothing(family, << >>)]
        /\ squeezed' = [squeezed EXCEPT ![h] = << >>]
        /\ exited' = exited
    BY DEF IncInit
  <1> DEFINE a == Nothing(family, << >>)
  <1> HIDE DEF a
  <1> QED
    BY <1>2, <1>3, AllocateExact DEF a

LEMMA CshakeExact ==
    ASSUME IInv, Inv', NEW h \in Handle, NEW name \in Names, NEW cstm \in Names,
           CshakeIncInit(h, name, cstm)
    PROVE  IInv'
  <1> DEFINE x == BytePad(name, cstm)
             a == Nothing("cshake", x)
             c == ContextOf(x)
  <1>1. name \in Seq(Byte) /\ cstm \in Seq(Byte)
    BY InputAssumption
  <1>2. x \in Seq(Byte) /\ CshakeContext(name, cstm) = c
    BY <1>1, CshakePrefix
  <1>3. "cshake" \in Absorbing
    BY DEF Absorbing
  <1>4. Allocate(h, CshakeContext(name, cstm))
    BY Zenon DEF CshakeIncInit, CshakeContext
  <1>5. /\ phase' = [phase EXCEPT ![h] = "cshake"]
        /\ absorbed' = [absorbed EXCEPT ![h] = a]
        /\ squeezed' = [squeezed EXCEPT ![h] = << >>]
        /\ exited' = exited
    BY DEF CshakeIncInit
  <1> HIDE DEF x
  <1>6. /\ "cshake" \in Phase /\ "cshake" # "unused"
        /\ c \in Context /\ Given(a, << >>) /\ Exact(c, "cshake", a, << >>)
    BY <1>2, <1>3, NewContext
  <1> HIDE DEF a, c
  <1> QED
    BY <1>2, <1>4, <1>5, <1>6, AllocateExact

LEMMA Associative ==
    ASSUME NEW x \in Seq(Byte), NEW y \in Seq(Byte), NEW z \in Seq(Byte)
    PROVE  (x \o y) \o z = x \o (y \o z)
  OBVIOUS

LEMMA WithBytes ==
    ASSUME NEW a \in Absorbed, NEW in \in Seq(Byte)
    PROVE  LET b == [a EXCEPT !.bytes = @ \o in]
           IN b \in Absorbed /\ b.of = a.of /\ b.prefix = a.prefix /\ b.bytes = a.bytes \o in
  <1>1. a.bytes \o in \in Seq(Byte)
    BY DEF Absorbed
  <1> DEFINE v == a.bytes \o in
  <1> HIDE DEF v
  <1>2. v \in Seq(Byte)
    BY <1>1 DEF v
  <1>3. LET b == [a EXCEPT !.bytes = v]
        IN b \in Absorbed /\ b.of = a.of /\ b.prefix = a.prefix /\ b.bytes = v
    BY <1>2 DEF Absorbed
  <1> QED
    BY <1>3 DEF v

LEMMA IncAbsorbExact ==
    ASSUME IInv, Inv', NEW h \in Handle, NEW in \in Strings, IncAbsorbInto(h, in)
    PROVE  IInv'
  <1> DEFINE a == absorbed[h]
             ph == phase[h]
             b == [a EXCEPT !.bytes = @ \o in]
             c == ContextOf(Sofar(b))
  <1>1. Live(h) /\ ph \in Absorbing
    BY DEF IncAbsorbInto, Family, Absorbing
  <1>2. /\ ctx[h] \in Place /\ ph # "unused" /\ ph \in Phase
        /\ a \in Absorbed /\ Exact(At(h), ph, a, squeezed[h])
    BY <1>1, LiveExact
  <1>3. a.of = ph /\ At(h) = ContextOf(Sofar(a)) /\ squeezed[h] = << >>
    BY <1>1, <1>2 DEF Exact
  <1>4. in \in Seq(Byte)
    BY InputAssumption
  <1>5. a.prefix \in Seq(Byte) /\ a.bytes \in Seq(Byte)
    BY <1>2 DEF Absorbed
  <1>6. absorbed' = [absorbed EXCEPT ![h] = b]
    BY DEF IncAbsorbInto
  <1>7. b \in Absorbed /\ b.of = a.of /\ b.prefix = a.prefix /\ b.bytes = a.bytes \o in
    BY <1>2, <1>4, WithBytes
  <1> HIDE DEF a, b, ph
  <1>8. b \in Absorbed /\ b.of = ph /\ b.prefix = a.prefix /\ b.bytes = a.bytes \o in
    BY <1>3, <1>7
  <1>9. Sofar(a) \in Seq(Byte) /\ Sofar(b) = Sofar(a) \o in /\ Sofar(b) \in Seq(Byte)
    <2>1. (a.prefix \o a.bytes) \o in = a.prefix \o (a.bytes \o in)
      BY <1>4, <1>5, Associative
    <2>2. Sofar(a) \in Seq(Byte) /\ Sofar(b) \in Seq(Byte)
      BY <1>2, <1>8, SourceIsState
    <2> QED
      BY <1>8, <2>1, <2>2 DEF Sofar
  <1>10. IncAbsorb(At(h), in) = c
    BY <1>3, <1>4, <1>9, IncAbsorbIs
  <1>11. heap' = [heap EXCEPT ![ctx[h]] = c]
    <2>1. heap' = [heap EXCEPT ![ctx[h]] = IncAbsorb(At(h), in)]
      BY DEF IncAbsorbInto, At
    <2> QED
      BY <1>10, <2>1
  <1>12. c \in Context
    BY <1>9, ContextOfIs
  <1>13. Exact(c, ph, b, << >>)
    <2>1. ph \notin Squeezing /\ ph # "oneshot"
      BY <1>1 DEF Absorbing, Squeezing
    <2> QED
      BY <1>8, <2>1 DEF Exact
  <1>14. Given(b, << >>)
    BY <1>8, NothingGiven
  <1>15. /\ phase' = [phase EXCEPT ![h] = ph]
         /\ squeezed' = [squeezed EXCEPT ![h] = << >>]
         /\ UNCHANGED <<ctx, exited>>
    BY <1>3 DEF IncAbsorbInto, IInv, Types, ph
  <1> HIDE DEF c
  <1> QED
    BY <1>1, <1>2, <1>6, <1>11, <1>12, <1>13, <1>14, <1>15, UpdateExact

LEMMA IncFinalizeExact ==
    ASSUME IInv, Inv', NEW h \in Handle, IncFinalizeXof(h)
    PROVE  IInv'
  <1> DEFINE a == absorbed[h]
             c == [lanes |-> Source(a), count |-> 0]
  <1>1. Live(h) /\ phase[h] \in {"shake", "cshake"}
    BY DEF IncFinalizeXof
  <1>2. /\ ctx[h] \in Place
        /\ a \in Absorbed /\ Exact(At(h), phase[h], a, squeezed[h]) /\ Given(a, squeezed[h])
    BY <1>1, LiveExact
  <1>3. a.of = phase[h] /\ At(h) = ContextOf(Sofar(a)) /\ squeezed[h] = << >>
    BY <1>1, <1>2 DEF Exact, Absorbing
  <1>4. Sofar(a) \in Seq(Byte) /\ Suffix(a.of) \in DomainByte /\ Source(a) \in State
    BY <1>2, SourceIsState
  <1>5. IncFinalize(At(h), Suffix(phase[h])) = c
    BY <1>3, <1>4, IncFinalizeIs DEF Source
  <1>6. heap' = [heap EXCEPT ![ctx[h]] = c]
    <2>1. heap' = [heap EXCEPT ![ctx[h]] = IncFinalize(At(h), Suffix(phase[h]))]
      BY DEF IncFinalizeXof, At
    <2> QED
      BY <1>5, <2>1
  <1>7. c \in Context
    BY <1>4 DEF Context
  <1>8. Exact(c, "squeezing", a, << >>)
    <2>1. SqueezedTo(c, Source(a), 0)
      BY <1>4, NothingSqueezed
    <2>2. Len(<< >>) = 0 /\ "squeezing" \notin Absorbing
      BY DEF Absorbing
    <2> HIDE DEF c
    <2> QED
      BY <2>1, <2>2 DEF Exact
  <1>9. /\ phase' = [phase EXCEPT ![h] = "squeezing"]
        /\ absorbed' = [absorbed EXCEPT ![h] = a]
        /\ squeezed' = [squeezed EXCEPT ![h] = << >>]
        /\ UNCHANGED <<ctx, exited>>
    BY <1>3 DEF IncFinalizeXof, IInv, Types
  <1>10. "squeezing" \in Phase /\ "squeezing" # "unused"
    BY DEF Phase
  <1> HIDE DEF c, a
  <1> QED
    BY <1>1, <1>2, <1>3, <1>6, <1>7, <1>8, <1>9, <1>10, UpdateExact

\* The bytes that come out of a context that is squeezed go on where the last
\* ones stopped.
LEMMA GivenGoesOn ==
    ASSUME NEW a, NEW s, Given(a, s), NEW m \in Nat
    PROVE  /\ Given(a, s \o Bytes(Source(a), Len(s), m))
           /\ Len(s \o Bytes(Source(a), Len(s), m)) = Len(s) + m
  <1> DEFINE n == Len(s)
             B == Source(a)
             t == s \o Bytes(B, n, m)
  <1>1. n \in Nat /\ s = Bytes(B, 0, n) /\ a \in Absorbed
    BY DEF Given
  <1> HIDE DEF n, B
  <1>2. t = Bytes(B, 0, n + m) /\ n + m \in Nat
    <2>1. Bytes(B, 0, n) \o Bytes(B, n, m) = Bytes(B, 0, n + m)
      BY <1>1, BytesGoOn
    <2>2. n + m \in Nat
      BY <1>1
    <2>3. t = Bytes(B, 0, n) \o Bytes(B, n, m)
      BY <1>1
    <2> QED
      BY <2>1, <2>2, <2>3
  <1>3. Len(t) = n + m
    <2>1. Len(Bytes(B, 0, n + m)) = n + m
      BY <1>2, BytesIs
    <2> QED
      BY <1>2, <2>1
  <1> HIDE DEF t
  <1>4. Given(a, t)
    BY <1>1, <1>2, <1>3 DEF Given, B
  <1> QED
    BY <1>3, <1>4 DEF t, n, B

LEMMA IncSqueezeExact ==
    ASSUME IInv, Inv', NEW h \in Handle, NEW n \in 0 .. MAXOUT, IncSqueezeFrom(h, n)
    PROVE  IInv'
  <1> DEFINE a == absorbed[h]
             s == squeezed[h]
             c == IncSqueeze(At(h), n)
             t == s \o Bytes(Source(a), Len(s), n)
  <1>1. Live(h) /\ phase[h] = "squeezing" /\ n \in Nat
    BY DigestAssumption DEF IncSqueezeFrom
  <1>2. /\ ctx[h] \in Place /\ At(h).count \in Count /\ At(h) \in Context
        /\ a \in Absorbed /\ Exact(At(h), phase[h], a, s) /\ Given(a, s)
    BY <1>1, LiveExact
  <1>3. SqueezedTo(At(h), Source(a), Len(s)) /\ Len(s) \in Nat
    BY <1>1, <1>2 DEF Exact, Squeezing, Given
  <1>4. Source(a) \in State
    BY <1>2, SourceIsState
  <1>5. /\ BytesOut(At(h), n) = Bytes(Source(a), Len(s), n)
        /\ SqueezedTo(c, Source(a), Len(s) + n)
        /\ c.lanes \in State
    <2> DEFINE d == At(h)
               B == Source(a)
               l == Len(s)
    <2>1. d.count \in Count /\ B \in State /\ l \in Nat /\ SqueezedTo(d, B, l)
      BY <1>2, <1>3, <1>4
    <2> HIDE DEF d, B, l
    <2>2. /\ BytesOut(d, n) = Bytes(B, l, n)
          /\ SqueezedTo(IncSqueeze(d, n), B, l + n)
          /\ IncSqueeze(d, n).lanes \in State
      BY <1>1, <2>1, IncSqueezeIs
    <2> QED
      BY <2>2 DEF d, B, l
  <1>6. Given(a, t) /\ Len(t) = Len(s) + n
    BY <1>1, <1>2, GivenGoesOn
  <1>7. c \in Context
    <2>1. c.count \in Count
      <3> HIDE DEF a
      <3> QED
        BY <1>1, <1>2, IncSqueezeCount
    <2>2. c.count \in Nat
      BY <2>1, RateAssumption DEF Count
    <2>3. c = [lanes |-> c.lanes, count |-> c.count]
      BY DEF IncSqueeze
    <2> HIDE DEF c
    <2> QED
      BY <1>5, <2>2, <2>3 DEF Context
  <1>8. Exact(c, "squeezing", a, t)
    <2>1. "squeezing" \notin Absorbing
      BY DEF Absorbing
    <2> HIDE DEF c, t, a, s
    <2> QED
      BY <1>5, <1>6, <2>1 DEF Exact
  <1>9. /\ phase' = [phase EXCEPT ![h] = "squeezing"]
        /\ absorbed' = [absorbed EXCEPT ![h] = a]
        /\ heap' = [heap EXCEPT ![ctx[h]] = c]
        /\ UNCHANGED <<ctx, exited>>
    BY <1>1 DEF IncSqueezeFrom, IInv, Types, At
  <1>10. squeezed' = [squeezed EXCEPT ![h] = t]
    <2>1. squeezed' = [squeezed EXCEPT ![h] = s \o BytesOut(At(h), n)]
      BY DEF IncSqueezeFrom
    <2> QED
      BY <1>5, <2>1
  <1>11. "squeezing" \in Phase /\ "squeezing" # "unused"
    BY DEF Phase
  <1> HIDE DEF c, a, s, t
  <1> QED
    BY <1>1, <1>6, <1>7, <1>8, <1>9, <1>10, <1>11, UpdateExact

LEMMA CloneExact ==
    ASSUME IInv, Inv', NEW dest \in Handle, NEW src \in Handle, Clone(dest, src)
    PROVE  IInv'
  <1>1. /\ Live(src) /\ Allocate(dest, At(src))
        /\ phase' = [phase EXCEPT ![dest] = phase[src]]
        /\ absorbed' = [absorbed EXCEPT ![dest] = absorbed[src]]
        /\ squeezed' = [squeezed EXCEPT ![dest] = squeezed[src]]
        /\ exited' = exited
    BY DEF Clone
  <1>2. /\ At(src) \in Context /\ phase[src] \in Phase /\ phase[src] # "unused"
        /\ Given(absorbed[src], squeezed[src])
        /\ Exact(At(src), phase[src], absorbed[src], squeezed[src])
    BY <1>1, LiveExact
  <1> DEFINE c == At(src)
  <1> HIDE DEF c
  <1>3. /\ c \in Context /\ Allocate(dest, c)
        /\ Exact(c, phase[src], absorbed[src], squeezed[src])
    BY <1>1, <1>2 DEF c
  <1> QED
    BY <1>1, <1>2, <1>3, AllocateExact

\* The first n bytes of a message absorbed at once.
LEMMA FirstBytes ==
    ASSUME NEW family \in Family, NEW in \in Seq(Byte)
    PROVE  LET a == InOneCall(family, in)
               c == Absorb(in, Suffix(family))
           IN /\ a \in Absorbed /\ Source(a) \in State
              /\ c \in Context /\ c.count = 0 /\ SqueezedTo(c, Source(a), 0)
  <1> DEFINE a == InOneCall(family, in)
             B == Source(a)
             c == [lanes |-> B, count |-> 0]
  <1>1. a \in Absorbed /\ a.of = family /\ Sofar(a) = in
    BY OneShotIs
  <1>2. Source(a) \in State /\ Suffix(family) \in DomainByte
    BY <1>1, SourceIsState
  <1>3. Source(a) = PaddedBlocks(in, Suffix(family))
    BY <1>1 DEF Source
  <1>4. Absorb(in, Suffix(family)) = c
    BY <1>2, <1>3, AbsorbIs
  <1> HIDE DEF B
  <1>5. B \in State
    BY <1>2 DEF B
  <1>6. SqueezedTo(c, B, 0)
    BY <1>5, NothingSqueezed
  <1>7. c \in Context /\ c.count = 0
    BY <1>5 DEF Context
  <1> HIDE DEF c, a
  <1> QED
    BY <1>1, <1>2, <1>4, <1>6, <1>7 DEF B, a

\* The first blocks of the stream.
LEMMA FirstBlocks ==
    ASSUME NEW B \in State, NEW c, c.count = 0, SqueezedTo(c, B, 0), NEW k \in Nat
    PROVE  /\ k * RATE \in Nat
           /\ BlocksOut(c, k) = Bytes(B, 0, k * RATE)
           /\ SqueezedTo(SqueezeBlocks(c, k), B, k * RATE)
           /\ SqueezeBlocks(c, k).count = 0
  <1>1. 0 \in Nat
    OBVIOUS
  <1>2. /\ k * RATE \in Nat
        /\ BlocksOut(c, k) = Bytes(B, 0, k * RATE)
        /\ SqueezedTo(SqueezeBlocks(c, k), B, 0 + (k * RATE))
        /\ SqueezeBlocks(c, k).count = 0
    BY <1>1, BlocksOutIs
  <1>3. 0 + (k * RATE) = k * RATE
    BY <1>2
  <1> QED
    BY <1>2, <1>3

\* The start of the next block.
LEMMA PartOfBlock ==
    ASSUME NEW B \in State, NEW m \in Nat, NEW c, c.count = 0, SqueezedTo(c, B, m),
           NEW n \in 0 .. RATE
    PROVE  SubSeq(BlocksOut(c, 1), 1, n) = Bytes(B, m, n)
  <1>1. 1 \in Nat /\ RATE \in Nat /\ 1 * RATE = RATE /\ n \in Nat /\ n <= RATE
    BY RateAssumption
  <1>2. BlocksOut(c, 1) = Bytes(B, m, 1 * RATE)
    BY <1>1, BlocksOutIs
  <1>3. BlocksOut(c, 1) = Bytes(B, m, RATE)
    BY <1>1, <1>2
  <1>4. SubSeq(Bytes(B, m, RATE), 1, n) = Bytes(B, m, n)
    BY <1>1, BytesCut
  <1> QED
    BY <1>3, <1>4

\* Fewer bytes than a block are the start of the stream.
LEMMA StartOfBlock ==
    ASSUME NEW a \in Absorbed, NEW c, c.count = 0, SqueezedTo(c, Source(a), 0),
           NEW n \in 0 .. RATE
    PROVE  Given(a, SubSeq(BlocksOut(c, 1), 1, n))
  <1> DEFINE B == Source(a)
  <1>1. B \in State /\ 0 \in Nat /\ n \in Nat
    BY SourceIsState, RateAssumption
  <1>2. SqueezedTo(c, B, 0)
    OBVIOUS
  <1> HIDE DEF B
  <1>3. SubSeq(BlocksOut(c, 1), 1, n) = Bytes(B, 0, n)
    BY <1>1, <1>2, PartOfBlock
  <1>4. Len(Bytes(B, 0, n)) = n
    BY <1>1, BytesIs
  <1> QED
    BY <1>1, <1>3, <1>4 DEF Given, B

LEMMA CtxReleaseExact ==
    ASSUME IInv, Inv', NEW h \in Handle, CtxRelease(h)
    PROVE  IInv'
  <1> DEFINE a == Nothing("shake", << >>)
  <1>1. Given(a, << >>)
    <2>1. "shake" \in Family /\ << >> \in Seq(Byte)
      BY DEF Family
    <2>2. a \in Absorbed
      BY <2>1, NothingIs
    <2> HIDE DEF a
    <2> QED
      BY <2>2, NothingGiven
  <1>2. /\ Live(h) /\ Release(h)
        /\ absorbed' = [absorbed EXCEPT ![h] = a]
        /\ squeezed' = [squeezed EXCEPT ![h] = << >>]
    BY DEF CtxRelease
  <1> HIDE DEF a
  <1> QED
    BY <1>1, <1>2, ReleaseExact

LEMMA Sha3IncFinalizeExact ==
    ASSUME IInv, Inv', NEW h \in Handle, Sha3IncFinalize(h)
    PROVE  IInv'
  <1> DEFINE a == absorbed[h]
             c == IncFinalize(At(h), SHA3)
             s == SubSeq(BlocksOut(c, 1), 1, DIGEST)
  <1>1. Live(h) /\ phase[h] = "sha3" /\ Release(h)
    BY DEF Sha3IncFinalize
  <1>2. a \in Absorbed /\ Exact(At(h), phase[h], a, squeezed[h])
    BY <1>1, LiveExact
  <1>3. a.of = "sha3" /\ At(h) = ContextOf(Sofar(a)) /\ Suffix("sha3") = SHA3
    BY <1>1, <1>2 DEF Exact, Absorbing, Suffix
  <1>4. Sofar(a) \in Seq(Byte) /\ SHA3 \in DomainByte /\ Source(a) \in State
        /\ Source(a) = PaddedBlocks(Sofar(a), SHA3)
    <2>1. Sofar(a) \in Seq(Byte) /\ Suffix(a.of) \in DomainByte /\ Source(a) \in State
      BY <1>2, SourceIsState
    <2> QED
      BY <1>3, <2>1 DEF Source
  <1>5. c = [lanes |-> Source(a), count |-> 0]
    BY <1>3, <1>4, IncFinalizeIs
  <1>6. c.count = 0 /\ SqueezedTo(c, Source(a), 0)
    BY <1>4, <1>5, NothingSqueezed
  <1>7. Given(a, s)
    <2> HIDE DEF c, a
    <2> QED
      BY <1>2, <1>6, DigestAssumption, StartOfBlock
  <1>8. absorbed' = [absorbed EXCEPT ![h] = a]
    BY DEF Sha3IncFinalize, IInv, Types
  <1>9. squeezed' = [squeezed EXCEPT ![h] = s]
    BY Zenon DEF Sha3IncFinalize
  <1> HIDE DEF a, s
  <1> QED
    BY <1>1, <1>7, <1>8, <1>9, ReleaseExact

LEMMA ShakeAbsorbExact ==
    ASSUME IInv, Inv', NEW h \in Handle, NEW in \in Strings, ShakeAbsorb(h, in)
    PROVE  IInv'
  <1> DEFINE a == InOneCall("oneshot", in)
             c == Absorb(in, SHAKE)
  <1>1. in \in Seq(Byte) /\ "oneshot" \in Family /\ Suffix("oneshot") = SHAKE
    BY InputAssumption DEF Family, Suffix
  <1>2. /\ a \in Absorbed /\ c \in Context /\ c.count = 0
        /\ SqueezedTo(c, Source(a), 0)
    <2>1. /\ InOneCall("oneshot", in) \in Absorbed
          /\ Absorb(in, Suffix("oneshot")) \in Context
          /\ Absorb(in, Suffix("oneshot")).count = 0
          /\ SqueezedTo(Absorb(in, Suffix("oneshot")), Source(InOneCall("oneshot", in)), 0)
      BY <1>1, FirstBytes
    <2> QED
      BY <1>1, <2>1
  <1>3. /\ Allocate(h, c)
        /\ phase' = [phase EXCEPT ![h] = "oneshot"]
        /\ absorbed' = [absorbed EXCEPT ![h] = a]
        /\ squeezed' = [squeezed EXCEPT ![h] = << >>]
        /\ exited' = exited
    BY Zenon DEF ShakeAbsorb, InOneCall
  <1> HIDE DEF a, c
  <1>4. Given(a, << >>)
    BY <1>2, NothingGiven
  <1>5. Exact(c, "oneshot", a, << >>)
    <2>1. Len(<< >>) = 0 /\ "oneshot" \notin Absorbing
      BY DEF Absorbing
    <2> QED
      BY <1>2, <2>1 DEF Exact
  <1>6. "oneshot" \in Phase /\ "oneshot" # "unused"
    BY DEF Phase, Family
  <1> QED
    BY <1>2, <1>3, <1>4, <1>5, <1>6, AllocateExact

LEMMA SqueezeBlocksExact ==
    ASSUME IInv, Inv', NEW h \in Handle, NEW n \in 0 .. MAXOUT, ShakeSqueezeBlocks(h, n)
    PROVE  IInv'
  <1> DEFINE a == absorbed[h]
             s == squeezed[h]
             c == SqueezeBlocks(At(h), n)
             t == s \o Bytes(Source(a), Len(s), n * RATE)
  <1>1. Live(h) /\ phase[h] = "oneshot" /\ n \in Nat
    BY DigestAssumption DEF ShakeSqueezeBlocks
  <1>2. /\ ctx[h] \in Place /\ At(h) \in Context
        /\ a \in Absorbed /\ Exact(At(h), phase[h], a, s) /\ Given(a, s)
    BY <1>1, LiveExact
  <1>3. SqueezedTo(At(h), Source(a), Len(s)) /\ Len(s) \in Nat /\ At(h).count = 0
    BY <1>1, <1>2 DEF Exact, Squeezing, Given
  <1>4. Source(a) \in State
    BY <1>2, SourceIsState
  <1>5. /\ n * RATE \in Nat
        /\ BlocksOut(At(h), n) = Bytes(Source(a), Len(s), n * RATE)
        /\ SqueezedTo(c, Source(a), Len(s) + (n * RATE))
        /\ c.count = 0 /\ c.lanes \in State
    <2> DEFINE d == At(h)
               B == Source(a)
               l == Len(s)
    <2>1. d.count = 0 /\ B \in State /\ l \in Nat /\ SqueezedTo(d, B, l)
      BY <1>3, <1>4
    <2> HIDE DEF d, B, l
    <2>2. /\ n * RATE \in Nat
          /\ BlocksOut(d, n) = Bytes(B, l, n * RATE)
          /\ SqueezedTo(SqueezeBlocks(d, n), B, l + (n * RATE))
          /\ SqueezeBlocks(d, n).count = 0
          /\ SqueezeBlocks(d, n).lanes \in State
      BY <1>1, <2>1, BlocksOutIs
    <2> QED
      BY <2>2 DEF d, B, l
  <1>6. Given(a, t) /\ Len(t) = Len(s) + (n * RATE)
    BY <1>2, <1>5, GivenGoesOn
  <1>7. c \in Context
    <2>1. c = [lanes |-> c.lanes, count |-> c.count]
      BY DEF SqueezeBlocks
    <2> HIDE DEF c
    <2> QED
      BY <1>5, <2>1 DEF Context
  <1>8. Exact(c, "oneshot", a, t)
    <2>1. "oneshot" \notin Absorbing
      BY DEF Absorbing
    <2> HIDE DEF c, t, a, s
    <2> QED
      BY <1>5, <1>6, <2>1 DEF Exact
  <1>9. /\ phase' = [phase EXCEPT ![h] = "oneshot"]
        /\ absorbed' = [absorbed EXCEPT ![h] = a]
        /\ heap' = [heap EXCEPT ![ctx[h]] = c]
        /\ UNCHANGED <<ctx, exited>>
    BY <1>1 DEF ShakeSqueezeBlocks, IInv, Types, At
  <1>10. squeezed' = [squeezed EXCEPT ![h] = t]
    <2>1. squeezed' = [squeezed EXCEPT ![h] = s \o BlocksOut(At(h), n)]
      BY DEF ShakeSqueezeBlocks
    <2> QED
      BY <1>5, <2>1
  <1>11. "oneshot" \in Phase /\ "oneshot" # "unused"
    BY DEF Phase, Family
  <1> HIDE DEF c, a, s, t
  <1> QED
    BY <1>1, <1>6, <1>7, <1>8, <1>9, <1>10, <1>11, UpdateExact

LEMMA Sha3Exact ==
    ASSUME IInv, Inv', NEW h \in Handle, NEW in \in Strings, Sha3(h, in)
    PROVE  IInv'
  <1> DEFINE a == InOneCall("sha3", in)
             c == Absorb(in, SHA3)
             s == SubSeq(BlocksOut(c, 1), 1, DIGEST)
  <1>1. in \in Seq(Byte) /\ "sha3" \in Family /\ Suffix("sha3") = SHA3
    BY InputAssumption DEF Family, Suffix
  <1>2. a \in Absorbed /\ c.count = 0 /\ SqueezedTo(c, Source(a), 0)
    <2>1. /\ InOneCall("sha3", in) \in Absorbed
          /\ Absorb(in, Suffix("sha3")).count = 0
          /\ SqueezedTo(Absorb(in, Suffix("sha3")), Source(InOneCall("sha3", in)), 0)
      BY <1>1, FirstBytes
    <2> QED
      BY <1>1, <2>1
  <1>3. Given(a, s)
    <2> HIDE DEF c, a
    <2> QED
      BY <1>2, DigestAssumption, StartOfBlock
  <1>4. ctx[h] = NoPlace /\ UNCHANGED <<ctx, heap, phase, exited>>
    BY DEF Sha3
  <1>5. /\ absorbed' = [absorbed EXCEPT ![h] = a]
        /\ squeezed' = [squeezed EXCEPT ![h] = s]
    BY Zenon DEF Sha3, InOneCall
  <1> HIDE DEF a, s
  <1> QED
    BY <1>3, <1>4, <1>5, HistoryKeeps

LEMMA ShakeExact ==
    ASSUME IInv, Inv', NEW h \in Handle, NEW in \in Strings, NEW n \in 0 .. MAXOUT,
           Shake(h, in, n)
    PROVE  IInv'
  <1> DEFINE a == InOneCall("oneshot", in)
             B == Source(a)
             c == Absorb(in, SHAKE)
             q == n \div RATE
             r == n % RATE
             d == SqueezeBlocks(c, q)
             part == SubSeq(BlocksOut(d, 1), 1, r)
             s == BlocksOut(c, q) \o part
  <1>1. in \in Seq(Byte) /\ "oneshot" \in Family /\ Suffix("oneshot") = SHAKE /\ n \in Nat
    BY InputAssumption, DigestAssumption DEF Family, Suffix
  <1>2. /\ a \in Absorbed /\ B \in State /\ c.count = 0 /\ SqueezedTo(c, B, 0)
    <2>1. /\ InOneCall("oneshot", in) \in Absorbed
          /\ Source(InOneCall("oneshot", in)) \in State
          /\ Absorb(in, Suffix("oneshot")).count = 0
          /\ SqueezedTo(Absorb(in, Suffix("oneshot")), Source(InOneCall("oneshot", in)), 0)
      BY <1>1, FirstBytes
    <2> QED
      BY <1>1, <2>1
  <1>3. q \in Nat /\ r \in Nat /\ r <= RATE /\ RATE \in Nat
    <2>1. Whole(n) \in Nat /\ Rest(n) \in Count /\ n = (Whole(n) * RATE) + Rest(n)
      BY <1>1, WholeAndRest
    <2> DEFINE w == Whole(n)
               v == Rest(n)
    <2> HIDE DEF w, v
    <2>2. ((w * RATE) + v) % RATE = v /\ v \in Count
      BY <2>1, Division DEF w, v
    <2>3. r = v
      BY <2>1, <2>2 DEF w, v
    <2>4. q = w
      BY DEF w, Whole
    <2> HIDE DEF q, r
    <2> QED
      BY <2>1, <2>2, <2>3, <2>4, RateAssumption DEF Count, w
  <1> HIDE DEF a, B, c, q, r
  <1>4. /\ q * RATE \in Nat
        /\ BlocksOut(c, q) = Bytes(B, 0, q * RATE)
        /\ SqueezedTo(d, B, q * RATE) /\ d.count = 0
    BY <1>2, <1>3, FirstBlocks
  <1> DEFINE m == q * RATE
  <1> HIDE DEF d, m
  <1>5. m \in Nat /\ BlocksOut(c, q) = Bytes(B, 0, m) /\ SqueezedTo(d, B, m) /\ d.count = 0
    BY <1>4 DEF m
  <1>6. part = Bytes(B, m, r)
    <2>1. r \in 0 .. RATE
      BY <1>3
    <2> QED
      BY <1>2, <1>5, <2>1, PartOfBlock
  <1> HIDE DEF part
  <1>7. s = Bytes(B, 0, m + r)
    <2>1. Bytes(B, 0, m) \o Bytes(B, m, r) = Bytes(B, 0, m + r)
      BY <1>3, <1>5, BytesGoOn
    <2> QED
      BY <1>5, <1>6, <2>1
  <1>8. Len(s) = m + r /\ m + r \in Nat
    <2>1. m + r \in Nat
      BY <1>3, <1>5
    <2>2. Len(Bytes(B, 0, m + r)) = m + r
      BY <2>1, BytesIs
    <2> QED
      BY <1>7, <2>1, <2>2
  <1> HIDE DEF s
  <1>9. Given(a, s)
    BY <1>2, <1>7, <1>8 DEF Given, B
  <1>10. ctx[h] = NoPlace /\ UNCHANGED <<ctx, heap, phase, exited>>
    BY DEF Shake
  <1>11. /\ absorbed' = [absorbed EXCEPT ![h] = a]
         /\ squeezed' = [squeezed EXCEPT ![h] = s]
    BY Zenon DEF Shake, InOneCall, a, s, part, d, c, q, r
  <1> QED
    BY <1>9, <1>10, <1>11, HistoryKeeps

LEMMA StepExact == IInv /\ [Next]_vars => IInv'
  <1> SUFFICES ASSUME IInv, [Next]_vars PROVE IInv'
    OBVIOUS
  <1>1. Inv'
    BY StepInv DEF IInv
  <1>2. CASE UNCHANGED vars
    <2>1. UNCHANGED <<ctx, heap, phase, absorbed, squeezed>> /\ exited' \in BOOLEAN
      BY <1>2 DEF vars, IInv, Types
    <2> QED
      BY <1>1, <2>1, SameKeeps
  <1>3. CASE Exhausted
    <2>1. UNCHANGED <<ctx, heap, phase, absorbed, squeezed>> /\ exited' \in BOOLEAN
      BY <1>3 DEF Exhausted
    <2> QED
      BY <1>1, <2>1, SameKeeps
  <1>4. ASSUME NEW h \in Handle, NEW family \in {"shake", "sha3"}, IncInit(h, family)
        PROVE  IInv'
    BY <1>1, <1>4, IncInitExact
  <1>5. ASSUME NEW h \in Handle, NEW name \in Names, NEW cstm \in Names,
               CshakeIncInit(h, name, cstm)
        PROVE  IInv'
    BY <1>1, <1>5, CshakeExact
  <1>6. ASSUME NEW h \in Handle, NEW in \in Strings, IncAbsorbInto(h, in) PROVE IInv'
    BY <1>1, <1>6, IncAbsorbExact
  <1>7. ASSUME NEW h \in Handle, NEW in \in Strings, ShakeAbsorb(h, in) PROVE IInv'
    BY <1>1, <1>7, ShakeAbsorbExact
  <1>8. ASSUME NEW h \in Handle, NEW in \in Strings, Sha3(h, in) PROVE IInv'
    BY <1>1, <1>8, Sha3Exact
  <1>9. ASSUME NEW h \in Handle, IncFinalizeXof(h) PROVE IInv'
    BY <1>1, <1>9, IncFinalizeExact
  <1>10. ASSUME NEW h \in Handle, Sha3IncFinalize(h) PROVE IInv'
    BY <1>1, <1>10, Sha3IncFinalizeExact
  <1>11. ASSUME NEW h \in Handle, CtxRelease(h) PROVE IInv'
    BY <1>1, <1>11, CtxReleaseExact
  <1>12. ASSUME NEW h \in Handle, NEW n \in 0 .. MAXOUT, IncSqueezeFrom(h, n) PROVE IInv'
    BY <1>1, <1>12, IncSqueezeExact
  <1>13. ASSUME NEW h \in Handle, NEW n \in 0 .. MAXOUT, ShakeSqueezeBlocks(h, n) PROVE IInv'
    BY <1>1, <1>13, SqueezeBlocksExact
  <1>14. ASSUME NEW h \in Handle, NEW in \in Strings, NEW n \in 0 .. MAXOUT, Shake(h, in, n)
         PROVE  IInv'
    BY <1>1, <1>14, ShakeExact
  <1>15. ASSUME NEW h \in Handle, NEW src \in Handle, Clone(h, src) PROVE IInv'
    BY <1>1, <1>15, CloneExact
  <1> QED
    BY <1>2, <1>3, <1>4, <1>5, <1>6, <1>7, <1>8, <1>9, <1>10, <1>11, <1>12, <1>13, <1>14, <1>15
    DEF Next

THEOREM Exactness == Spec => []IInv
  BY InitExact, StepExact, PTL DEF Spec

\* The state of every context is a sequence of blocks, whatever the calls.
THEOREM TypeCorrect == Spec => []TypeOK
<1>1. IInv => TypeOK
  <2> SUFFICES ASSUME IInv PROVE TypeOK
    OBVIOUS
  <2>1. \A h \in Handle : Len(squeezed[h]) \in Nat
    BY DEF IInv, HandleExact, Given
  <2>2. /\ ctx \in [Handle -> Place \cup {NoPlace}] /\ free \subseteq Place
        /\ heap \in [Place -> Context] /\ phase \in [Handle -> Phase] /\ exited \in BOOLEAN
        /\ absorbed \in [Handle -> Absorbed]
    BY DEF IInv, Inv, Partition, Types
  <2> QED
    BY <2>1, <2>2 DEF TypeOK, Absorbed
<1> QED
  BY <1>1, Exactness, PTL

\* For every rate, every message and every way of cutting it into calls of
\* absorb and the output into calls of squeeze, in each of the interfaces and
\* whatever is done to clones in between: the bytes are those of the whole
\* message, padded and squeezed at once.
THEOREM StreamIsExact == Spec => []StreamExact
<1>1. IInv => StreamExact
  <2> SUFFICES ASSUME IInv, NEW h \in Handle
               PROVE  squeezed[h] = Stream(absorbed[h].prefix \o absorbed[h].bytes,
                                           Suffix(absorbed[h].of), Len(squeezed[h]))
    BY Zenon DEF StreamExact
  <2> DEFINE a == absorbed[h]
             s == squeezed[h]
  <2>1. Given(a, s)
    BY DEF IInv, HandleExact
  <2>2. a \in Absorbed /\ s = Bytes(Source(a), 0, Len(s))
    BY <2>1 DEF Given
  <2> HIDE DEF a, s
  <2>3. Sofar(a) \in Seq(Byte) /\ Suffix(a.of) \in Byte
    BY <2>2, SourceIsState
  <2>4. Stream(Sofar(a), Suffix(a.of), Len(s)) = Bytes(Source(a), 0, Len(s))
    BY <2>3, StreamIs DEF Source
  <2>5. s = Stream(Sofar(a), Suffix(a.of), Len(s))
    BY <2>2, <2>4
  <2> QED
    BY <2>5, Zenon DEF Sofar, a, s
<1> QED
  BY <1>1, Exactness, PTL
=============================================================================
