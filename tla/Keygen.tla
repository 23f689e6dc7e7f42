------------------------------- MODULE Keygen -------------------------------
(***************************************************************************)
(* The key generation loop of McEliece: VersatMcEliece in                  *)
(* versat_mceliece.c, and crypto_kem_keypair in operations.c, which it is  *)
(* made from.  An attempt expands a seed into the bytes r, cuts r from its *)
(* end with the pointer rp into the next seed, the field element f, the    *)
(* permutation and the string s, and writes the secret key at the pointer  *)
(* skp as it goes.  Any attempt may fail after part of the secret key has  *)
(* been written, and the loop then starts over.                            *)
(*                                                                         *)
(* A byte is known by where it comes from.  Genpoly, the key matrix and    *)
(* the control bits are functions of their inputs that a good seed does    *)
(* not let fail; the elimination is the subject of VersatElim.             *)
(***************************************************************************)
EXTENDS Integers

CONSTANTS
    SEED, PIVOTS,       \* bytes of a seed (32) and of the pivot field (8)
    IRR, COND,          \* IRR_BYTES, which is also the size of f, and COND_BYTES
    PERM, TAIL,         \* bytes of the permutation and of s (SYS_N / 8)
    ATTEMPTS            \* bound of the model: a good seed comes by then

ASSUME KeygenSizes ==
    {SEED, PIVOTS, IRR, COND, PERM, TAIL, ATTEMPTS} \subseteq Nat \ {0}

Attempt == 0 .. ATTEMPTS - 1
Outcome == {"good", "noPolynomial", "noPermutation", "notSystematic"}

VARIABLES
    outcome,            \* what becomes of the seed of each attempt
    pc,
    seed,               \* the seed the next attempt expands
    r, rp,              \* the expanded bytes, and the pointer into them
    sk, skp,            \* the secret key, and the pointer into it
    elem, perm,         \* f and perm, as they were cut from r
    irr, pi,            \* what genpoly_gen and pk_gen computed
    pk                  \* the public key: what it was computed from

vars == <<outcome, pc, seed, r, rp, sk, skp, elem, perm, irr, pi, pk>>

----------------------------------------------------------------------------
(* Bytes.  Byte n of kind k from source x; source of the first seed is -1. *)

Byte(k, x, n) == [kind |-> k, source |-> x, at |-> n]
Nothing == Byte("nothing", -1, 0)
Bytes(k, x, size) == [n \in 0 .. size - 1 |-> Byte(k, x, n)]
Cut(s, from, size) == [n \in 0 .. size - 1 |-> s[from + n]]
Paste(s, to, bytes) ==
    [n \in DOMAIN s |-> IF n - to \in DOMAIN bytes THEN bytes[n - to] ELSE s[n]]

SizeOfR == TAIL + PERM + IRR + SEED
SizeOfSk == SEED + PIVOTS + IRR + COND + TAIL

FirstSeed == Bytes("random", -1, SEED)
NextSeed(n) == [b \in 0 .. SEED - 1 |-> Byte("r", n, TAIL + PERM + IRR + b)]
SeedOf(n) == IF n = 0 THEN FirstSeed ELSE NextSeed(n - 1)

\* shake(r, ..., seed, 33): other bytes for every seed.
NoSeed == ATTEMPTS
NumberOf(s) == IF \E n \in Attempt : s = SeedOf(n)
               THEN CHOOSE n \in Attempt : s = SeedOf(n) ELSE NoSeed
Expand(s) == Bytes("r", NumberOf(s), SizeOfR)

\* A function of the bytes b: its result is of attempt n only if all of b is the
\* part of attempt n's bytes that starts at from.
SourceOf(b, from) ==
    IF \E n \in Attempt : b = [m \in DOMAIN b |-> Byte("r", n, from + m)]
    THEN b[0].source ELSE NoSeed

GoppaPolynomial(b) == Bytes("irr", SourceOf(b, TAIL + PERM), IRR)
ControlBits(p) == Bytes("cond", SourceOf(p, TAIL), COND)

----------------------------------------------------------------------------
Init ==
    /\ outcome \in [Attempt -> Outcome]
    /\ \E n \in Attempt : outcome[n] = "good"
    /\ pc = "expand"
    /\ seed = FirstSeed
    /\ r = [n \in 0 .. SizeOfR - 1 |-> Nothing]
    /\ rp = 0
    /\ sk = [n \in 0 .. SizeOfSk - 1 |-> Nothing]
    /\ skp = 0
    /\ elem = [n \in 0 .. IRR - 1 |-> Nothing]
    /\ perm = [n \in 0 .. PERM - 1 |-> Nothing]
    /\ irr = Bytes("nothing", -1, IRR)
    /\ pi = perm
    /\ pk = [irr |-> irr, perm |-> perm]

\* memcpy(seed + 1, &r[sizeofR - 32], 32)
SeedKept == seed                                    \* slip
SeedAfter == Cut(r', SizeOfR - SEED, SEED)

\* memcpy(skp, seed + 1, 32), before that; skp = sk at the top of the loop.
StoredTooLate == SeedAfter                          \* slip: the two are swapped
StoredSeed == seed
SkpAfterSeed == SEED + PIVOTS

\* The seed is expanded, stored as the first bytes of sk, and replaced; f is cut.
ExpandSeed ==
    /\ pc = "expand"
    /\ r' = Expand(seed)
    /\ sk' = Paste(sk, 0, StoredSeed)
    /\ skp' = SkpAfterSeed
    /\ seed' = SeedAfter
    /\ rp' = SizeOfR - SEED - IRR
    /\ elem' = Cut(r', rp', IRR)
    /\ pc' = "genpoly"
    /\ UNCHANGED <<outcome, perm, irr, pi, pk>>

Now == r[0].source
Fails(how) == Now \in Attempt /\ outcome[Now] = how

\* genpoly_gen, and the polynomial into sk.
NoPolynomial ==
    /\ pc = "genpoly" /\ Fails("noPolynomial")
    /\ pc' = "expand"
    /\ UNCHANGED <<outcome, seed, r, rp, sk, skp, elem, perm, irr, pi, pk>>

Genpoly ==
    /\ pc = "genpoly" /\ ~Fails("noPolynomial")
    /\ irr' = GoppaPolynomial(elem)
    /\ sk' = Paste(sk, skp, irr')
    /\ skp' = skp + IRR
    /\ rp' = rp - PERM
    /\ perm' = Cut(r, rp', PERM)
    /\ pc' = "pk_gen"
    /\ UNCHANGED <<outcome, seed, r, elem, pi, pk>>

\* pk_gen reads the polynomial back from sk.  It fails on a permutation with a
\* repeated value, before it sets pi, or on a matrix it cannot reduce, after.
NoPermutation ==
    /\ pc = "pk_gen" /\ Fails("noPermutation")
    /\ pc' = "expand"
    /\ UNCHANGED <<outcome, seed, r, rp, sk, skp, elem, perm, irr, pi, pk>>

NotSystematic ==
    /\ pc = "pk_gen" /\ Fails("notSystematic")
    /\ pi' = perm
    /\ pc' = "expand"
    /\ UNCHANGED <<outcome, seed, r, rp, sk, skp, elem, perm, irr, pk>>

PkGen ==
    /\ pc = "pk_gen" /\ ~Fails("noPermutation") /\ ~Fails("notSystematic")
    /\ pi' = perm
    /\ pk' = [irr |-> Cut(sk, skp - IRR, IRR), perm |-> perm]
    /\ pc' = "control"
    /\ UNCHANGED <<outcome, seed, r, rp, sk, skp, elem, perm, irr>>

\* The control bits, s and the pivots into sk.
Finish ==
    /\ pc = "control"
    /\ rp' = rp - TAIL
    /\ skp' = skp + COND
    /\ LET bits == Paste(sk, skp, ControlBits(pi))
           string == Paste(bits, skp', Cut(r, rp', TAIL))
       IN sk' = Paste(string, SEED, Bytes("pivots", -1, PIVOTS))
    /\ pc' = "done"
    /\ UNCHANGED <<outcome, seed, r, elem, perm, irr, pi, pk>>

Done == pc = "done" /\ UNCHANGED vars

\* crypto_kem_keypair is the same loop, with pk_gen for Versat_pk_gen.
Step == ExpandSeed \/ Genpoly \/ NoPolynomial \/ NoPermutation \/ NotSystematic \/ PkGen \/ Finish
Next == Step \/ Done

Spec == Init /\ [][Next]_vars
\* The processor goes on.
FairSpec == Spec /\ WF_vars(Step)

----------------------------------------------------------------------------
(* Correctness. *)

TypeOK ==
    /\ pc \in {"expand", "genpoly", "pk_gen", "control", "done"}
    /\ rp \in 0 .. SizeOfR /\ skp \in 0 .. SizeOfSk
    /\ DOMAIN sk = 0 .. SizeOfSk - 1
    /\ \A n \in DOMAIN sk : sk[n].kind \in {"nothing", "random", "r", "irr", "cond", "pivots"}

\* The secret key of the attempt that starts from seed n, and its public key.
SecretKey(n) ==
    LET withSeed == Paste([m \in 0 .. SizeOfSk - 1 |-> Nothing], 0, SeedOf(n))
        withPivots == Paste(withSeed, SEED, Bytes("pivots", -1, PIVOTS))
        withIrr == Paste(withPivots, SEED + PIVOTS, Bytes("irr", n, IRR))
        withBits == Paste(withIrr, SEED + PIVOTS + IRR, Bytes("cond", n, COND))
    IN Paste(withBits, SEED + PIVOTS + IRR + COND, Bytes("r", n, TAIL))
PublicKey(n) ==
    [irr |-> Bytes("irr", n, IRR), perm |-> [m \in 0 .. PERM - 1 |-> Byte("r", n, TAIL + m)]]

\* The keys are those of the first good seed of the chain, whole: every part of
\* them, the seed stored in sk included, comes from that one attempt.
FirstGood == CHOOSE n \in Attempt :
    outcome[n] = "good" /\ \A m \in Attempt : outcome[m] = "good" => n <= m
KeysOfOneSeed == pc = "done" => sk = SecretKey(FirstGood) /\ pk = PublicKey(FirstGood)

\* No attempt repeats the seed of an earlier one, so the loop ends if any seed of
\* the chain is good.
Ends == <>(pc = "done")
============================================================================
