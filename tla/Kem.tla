-------------------------------- MODULE Kem --------------------------------
(***************************************************************************)
(* The key encapsulation of operations.c, encrypt.c and decrypt.c, on keys *)
(* that the loop of Keygen makes and with the numbers that Drbg draws.     *)
(* The byte a key consists of is known in Keygen by the attempt it is      *)
(* from; here every attempt has its own field element, permutation and     *)
(* string, and what becomes of it is computed by Goppa and Benes.  The     *)
(* hash of a message is the message itself.                                *)
(***************************************************************************)
EXTENDS Keygen, Benes, Drbg

CONSTANTS
    Expansions,         \* what shake may make of a seed: [f, perm, s]
    Draws,              \* what gen_e may draw: 2 * SYS_T field elements, as integers
    Words,              \* ciphertexts that come from elsewhere
    TRIES               \* bound of the model: gen_e has an error by then

ASSUME KemInputs ==
    /\ \A x \in Expansions :
          /\ x.f \in [0 .. SYS_T - 1 -> GF] /\ x.perm \in [0 .. N - 1 -> Nat]
          /\ x.s \subseteq Position
    /\ Draws \subseteq [1 .. 2 * SYS_T -> 0 .. N - 1]
    /\ Words \subseteq SUBSET Row
    /\ TRIES \in Nat \ {0}

VARIABLES
    stage,              \* where the caller is
    data,               \* the expansion of the seed of each attempt, and what it leads to
    secret, public,     \* the keys: polynomial, control bits and s; rows
    drbg, drawn,        \* the generator, and the blocks it has handed out (history)
    nums, ind, tries,   \* gen_e: the draw, what is kept of it, how many there were
    sent,               \* what the sender has: error, ciphertext and key
    support,            \* L in decrypt
    got                 \* what the receiver has: ciphertext and key

keygen == <<outcome, pc, seed, r, rp, sk, skp, elem, perm, irr, pi, pk>>
random == <<drbg, drawn>>
drawing == <<nums, ind, tries>>
kem == <<keygen, random, drawing, stage, data, secret, public, sent, support, got>>

----------------------------------------------------------------------------
(* What an expansion leads to. *)

Made(x) ==
    LET g == Once(genpoly_gen(x.f))
        order == Once(PermutationOf(x.perm))
        rows == Once(SystematicRows(KeyMatrix(Monic(g), SupportOf(order))))
        Bad(how) == [from |-> x, outcome |-> how]
    IN IF g = Failure THEN Bad("noPolynomial")
       ELSE IF order = Failure THEN Bad("noPermutation")
       ELSE IF rows = Failure THEN Bad("notSystematic")
       ELSE [from |-> x, outcome |-> "good", g |-> g, pi |-> order, rows |-> rows,
             bits |-> controlbitsfrompermutation(order)]

\* What follows the first good expansion is never looked at.
Good(x) == x.outcome = "good"
Chains(made) ==
    {d \in [Attempt -> made] : \E n \in Attempt :
        /\ \A m \in 0 .. n - 1 : ~Good(d[m])
        /\ \A m \in n .. ATTEMPTS - 1 : Good(d[m]) /\ d[m] = d[n]}

NoContext == [Key |-> <<ZeroBlock, ZeroBlock>>, V |-> Counter(ZeroBlock)]
NoDraw == [j \in 1 .. 2 * SYS_T |-> 0]
NoIndex == [j \in 0 .. SYS_T - 1 |-> 0]

KemInit ==
    /\ Init
    /\ data \in Chains({Made(x) : x \in Expansions})
    /\ outcome = [n \in Attempt |-> data[n].outcome]
    /\ stage = "start"
    /\ secret = [g |-> Failure, bits |-> {}, s |-> {}]
    /\ public = [n \in Row |-> {}]
    /\ drbg = NoContext /\ drawn = {}
    /\ nums = NoDraw /\ ind = NoIndex /\ tries = 0
    /\ sent = [e |-> {}, c |-> {}, key |-> << >>]
    /\ support = << >>
    /\ got = [c |-> {}, key |-> << >>]

----------------------------------------------------------------------------
(* The generator in use. *)

randombytes(context, n) ==
    /\ drbg' = After(context, n)
    /\ drawn' = drawn \cup Range(Output(context, n))

\* The caller seeds the generator; the key generation draws its first seed.
Start ==
    /\ stage = "start"
    /\ randombytes(nist_kat_init(ZeroBlock), SEED)
    /\ stage' = "keypair"
    /\ UNCHANGED <<keygen, drawing, data, secret, public, sent, support, got>>

\* A step of Keygen.  controlbitsfrompermutation only returns with bits that pass.
Generate ==
    /\ stage = "keypair"
    /\ pc = "control" =>
          ControlBitsPass(data[pi[0].source].bits, data[pi[0].source].pi)
    /\ Step
    /\ UNCHANGED <<random, drawing, stage, data, secret, public, sent, support, got>>

\* The keys, each part of the attempt its bytes are from.  What else the key
\* generation used dies with it.
Return ==
    LET Used(bytes, at) == data[bytes[at].source]
        theGood == [n \in Attempt |-> data[ATTEMPTS - 1]]
    IN /\ stage = "keypair" /\ pc = "done"
       /\ secret' = [g |-> Used(sk, SEED + PIVOTS).g,
                     bits |-> Used(sk, SEED + PIVOTS + IRR).bits,
                     s |-> Used(sk, SEED + PIVOTS + IRR + COND).from.s]
       /\ public' = Used(pk.perm, 0).rows
       /\ stage' = "keys"
       /\ data' = theGood /\ outcome' = [n \in Attempt |-> "good"]
       /\ pc' = "expand"
       /\ seed' = FirstSeed
       /\ r' = [n \in DOMAIN r |-> Nothing] /\ rp' = 0
       /\ sk' = [n \in DOMAIN sk |-> Nothing] /\ skp' = 0
       /\ elem' = [n \in DOMAIN elem |-> Nothing] /\ perm' = [n \in DOMAIN perm |-> Nothing]
       /\ irr' = Bytes("nothing", -1, IRR)
       /\ pi' = perm' /\ pk' = [irr |-> irr', perm |-> perm']
       /\ UNCHANGED <<random, drawing, sent, support, got>>

----------------------------------------------------------------------------
(* Encapsulation. *)

\* A position of the code; a slip is an off-by-one.
InCodeOrNext(n) == n <= SYS_N
InCode(n) == n < SYS_N

\* The positions go to the front of ind, which keeps an earlier draw behind them;
\* a slip is to use it although there are too few.
Kept(draw) ==
    LET kept[i \in 0 .. Len(draw)] ==
            IF i = 0 THEN << >>
            ELSE IF InCode(draw[i]) THEN Append(kept[i - 1], draw[i]) ELSE kept[i - 1]
    IN kept[Len(draw)]
Always(draw) == TRUE
Enough(draw) == Len(Kept(draw)) >= SYS_T
Repeated(index) == \E i, j \in DOMAIN index : i # j /\ index[i] = index[j]

\* One turn of the loop of gen_e.
Draw ==
    /\ stage \in {"keys", "drawing"} /\ tries < TRIES
    /\ randombytes(drbg, 4 * SYS_T)
    /\ tries' = tries + 1
    /\ \E draw \in Draws :
          /\ nums' = draw
          /\ ind' = [j \in DOMAIN ind |->
                        IF j < Len(Kept(draw)) THEN Kept(draw)[j + 1] ELSE ind[j]]
          /\ stage' = IF Enough(draw) /\ ~Repeated(ind') THEN "encrypt" ELSE "drawing"
    /\ tries' = TRIES => stage' = "encrypt"
    /\ UNCHANGED <<keygen, data, secret, public, sent, support, got>>

\* The bytes of e: same_mask picks the byte of each position, val its bit.
Ones(index) == Range(index)

\* The parity of each row of the key, behind its one of the identity, with e.
syndrome(rows, e) == {n \in Row : Cardinality((rows[n] \cup {n}) \cap e) % 2 = 1}

Encapsulate ==
    /\ stage = "encrypt"
    /\ LET e == Ones(ind)
           c == Once(syndrome(public, e))
       IN sent' = [e |-> e, c |-> c, key |-> <<1, e, c>>]
    /\ stage' = "sent"
    /\ nums' = NoDraw /\ ind' = NoIndex /\ UNCHANGED tries
    /\ UNCHANGED <<keygen, random, data, secret, public, support, got>>

----------------------------------------------------------------------------
(* Decapsulation, of what was sent or of any other word. *)

ReadSecret ==
    /\ stage \in {"keys", "sent"}
    /\ support' = support_gen(secret.bits)
    /\ stage' = IF stage = "sent" THEN "decapsSent" ELSE "decapsOther"
    /\ UNCHANGED <<keygen, random, drawing, data, secret, public, sent, got>>

Preimage(c) ==
    LET decrypted == Once(decrypt(Monic(secret.g), support, c))
    IN IF decrypted.ok THEN <<1, decrypted.e, c>> ELSE <<0, secret.s, c>>

DecapsulateSent ==
    /\ stage = "decapsSent"
    /\ got' = [c |-> sent.c, key |-> Preimage(sent.c)]
    /\ stage' = "agreed"
    /\ UNCHANGED <<keygen, random, drawing, data, secret, public, sent, support>>

DecapsulateOther ==
    /\ stage = "decapsOther"
    /\ \E c \in Words : got' = [c |-> c, key |-> Preimage(c)]
    /\ stage' = "answered"
    /\ UNCHANGED <<keygen, random, drawing, data, secret, public, sent, support>>

Answered == stage \in {"agreed", "answered"} /\ UNCHANGED kem

KemNext ==
    \/ Start \/ Generate \/ Return \/ Draw \/ Encapsulate
    \/ ReadSecret \/ DecapsulateSent \/ DecapsulateOther \/ Answered

KemSpec == KemInit /\ [][KemNext]_kem
\* The processor goes on with the key generation.
KemFairSpec == KemSpec /\ WF_kem(Start \/ Generate)

----------------------------------------------------------------------------
(* Correctness. *)

KemTypeOK ==
    /\ TypeOK
    /\ public \in [Row -> SUBSET (Position \ Row)]
    /\ nums \in Draws \cup {NoDraw}
    /\ ind \in [0 .. SYS_T - 1 -> Position]
    /\ tries \in 0 .. TRIES
    /\ sent.e \subseteq Position /\ sent.c \subseteq Row

HasKeys == stage \notin {"start", "keypair"}

\* What crypto_kem_dec returns for the ciphertext of crypto_kem_enc is the key that
\* crypto_kem_enc returned: the decoder undoes every error of weight SYS_T.
DecapsReturnsSharedKey == stage = "agreed" => got.key = sent.key

\* For any ciphertext, crypto_kem_dec answers with the error of weight SYS_T whose
\* columns of the public key add up to it, and with s only if there is none.
Column(n) == {k \in Row : n = k \/ n \in public[k]}
ErrorOf(c) ==
    LET column == Once([n \in Position |-> Column(n)])
    IN {e \in kSubset(SYS_T, Position) :
            c = {k \in Row : Cardinality({n \in e : k \in column[n]}) % 2 = 1}}
DecapsExact ==
    stage \in {"agreed", "answered"} =>
        got.key \in (IF ErrorOf(got.c) = {} THEN {<<0, data[0].from.s, got.c>>}
                     ELSE {<<1, e, got.c>> : e \in ErrorOf(got.c)})

\* gen_e returns SYS_T different positions, the first ones of its last draw: nothing
\* that an earlier draw left in ind.
ErrorOfOneDraw ==
    stage = "encrypt" =>
        /\ Cardinality(Range(ind)) = SYS_T
        /\ \E n \in DOMAIN nums :
              Range(ind) = {nums[k] : k \in 1 .. n} \cap Position

\* The support that apply_benes makes from the control bits has, at place i, the
\* element whose bits, reversed, are the place of the i-th smallest of perm: the one
\* that the public key was computed with.
SupportIsPermuted ==
    stage \in {"decapsSent", "decapsOther"} =>
        \A i \in Position : \E place \in 0 .. N - 1 :
            /\ Cardinality({k \in 0 .. N - 1 : data[0].from.perm[k] < data[0].from.perm[place]}) = i
            /\ support[i] = {GFBITS - 1 - b : b \in AsGf(place)}

\* genpoly_gen fails exactly if f is in a proper subfield (SYS_T is a prime here), and
\* what it returns is the monic polynomial of degree SYS_T that vanishes at f; that it
\* has no root in the field is what makes every division by g(L[i]) one.
InBaseField(x) == \A n \in 1 .. SYS_T - 1 : x[n] = Zero
VanishesAt(g, x) ==
    LET one == [n \in 0 .. SYS_T - 1 |-> IF n = 0 THEN One ELSE Zero]
        value == For(1, SYS_T, one, LAMBDA v, k :
                     [GF_mul(v, x) EXCEPT ![0] = gf_add(@, Monic(g)[SYS_T - k])])
    IN \A n \in DOMAIN value : value[n] = Zero
GoppaIsMinimalPolynomial ==
    /\ \A n \in Attempt : outcome[n] = "noPolynomial" <=> InBaseField(data[n].from.f)
    /\ stage = "keys" =>
          /\ VanishesAt(secret.g, data[0].from.f)
          /\ \A a \in GF : eval(Monic(secret.g), a) # Zero

\* No block is handed out twice: all are of different calls of AES, and the blocks
\* the generator keeps as its key and counter were never handed out.
NothingDrawnTwice ==
    /\ \A b \in drawn : b.key # drbg.Key
    /\ {drbg.Key[1], drbg.Key[2], drbg.V.base} \cap drawn = {}
============================================================================
