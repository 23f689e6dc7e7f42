------------------------------- MODULE MCKem -------------------------------
(***************************************************************************)
(* Kem on a code of length 14 over GF(16) that corrects 3 errors, with an  *)
(* expansion of every kind.  Three of them are good; the polynomial of the *)
(* first needs rows added up in genpoly_gen, because f[1] is zero.         *)
(***************************************************************************)
EXTENDS Kem, TLC

\* x^4 + x + 1, the exponents 1, 11, 111 of gf_inv, and y^3 = y + x^3 + 1.
MCAdded == [k \in 2 .. 3 |-> 1]
MCTower == (0 :> {0, 3}) @@ (1 :> {0})

Element(a, b, c) == Once([n \in 0 .. 2 |-> AsGf(<<a, b, c>>[n + 1])])
Distinct(a, b) == Once([i \in 0 .. 15 |-> (i * a + b) % 101])
Expansion(element, values, string) == [f |-> element, perm |-> values, s |-> string]

MCExpansions ==
    {Expansion(Element(0, 0, 2), Distinct(37, 11), {0, 3, 4, 13}),
     Expansion(Element(9, 14, 0), Distinct(29, 60), {1, 2}),
     Expansion(Element(0, 5, 3), Distinct(13, 90), 0 .. 13),
     \* in the base field
     Expansion(Element(7, 0, 0), Distinct(37, 11), {5}),
     \* a value twice
     Expansion(Element(0, 5, 3), [Distinct(13, 90) EXCEPT ![15] = 90], {6}),
     \* no systematic form
     Expansion(Element(9, 14, 0), Distinct(37, 11), {7})}

\* One draw for every error, and draws to be thrown away: two numbers in range, one
\* of them, and one of them twice.
DrawOf(e) ==
    LET least == Min(e) most == Max(e)
    IN CHOOSE draw \in {<<most, 15, least, 14, n, most>> : n \in e \ {least, most}} : TRUE
MCDraws ==
    {DrawOf(e) : e \in kSubset(3, Position)}
    \cup {<<14, 15, 4, 15, 1, 14>>, <<15, 15, 15, 14, 14, 7>>, <<3, 5, 3, 1, 2, 4>>}

\* An eighth of all words, of every weight.
MCWords == {c \in SUBSET Row : SumSet(c) % 8 = 0}

----------------------------------------------------------------------------
(* The sorting network, and the field of the program, at sizes the run does not reach. *)

\* uint64_sort sorts eight values: it is enough to sort zeros and ones.
Eight == INSTANCE Benes WITH GFBITS <- 3
ASSUME NetworkSorts ==
    \A x \in [0 .. 7 -> {0, 1}] : \A i \in 1 .. 7 :
        Eight!uint64_sort(x)[i - 1] <= Eight!uint64_sort(x)[i]

\* GF(2^12) of gf.c: a product is that of polynomials modulo x^12 + x^3 + 1, on the powers
\* of x, and gf_inv inverts every sum of at most two of them.
Chain == (2 :> 1) @@ (4 :> 2) @@ (8 :> 4) @@ (10 :> 2) @@ (11 :> 1)
Of(bits) == INSTANCE Field WITH GFBITS <- bits, Middle <- 3, Added <- Chain, SYS_T <- 64,
                                Tower <- (0 :> {1}) @@ (1 :> {0}) @@ (3 :> {0})
Power(n) == For(1, n, {0}, LAMBDA x, k :
                IF 11 \in x THEN SymDiff({b + 1 : b \in x \ {11}}, {0, 3}) ELSE {b + 1 : b \in x})
ASSUME RealField ==
    /\ \A i, j \in 0 .. 11 : Of(12)!gf_mul({i}, {j}) = Power(i + j)
    /\ \A i, j \in 0 .. 11 : Of(12)!gf_mul({i, j}, Of(12)!gf_inv({i, j})) = {0}
\* The constant-time comparisons, on all words of 2 to 5 bits.
OfWidth(w) == INSTANCE Masks WITH WIDTH <- w
ASSUME ComparisonsRight ==
    \A w \in 2 .. 5 :
        OfWidth(w)!MasksTell /\ OfWidth(w)!ExchangesOrder /\ OfWidth(w)!SortOfPkGenOrders
============================================================================
