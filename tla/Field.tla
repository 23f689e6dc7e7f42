------------------------------- MODULE Field -------------------------------
(***************************************************************************)
(* Arithmetic of the Goppa code: gf.c, root.c and the bit reversal of      *)
(* util.c.  An element of GF(2^GFBITS) is the set of the bits that are one *)
(* in its `gf', so that gf_add is symmetric difference.  An element of the *)
(* extension of degree SYS_T is a function from 0 .. SYS_T - 1 to such     *)
(* elements, and a polynomial of degree SYS_T one from 0 .. SYS_T.         *)
(***************************************************************************)
EXTENDS Integers, FiniteSetsExt, Functions

CONSTANTS
    GFBITS, SYS_T,
    Middle,     \* the field is that of x^GFBITS + x^Middle + 1 (3 in gf.c)
    Added,      \* gf_inv: squarings in the step that makes a run of k ones
    Tower       \* GF_mul: what y^SYS_T is, as a function of some exponents

\* v itself, and a loop over k = first .. last that updates x.  A value bound by a
\* set is computed by TLC once, and not at every use.
Once(v) == CHOOSE x \in {v} : x = x
For(first, last, start, Body(_, _)) ==
    LET after[k \in first - 1 .. last] ==
            IF k < first THEN start
            ELSE CHOOSE y \in {Body(x, k) : x \in {after[k - 1]}} : TRUE
    IN Once(after[last])

GF == SUBSET (0 .. GFBITS - 1)
Zero == {}
One == {0}

ASSUME FieldSizes ==
    /\ GFBITS \in Nat /\ SYS_T \in Nat /\ SYS_T > 1
    /\ Middle \in 1 .. GFBITS \div 2
    /\ Added \in [2 .. GFBITS - 1 -> 1 .. GFBITS - 1]
    /\ DOMAIN Tower \subseteq 0 .. SYS_T - 1
    /\ \A n \in DOMAIN Tower : Tower[n] \in GF

gf_add(a, b) == SymDiff(a, b)
Total(terms) == FoldFunction(gf_add, Zero, terms)

\* tmp ^= t >> 9; tmp ^= t >> 12, where t holds the bits of tmp from first to last.
Folded(tmp, first, last) ==
    LET t == tmp \cap (first .. last)
    IN gf_add(gf_add(tmp, {b - (GFBITS - Middle) : b \in t}), {b - GFBITS : b \in t})

\* The bits that fold onto others above GFBITS first (0x7FC000), then the rest (0x3000).
Reduced(tmp) ==
    LET high == GFBITS + Middle - 1
    IN Folded(Folded(tmp, high, 2 * GFBITS - 2), GFBITS, high - 1) \cap (0 .. GFBITS - 1)

Product(a, b) ==
    {n \in 0 .. 2 * GFBITS - 2 : Cardinality({i \in a : n - i \in b}) % 2 = 1}
gf_mul(a, b) == Reduced(Product(a, b))
gf_sq(a) == Reduced({2 * i : i \in a})

\* The exponent is GFBITS - 1 ones and a zero.  run[k] is a to the power of k ones.
gf_inv(a) ==
    LET Squared(b, n) == For(1, n, b, LAMBDA x, k : gf_sq(x))
        run[k \in 1 .. GFBITS - 1] ==
            IF k = 1 THEN a ELSE gf_mul(Squared(run[k - Added[k]], Added[k]), run[Added[k]])
    IN gf_sq(run[GFBITS - 1])

\* The products and inverses of all elements, computed once.
Mul == [a \in GF |-> [b \in GF |-> gf_mul(a, b)]]
Inv == [a \in GF |-> gf_inv(a)]
gf_frac(den, num) == Mul[Inv[den]][num]

\* In the extension: the product of two polynomials, whose terms are replaced from
\* the highest down by what Tower says.
GF_mul(a, b) ==
    LET Factors(n) == {i \in DOMAIN a : n - i \in DOMAIN b}
        prod == [n \in 0 .. 2 * SYS_T - 2 |->
                    Total([i \in Factors(n) |-> Mul[a[i]][b[n - i]]])]
        Replaced(x, n) ==
            [i \in DOMAIN x |->
                IF i - n + SYS_T \in DOMAIN Tower
                THEN gf_add(x[i], Mul[x[n]][Tower[i - n + SYS_T]]) ELSE x[i]]
        rest == For(0, SYS_T - 2, prod, LAMBDA x, k : Replaced(x, 2 * SYS_T - 2 - k))
    IN [n \in DOMAIN a |-> rest[n]]

\* Horner's rule, and the values of a polynomial on a support.
eval(p, a) == For(1, SYS_T, p[SYS_T], LAMBDA v, k : gf_add(Mul[v][a], p[SYS_T - k]))
root(p, L) == Once([i \in DOMAIN L |-> eval(p, L[i])])

bitrev(a) == {GFBITS - 1 - i : i \in a}
\* The element whose bits are those of an integer.
AsGf(n) == {i \in 0 .. GFBITS - 1 : (n \div 2^i) % 2 = 1}
============================================================================
