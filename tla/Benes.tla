------------------------------- MODULE Benes -------------------------------
(***************************************************************************)
(* Permutations of the 2^GFBITS field elements: the sorting network of     *)
(* uint64_sort.h and int32_sort.h, the control bits of controlbits.c and   *)
(* the network of benes.c that they drive.  A string of bits is the set of *)
(* the positions of its ones.                                              *)
(***************************************************************************)
EXTENDS Goppa

N == 2^GFBITS
Identity(n) == [x \in 0 .. n - 1 |-> x]

----------------------------------------------------------------------------
(* uint64_sort and int32_sort: the same comparisons of N numbers. *)

\* top, top / 2, ... 1 are Distance(1), ... Distance(GFBITS).
Distance(k) == 2^(GFBITS - k)
\* i & p, for a power of two.
Has(i, p) == (i \div p) % 2 = 1

MINMAX(x, a, b) == IF x[b] < x[a] THEN [x EXCEPT ![a] = x[b], ![b] = x[a]] ELSE x

\* The loops over i, r, i, q and p, where p is the m-th half and q the j-th: the second
\* loop over i goes on where that of the previous q stopped.
Compared(x, m) ==
    For(0, N - Distance(m) - 1, x, LAMBDA y, i :
        IF Has(i, Distance(m)) THEN y ELSE MINMAX(y, i, i + Distance(m)))
Inserted(x, m, j, i) ==
    For(j, m - 1, x, LAMBDA y, k : MINMAX(y, i + Distance(m), i + Distance(k)))
Swept(x, m, j) ==
    For(N - 2 * Distance(j), N - Distance(j) - 1, x, LAMBDA y, i :
        IF Has(i, Distance(m)) THEN y ELSE Inserted(y, m, j, i))
Merged(x, m) == For(1, m - 1, x, LAMBDA y, j : Swept(y, m, j))
uint64_sort(x) == For(1, GFBITS, x, LAMBDA y, m : Merged(Compared(y, m), m))

----------------------------------------------------------------------------
(* The permutation of a key: pi[i] is the place of the i-th smallest of    *)
(* perm, in the low bits of what is sorted.                                *)

PermutationOf(values) ==
    LET buf == uint64_sort([i \in 0 .. N - 1 |-> values[i] * N + i])
    IN IF \E i \in 1 .. N - 1 : buf[i - 1] \div N = buf[i] \div N THEN Failure
       ELSE [i \in 0 .. N - 1 |-> buf[i] % N]

SupportOf(order) == [i \in Position |-> bitrev(AsGf(order[i]))]

----------------------------------------------------------------------------
(* Control bits. *)

\* int32_sort of (key << 16) | val: val ordered by the keys, which are 0 .. n - 1.
Sorted(key, val) ==
    Once([k \in DOMAIN key |-> val[CHOOSE x \in DOMAIN key : key[x] = k]])

Flip(x) == IF x % 2 = 0 THEN x + 1 ELSE x - 1
Lesser(a, b) == [x \in DOMAIN a |-> IF b[x] < a[x] THEN b[x] ELSE a[x]]

\* The least element of the cycle of every x under pibar, by doubling; the two
\* packings, of 10 and of 16 bits, hold the same p and c.
Cycles(pibar, w) ==
    LET id == Identity(2^w)
        start == [p |-> Sorted(Sorted(pibar, id), pibar), c |-> Lesser(pibar, id)]
        Doubled(x, inverse) == [p |-> Sorted(inverse, x.p),
                                c |-> Lesser(x.c, Sorted(inverse, x.c))]
    IN For(1, w - 2, start, LAMBDA x, i : Doubled(x, Sorted(x.p, id))).c

\* The call of cbrecursion for order at pos, pos + step, ...: the bits of the first layer
\* and of the last, and the calls, at interleaved places, for the two halves of the
\* permutation that remains.
cbrecursion(pos, step, order, w) ==
    LET n == 2^w
        id == Identity(n)
        pibar == Sorted([x \in 0 .. n - 1 |-> Flip(order[x])], [x \in 0 .. n - 1 |-> order[Flip(x)]])
        c == Cycles(pibar, w)
        F == Once([x \in 0 .. n - 1 |-> IF c[x - (x % 2)] % 2 = 0 THEN x ELSE Flip(x)])
        Fpi == Sorted(Sorted(order, id), F)
        L == Once([y \in 0 .. n - 1 |-> IF Fpi[y - (y % 2)] % 2 = 0 THEN y ELSE Flip(y)])
        M == Sorted(L, Fpi)
        Half(b) == Once([j \in 0 .. n \div 2 - 1 |-> M[2 * j + b] \div 2])
        at == pos + (2 * w - 2) * step * (n \div 2)
        next == pos + step * (n \div 2)
    IN [bits |-> {pos + j * step : j \in {j \in 0 .. n \div 2 - 1 : F[2 * j] # 2 * j}}
                 \cup {at + k * step : k \in {k \in 0 .. n \div 2 - 1 : L[2 * k] # 2 * k}},
        calls |-> {<<next, Half(0)>>, <<next + step, Half(1)>>}]

\* The calls of one depth, from w = GFBITS down to 2; none writes the bits of another.
\* A permutation of two is its one bit.
controlbitsfrompermutation(order) ==
    LET Depth(x, k) ==
            LET done == {cbrecursion(call[1], 2^k, call[2], GFBITS - k) : call \in x.calls}
            IN [bits |-> x.bits \cup UNION {d.bits : d \in done},
                calls |-> UNION {d.calls : d \in done}]
        last == For(0, GFBITS - 2, [bits |-> {}, calls |-> {<<0, order>>}], Depth)
    IN last.bits \cup {call[1] : call \in {call \in last.calls : call[2][0] = 1}}

\* One layer in controlbits.c: pairs at distance 2^s, a bit for each from ptr on.
SwapLayer(p, cb, ptr, s) ==
    LET stride == 2^s
        Partner(x) == IF (x \div stride) % 2 = 0 THEN x + stride ELSE x - stride
        Index(x) == (x \div (2 * stride)) * stride + (x % stride)
    IN Once([x \in DOMAIN p |-> IF ptr + Index(x) \in cb THEN p[Partner(x)] ELSE p[x]])

\* The test of the control bits, which are recomputed until it passes: the network
\* of 2 * GFBITS - 1 layers takes the identity to order.
ControlBitsPass(bits, order) ==
    LET Stride(k) == IF k < GFBITS THEN k ELSE 2 * GFBITS - 2 - k
    IN order = For(0, 2 * GFBITS - 2, Identity(N),
                LAMBDA pi_test, k : SwapLayer(pi_test, bits, k * (N \div 2), Stride(k)))

----------------------------------------------------------------------------
(* benes.c.  The N bits are a square matrix of W words of W bits. *)

\* The program's 4096 bits are 64 words of 64.
ASSUME BenesSizes == GFBITS % 2 = 0

Side == GFBITS \div 2
W == 2^Side
Word == 0 .. W - 1

\* transpose_64x64: bit d of the row is exchanged with bit d of the column, for
\* every d from the highest.
Transposed(in) ==
    LET Exchange(out, d) ==
            [j \in Word |->
                IF Has(j, 2^d)
                THEN {k - 2^d : k \in {k \in out[j - 2^d] : Has(k, 2^d)}}
                     \cup {k \in out[j] : Has(k, 2^d)}
                ELSE {k \in out[j] : ~Has(k, 2^d)}
                     \cup {k + 2^d : k \in {k \in out[j + 2^d] : ~Has(k, 2^d)}}]
    IN For(1, Side, in, LAMBDA out, k : Exchange(out, Side - k))

\* One layer in benes.c: words at distance 2^lgs, a word of bits for each pair.
layer(words, bits, lgs) ==
    LET s == 2^lgs
        First(j) == IF (j \div s) % 2 = 0 THEN j ELSE j - s
        d == [j \in Word |-> SymDiff(words[First(j)], words[First(j) + s])
                             \cap bits[(j \div (2 * s)) * s + (j % s)]]
    IN Once([j \in Word |-> SymDiff(words[j], d[j])])

\* load4 and load8: word i of size bits of the string at ptr.
Load(bits, ptr, i, size) == {b - ptr - i * size : b \in bits \cap (ptr + i * size .. ptr + (i + 1) * size - 1)}
NotTransposed(bits, ptr) == [i \in Word |-> Load(bits, ptr, i, W \div 2)]      \* slip
Narrow(bits, ptr) == Transposed([i \in Word |-> Load(bits, ptr, i, W \div 2)])
Wide(bits, ptr) == [i \in 0 .. W \div 2 - 1 |-> Load(bits, ptr, i, W)]

\* rev = 0: the layers of strides within a word are applied to the transpose.  The
\* program transposes once before and once after each group of such layers; between
\* two layers of a group the transpositions here cancel.
NetworkLayer(bs, bits, k) ==
    LET Stride == (IF k < GFBITS THEN k ELSE 2 * GFBITS - 2 - k) % Side
        cond_ptr == k * (N \div 2)
    IN IF k < Side \/ 2 * GFBITS - 1 - k <= Side
       THEN Transposed(layer(Transposed(bs), Narrow(bits, cond_ptr), Stride))
       ELSE layer(bs, Wide(bits, cond_ptr), Stride)

apply_benes(in, bits) ==
    LET bs == For(0, 2 * GFBITS - 2, [i \in Word |-> Load(in, 0, i, W)],
                  LAMBDA x, k : NetworkLayer(x, bits, k))
    IN {i \in 0 .. N - 1 : i % W \in bs[i \div W]}

support_gen(bits) ==
    LET L == Once([j \in 0 .. GFBITS - 1 |->
                apply_benes({i \in 0 .. N - 1 : j \in bitrev(AsGf(i))}, bits)])
    IN Once([i \in Position |-> {j \in 0 .. GFBITS - 1 : i \in L[j]}])
============================================================================
