------------------------------- MODULE Goppa -------------------------------
(***************************************************************************)
(* The Goppa code of a key: its polynomial (sk_gen.c), its key matrix      *)
(* (pk_gen.c, versat_mceliece.c) and its decoder (synd.c, bm.c, decrypt.c). *)
(* A word is the set of the positions of its ones.                         *)
(***************************************************************************)
EXTENDS Field

CONSTANT SYS_N                          \* length of the code

ASSUME CodeSizes == SYS_N \in GFBITS * SYS_T .. 2^GFBITS

PK_NROWS == GFBITS * SYS_T
Position == 0 .. SYS_N - 1
Row == 0 .. PK_NROWS - 1                \* also the bits of a ciphertext

Failure == << >>                        \* the return value -1: no result

----------------------------------------------------------------------------
(* genpoly_gen.  Column c of mat is f^c; elimination on the first SYS_T    *)
(* columns leaves f^SYS_T as a combination of the lower powers.            *)

Powers(f) ==
    LET first == [i \in 0 .. SYS_T - 1 |-> IF i = 0 THEN One ELSE Zero]
        start == [c \in 0 .. SYS_T |-> IF c = 0 THEN first ELSE f]
    IN For(2, SYS_T, start, LAMBDA mat, c : [mat EXCEPT ![c] = GF_mul(mat[c - 1], f)])

\* Row k of every column from j on is added to row j while the diagonal is zero; a
\* slip is to leave that out.
Untouched(mat, j) == mat
WithDiagonal(mat, j) ==
    For(j + 1, SYS_T - 1, mat, LAMBDA x, k :
        IF x[j][j] # Zero THEN x
        ELSE [c \in DOMAIN x |->
                IF c < j THEN x[c] ELSE [x[c] EXCEPT ![j] = gf_add(@, x[c][k])]])

\* Row j is divided by its diagonal and cleared from the other rows.
Cleared(mat, j) ==
    LET Scaled(c) == Mul[mat[c][j]][Inv[mat[j][j]]]
    IN [c \in DOMAIN mat |->
            IF c < j THEN mat[c]
            ELSE [k \in DOMAIN mat[c] |->
                    IF k = j THEN Scaled(c) ELSE gf_add(mat[c][k], Mul[Scaled(c)][mat[j][k]])]]

genpoly_gen(f) ==
    LET Eliminate(mat, j) ==
            IF mat = Failure \/ mat[j][j] = Zero THEN Failure ELSE Cleared(mat, j)
        reduced == For(0, SYS_T - 1, Powers(f), LAMBDA mat, j :
                       Eliminate(IF mat = Failure THEN mat ELSE WithDiagonal(mat, j), j))
    IN IF reduced = Failure THEN Failure ELSE reduced[SYS_T]

\* g[SYS_T] = 1: the coefficients are stored without the leading one.
Monic(f) == [n \in 0 .. SYS_T |-> IF n = SYS_T THEN One ELSE f[n]]

----------------------------------------------------------------------------
(* The key matrix.  Row i * GFBITS + k holds bit k of L[j]^i / g(L[j]) in  *)
(* column j.                                                               *)

KeyMatrix(g, L) ==
    LET images == root(g, L)
        inv(i) == For(1, i, [j \in Position |-> Inv[images[j]]],
                      LAMBDA x, k : [j \in Position |-> Mul[x[j]][L[j]]])
        values == Once([i \in 0 .. SYS_T - 1 |-> inv(i)])
    IN [n \in Row |-> {j \in Position : n % GFBITS \in values[n \div GFBITS][j]}]

\* The loop over the rows below adds those that differ from row n in bit n: the
\* first that has the bit if row n lacks it, then those without it.
Accumulated(mat, n) ==
    For(n + 1, PK_NROWS - 1, mat[n], LAMBDA row, k :
        IF (n \in row) # (n \in mat[k]) THEN SymDiff(row, mat[k]) ELSE row)

\* The elimination, followed row by row in GaussElim, leaves the rows behind the
\* identity block or fails.
SystematicRows(matrix) ==
    LET Clear(mat, row, n) ==
            IF n \notin row THEN Failure
            ELSE [k \in Row |-> CASE k = n -> row
                                  [] k # n /\ n \in mat[k] -> SymDiff(mat[k], row)
                                  [] OTHER -> mat[k]]
        reduced == For(0, PK_NROWS - 1, matrix, LAMBDA mat, n :
                       IF mat = Failure THEN Failure
                       ELSE Clear(mat, Once(Accumulated(mat, n)), n))
    IN IF reduced = Failure THEN Failure ELSE [k \in Row |-> reduced[k] \ Row]

----------------------------------------------------------------------------
(* The decoder. *)

\* The 2t sums of L[i]^j / g(L[i])^2 over the ones of a word.
synd(g, L, word) ==
    LET e == root(g, L)
        e_inv(j) == For(1, j, [i \in word |-> Inv[Mul[e[i]][e[i]]]],
                        LAMBDA x, k : [i \in word |-> Mul[x[i]][L[i]]])
    IN Once([j \in 0 .. 2 * SYS_T - 1 |-> Total(e_inv(j))])

Shifted(B) == [i \in DOMAIN B |-> IF i = 0 THEN Zero ELSE B[i - 1]]

\* Berlekamp-Massey: the shortest recurrence of s, its coefficients reversed.  The
\* recurrence found so far becomes longer in round n; a slip is an off-by-one there.
LongerFromNext(x, n, d) == d # Zero /\ n > 2 * x.L
Longer(x, n, d) == d # Zero /\ n >= 2 * x.L
bm(s) ==
    LET start == [C |-> [i \in 0 .. SYS_T |-> IF i = 0 THEN One ELSE Zero],
                  B |-> [i \in 0 .. SYS_T |-> IF i = 1 THEN One ELSE Zero],
                  L |-> 0, b |-> One]
        Discrepancy(x, n) == Total([i \in {i \in 0 .. SYS_T : i <= n} |-> Mul[x.C[i]][s[n - i]]])
        Round(x, n, d) ==
            LET ratio == gf_frac(x.b, d)
                longer == Longer(x, n, d)
            IN [C |-> [i \in 0 .. SYS_T |-> gf_add(x.C[i], Mul[ratio][x.B[i]])],
                B |-> Shifted(IF longer THEN x.C ELSE x.B),
                L |-> IF longer THEN n + 1 - x.L ELSE x.L,
                b |-> IF longer THEN d ELSE x.b]
        last == For(0, 2 * SYS_T - 1, start, LAMBDA x, n : Round(x, n, Discrepancy(x, n)))
    IN [i \in 0 .. SYS_T |-> last.C[SYS_T - i]]

\* The error is where the locator vanishes; it is accepted if it has weight SYS_T
\* and the syndrome of the ciphertext followed by zeros.  A slip is to look at the
\* weight alone.
WeightOnly(e, s, s_cmp) == Cardinality(e) = SYS_T
Accepted(e, s, s_cmp) == Cardinality(e) = SYS_T /\ s = s_cmp
decrypt(g, L, c) ==
    LET s == synd(g, L, c)
        images == root(Once(bm(s)), L)
        e == Once({i \in Position : images[i] = Zero})
    IN [e |-> e, ok |-> Accepted(e, s, synd(g, L, e))]
============================================================================
