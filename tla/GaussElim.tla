----------------------------- MODULE GaussElim -----------------------------
(***************************************************************************)
(* The Gaussian elimination of pk_gen (crypto/McEliece/pk_gen.c), which    *)
(* the accelerated Versat_pk_gen replaces and has to agree with.  The      *)
(* matrix is reduced one pivot row at a time: the rows below are folded    *)
(* into the pivot row until its pivot bit is one, then the pivot row is    *)
(* added to every other row that has that bit.  A matrix whose left block  *)
(* is singular cannot be brought to systematic form; pk_gen then returns   *)
(* -1 and the key generation fills in another one.                         *)
(***************************************************************************)
EXTENDS BitRows

VARIABLES
    mat0,   \* the matrix this attempt started from (history)
    mat,    \* the matrix being reduced
    row,    \* the pivot row
    k,      \* the row to be combined with it next
    phase   \* the loop the elimination is in

vars == <<mat0, mat, row, k, phase>>

Phase == {"pivot", "clear", "done", "fail"}

TypeOK ==
    /\ mat0 \in [Row -> SUBSET Bit]
    /\ mat \in [Row -> SUBSET Bit]
    /\ row \in Row
    /\ k \in 0 .. PK_NROWS
    /\ phase \in Phase

Init ==
    /\ mat \in Matrices
    /\ mat0 = mat
    /\ row = 0
    /\ k = Below(0)
    /\ phase = "pivot"

\* The pivot bits of the pivot row and of row k differ.  The slip looks at the
\* one of row k alone.
DiffersOneSided == row \in mat[k]
Differs == (row \in mat[row]) # (row \in mat[k])

\* Fold row k into the pivot row when their pivot bits differ.
Pivot ==
    /\ phase = "pivot"
    /\ k < PK_NROWS
    /\ mat' = [mat EXCEPT ![row] = Xor(@, Masked(mat[k], Differs))]
    /\ k' = Below(k)
    /\ UNCHANGED <<mat0, row, phase>>

\* The pivot bit is still zero: the matrix is not systematic.
NotSystematic ==
    /\ phase = "pivot"
    /\ k = PK_NROWS
    /\ row \notin mat[row]
    /\ phase' = "fail"
    /\ UNCHANGED <<mat0, mat, row, k>>

StartClear ==
    /\ phase = "pivot"
    /\ k = PK_NROWS
    /\ row \in mat[row]
    /\ phase' = "clear"
    /\ k' = FirstOther(row)
    /\ UNCHANGED <<mat0, mat, row>>

\* Add the pivot row to row k when row k has the pivot bit, and move on to the
\* next row, or to the next pivot after the last one.
Clear ==
    /\ phase = "clear"
    /\ mat' = [mat EXCEPT ![k] = Xor(@, Masked(mat[row], row \in mat[k]))]
    /\ \/ /\ NextOther(k, row) < PK_NROWS
          /\ k' = NextOther(k, row)
          /\ UNCHANGED <<row, phase>>
       \/ /\ NextOther(k, row) >= PK_NROWS
          /\ row < PK_NROWS - 1
          /\ row' = row + 1
          /\ k' = Below(row + 1)
          /\ phase' = "pivot"
       \/ /\ NextOther(k, row) >= PK_NROWS
          /\ row = PK_NROWS - 1
          /\ phase' = "done"
          /\ UNCHANGED <<row, k>>
    /\ UNCHANGED mat0

\* The caller's loop: a failed attempt is followed by one on a new matrix.
Retry ==
    /\ phase = "fail"
    /\ mat' \in Matrices
    /\ mat0' = mat'
    /\ row' = 0
    /\ k' = Below(0)
    /\ phase' = "pivot"

Next == Pivot \/ NotSystematic \/ StartClear \/ Clear \/ Retry

Spec == Init /\ [][Next]_vars

----------------------------------------------------------------------------
\* The rows of m that are in S, added up: a one where an odd number of them has it.
Combine(m, S) == {b \in Bit : Cardinality({r \in S : b \in m[r]}) % 2 = 1}

\* The left block of m has a dependent set of rows.
Singular(m) == \E S \in SUBSET Row : S # {} /\ Combine(m, S) \cap Row = {}

RowSpace(m) == {Combine(m, S) : S \in SUBSET Row}

\* A finished elimination leaves the identity in the left block, which is what
\* lets pk_gen publish the right block alone.
Systematic ==
    phase = "done" => \A r \in Row : mat[r] \cap Row = {r}

\* The elimination gives up on the matrices whose left block is singular, and
\* on no other: a reducible matrix is never thrown away, a singular one never
\* published.
FailsIffSingular ==
    /\ phase = "fail" => Singular(mat0)
    /\ phase = "done" => ~Singular(mat0)

\* Every step keeps the row space: the published matrix is a parity check of
\* the same code as the secret one.
RowSpaceKept == RowSpace(mat) = RowSpace(mat0)
============================================================================
