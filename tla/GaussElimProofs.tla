-------------------------- MODULE GaussElimProofs --------------------------
(***************************************************************************)
(* What is proved of the reference elimination, for all dimensions and     *)
(* all matrices: it leaves the identity in the left block, keeps the row   *)
(* space, and fails exactly on the matrices whose left block is singular.  *)
(*                                                                         *)
(* Systematic is not inductive: the columns left of the pivot have to be   *)
(* unit columns all along, and inside the clear loop the pivot column has  *)
(* to be zero in the rows passed so far.  The row space is kept because a  *)
(* step adds one row to another, which only renames the sums of rows, and  *)
(* a matrix that is given up has more sets of rows than sums in the left   *)
(* block, so two of them have the same sum.                                *)
(***************************************************************************)
EXTENDS GaussElim, FiniteSetTheorems, TLAPS

\* The columns left of the pivot are unit columns.
UnitColumns == \A c \in Row : c < row => \A r \in Row : c \in mat[r] <=> r = c

\* The pivot loop works on the rows below the pivot.
PivotInv == phase = "pivot" => k > row

\* The clear loop has a pivot, and has removed it from the rows before k.
ClearInv ==
    phase = "clear" =>
        /\ k \in Row
        /\ k # row
        /\ row \in mat[row]
        /\ \A r \in Row : r < k /\ r # row => row \notin mat[r]

IInv == TypeOK /\ UnitColumns /\ PivotInv /\ ClearInv /\ Systematic

\* Adding two rows gives a row, with a one where exactly one of them has it.
LEMMA XorBits ==
    ASSUME NEW a \in SUBSET Bit, NEW b \in SUBSET Bit, NEW m \in BOOLEAN
    PROVE  /\ Xor(a, Masked(b, m)) \in SUBSET Bit
           /\ \A c : c \in Xor(a, Masked(b, m)) <=> ((c \in a) # (m /\ c \in b))
  BY DEF Xor, Masked, SymDiff

\* A loop that skips row r and starts at the first other row stays off r, and
\* leaves out no row but r.
LEMMA NextOtherRow ==
    ASSUME NEW r \in Row, NEW i \in Row \cup {-1}, i # r
    PROVE  /\ NextOther(i, r) \in Nat
           /\ NextOther(i, r) > i
           /\ NextOther(i, r) # r
           /\ \A j \in Row : i < j /\ j # r => NextOther(i, r) <= j
  BY Dimensions DEF NextOther, Row

LEMMA InitInv == Init => IInv
  BY Dimensions, MatricesAreBits
     DEF Init, IInv, Below, TypeOK, UnitColumns, PivotInv, ClearInv, Systematic, Row, Phase

LEMMA PivotStep == IInv /\ Pivot => IInv'
  <1> SUFFICES ASSUME IInv, Pivot PROVE IInv'
    OBVIOUS
  <1> USE Dimensions DEF Below
  <1>1. k \in Row /\ row \in Row /\ k > row
    BY DEF IInv, TypeOK, PivotInv, Pivot, Row
  <1>2. mat' = [mat EXCEPT ![row] = Xor(mat[row], Masked(mat[k], Differs))]
    BY DEF Pivot
  <1>3. /\ mat'[row] \in SUBSET Bit
        /\ \A c : c \in mat'[row] <=> ((c \in mat[row]) # (Differs /\ c \in mat[k]))
    <2>1. mat \in [Row -> SUBSET Bit]
      BY DEF IInv, TypeOK
    <2>2. mat[row] \in SUBSET Bit /\ mat[k] \in SUBSET Bit
      BY <2>1, <1>1
    <2>3. mat'[row] = Xor(mat[row], Masked(mat[k], Differs))
      BY <2>1, <1>1, <1>2
    <2>4. Differs \in BOOLEAN
      BY DEF Differs
    <2> QED
      BY <2>2, <2>3, <2>4, XorBits
  <1>4. TypeOK'
    BY <1>1, <1>2, <1>3 DEF IInv, TypeOK, Pivot, Row, Phase
  <1>5. UnitColumns'
    <2> SUFFICES ASSUME NEW c \in Row, c < row, NEW r \in Row
                 PROVE  c \in mat'[r] <=> r = c
      BY DEF UnitColumns, Pivot
    <2>1. CASE r = row
      <3>1. c \notin mat[row] /\ c \notin mat[k]
        BY <1>1 DEF IInv, UnitColumns, Row
      <3> QED
        BY <2>1, <3>1, <1>3 DEF Row
    <2>2. CASE r # row
      <3>1. mat'[r] = mat[r]
        BY <2>2, <1>2 DEF IInv, TypeOK
      <3> QED
        BY <3>1 DEF IInv, UnitColumns
    <2> QED
      BY <2>1, <2>2
  <1>6. PivotInv' /\ ClearInv' /\ Systematic'
    BY <1>1 DEF Pivot, PivotInv, ClearInv, Systematic, Row
  <1> QED
    BY <1>4, <1>5, <1>6 DEF IInv

LEMMA StartClearStep == IInv /\ StartClear => IInv'
  <1> SUFFICES ASSUME IInv, StartClear PROVE IInv'
    OBVIOUS
  <1> USE Dimensions DEF Below
  <1>1. row \in Row /\ FirstOther(row) \in Row /\ FirstOther(row) # row
    BY DEF IInv, TypeOK, FirstOther, NextOther, Row
  <1>2. \A j \in Row : j # row => FirstOther(row) <= j
    BY <1>1, NextOtherRow DEF FirstOther, Row
  <1>3. TypeOK'
    BY <1>1 DEF IInv, TypeOK, StartClear, Row, Phase
  <1>4. UnitColumns' /\ PivotInv' /\ Systematic'
    BY DEF IInv, UnitColumns, PivotInv, Systematic, StartClear
  <1>5. ClearInv'
    BY <1>1, <1>2 DEF ClearInv, StartClear, Row
  <1> QED
    BY <1>3, <1>4, <1>5 DEF IInv

LEMMA ClearStep == IInv /\ Clear => IInv'
  <1> SUFFICES ASSUME IInv, Clear PROVE IInv'
    OBVIOUS
  <1> USE Dimensions DEF Below
  <1> DEFINE has == row \in mat[k]
             next == NextOther(k, row)
  <1>1. /\ k \in Row /\ row \in Row /\ k # row
        /\ row \in mat[row]
        /\ \A r \in Row : r < k /\ r # row => row \notin mat[r]
        /\ phase = "clear"
    BY DEF IInv, TypeOK, ClearInv, Clear
  <1>2. /\ mat \in [Row -> SUBSET Bit]
        /\ mat' = [mat EXCEPT ![k] = Xor(mat[k], Masked(mat[row], has))]
    BY DEF IInv, TypeOK, Clear
  <1>3. /\ mat'[k] \in SUBSET Bit
        /\ \A c : c \in mat'[k] <=> ((c \in mat[k]) # (has /\ c \in mat[row]))
    <2>1. mat[row] \in SUBSET Bit /\ mat[k] \in SUBSET Bit
      BY <1>1, <1>2
    <2>2. mat'[k] = Xor(mat[k], Masked(mat[row], has))
      BY <1>1, <1>2
    <2>3. has \in BOOLEAN
      OBVIOUS
    <2> HIDE DEF has
    <2> QED
      BY <2>1, <2>2, <2>3, XorBits
  <1>4. mat' \in [Row -> SUBSET Bit] /\ \A r \in Row : r # k => mat'[r] = mat[r]
    BY <1>1, <1>2, <1>3
  <1>5. next \in Nat /\ next > k /\ next # row
        /\ \A j \in Row : k < j /\ j # row => next <= j
    BY <1>1, NextOtherRow
  \* The columns left of the pivot keep their values, for the pivot row is zero
  \* there.
  <1>6. \A c \in Row : c < row => \A r \in Row : c \in mat'[r] <=> r = c
    <2> SUFFICES ASSUME NEW c \in Row, c < row, NEW r \in Row
                 PROVE  c \in mat'[r] <=> r = c
      OBVIOUS
    <2>1. c \notin mat[row] /\ (c \in mat[r] <=> r = c)
      BY <1>1 DEF IInv, UnitColumns, Row
    <2> HIDE DEF has
    <2> QED
      BY <2>1, <1>3, <1>4
  \* The pivot column is zero in the rows up to k now.
  <1>7. row \in mat'[row] /\ \A r \in Row : r <= k /\ r # row => row \notin mat'[r]
    <2>1. row \in mat'[row]
      BY <1>1, <1>4
    <2>2. row \notin mat'[k]
      BY <1>1, <1>3
    <2>3. ASSUME NEW r \in Row, r < k, r # row PROVE row \notin mat'[r]
      BY <2>3, <1>1, <1>4 DEF Row
    <2> QED
      BY <2>1, <2>2, <2>3, <1>1 DEF Row
  <1>8. CASE next < PK_NROWS /\ k' = next /\ UNCHANGED <<row, phase>>
    <2>1. TypeOK'
      BY <1>4, <1>5, <1>8 DEF IInv, TypeOK, Clear, Row
    <2>2. ClearInv'
      <3>1. next \in Row
        BY <1>5, <1>8 DEF Row
      <3>2. ASSUME NEW r \in Row, r < next, r # row PROVE row \notin mat'[r]
        BY <3>2, <1>1, <1>5, <1>7 DEF Row
      <3> QED
        BY <3>1, <3>2, <1>5, <1>7, <1>8 DEF ClearInv
    <2>3. UnitColumns' /\ PivotInv' /\ Systematic'
      BY <1>1, <1>6, <1>8 DEF UnitColumns, PivotInv, Systematic
    <2> QED
      BY <2>1, <2>2, <2>3 DEF IInv
  \* The last row is done: the pivot column is a unit column.
  <1>9. next >= PK_NROWS => \A c \in Row : c <= row =>
                                \A r \in Row : c \in mat'[r] <=> r = c
    <2> SUFFICES ASSUME next >= PK_NROWS, NEW r \in Row
                 PROVE  row \in mat'[r] <=> r = row
      BY <1>1, <1>6 DEF Row
    <2> QED
      BY <1>1, <1>5, <1>7 DEF Row
  <1>10. CASE /\ next >= PK_NROWS
              /\ row < PK_NROWS - 1
              /\ row' = row + 1 /\ k' = Below(row + 1) /\ phase' = "pivot"
    <2>1. TypeOK'
      BY <1>1, <1>4, <1>10 DEF IInv, TypeOK, Clear, Row, Phase
    <2>2. UnitColumns'
      BY <1>1, <1>9, <1>10 DEF UnitColumns, Row
    <2>3. PivotInv' /\ ClearInv' /\ Systematic'
      BY <1>1, <1>10 DEF PivotInv, ClearInv, Systematic, Row
    <2> QED
      BY <2>1, <2>2, <2>3 DEF IInv
  <1>11. CASE /\ next >= PK_NROWS
              /\ row = PK_NROWS - 1
              /\ phase' = "done" /\ UNCHANGED <<row, k>>
    <2>1. TypeOK'
      BY <1>4, <1>11 DEF IInv, TypeOK, Clear, Phase
    <2>2. \A c \in Row : \A r \in Row : c \in mat'[r] <=> r = c
      BY <1>9, <1>11 DEF Row
    <2>3. UnitColumns' /\ PivotInv' /\ ClearInv' /\ Systematic'
      BY <2>2, <1>11 DEF UnitColumns, PivotInv, ClearInv, Systematic
    <2> QED
      BY <2>1, <2>3 DEF IInv
  <1> QED
    BY <1>8, <1>10, <1>11 DEF Clear

LEMMA NextInv == IInv /\ [Next]_vars => IInv'
  <1> SUFFICES ASSUME IInv, [Next]_vars PROVE IInv'
    OBVIOUS
  <1>1. CASE Pivot
    BY <1>1, PivotStep
  <1>2. CASE NotSystematic
    BY <1>2 DEF NotSystematic, IInv, TypeOK, UnitColumns, PivotInv, ClearInv,
                Systematic, Phase
  <1>3. CASE StartClear
    BY <1>3, StartClearStep
  <1>4. CASE Clear
    BY <1>4, ClearStep
  <1>5. CASE Retry
    BY <1>5, Dimensions, MatricesAreBits
       DEF Retry, IInv, Below, TypeOK, UnitColumns, PivotInv, ClearInv, Systematic,
           Row, Phase
  <1>6. CASE UNCHANGED vars
    BY <1>6 DEF vars, IInv, TypeOK, UnitColumns, PivotInv, ClearInv, Systematic
  <1> QED
    BY <1>1, <1>2, <1>3, <1>4, <1>5, <1>6 DEF Next

LEMMA Invariance == Spec => []IInv
  BY InitInv, NextInv, PTL DEF Spec

\* The variables of pk_gen's elimination stay in their ranges.
THEOREM TypeCorrect == Spec => []TypeOK
  <1>1. IInv => TypeOK
    BY DEF IInv
  <1> QED
    BY <1>1, Invariance, PTL

\* When pk_gen reports success, the left block of the matrix is the identity.
THEOREM SystematicForm == Spec => []Systematic
  <1>1. IInv => Systematic
    BY DEF IInv
  <1> QED
    BY <1>1, Invariance, PTL

----------------------------------------------------------------------------
(* Sums of rows.  A sum has a one where an odd number of its rows has it,   *)
(* so that what is proved is about the parity of symmetric differences.     *)

Odd(P) == Cardinality(P) % 2 = 1

\* The rows of S with a one in column c.
Reaches(m, S, c) == {r \in S : c \in m[r]}

LEMMA SumOfParities ==
    ASSUME NEW a \in Nat, NEW b \in Nat, NEW i \in Nat
    PROVE  (a + b) % 2 = 1 <=> ~((a + i) % 2 = 1 <=> (b + i) % 2 = 1)
  BY Z3

LEMMA OddDifference ==
    ASSUME NEW P, NEW Q, IsFiniteSet(P), IsFiniteSet(Q)
    PROVE  Odd(SymDiff(P, Q)) <=> ~(Odd(P) <=> Odd(Q))
  <1> DEFINE a == Cardinality(P \ Q)
             b == Cardinality(Q \ P)
             i == Cardinality(P \cap Q)
  <1>1. IsFiniteSet(P \ Q) /\ IsFiniteSet(Q \ P) /\ IsFiniteSet(P \cap Q)
    BY FS_Difference, FS_Intersection
  <1>2. a \in Nat /\ b \in Nat /\ i \in Nat
    BY <1>1, FS_CardinalityType
  <1>3. Cardinality(SymDiff(P, Q)) = a + b
    <2>1. SymDiff(P, Q) = (P \ Q) \cup (Q \ P)
      BY DEF SymDiff
    <2>2. (P \ Q) \cap (Q \ P) = {}
      OBVIOUS
    <2>3. Cardinality((P \ Q) \cup (Q \ P)) = a + b - Cardinality({})
      BY <1>1, <2>2, FS_Union
    <2> QED
      BY <1>2, <2>1, <2>3, FS_EmptySet
  <1>4. Cardinality(P) = a + i /\ Cardinality(Q) = b + i
    <2>1. a = Cardinality(P) - i
      BY FS_Difference
    <2>2. b = Cardinality(Q) - Cardinality(Q \cap P) /\ Q \cap P = P \cap Q
      BY FS_Difference
    <2>3. Cardinality(P) \in Nat /\ Cardinality(Q) \in Nat
      BY FS_CardinalityType
    <2>4. b = Cardinality(Q) - i
      BY <2>2
    <2> HIDE DEF a, b, i
    <2> QED
      BY <1>2, <2>1, <2>3, <2>4
  <1> HIDE DEF a, b, i
  <1> QED
    BY <1>2, <1>3, <1>4, SumOfParities DEF Odd

LEMMA RowsAreFinite ==
    ASSUME NEW S \in SUBSET Row
    PROVE  IsFiniteSet(S) /\ \A m, c : IsFiniteSet(Reaches(m, S, c))
  <1>1. IsFiniteSet(Row)
    <2>1. 0 \in Int /\ PK_NROWS - 1 \in Int
      BY Dimensions
    <2> QED
      BY <2>1, FS_Interval DEF Row
  <1>2. IsFiniteSet(S)
    BY <1>1, FS_Subset
  <1>3. \A m, c : Reaches(m, S, c) \in SUBSET S
    BY DEF Reaches
  <1> QED
    BY <1>2, <1>3, FS_Subset

LEMMA OddReaches ==
    ASSUME NEW m, NEW S
    PROVE  \A c : c \in Combine(m, S) <=> c \in Bit /\ Odd(Reaches(m, S, c))
  BY DEF Combine, Odd, Reaches

\* The sum over a symmetric difference is the sum of the sums.
LEMMA CombineDifference ==
    ASSUME NEW m, NEW S \in SUBSET Row, NEW T \in SUBSET Row
    PROVE  Combine(m, SymDiff(S, T)) = SymDiff(Combine(m, S), Combine(m, T))
  <1>1. ASSUME NEW c
        PROVE  Odd(Reaches(m, SymDiff(S, T), c))
                  <=> ~(Odd(Reaches(m, S, c)) <=> Odd(Reaches(m, T, c)))
    <2>1. Reaches(m, SymDiff(S, T), c) = SymDiff(Reaches(m, S, c), Reaches(m, T, c))
      BY DEF Reaches, SymDiff
    <2>2. IsFiniteSet(Reaches(m, S, c)) /\ IsFiniteSet(Reaches(m, T, c))
      BY RowsAreFinite
    <2> QED
      BY <2>1, <2>2, OddDifference
  <1>2. \A c : c \in Combine(m, SymDiff(S, T))
                  <=> c \in SymDiff(Combine(m, S), Combine(m, T))
    <2> SUFFICES ASSUME NEW c
                 PROVE  c \in Combine(m, SymDiff(S, T))
                           <=> c \in SymDiff(Combine(m, S), Combine(m, T))
      OBVIOUS
    <2>1. c \in SymDiff(Combine(m, S), Combine(m, T))
             <=> ~(c \in Combine(m, S) <=> c \in Combine(m, T))
      BY DEF SymDiff
    <2>2. /\ c \in Combine(m, SymDiff(S, T)) <=> c \in Bit /\ Odd(Reaches(m, SymDiff(S, T), c))
          /\ c \in Combine(m, S) <=> c \in Bit /\ Odd(Reaches(m, S, c))
          /\ c \in Combine(m, T) <=> c \in Bit /\ Odd(Reaches(m, T, c))
      BY OddReaches
    <2> QED
      BY <1>1, <2>1, <2>2
  <1> QED
    BY <1>2

----------------------------------------------------------------------------
(* A row is added to another.                                               *)

\* The rows that add up, before row a is added to row b, to what those of S add up
\* to afterwards.
Before(S, a, b) == IF b \in S THEN SymDiff(S, {a}) ELSE S

LEMMA BeforeIsBijection ==
    ASSUME NEW a \in Row, NEW b \in Row, a # b, NEW S \in SUBSET Row
    PROVE  /\ Before(S, a, b) \in SUBSET Row
           /\ Before(Before(S, a, b), a, b) = S
           /\ Before(S, a, b) = {} <=> S = {}
  <1>1. CASE b \in S
    <2>1. Before(S, a, b) = SymDiff(S, {a}) /\ b \in SymDiff(S, {a})
      BY <1>1 DEF Before, SymDiff
    <2>2. Before(SymDiff(S, {a}), a, b) = SymDiff(SymDiff(S, {a}), {a})
      BY <2>1 DEF Before
    <2>3. SymDiff(SymDiff(S, {a}), {a}) = S /\ SymDiff(S, {a}) \in SUBSET Row
      BY DEF SymDiff
    <2> QED
      BY <1>1, <2>1, <2>2, <2>3
  <1>2. CASE b \notin S
    BY <1>2 DEF Before
  <1> QED
    BY <1>1, <1>2

\* n is m with row a added to row b.
Added(m, a, b, n) == \A r \in Row : n[r] = IF r = b THEN SymDiff(m[b], m[a]) ELSE m[r]

LEMMA RowAdded ==
    ASSUME NEW m, NEW a \in Row, NEW b \in Row, a # b, NEW n, Added(m, a, b, n),
           NEW S \in SUBSET Row
    PROVE  Combine(n, S) = Combine(m, Before(S, a, b))
  <1>1. \A r \in Row : n[r] = IF r = b THEN SymDiff(m[b], m[a]) ELSE m[r]
    BY DEF Added
  <1>2. ASSUME NEW c PROVE Odd(Reaches(n, S, c)) <=> Odd(Reaches(m, Before(S, a, b), c))
    <2>1. CASE b \notin S
      <3>1. Reaches(n, S, c) = Reaches(m, S, c)
        BY <1>1, <2>1 DEF Reaches
      <3> QED
        BY <2>1, <3>1 DEF Before
    <2>2. CASE b \in S /\ c \notin m[a]
      <3>1. Reaches(n, S, c) = Reaches(m, S, c)
        BY <1>1, <2>2 DEF Reaches, SymDiff
      <3>2. Reaches(m, SymDiff(S, {a}), c) = Reaches(m, S, c)
        BY <2>2 DEF Reaches, SymDiff
      <3> QED
        BY <2>2, <3>1, <3>2 DEF Before
    <2>3. CASE b \in S /\ c \in m[a]
      <3> DEFINE R == Reaches(m, S, c)
      <3>1. Reaches(n, S, c) = SymDiff(R, {b})
        BY <1>1, <2>3 DEF Reaches, SymDiff
      <3>2. Reaches(m, SymDiff(S, {a}), c) = SymDiff(R, {a})
        BY <2>3 DEF Reaches, SymDiff
      <3>3. IsFiniteSet(R)
        BY RowsAreFinite
      <3>4. \A x : IsFiniteSet({x}) /\ Odd({x})
        <4>1. 1 % 2 = 1
          OBVIOUS
        <4> QED
          BY <4>1, FS_Singleton DEF Odd
      <3> HIDE DEF R
      <3>5. Odd(SymDiff(R, {b})) <=> Odd(SymDiff(R, {a}))
        BY <3>3, <3>4, OddDifference
      <3> QED
        BY <2>3, <3>1, <3>2, <3>5 DEF Before
    <2> QED
      BY <2>1, <2>2, <2>3
  <1>3. \A c : c \in Combine(n, S) <=> c \in Combine(m, Before(S, a, b))
    BY <1>2, OddReaches
  <1> QED
    BY <1>3

\* Neither the row space changes nor whether a sum of rows is zero in the left block.
LEMMA RowAddedKeeps ==
    ASSUME NEW m, NEW a \in Row, NEW b \in Row, a # b, NEW n, Added(m, a, b, n)
    PROVE  /\ RowSpace(n) = RowSpace(m)
           /\ Singular(n) <=> Singular(m)
  <1>1. \A S \in SUBSET Row :
           /\ Before(S, a, b) \in SUBSET Row
           /\ Combine(n, S) = Combine(m, Before(S, a, b))
           /\ Combine(m, S) = Combine(n, Before(S, a, b))
           /\ Before(S, a, b) = {} <=> S = {}
    <2> TAKE S \in SUBSET Row
    <2>1. /\ Before(S, a, b) \in SUBSET Row
          /\ Before(Before(S, a, b), a, b) = S
          /\ Before(S, a, b) = {} <=> S = {}
      BY BeforeIsBijection
    <2>2. Combine(n, S) = Combine(m, Before(S, a, b))
      BY RowAdded
    <2>3. Combine(n, Before(S, a, b)) = Combine(m, Before(Before(S, a, b), a, b))
      BY <2>1, RowAdded
    <2> QED
      BY <2>1, <2>2, <2>3
  <1>2. RowSpace(n) = RowSpace(m)
    <2>1. ASSUME NEW S \in SUBSET Row PROVE Combine(n, S) \in RowSpace(m)
      BY <1>1, Zenon DEF RowSpace
    <2>2. ASSUME NEW S \in SUBSET Row PROVE Combine(m, S) \in RowSpace(n)
      BY <1>1, Zenon DEF RowSpace
    <2> QED
      BY <2>1, <2>2, Zenon DEF RowSpace
  <1>3. Singular(n) <=> Singular(m)
    BY <1>1 DEF Singular
  <1> QED
    BY <1>2, <1>3

----------------------------------------------------------------------------
(* Which matrices are reduced.                                              *)

\* What the steps so far have done to the matrix of this attempt.
SameSpace == RowSpace(mat) = RowSpace(mat0) /\ (Singular(mat) <=> Singular(mat0))

\* While the pivot bit is zero, so is that of every row passed so far.
NoPivotYet ==
    phase = "pivot" /\ row \notin mat[row] =>
        \A r \in Row : row < r /\ r < k => row \notin mat[r]

NoPivot == phase = "fail" => \A r \in Row : r >= row => row \notin mat[r]

Reduction == IInv /\ SameSpace /\ NoPivotYet /\ NoPivot

\* A row is folded into another, or a row of zeros is.
LEMMA FoldKeeps ==
    ASSUME TypeOK, NEW a \in Row, NEW b \in Row, a # b, NEW m \in BOOLEAN,
           mat' = [mat EXCEPT ![b] = Xor(mat[b], Masked(mat[a], m))], mat0' = mat0,
           SameSpace
    PROVE  SameSpace'
  <1>1. mat \in [Row -> SUBSET Bit]
    BY DEF TypeOK
  <1>2. CASE m
    <2>1. \A r \in Row : mat'[r] = IF r = b THEN SymDiff(mat[b], mat[a]) ELSE mat[r]
      BY <1>1, <1>2 DEF Xor, Masked
    <2>2. Added(mat, a, b, mat')
      BY <2>1 DEF Added
    <2>3. RowSpace(mat') = RowSpace(mat) /\ (Singular(mat') <=> Singular(mat))
      BY <2>2, RowAddedKeeps
    <2> QED
      BY <2>3 DEF SameSpace
  <1>3. CASE ~m
    <2>1. Xor(mat[b], Masked(mat[a], m)) = mat[b]
      BY <1>3 DEF Xor, Masked, SymDiff
    <2>2. mat' = mat
      BY <1>1, <2>1
    <2> QED
      BY <2>2 DEF SameSpace
  <1> QED
    BY <1>2, <1>3

LEMMA PivotReduction == Reduction /\ Pivot => Reduction'
  <1> SUFFICES ASSUME Reduction, Pivot PROVE Reduction'
    OBVIOUS
  <1>1. /\ phase = "pivot" /\ k < PK_NROWS /\ k' = k + 1
        /\ UNCHANGED <<mat0, row, phase>>
        /\ mat' = [mat EXCEPT ![row] = Xor(mat[row], Masked(mat[k], Differs))]
    BY DEF Pivot, Below
  <1>2. IInv'
    BY PivotStep DEF Reduction
  <1>3. k \in Row /\ row \in Row /\ k > row /\ TypeOK /\ Differs \in BOOLEAN
    BY <1>1, Dimensions DEF Reduction, IInv, TypeOK, PivotInv, Row, Differs
  <1>4. SameSpace'
    <2>1. k # row /\ SameSpace
      BY <1>3 DEF Reduction, Row
    <2> QED
      BY <1>1, <1>3, <2>1, FoldKeeps
  <1>5. NoPivotYet'
    <2> SUFFICES ASSUME row \notin mat'[row], NEW r \in Row, row < r, r < k + 1
                 PROVE  row \notin mat'[r]
      BY <1>1 DEF NoPivotYet
    <2>1. mat \in [Row -> SUBSET Bit]
      BY <1>3 DEF TypeOK
    <2>2. mat'[row] = Xor(mat[row], Masked(mat[k], Differs)) /\ mat'[r] = mat[r]
      BY <1>1, <1>3, <2>1 DEF Row
    <2>3. row \notin mat[row] /\ row \notin mat[k]
      BY <2>2 DEF Xor, Masked, SymDiff, Differs
    <2>4. r < k \/ r = k
      BY <1>3 DEF Row
    <2> QED
      BY <1>1, <2>2, <2>3, <2>4 DEF Reduction, NoPivotYet
  <1>6. NoPivot'
    BY <1>1 DEF NoPivot
  <1> QED
    BY <1>2, <1>4, <1>5, <1>6 DEF Reduction

LEMMA ClearReduction == Reduction /\ Clear => Reduction'
  <1> SUFFICES ASSUME Reduction, Clear PROVE Reduction'
    OBVIOUS
  <1>1. IInv'
    BY ClearStep DEF Reduction
  <1>2. /\ k \in Row /\ row \in Row /\ k # row /\ TypeOK /\ phase = "clear"
    BY DEF Reduction, IInv, TypeOK, ClearInv, Clear
  <1>3. SameSpace'
    <2> DEFINE has == row \in mat[k]
    <2>1. /\ mat' = [mat EXCEPT ![k] = Xor(mat[k], Masked(mat[row], has))]
          /\ mat0' = mat0
      BY DEF Clear
    <2>2. has \in BOOLEAN
      OBVIOUS
    <2> HIDE DEF has
    <2> QED
      BY <1>2, <2>1, <2>2, FoldKeeps DEF Reduction
  <1>4. phase' # "fail" /\ (phase' = "pivot" => row' \in Nat /\ k' = row' + 1)
    BY <1>2, Dimensions DEF Clear, Below, Row
  <1>5. NoPivotYet' /\ NoPivot'
    BY <1>4, Dimensions DEF NoPivotYet, NoPivot, Row
  <1> QED
    BY <1>1, <1>3, <1>5 DEF Reduction

\* A fresh matrix.
LEMMA StartReduction ==
    ASSUME mat0 = mat, phase = "pivot", row = 0, k = Below(0)
    PROVE  SameSpace /\ NoPivotYet /\ NoPivot
  BY Dimensions DEF SameSpace, NoPivotYet, NoPivot, Below, Row

LEMMA StepReduction == Reduction /\ [Next]_vars => Reduction'
  <1> SUFFICES ASSUME Reduction, [Next]_vars PROVE Reduction'
    OBVIOUS
  <1>1. IInv'
    BY NextInv DEF Reduction
  <1>2. CASE Pivot
    BY <1>2, PivotReduction
  <1>3. CASE NotSystematic
    <2>1. /\ phase = "pivot" /\ k = PK_NROWS /\ row \notin mat[row] /\ phase' = "fail"
          /\ UNCHANGED <<mat0, mat, row, k>>
      BY <1>3 DEF NotSystematic
    <2>2. \A r \in Row : r >= row => row \notin mat[r]
      BY <2>1, Dimensions DEF Reduction, IInv, TypeOK, NoPivotYet, Row
    <2> QED
      BY <1>1, <2>1, <2>2 DEF Reduction, SameSpace, NoPivotYet, NoPivot
  <1>4. CASE StartClear
    BY <1>1, <1>4 DEF StartClear, Reduction, SameSpace, NoPivotYet, NoPivot
  <1>5. CASE Clear
    BY <1>5, ClearReduction
  <1>6. CASE Retry
    <2>1. mat0' = mat' /\ phase' = "pivot" /\ row' = 0 /\ k' = 1
      BY <1>6 DEF Retry, Below
    <2> QED
      BY <1>1, <2>1, Dimensions DEF Reduction, SameSpace, NoPivotYet, NoPivot, Row
  <1>7. CASE UNCHANGED vars
    BY <1>1, <1>7 DEF vars, Reduction, SameSpace, NoPivotYet, NoPivot
  <1> QED
    BY <1>2, <1>3, <1>4, <1>5, <1>6, <1>7 DEF Next

LEMMA ReductionInvariance == Spec => []Reduction
  <1>1. Init => Reduction
    <2> SUFFICES ASSUME Init PROVE Reduction
      OBVIOUS
    <2> QED
      BY InitInv, StartReduction DEF Init, Reduction
  <1> QED
    BY <1>1, StepReduction, PTL DEF Spec

----------------------------------------------------------------------------
(* The end of an attempt.                                                   *)

\* The sum of rows of a systematic matrix tells, in its left block, which they are.
LEMMA DoneIsRegular ==
    ASSUME NEW m, \A r \in Row : m[r] \cap Row = {r}
    PROVE  ~Singular(m)
  <1> SUFFICES ASSUME NEW S \in SUBSET Row, S # {}, Combine(m, S) \cap Row = {}
               PROVE  FALSE
    BY DEF Singular
  <1>1. PICK r \in S : TRUE
    OBVIOUS
  <1>2. r \in Row /\ r \in Bit
    BY Dimensions DEF Row, Bit
  <1>3. Reaches(m, S, r) = {r}
    BY <1>1, <1>2 DEF Reaches
  <1>4. Odd({r})
    <2>1. 1 % 2 = 1
      OBVIOUS
    <2> QED
      BY <2>1, FS_Singleton DEF Odd
  <1>5. r \in Combine(m, S)
    BY <1>2, <1>3, <1>4, OddReaches
  <1> QED
    BY <1>2, <1>5

\* There are more sets of rows from the pivot row on than there are sums of them in the
\* left block, when no row from there on has a one in a column up to the pivot.
LEMMA FailIsSingular ==
    ASSUME NEW m, NEW p \in Row,
           \A r \in Row, c \in Row : r >= p /\ c <= p => c \notin m[r]
    PROVE  Singular(m)
  <1> DEFINE rows == {r \in Row : r >= p}
             columns == {c \in Row : c > p}
             sum == [S \in SUBSET rows |-> Combine(m, S) \cap Row]
  <1>1. IsFiniteSet(rows) /\ IsFiniteSet(SUBSET rows)
    BY RowsAreFinite, FS_SUBSET
  <1>2. columns \in SUBSET rows /\ columns # rows
    BY DEF Row
  <1>3. SUBSET columns \in SUBSET (SUBSET rows) /\ SUBSET columns # SUBSET rows
    BY <1>2
  <1>4. IsFiniteSet(SUBSET columns) /\ Cardinality(SUBSET columns) < Cardinality(SUBSET rows)
    <2> DEFINE s == SUBSET columns
               t == SUBSET rows
    <2>1. s \in SUBSET t /\ s # t /\ IsFiniteSet(t)
      BY <1>1, <1>3
    <2> HIDE DEF s, t
    <2>2. IsFiniteSet(s) /\ Cardinality(s) <= Cardinality(t) /\ Cardinality(s) # Cardinality(t)
      BY <2>1, FS_Subset
    <2>3. Cardinality(s) \in Nat /\ Cardinality(t) \in Nat
      BY <2>1, <2>2, FS_CardinalityType
    <2>4. IsFiniteSet(s) /\ Cardinality(s) < Cardinality(t)
      BY <2>2, <2>3
    <2> QED
      BY <2>4 DEF s, t
  <1>5. ASSUME NEW S \in SUBSET rows PROVE Combine(m, S) \cap Row \in SUBSET columns
    <2> SUFFICES ASSUME NEW c \in Row, c \in Combine(m, S) PROVE c \in columns
      OBVIOUS
    <2>1. Odd(Reaches(m, S, c))
      BY OddReaches
    <2>2. Reaches(m, S, c) # {}
      <3>1. ~Odd({})
        <4>1. 0 % 2 # 1
          OBVIOUS
        <4> QED
          BY <4>1, FS_EmptySet DEF Odd
      <3> QED
        BY <2>1, <3>1
    <2>3. PICK r \in S : c \in m[r]
      BY <2>2 DEF Reaches
    <2> QED
      BY <2>3 DEF Row
  <1>6. sum \in [SUBSET rows -> SUBSET columns]
    BY <1>5
  <1>7. PICK S \in SUBSET rows, T \in SUBSET rows : S # T /\ sum[S] = sum[T]
    <2> HIDE DEF sum, rows, columns
    <2> QED
      BY <1>1, <1>4, <1>6, FS_PigeonHole
  <1>8. /\ S \in SUBSET Row /\ T \in SUBSET Row /\ SymDiff(S, T) \in SUBSET Row
        /\ SymDiff(S, T) # {}
    BY <1>7 DEF SymDiff
  <1>9. Combine(m, SymDiff(S, T)) \cap Row = {}
    <2>1. Combine(m, SymDiff(S, T)) = SymDiff(Combine(m, S), Combine(m, T))
      BY <1>8, CombineDifference
    <2>2. Combine(m, S) \cap Row = Combine(m, T) \cap Row
      BY <1>7
    <2> QED
      BY <2>1, <2>2 DEF SymDiff
  <1> QED
    BY <1>8, <1>9 DEF Singular

\* The published matrix has the row space of the matrix the attempt started from.
THEOREM RowSpaceIsKept == Spec => []RowSpaceKept
  <1>1. Reduction => RowSpaceKept
    BY DEF Reduction, SameSpace, RowSpaceKept
  <1> QED
    BY <1>1, ReductionInvariance, PTL

\* pk_gen gives up on the matrices with a singular left block and on no other.
THEOREM FailsExactly == Spec => []FailsIffSingular
  <1>1. Reduction => FailsIffSingular
    <2> SUFFICES ASSUME Reduction PROVE FailsIffSingular
      OBVIOUS
    <2>1. CASE phase = "fail"
      <3>1. row \in Row /\ \A r \in Row, c \in Row : r >= row /\ c <= row => c \notin mat[r]
        BY <2>1 DEF Reduction, NoPivot, IInv, TypeOK, UnitColumns, Row
      <3>2. Singular(mat)
        BY <3>1, FailIsSingular
      <3> QED
        BY <2>1, <3>2 DEF FailsIffSingular, Reduction, SameSpace
    <2>2. CASE phase = "done"
      <3>1. \A r \in Row : mat[r] \cap Row = {r}
        BY <2>2 DEF Reduction, IInv, Systematic
      <3>2. ~Singular(mat)
        BY <3>1, DoneIsRegular
      <3> QED
        BY <2>2, <3>2 DEF FailsIffSingular, Reduction, SameSpace
    <2> QED
      BY <2>1, <2>2 DEF FailsIffSingular
  <1> QED
    BY <1>1, ReductionInvariance, PTL
============================================================================
