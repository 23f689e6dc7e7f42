---------------------------- MODULE MCVersatElim ----------------------------
(***************************************************************************)
(* Matrices for the runs of VersatElim.                                    *)
(***************************************************************************)
EXTENDS VersatElim

\* 27 matrices of 3 x 4.  Six can be reduced, most of them with a pivot from a
\* row below; the others fail at one of the three pivots.
SmallMatrices ==
    {[r \in 0 .. 2 |-> left[r] \cup (IF r = 2 THEN {3} ELSE {})] :
        left \in [0 .. 2 -> {{0}, {1, 2}, {0, 2}}]}

\* 144 matrices of 4 x 6 in bytes of two columns: both bytes of the left block
\* hold pivots, and the last two columns tell the rows apart.
ByteMatrices ==
    {[r \in 0 .. 3 |-> left[r] \cup {4 + (r % 2)}] :
        left \in {f \in [0 .. 3 -> {{0, 2}, {1, 2}, {0, 1, 3}, {2, 3}}] :
                    f[0] # f[1] /\ f[2] # f[3]}}
============================================================================
