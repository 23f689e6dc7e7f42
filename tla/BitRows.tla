------------------------------ MODULE BitRows ------------------------------
(***************************************************************************)
(* Rows of a matrix over GF(2), as the McEliece key generation keeps them. *)
(* A row is the set of the columns that hold a one, so that XOR of two     *)
(* rows is symmetric difference and AND with a mask of all ones or all     *)
(* zeros either keeps the row or empties it.  The dimensions keep the      *)
(* names of params.h; BYTE is the number of columns kept in one            *)
(* `unsigned char' (8 in the program, smaller on the checked instances).   *)
(***************************************************************************)
EXTENDS Integers, FiniteSetsExt

CONSTANTS
    PK_NROWS,   \* rows of the matrix, and columns of its left block
    SYS_N,      \* columns of the matrix
    BYTE,       \* columns per byte
    Matrices    \* the parity-check matrices that key generation may fill in

Row == 0 .. PK_NROWS - 1
Bit == 0 .. SYS_N - 1

ASSUME Dimensions ==
    /\ PK_NROWS \in Nat /\ PK_NROWS > 1
    /\ SYS_N \in Nat /\ SYS_N >= PK_NROWS
    /\ BYTE \in Nat /\ BYTE > 0
    /\ PK_NROWS % BYTE = 0

ASSUME MatricesAreBits == Matrices \subseteq [Row -> SUBSET Bit]

\* a ^ b and r & m, where m is 0 or -1
Xor(a, b) == SymDiff(a, b)
Masked(r, m) == IF m THEN r ELSE {}

\* The columns that share a byte with column c.
ByteOf(c) == {b \in Bit : b \div BYTE = c \div BYTE}

\* What is left of a row once the identity block in front is dropped: the
\* bytes that are copied to the public key.
KeyPart(r) == r \ Row

\* The next row in a loop over the rows below, and two slips.
BelowSame(k) == k
BelowTwo(k) == k + 2
Below(k) == k + 1

\* Slips a loop over the other rows could have: it lands two rows past row r,
\* or does not skip it.
NextOtherTooFar(k, r) == IF k + 1 = r THEN k + 3 ELSE k + 1
NextOtherNoSkip(k, r) == k + 1

\* The successor of k in a loop over the rows that skips row r.
NextOther(k, r) == IF k + 1 = r THEN k + 2 ELSE k + 1
FirstOther(r) == NextOther(-1, r)
============================================================================
