----------------------------- MODULE MCFips202 -----------------------------
(***************************************************************************)
(* Inputs and symmetry for the run of Fips202.                             *)
(***************************************************************************)
EXTENDS Fips202, TLC

CONSTANTS h1, h2, p1, p2

\* Less than a block, one byte short of it, a block and more than a block,
\* among them the bytes the padding could be taken for.
Inputs == {<< >>, <<ByteOf(128)>>, <<ByteOf(31), {}>>, <<{}, ByteOf(6), ByteOf(128)>>}

\* With these the encoded prefix ends at every place of a block.
Labels == {<< >>, <<{}>>}

Symmetry == Permutations({h1, h2}) \cup Permutations({p1, p2})
=============================================================================
