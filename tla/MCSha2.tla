------------------------------- MODULE MCSha2 -------------------------------
(***************************************************************************)
(* Messages for the run of Sha2.                                           *)
(***************************************************************************)
EXTENDS Sha2, TLC

CONSTANTS h1, h2, h3, p1, p2

\* One and two whole blocks to put in, and rests on both sides of the last
\* length whose padding fits.
Inputs == {<< >>, <<0>>, <<Mark, 0>>, <<Mark, 0, 0, Mark>>, [i \in 1 .. 8 |-> i % 4]}

\* Handles are told apart by nothing but their names, and so are places.
Symmetry == Permutations({h1, h2, h3}) \cup Permutations({p1, p2})
============================================================================
