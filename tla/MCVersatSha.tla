---------------------------- MODULE MCVersatSha ----------------------------
(***************************************************************************)
(* Messages for the run of VersatSha.                                      *)
(***************************************************************************)
EXTENDS VersatSha

\* Every length up to two bytes short of two blocks, and three texts of each.
\* Zeros and marks are the bytes the padding could be mistaken for.
ShortMessages ==
    {[i \in 1 .. n |-> 0] : n \in 0 .. 7} \cup {[i \in 1 .. n |-> Mark] : n \in 1 .. 7}
        \cup {[i \in 1 .. n |-> i % 4] : n \in 1 .. 7}
============================================================================
