---------------------------- MODULE MCGaussElim ----------------------------
(***************************************************************************)
(* Every 3 x 4 matrix over GF(2), 4096 of them.  All attempts start in     *)
(* Init; Retry is left to draw from the same set.                          *)
(***************************************************************************)
EXTENDS GaussElim

MCMatrices == [0 .. 2 -> SUBSET (0 .. 3)]
============================================================================
