------------------------------ MODULE MCArena ------------------------------
(* The arena with the parameters of mceliece348864, the files of           *)
(* software/KAT that the suites ask for, and the lengths in the SHA file.  *)
EXTENDS Arena

KatFiles == [SHA |-> 10031, AES |-> 1951, McEliece |-> 9183]
KatLengths == {8 * n : n \in 0 .. 64}

\* The sizes of mceliece348864 and of these files leave room in the megabyte.
ASSUME RealSizesFit == Room
============================================================================
