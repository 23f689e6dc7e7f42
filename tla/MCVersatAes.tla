---------------------------- MODULE MCVersatAes ----------------------------
(***************************************************************************)
(* A small cipher for the run of VersatAes: words of three bits, an S-box  *)
(* that is not linear, a mixing layer that moves every word.               *)
(***************************************************************************)
EXTENDS VersatAes

Bit(x, n) == (x \div 2^n) % 2
SmallXor(x, y) ==
    LET bit(n) == (Bit(x, n) + Bit(y, n)) % 2 IN bit(0) + 2 * bit(1) + 4 * bit(2)
SBox == <<3, 6, 0, 5, 7, 1, 4, 2>>
SmallSub(x) == SBox[x + 1]
SmallUnsub(x) == CHOOSE y \in 0 .. 7 : SmallSub(y) = x
SmallRot(x) == ((2 * x) % 8) + (x \div 4)
SmallPlus1(x) == (x + 1) % 8
SmallRcon(n) == (3 * n + 1) % 8

SmallSubShift(b) == <<SmallSub(b[2]), SmallSub(b[3]), SmallSub(b[4]), SmallSub(b[1])>>
SmallInvSubShift(b) ==
    <<SmallUnsub(b[4]), SmallUnsub(b[1]), SmallUnsub(b[2]), SmallUnsub(b[3])>>
SmallMix(b) ==
    LET m(x, y) == SmallXor(x, SmallRot(y)) IN <<m(b[1], b[2]), m(b[2], b[3]), m(b[3], b[4]), b[4]>>
SmallInvMix(b) ==
    LET m(x, y) == SmallXor(x, SmallRot(y))
        third == m(b[3], b[4])
        second == m(b[2], third)
    IN <<m(b[1], second), second, third, b[4]>>

\* Every mode and key size; a counter that overflows and one that does not.
SmallJobs ==
    [mode : {"ECB", "CBC", "CTR"}, is256 : BOOLEAN, key : {<<1, 7, 2, 5, 3, 0, 6, 4>>},
     iv : {<<0, 4, 1, 6>>}, data : {<< <<5, 2, 7, 1>>, <<6, 6, 0, 3>> >>}]
    \cup
    [mode : {"CTR", "ECB256"}, is256 : {TRUE}, key : {<<2, 2, 0, 7, 1, 5, 5, 6>>},
     iv : {<<0, 4, 1, 7>>}, data : {<< <<5, 2, 7, 1>>, <<6, 6, 0, 3>> >>}]
============================================================================
