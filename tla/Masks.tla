------------------------------- MODULE Masks -------------------------------
(***************************************************************************)
(* The comparisons without branches of crypto_uint16.c and crypto_int16.c, *)
(* which the files for 32 and 64 bits repeat, and the exchanges of the two *)
(* sorts.  A word is the integer of its bits, without a sign.  In 16 bits  *)
(* nothing overflows: C computes in int and cuts the result.               *)
(***************************************************************************)
EXTENDS Integers, FiniteSetsExt

CONSTANT WIDTH      \* bits of a word, at least two

Word == 0 .. 2^WIDTH - 1
Top == 2^(WIDTH - 1)
Ones == 2^WIDTH - 1
Mask(p) == IF p THEN Ones ELSE 0

BitsOf(x) == {i \in 0 .. WIDTH - 1 : (x \div 2^i) % 2 = 1}
WordOf(bits) == MapThenSumSet(LAMBDA i : 2^i, bits)
xor(x, y) == WordOf(SymDiff(BitsOf(x), BitsOf(y)))
and(x, y) == WordOf(BitsOf(x) \cap BitsOf(y))
or(x, y) == WordOf(BitsOf(x) \cup BitsOf(y))
not(x) == Ones - x
minus(x, y) == (x - y) % 2^WIDTH

\* An arithmetic shift copies the sign into every bit.
negative_mask(x) == Mask(x >= Top)
nonzero_mask(x) == or(negative_mask(x), negative_mask(minus(0, x)))
zero_mask(x) == not(nonzero_mask(x))
unequal_mask(x, y) == nonzero_mask(xor(x, y))
equal_mask(x, y) == not(unequal_mask(x, y))
positive_mask(x) ==
    LET z == minus(0, x)
    IN negative_mask(xor(z, and(x, z)))

\* The sign of the difference is that of the comparison if the signs of x and y agree;
\* where they do not it is replaced by the sign of x, for unsigned words by its opposite.
Corrected(x, y, flip) ==
    LET z == minus(x, y)
    IN negative_mask(xor(z, and(xor(x, y), xor(xor(z, x), flip))))
signed_smaller_mask(x, y) == Corrected(x, y, 0)
smaller_mask(x, y) == Corrected(x, y, Top)

\* The words that min and max, and the two halves of minmax, leave.
Exchanged(x, y, mask) == <<xor(x, and(mask, xor(y, x))), xor(y, and(mask, xor(y, x)))>>
minmax(x, y) == Exchanged(x, y, smaller_mask(y, x))
signed_minmax(x, y) == Exchanged(x, y, signed_smaller_mask(y, x))
int32_MINMAX(a, b) == Exchanged(a, b, Corrected(b, a, 0))

\* The sign of the difference alone.
uint64_MINMAX(a, b) == Exchanged(a, b, Mask(minus(b, a) \div Top = 1))

----------------------------------------------------------------------------
(* What they compute, for all words. *)

Signed(x) == IF x >= Top THEN x - 2^WIDTH ELSE x
Least(x, y) == IF x < y THEN x ELSE y
Most(x, y) == IF x < y THEN y ELSE x

\* Every mask is all ones or zero, and tells what its name says.
MasksTell ==
    \A x \in Word :
        /\ zero_mask(x) = Mask(x = 0) /\ nonzero_mask(x) = Mask(x # 0)
        /\ positive_mask(x) = Mask(Signed(x) > 0)
        /\ \A y \in Word :
              /\ equal_mask(x, y) = Mask(x = y) /\ unequal_mask(x, y) = Mask(x # y)
              /\ smaller_mask(x, y) = Mask(x < y)
              /\ signed_smaller_mask(x, y) = Mask(Signed(x) < Signed(y))

\* The exchanges put two words in order.
ExchangesOrder ==
    \A x, y \in Word :
        /\ minmax(x, y) = <<Least(x, y), Most(x, y)>>
        /\ Signed(signed_minmax(x, y)[1]) = Least(Signed(x), Signed(y))
        /\ Signed(signed_minmax(x, y)[2]) = Most(Signed(x), Signed(y))
        /\ int32_MINMAX(x, y) = signed_minmax(x, y)

\* uint64_MINMAX does so for words less than Top apart, which those of pk_gen are: they
\* have 63 bits.  Of two words further apart it takes the greater for the lesser.
SortOfPkGenOrders ==
    \A x, y \in Word :
        uint64_MINMAX(x, y) =
            IF Most(x, y) - Least(x, y) < Top THEN <<Least(x, y), Most(x, y)>>
            ELSE IF Most(x, y) - Least(x, y) > Top THEN <<Most(x, y), Least(x, y)>>
            ELSE <<y, x>>
============================================================================
