------------------------------- MODULE Drbg -------------------------------
(***************************************************************************)
(* The generator of nistkatrng.c that the key generation and gen_e draw    *)
(* from: AES-256 in counter mode, rekeyed from its own output after every  *)
(* request.  A block is a term, what was encrypted under which key, so two *)
(* blocks are equal only if both are; the counter V is a block and what    *)
(* was added to it.                                                        *)
(***************************************************************************)
EXTENDS Integers, Sequences

CONSTANT BLOCK                          \* bytes of a block (16)

ASSUME BlockSize == BLOCK \in Nat \ {0}

ZeroBlock == [key |-> <<>>, v |-> <<>>]
Counter(block) == [base |-> block, plus |-> 0]

AES256_ECB(key, v) == [key |-> key, v |-> v]

\* V after n increments, and the blocks of V + 1, ..., V + n.
Incremented(v, n) == [v EXCEPT !.plus = @ + n]
Blocks(key, v, n) == [i \in 1 .. n |-> AES256_ECB(key, Incremented(v, i))]

\* temp ^= provided_data
Mixed(temp, provided_data) ==
    [i \in DOMAIN temp |-> [key |-> temp[i].key, v |-> <<temp[i].v, provided_data>>]]

\* AES256_CTR_DRBG_Update: two blocks for the key and one for V.
Update(temp) == [Key |-> <<temp[1], temp[2]>>, V |-> Counter(temp[3])]

\* The static context starts over: nothing is left of what it was.
nist_kat_init(entropy) ==
    LET Key == <<ZeroBlock, ZeroBlock>>
    IN Update(Mixed(Blocks(Key, Counter(ZeroBlock), 3), entropy))

\* randombytes of n bytes: the blocks it hands out, the last of them cut, and the
\* context after it; a slip is to update from V as it was before the request.
Requested(n) == (n + BLOCK - 1) \div BLOCK
Output(context, n) == Blocks(context.Key, context.V, Requested(n))
AfterOldV(context, n) == Update(Blocks(context.Key, context.V, 3))
After(context, n) == Update(Blocks(context.Key, Incremented(context.V, Requested(n)), 3))
===========================================================================
