------------------------------ MODULE Fips202 ------------------------------
(***************************************************************************)
(* SHA-3, SHAKE and cSHAKE (crypto/McEliece/common/fips202.c, sp800-185.c):*)
(* incremental contexts of 26 words, one-shot contexts of 25 words, both   *)
(* on the heap, and the functions that run start to end.  The 26th word    *)
(* counts the bytes absorbed since the last permutation or, after          *)
(* finalize, the bytes of the last permutation not yet squeezed.           *)
(*                                                                         *)
(* A handle is a context of the caller, which follows the documented       *)
(* order: initialize, absorb, finalize, squeeze, release.                  *)
(***************************************************************************)
EXTENDS Sponge

CONSTANTS
    Handle,     \* the contexts of the caller
    Place,      \* places malloc may return
    NoPlace,    \* the ctx of a handle that is not in use
    Strings,    \* inputs
    Names,      \* names and customization strings of cSHAKE
    DIGEST,     \* bytes of a SHA-3 digest (32, 48 or 64)
    MAXIN,      \* bound of the model: bytes absorbed into a context
    MAXOUT      \* bound of the model: bytes squeezed out of a context

ASSUME HeapAssumption == NoPlace \notin Place
ASSUME InputAssumption == Strings \subseteq Seq(Byte) /\ Names \subseteq Seq(Byte)
ASSUME DigestAssumption == DIGEST \in 0 .. RATE /\ MAXIN \in Nat /\ MAXOUT \in Nat

VARIABLES
    ctx,        \* the pointer of each handle
    heap,       \* the context at each place
    free,       \* the places malloc may return
    phase,      \* how far the caller is with each handle
    exited,     \* exit(111) after a malloc that failed
    absorbed,   \* what went into each handle since it was initialized, and the
                \* prefix that came first (history)
    squeezed    \* what came out of it (history)

vars == <<ctx, heap, free, phase, exited, absorbed, squeezed>>

Family == {"shake", "cshake", "sha3", "oneshot"}
Phase == {"unused", "squeezing"} \cup Family
Suffix(family) == CASE family = "sha3" -> SHA3 [] family = "cshake" -> CSHAKE [] OTHER -> SHAKE

Context == [lanes : State, count : Nat]
Fresh == [lanes |-> ZeroState, count |-> 0]
Nothing(family, prefix) == [of |-> family, prefix |-> prefix, bytes |-> << >>]
Live(h) == ~exited /\ ctx[h] # NoPlace
At(h) == heap[ctx[h]]

----------------------------------------------------------------------------
(* The sponge functions. *)

TurnsTooFew(n) == IF n = 0 THEN 0 ELSE (n - 1) \div RATE    \* slip: > for >=
Turns(n) == n \div RATE

\* keccak_inc_absorb: a permutation each time the block is full.
IncAbsorb(c, in) ==
    LET turns == Turns(c.count + Len(in))
        lanes[k \in 0 .. turns] ==
            XorAt(IF k = 0 THEN c.lanes ELSE Permute(lanes[k - 1]), c.count - (k * RATE), in)
    IN [lanes |-> lanes[turns], count |-> (c.count + Len(in)) - (turns * RATE)]

\* keccak_inc_finalize
IncFinalize(c, p) ==
    [lanes |-> XorAt(XorAt(c.lanes, c.count, <<p>>), RATE - 1, <<ByteOf(128)>>), count |-> 0]

\* keccak_absorb: all of it, the rest padded in a block of its own.
Absorb(in, p) ==
    LET turns == Len(in) \div RATE
        left == Len(in) - (turns * RATE)
        lanes[k \in 0 .. turns] ==
            IF k = 0 THEN ZeroState
            ELSE Permute(XorAt(lanes[k - 1], 0, SubSeq(in, (k - 1) * RATE + 1, k * RATE)))
        t == [i \in 1 .. RATE |->
                (CASE i <= left -> in[turns * RATE + i] [] i = left + 1 -> p [] OTHER -> {})
                    \cup (IF i = RATE THEN ByteOf(128) ELSE {})]
    IN [lanes |-> XorAt(lanes[turns], 0, t), count |-> 0]

\* The state k permutations on.
Permuted(s, k) == s \o [i \in 1 .. k |-> Zeros]

\* keccak_squeezeblocks: n blocks.
BlocksOut(c, n) == [i \in 1 .. n * RATE |->
    ByteAt(Permuted(c.lanes, ((i - 1) \div RATE) + 1), (i - 1) % RATE)]
SqueezeBlocks(c, n) == [lanes |-> Permuted(c.lanes, n), count |-> c.count]

\* keccak_inc_squeeze: first what is left of the last permutation.
KeptAll(c, n) == n                      \* slip: the second bound of the loop is lost
Kept(c, n) == IF n < c.count THEN n ELSE c.count
NewBlocks(c, n) == ((n - Kept(c, n)) + RATE - 1) \div RATE

BytesOut(c, n) == [i \in 1 .. n |->
    IF i <= Kept(c, n)
    THEN ByteAt(c.lanes, (RATE - c.count) + (i - 1))
    ELSE LET j == (i - 1) - Kept(c, n)
         IN ByteAt(Permuted(c.lanes, (j \div RATE) + 1), j % RATE)]

\* slip: what was taken of the last block, for what is left of it
LeftTaken(c, n) == IF NewBlocks(c, n) = 0 THEN c.count - n ELSE (n - Kept(c, n)) % RATE
Left(c, n) ==
    IF NewBlocks(c, n) = 0 THEN c.count - n ELSE (NewBlocks(c, n) * RATE) - (n - Kept(c, n))

IncSqueeze(c, n) == [lanes |-> Permuted(c.lanes, NewBlocks(c, n)), count |-> Left(c, n)]

----------------------------------------------------------------------------
(* The functions of the interface. *)

Init ==
    /\ ctx = [h \in Handle |-> NoPlace]
    /\ heap = [p \in Place |-> Fresh]
    /\ free = Place
    /\ phase = [h \in Handle |-> "unused"]
    /\ exited = FALSE
    /\ absorbed = [h \in Handle |-> Nothing("shake", << >>)]
    /\ squeezed = [h \in Handle |-> << >>]

\* malloc returns NULL, as it may whenever it is called: the program ends.
Exhausted ==
    /\ ~exited
    /\ \E h \in Handle : ctx[h] = NoPlace
    /\ exited' = TRUE
    /\ UNCHANGED <<ctx, heap, free, phase, absorbed, squeezed>>

\* malloc for handle h, and the first contents of the context.
Allocate(h, contents) ==
    /\ ~exited /\ ctx[h] = NoPlace
    /\ \E p \in free :
        /\ ctx' = [ctx EXCEPT ![h] = p]
        /\ heap' = [heap EXCEPT ![p] = contents]
        /\ free' = free \ {p}

\* shake128_inc_init, shake256_inc_init, sha3_*_inc_init
IncInit(h, family) ==
    /\ Allocate(h, Fresh)
    /\ phase' = [phase EXCEPT ![h] = family]
    /\ absorbed' = [absorbed EXCEPT ![h] = Nothing(family, << >>)]
    /\ squeezed' = [squeezed EXCEPT ![h] = << >>]
    /\ UNCHANGED exited

\* slip: the rest of the block of zeros is not absorbed
PrefixUnpadded(c) == c
PrefixPadded(c) ==
    IF c.count = 0 THEN c ELSE IncAbsorb([lanes |-> c.lanes, count |-> RATE - 1], <<{}>>)

\* cshake*_inc_init: the encoded name and customization string, and zeros.
CshakeIncInit(h, name, cstm) ==
    LET Then(c, in) == IncAbsorb(c, in)
        encoded == Then(Then(Then(Then(Then(Fresh, LeftEncode(RATE)),
                       LeftEncode(8 * Len(name))), name), LeftEncode(8 * Len(cstm))), cstm)
    IN /\ Allocate(h, PrefixPadded(encoded))
       /\ phase' = [phase EXCEPT ![h] = "cshake"]
       /\ absorbed' = [absorbed EXCEPT ![h] = Nothing("cshake", BytePad(name, cstm))]
       /\ squeezed' = [squeezed EXCEPT ![h] = << >>]
       /\ UNCHANGED exited

\* shake*_inc_absorb, cshake*_inc_absorb, sha3_*_inc_absorb
IncAbsorbInto(h, in) ==
    /\ Live(h) /\ phase[h] \in Family \ {"oneshot"}
    /\ Len(absorbed[h].bytes) + Len(in) <= MAXIN
    /\ heap' = [heap EXCEPT ![ctx[h]] = IncAbsorb(@, in)]
    /\ absorbed' = [absorbed EXCEPT ![h].bytes = @ \o in]
    /\ UNCHANGED <<ctx, free, phase, exited, squeezed>>

\* shake*_inc_finalize and cshake*_inc_finalize
IncFinalizeXof(h) ==
    /\ Live(h) /\ phase[h] \in {"shake", "cshake"}
    /\ heap' = [heap EXCEPT ![ctx[h]] = IncFinalize(@, Suffix(phase[h]))]
    /\ phase' = [phase EXCEPT ![h] = "squeezing"]
    /\ UNCHANGED <<ctx, free, exited, absorbed, squeezed>>

\* shake*_inc_squeeze and cshake*_inc_squeeze
IncSqueezeFrom(h, n) ==
    /\ Live(h) /\ phase[h] = "squeezing"
    /\ Len(squeezed[h]) + n <= MAXOUT
    /\ squeezed' = [squeezed EXCEPT ![h] = @ \o BytesOut(At(h), n)]
    /\ heap' = [heap EXCEPT ![ctx[h]] = IncSqueeze(@, n)]
    /\ UNCHANGED <<ctx, free, phase, exited, absorbed>>

\* The clone gets a place of its own and a copy of the words.
Clone(dest, src) ==
    /\ Live(src)
    /\ Allocate(dest, At(src))
    /\ phase' = [phase EXCEPT ![dest] = phase[src]]
    /\ absorbed' = [absorbed EXCEPT ![dest] = absorbed[src]]
    /\ squeezed' = [squeezed EXCEPT ![dest] = squeezed[src]]
    /\ UNCHANGED exited

\* free(state->ctx); the words of a free place are of no account.
NotReleased(h) == free                                  \* slip: a leak
Released(h) == free \cup {ctx[h]}

Release(h) ==
    /\ ctx' = [ctx EXCEPT ![h] = NoPlace]
    /\ heap' = [heap EXCEPT ![ctx[h]] = Fresh]
    /\ free' = Released(h)
    /\ phase' = [phase EXCEPT ![h] = "unused"]
    /\ UNCHANGED exited

CtxRelease(h) ==
    /\ Live(h)
    /\ Release(h)
    /\ absorbed' = [absorbed EXCEPT ![h] = Nothing("shake", << >>)]
    /\ squeezed' = [squeezed EXCEPT ![h] = << >>]

\* sha3_*_inc_finalize: one block is squeezed and the context is released.
Sha3IncFinalize(h) ==
    /\ Live(h) /\ phase[h] = "sha3"
    /\ squeezed' = [squeezed EXCEPT ![h] =
                        SubSeq(BlocksOut(IncFinalize(At(h), SHA3), 1), 1, DIGEST)]
    /\ Release(h)
    /\ UNCHANGED absorbed

\* shake128_absorb and shake256_absorb, and their squeezeblocks
ShakeAbsorb(h, in) ==
    /\ Allocate(h, Absorb(in, SHAKE))
    /\ phase' = [phase EXCEPT ![h] = "oneshot"]
    /\ absorbed' = [absorbed EXCEPT ![h] = [Nothing("oneshot", << >>) EXCEPT !.bytes = in]]
    /\ squeezed' = [squeezed EXCEPT ![h] = << >>]
    /\ UNCHANGED exited

ShakeSqueezeBlocks(h, n) ==
    /\ Live(h) /\ phase[h] = "oneshot"
    /\ Len(squeezed[h]) + (n * RATE) <= MAXOUT
    /\ squeezed' = [squeezed EXCEPT ![h] = @ \o BlocksOut(At(h), n)]
    /\ heap' = [heap EXCEPT ![ctx[h]] = SqueezeBlocks(@, n)]
    /\ UNCHANGED <<ctx, free, phase, exited, absorbed>>

\* shake128 and shake256: whole blocks, then the part of one more that is
\* wanted.  The context h is released before they return.
Shake(h, in, n) ==
    /\ ~exited /\ ctx[h] = NoPlace /\ free # {}
    /\ LET c == Absorb(in, SHAKE)
           whole == n \div RATE
           part == SubSeq(BlocksOut(SqueezeBlocks(c, whole), 1), 1, n % RATE)
       IN squeezed' = [squeezed EXCEPT ![h] = BlocksOut(c, whole) \o part]
    /\ absorbed' = [absorbed EXCEPT ![h] = [Nothing("oneshot", << >>) EXCEPT !.bytes = in]]
    /\ UNCHANGED <<ctx, heap, free, phase, exited>>

\* sha3_256, sha3_384 and sha3_512: with a state on the stack.
Sha3(h, in) ==
    /\ ~exited /\ ctx[h] = NoPlace
    /\ squeezed' = [squeezed EXCEPT ![h] = SubSeq(BlocksOut(Absorb(in, SHA3), 1), 1, DIGEST)]
    /\ absorbed' = [absorbed EXCEPT ![h] = [Nothing("sha3", << >>) EXCEPT !.bytes = in]]
    /\ UNCHANGED <<ctx, heap, free, phase, exited>>

Next ==
    \/ Exhausted
    \/ \E h \in Handle :
        \/ \E family \in {"shake", "sha3"} : IncInit(h, family)
        \/ \E name, cstm \in Names : CshakeIncInit(h, name, cstm)
        \/ \E in \in Strings : IncAbsorbInto(h, in) \/ ShakeAbsorb(h, in) \/ Sha3(h, in)
        \/ IncFinalizeXof(h) \/ Sha3IncFinalize(h) \/ CtxRelease(h)
        \/ \E n \in 0 .. MAXOUT : IncSqueezeFrom(h, n) \/ ShakeSqueezeBlocks(h, n)
        \/ \E in \in Strings, n \in 0 .. MAXOUT : Shake(h, in, n)
        \/ \E src \in Handle : Clone(h, src)

Spec == Init /\ [][Next]_vars

----------------------------------------------------------------------------
(* Correctness. *)

TypeOK ==
    /\ ctx \in [Handle -> Place \cup {NoPlace}]
    /\ heap \in [Place -> Context]
    /\ free \subseteq Place
    /\ phase \in [Handle -> Phase]
    /\ exited \in BOOLEAN
    /\ absorbed \in [Handle -> [of : Family, prefix : Seq(Byte), bytes : Seq(Byte)]]
    /\ \A h \in Handle : Len(squeezed[h]) \in Nat

\* The comment in keccak_inc_finalize: after keccak_inc_absorb the count is
\* below the rate, so the domain byte always has room in the current block.
\* The same word, counting what is left to squeeze, stays below it too.
CountBelowRate == \A p \in Place : heap[p].count < RATE

\* However the input was cut into calls of absorb and the output into calls
\* of squeeze, in whichever of the interfaces and whatever was done to clones
\* in between, the bytes are those of the whole message padded and squeezed.
StreamExact ==
    \A h \in Handle :
        LET message == absorbed[h].prefix \o absorbed[h].bytes
        IN squeezed[h] = Stream(message, Suffix(absorbed[h].of), Len(squeezed[h]))

\* Every place is free or the context of exactly one handle: no context is
\* shared by a clone, freed twice or lost.
HeapExact ==
    \A p \in Place :
        Cardinality({h \in Handle : ctx[h] = p}) = IF p \in free THEN 0 ELSE 1

=============================================================================
