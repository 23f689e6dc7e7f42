-------------------------------- MODULE Sha2 --------------------------------
(***************************************************************************)
(* The software SHA-256 (crypto/McEliece/common/sha2.c), which the tests   *)
(* compare the accelerator with: contexts that live on the heap, may be    *)
(* cloned, take whole blocks, and are freed when they are finalized.       *)
(*                                                                         *)
(* A handle is a sha256ctx of the caller; the caller uses a handle it has  *)
(* initialized and has not finalized or released, and does not initialize  *)
(* a handle that is in use.                                                *)
(***************************************************************************)
EXTENDS ShaBlocks, FiniteSets

CONSTANTS
    Handle,     \* the contexts of the caller
    Place,      \* places on the heap for PQC_SHA256CTX_BYTES
    MAXBLOCKS,  \* bound of the model: blocks put into a context
    NoPlace     \* the ctx of a handle that is not in use

ASSUME ShaHeap == NoPlace \notin Place /\ MAXBLOCKS \in Nat

VARIABLES
    ctx,        \* the pointer of each handle
    heap,       \* the contexts: chain value and byte count
    free,       \* the places malloc may return
    exited,     \* exit(111) after a malloc that failed
    absorbed,   \* what has been put into each handle since its IncInit (history)
    digests     \* the message and the digest of the last IncFinalize (history)

vars == <<ctx, heap, free, exited, absorbed, digests>>

Context == [chain : Seq(Block) \cup {Garbage}, bytes : Nat]
InUse(h) == ctx[h] # NoPlace

\* crypto_hashblocks_sha256: every whole block of in is compressed.
HashBlocks(chain, in) ==
    LET after[n \in 0 .. Len(in) \div BLOCK] ==
            IF n = 0 THEN chain ELSE Compress(after[n - 1], BlockAt(in, (n - 1) * BLOCK))
    IN after[Len(in) \div BLOCK]

Init ==
    /\ ctx = [h \in Handle |-> NoPlace]
    /\ heap = [p \in Place |-> [chain |-> Garbage, bytes |-> 0]]
    /\ free = Place
    /\ exited = FALSE
    /\ absorbed = [h \in Handle |-> << >>]
    /\ digests = << << >>, Digest(<< >>) >>

\* A malloc that finds no place ends the program.
Exhausted ==
    /\ ~exited
    /\ free = {}
    /\ exited' = TRUE
    /\ UNCHANGED <<ctx, heap, free, absorbed, digests>>

\* malloc for handle h, and the first contents of the context.
Allocate(h, contents) ==
    \E p \in free :
        /\ ctx' = [ctx EXCEPT ![h] = p]
        /\ heap' = [heap EXCEPT ![p] = contents]
        /\ free' = free \ {p}

IncInit(h) ==
    /\ ~exited /\ ~InUse(h)
    /\ Allocate(h, [chain |-> IV, bytes |-> 0])
    /\ absorbed' = [absorbed EXCEPT ![h] = << >>]
    /\ UNCHANGED <<exited, digests>>

\* The clone gets a place of its own and a copy of the context.
IncCtxClone(out, in) ==
    /\ ~exited /\ ~InUse(out) /\ InUse(in)
    /\ Allocate(out, heap[ctx[in]])
    /\ absorbed' = [absorbed EXCEPT ![out] = absorbed[in]]
    /\ UNCHANGED <<exited, digests>>

CountedOnce(bytes, n) == bytes + BLOCK          \* slip: one block, not inblocks
Counted(bytes, n) == bytes + n

IncBlocks(h, in) ==
    /\ ~exited /\ InUse(h)
    /\ Len(absorbed[h]) + Len(in) <= MAXBLOCKS * BLOCK
    /\ heap' = [heap EXCEPT ![ctx[h]] =
                    [chain |-> HashBlocks(@.chain, in), bytes |-> Counted(@.bytes, Len(in))]]
    /\ absorbed' = [absorbed EXCEPT ![h] = @ \o in]
    /\ UNCHANGED <<ctx, free, exited, digests>>

\* free(state->ctx)
NotReleased(h) == free                          \* slip: the leak of an early return
Released(h) == free \cup {ctx[h]}

IncCtxRelease(h) ==
    /\ ~exited /\ InUse(h)
    /\ free' = Released(h)
    /\ ctx' = [ctx EXCEPT ![h] = NoPlace]
    /\ UNCHANGED <<heap, exited, absorbed, digests>>

\* The whole blocks of in, then the padded rest, then the digest and the free.
IncFinalize(h, in) ==
    /\ ~exited /\ InUse(h)
    /\ LET c == heap[ctx[h]]
           left == SubSeq(in, Len(in) - (Len(in) % BLOCK) + 1, Len(in))
           padded == PadBuffer(left, c.bytes + Len(in))
           last == SubSeq(padded, 1, PaddedSize(Len(left)))
           end == HashBlocks(HashBlocks(c.chain, in), last)
       IN /\ heap' = [heap EXCEPT ![ctx[h]].chain = end]
          /\ digests' = <<absorbed[h] \o in, end>>
    /\ free' = Released(h)
    /\ ctx' = [ctx EXCEPT ![h] = NoPlace]
    /\ UNCHANGED <<exited, absorbed>>

Whole(m) == Len(m) % BLOCK = 0

Next ==
    \/ Exhausted
    \/ \E h \in Handle : IncInit(h) \/ IncCtxRelease(h)
    \/ \E h, g \in Handle : IncCtxClone(h, g)
    \/ \E h \in Handle, in \in Messages : Whole(in) /\ IncBlocks(h, in)
    \/ \E h \in Handle, in \in Messages : IncFinalize(h, in)

Spec == Init /\ [][Next]_vars

----------------------------------------------------------------------------
(* Correctness. *)

\* Types: a digest, in particular, is made of blocks of bytes that were written,
\* and of nothing that was left in the local buffer padded.
TypeOK ==
    /\ ctx \in [Handle -> Place \cup {NoPlace}]
    /\ heap \in [Place -> Context]
    /\ free \subseteq Place
    /\ exited \in BOOLEAN
    /\ absorbed \in [Handle -> Seq(Byte)]
    /\ digests \in Seq(Byte) \X Seq([1 .. BLOCK -> Byte])

\* However a message was cut into blocks, and whatever was done to clones of
\* the context in between, sha256_inc_finalize returns its digest.
FinalizeGivesDigest == digests[2] = Digest(digests[1])

\* Contexts in use are apart from each other and from free memory, and no
\* memory is lost: every place is free or the context of exactly one handle.
HeapExact ==
    \A p \in Place :
        Cardinality({h \in Handle : ctx[h] = p}) = IF p \in free THEN 0 ELSE 1

============================================================================
