----------------------------- MODULE VersatSha -----------------------------
(***************************************************************************)
(* VersatSHA (versat_sha.c): SHA-256 on the SHA unit of the accelerator.   *)
(*                                                                         *)
(* A run of the accelerator compresses the block that the run before it    *)
(* loaded, and loads the next one (the VRead unit is double buffered).     *)
(* The first run of a message therefore compresses whatever was loaded     *)
(* last, its result is overwritten with the initial value, and one more    *)
(* run after the last block is needed to compress that block.              *)
(*                                                                         *)
(* All algorithms share one accelerator: a run that AES or McEliece starts *)
(* is a run of the SHA unit as well, on the address it was last given.     *)
(* Such runs happen between calls (ForeignRun).  InitVersatSHA has been    *)
(* called: it switches the VRead unit on, for good.                        *)
(***************************************************************************)
EXTENDS ShaBlocks

VARIABLES
    pc,                 \* where VersatSHA is
    msg,                \* in, inlen: the caller's message
    padded,             \* the local buffer for the last blocks
    src,                \* the buffer versat_crypto_hashblocks_sha256 reads
    at, inlen,          \* its in and inlen
    loaded,             \* the half of MemRead the last run filled
    state,              \* the state registers
    runInitialized,     \* the static flag
    out                 \* the caller's digest buffer

vars == <<pc, msg, padded, src, at, inlen, loaded, state, runInitialized, out>>

Source == IF src = "message" THEN msg ELSE padded

Init ==
    /\ pc = "idle"
    /\ msg = << >>
    /\ padded = [i \in 1 .. 2 * BLOCK |-> Junk]
    /\ src = "message"
    /\ at = 0 /\ inlen = 0
    /\ loaded = JunkBlock
    /\ state = Garbage
    /\ runInitialized = FALSE
    /\ out = Garbage

\* The caller enters VersatSHA; padded is a new local.
Call ==
    /\ pc = "idle"
    /\ pc' = "hash"
    /\ msg' \in Messages
    /\ padded' = [i \in 1 .. 2 * BLOCK |-> Junk]
    /\ src' = "message"
    /\ at' = 0
    /\ inlen' = Len(msg')
    /\ UNCHANGED <<loaded, state, runInitialized, out>>

\* The state after a run of the loop: the first run leaves the initial value.
AfterRunKept == Compress(state, loaded)         \* slip: the state is not set
AfterRun == IF runInitialized THEN Compress(state, loaded) ELSE IV

\* An iteration of versat_crypto_hashblocks_sha256.
HashBlock ==
    /\ pc = "hash"
    /\ inlen >= BLOCK
    /\ loaded' = BlockAt(Source, at)
    /\ state' = AfterRun
    /\ runInitialized' = TRUE
    /\ at' = at + BLOCK
    /\ inlen' = inlen - BLOCK
    /\ UNCHANGED <<pc, msg, padded, src, out>>

\* The whole blocks of the message are in: pad what is left of it.
Pad ==
    /\ pc = "hash" /\ src = "message"
    /\ inlen < BLOCK
    /\ padded' = PadBuffer(SubSeq(msg, at + 1, Len(msg)), Len(msg))
    /\ src' = "padded"
    /\ at' = 0
    /\ inlen' = PaddedSize(inlen)
    /\ UNCHANGED <<pc, msg, loaded, state, runInitialized, out>>

\* What the last run leaves in the state registers.
Flushed == Compress(state, loaded)

\* runInitialized = false
EndForgotten == runInitialized                  \* slip: the flag is left set
EndOfRun == FALSE

\* The last RunAccelerator, on the address of the last block, and the digest.
Flush ==
    /\ pc = "hash" /\ src = "padded"
    /\ inlen < BLOCK
    /\ state' = Flushed
    /\ loaded' = BlockAt(padded, at - BLOCK)
    /\ out' = state'
    /\ runInitialized' = EndOfRun
    /\ pc' = "idle"
    /\ UNCHANGED <<msg, padded, src, at, inlen>>

\* A run for another algorithm: the stale address is that of a dead buffer.
ForeignRun ==
    /\ pc = "idle"
    /\ state' = Compress(state, loaded)
    /\ loaded' = JunkBlock
    /\ UNCHANGED <<pc, msg, padded, src, at, inlen, runInitialized, out>>

Next == Call \/ HashBlock \/ Pad \/ Flush \/ ForeignRun

Spec == Init /\ [][Next]_vars

----------------------------------------------------------------------------
(* Correctness. *)

\* Types, and that every byte of padded still to be hashed, or hashed before, has
\* been written by VersatSHA: the buffer is not initialized.
TypeOK ==
    /\ pc \in {"idle", "hash"}
    /\ msg \in {<< >>} \cup Messages
    /\ padded \in [1 .. 2 * BLOCK -> Cell]
    /\ pc = "hash" /\ src = "padded" => \A i \in 1 .. at + inlen : padded[i] \in Byte
    /\ src \in {"message", "padded"}
    /\ at \in Nat /\ inlen \in Nat
    /\ loaded \in Block
    /\ state \in Seq(Block) \cup {Garbage}
    /\ runInitialized \in BOOLEAN
    /\ out \in Seq(Block) \cup {Garbage}

\* The blocks that have been handed to the accelerator.
Handed ==
    (IF src = "message" THEN at ELSE BLOCK * (Len(msg) \div BLOCK) + at) \div BLOCK

\* Inside a call the unit is exactly one block behind the program: nothing but
\* blocks of this message is in the state, and the block to come is loaded.  In
\* particular no byte of padded that was not written reaches the state.
OneBehind ==
    pc = "hash" =>
        /\ runInitialized <=> Handed > 0
        /\ Handed > 0 => Append(state, loaded) = SubSeq(Digest(msg), 1, Handed)

\* Whatever ran on the accelerator in between, a call returns the digest.
SD == INSTANCE ShaDigest WITH busy <- pc # "idle"
ImplementsShaDigest == SD!Spec
============================================================================
