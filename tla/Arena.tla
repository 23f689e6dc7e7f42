-------------------------------- MODULE Arena --------------------------------
(***************************************************************************)
(* The arena, the stack allocator of crypto/McEliece/arena.c, and every    *)
(* function of the embedded test run that takes memory from it: main, the  *)
(* suites, VersatMcEliece and what it calls.                               *)
(*                                                                         *)
(* A frame is a function between its MarkArena and its PopArena: the mark, *)
(* the end of what it has pushed, and the end of what it writes there.     *)
(* Offsets count from arena->ptr.  Sizes are those of the code, in bytes.  *)
(***************************************************************************)
EXTENDS Naturals, Sequences, SequencesExt

CONSTANTS
    ALLOCATED,          \* Mega(1) in main
    SYS_N, SYS_T, GFBITS, PK_NROWS,
    PUBLICKEYBYTES, SECRETKEYBYTES,
    FILE,               \* the size of the file of each suite
    BITS                \* the values of LEN in the SHA file

ASSUME ArenaSizes ==
    /\ {ALLOCATED, SYS_N, SYS_T, GFBITS, PK_NROWS, PUBLICKEYBYTES, SECRETKEYBYTES} \subseteq Nat \ {0}
    /\ FILE \in [{"SHA", "AES", "McEliece"} -> Nat]
    /\ BITS \subseteq Nat
    /\ 2 ^ GFBITS \in Nat

VARIABLES
    used,               \* arena->used
    frames,             \* the live frames, outermost first
    pc                  \* what the innermost function does next

arena == <<used, frames, pc>>

----------------------------------------------------------------------------
(* PushBytes. *)

Unaligned(size) == size                                                 \* slip
Align4(size) == ((size + 3) \div 4) * 4

\* Sizes on the RISC-V processor: a pointer and an int32 have 4 bytes, a gf has 2.
Perm == 2 ^ GFBITS
SizeOfR == SYS_N \div 8 + Perm * 4 + SYS_T * 2 + 32
KeygenPushes ==         \* r, f, irr, perm, pi
    Align4(SizeOfR) + Align4(SYS_T * 2) + Align4(SYS_T * 2) + Align4(Perm * 4) + Align4(Perm * 2)
GenpolyPushes == Align4((SYS_T + 1) * 4) + (SYS_T + 1) * Align4(SYS_T * 2)
GfMulPushes == Align4((SYS_T * 2 - 1) * 2)
PkGenPushes ==          \* mat, its rows, g, L, inv
    Align4(PK_NROWS * 4) + PK_NROWS * Align4(SYS_N \div 8)
        + Align4((SYS_T + 1) * 2) + Align4(SYS_N * 2) + Align4(SYS_N * 2)
ControlBitsPushes == Align4(2 * Perm * 4) + Align4(Perm * 2)
HexPushes == Align4(PUBLICKEYBYTES * 2 + 1) + Align4(SECRETKEYBYTES * 2 + 1)
FilePush(suite) == Align4(FILE[suite] + 1)

Frame(fn, mark, top, written) == [fn |-> fn, mark |-> mark, top |-> top, written |-> written]
Top == frames[Len(frames)]

\* The function fn marks the arena and pushes.
Call(fn, bytes) ==
    /\ used' = used + bytes
    /\ frames' = Append(frames, Frame(fn, used, used + bytes, used + bytes))

\* The innermost function pushes more, and writes as far as written bytes on.
PushMore(bytes, written) ==
    /\ used' = used + bytes
    /\ frames' = [frames EXCEPT
           ![Len(frames)] = Frame(Top.fn, Top.mark, used + bytes, used + written)]

\* PopArena(globalArena, mark), and return.
ToCaller == frames[IF Len(frames) = 1 THEN 1 ELSE Len(frames) - 1].mark \* slip
NotPopped == used                                                       \* slip
Mark == Top.mark
Pop == used' = Mark /\ frames' = Front(frames)

\* An early return that does not pop.
ReturnUnpopped == frames' = Front(frames) /\ UNCHANGED used

ArenaInit ==
    /\ used = 0
    /\ frames = <<>>
    /\ pc = "SHA"

----------------------------------------------------------------------------
(* SHA and AES: VersatSHATests, VersatAESTests and the loops they call. *)

SuiteCalled ==
    /\ pc \in {"SHA", "AES"} /\ frames = <<>>
    /\ Call(pc, FilePush(pc))
    /\ pc' = "common"

CommonTests ==
    /\ pc = "common"
    /\ Call(Top.fn, 0)
    /\ pc' = "tests"

\* One test: its mark, and what it pushes before it computes.  HexStringToHex writes
\* the digits of MSG, which are two even when LEN is 0; PushArray takes LEN bytes,
\* where LEN counts bits.
MessageBytes(bits) == IF bits = 0 THEN 1 ELSE bits \div 8
ShaTest ==
    /\ pc = "tests" /\ Top.fn = "SHA"
    /\ Call("test", 0)
    /\ pc' = "message"

ShaMessage(bits) ==
    /\ pc = "message"
    /\ PushMore(Align4(bits), MessageBytes(bits))
    /\ pc' = "test"

\* The key is 32 + 1 bytes and the plaintext 16 + 1, for the 64 and 32 digits.
AesTest ==
    /\ pc = "tests" /\ Top.fn = "AES"
    /\ Call("test", 0)
    /\ pc' = "key"

AesKey ==
    /\ pc = "key"
    /\ PushMore(Align4(32 + 1), 32)
    /\ pc' = "plain"

AesPlain ==
    /\ pc = "plain"
    /\ PushMore(Align4(16 + 1), 16)
    /\ pc' = "test"

TestEnds ==
    /\ pc = "test"
    /\ Pop
    /\ pc' = "tests"

\* No first tag: the loop ends, with or without a test mark that took nothing.
LoopEnds ==
    /\ pc = "tests"
    /\ Pop
    /\ pc' = "report"

\* A later tag is missing: the mark of the loop takes back what the test pushed, and
\* the suite returns 1 without its own PopArena.
LoopLeaves ==
    /\ pc \in {"message", "key", "plain", "test"} /\ Top.fn = "test"
    /\ used' = frames[Len(frames) - 1].mark
    /\ frames' = SubSeq(frames, 1, Len(frames) - 2)
    /\ pc' = "unpopped"

SuiteReturns ==
    /\ pc \in {"report", "unpopped"}
    /\ IF pc = "report" THEN Pop ELSE ReturnUnpopped
    /\ pc' = IF Top.fn = "SHA" THEN "AES" ELSE "McEliece"

----------------------------------------------------------------------------
(* McEliece: VersatMcElieceTests, VersatMcEliece, genpoly_gen, GF_mul,     *)
(* Versat_pk_gen and controlbitsfrompermutation.                           *)

McElieceTests ==
    /\ pc = "McEliece"
    /\ Call(pc, Align4(PUBLICKEYBYTES) + Align4(SECRETKEYBYTES) + FilePush(pc))
    /\ pc' = "keypair"

KeyPair ==
    /\ pc = "keypair"
    /\ Call("VersatMcEliece", KeygenPushes)
    /\ pc' = "attempt"

Genpoly ==
    /\ pc = "attempt"
    /\ Call("genpoly_gen", GenpolyPushes)
    /\ pc' = "genpoly_gen"

GfMul ==
    /\ pc = "genpoly_gen"
    /\ Call("GF_mul", GfMulPushes)
    /\ pc' = "GF_mul"

GfMulReturns ==
    /\ pc = "GF_mul"
    /\ Pop
    /\ pc' = "genpoly_gen"

\* -1 when the matrix is not systematic: the loop continues with another seed.
GenpolyReturns ==
    /\ pc = "genpoly_gen"
    /\ Pop
    /\ pc' \in {"attempt", "polynomial"}

PkGen ==
    /\ pc = "polynomial"
    /\ Call("Versat_pk_gen", PkGenPushes)
    /\ pc' = "Versat_pk_gen"

\* -1 for a repeated value of the permutation or a matrix that is not systematic.
PkGenReturns ==
    /\ pc = "Versat_pk_gen"
    /\ Pop
    /\ pc' \in {"attempt", "public_key"}

ControlBits ==
    /\ pc = "public_key"
    /\ Call("controlbits", ControlBitsPushes)
    /\ pc' = "controlbits"

ControlBitsReturns ==
    /\ pc = "controlbits"
    /\ Pop
    /\ pc' = "secret_key"

KeyPairReturns ==
    /\ pc = "secret_key"
    /\ Pop
    /\ pc' = "hex"

\* The two keys in hexadecimal, and the frame of the test back off the arena.
Hex ==
    /\ pc = "hex"
    /\ Call("test", HexPushes)
    /\ pc' = "compare"

Compare ==
    /\ pc = "compare"
    /\ Pop
    /\ pc' = "finished"

\* No test, or a tag that is missing, leaves the loop before the key pair.
NoTest ==
    /\ pc = "keypair"
    /\ UNCHANGED <<used, frames>>
    /\ pc' = "finished"

McElieceReturns ==
    /\ pc = "finished"
    /\ Pop
    /\ pc' = "end"

\* main sends the log.
End == pc = "end" /\ UNCHANGED arena

ShaAndAes ==
    \/ SuiteCalled \/ CommonTests \/ ShaTest \/ (\E bits \in BITS : ShaMessage(bits))
    \/ AesTest \/ AesKey \/ AesPlain \/ TestEnds \/ LoopEnds \/ LoopLeaves \/ SuiteReturns
McEliece ==
    \/ McElieceTests \/ KeyPair \/ Genpoly \/ GfMul \/ GfMulReturns \/ GenpolyReturns
    \/ PkGen \/ PkGenReturns \/ ControlBits \/ ControlBitsReturns \/ KeyPairReturns
    \/ Hex \/ Compare \/ NoTest \/ McElieceReturns

ArenaNext == ShaAndAes \/ McEliece \/ End

ArenaSpec == ArenaInit /\ [][ArenaNext]_arena

----------------------------------------------------------------------------
(* Correctness. *)

\* How many functions are between mark and pop at each point.
InMain == {"SHA", "AES", "McEliece", "end"}
InSuite == {"common", "report", "unpopped", "keypair", "hex", "finished"}
InLoop == {"tests", "attempt", "polynomial", "public_key", "secret_key", "compare"}
InLeaf == {"message", "key", "plain", "test", "genpoly_gen", "Versat_pk_gen", "controlbits"}
Depth ==
    \/ pc \in InMain /\ Len(frames) = 0
    \/ pc \in InSuite /\ Len(frames) = 1
    \/ pc \in InLoop /\ Len(frames) = 2
    \/ pc \in InLeaf /\ Len(frames) = 3
    \/ pc = "GF_mul" /\ Len(frames) = 4

\* Every mark, and with it whatever is pushed, is at a multiple of 4: the rows of the
\* matrix, which the accelerator reads by words, and the arrays of pointers.
Offset == {n \in Nat : n % 4 = 0}
Function == {"SHA", "AES", "McEliece", "test", "VersatMcEliece", "genpoly_gen", "GF_mul",
             "Versat_pk_gen", "controlbits"}
FrameType == [fn : Function, mark : Offset, top : Offset, written : Nat]
ArenaTypeOK ==
    /\ used \in Offset
    /\ frames \in Seq(FrameType)
    /\ Depth

\* Nothing is written past the end of the megabyte, whichever tests leave early
\* without giving their memory back and however often the key generation retries:
\* PushBytes only prints when that happens.
Fits ==
    /\ used <= ALLOCATED
    /\ \A i \in DOMAIN frames : frames[i].written <= ALLOCATED

\* What Fits needs of the sizes: the deepest calls of each suite, on top of the files that
\* the suites before it may have left behind.
AfterSha == FilePush("SHA")
AfterAes == AfterSha + FilePush("AES")
KeyTests == AfterAes + Align4(PUBLICKEYBYTES) + Align4(SECRETKEYBYTES) + FilePush("McEliece")
Keygen == KeyTests + KeygenPushes
Room ==
    /\ \A bits \in BITS : AfterSha + Align4(bits) <= ALLOCATED /\ AfterSha + MessageBytes(bits) <= ALLOCATED
    /\ AfterAes + Align4(32 + 1) + Align4(16 + 1) <= ALLOCATED
    /\ KeyTests + HexPushes <= ALLOCATED
    /\ Keygen + GenpolyPushes + GfMulPushes <= ALLOCATED
    /\ Keygen + PkGenPushes <= ALLOCATED
    /\ Keygen + ControlBitsPushes <= ALLOCATED

\* Memory of a live function is never given to another.
Disjoint ==
    /\ \A i \in DOMAIN frames : frames[i].mark <= frames[i].top
    /\ \A i \in 1 .. Len(frames) - 1 : frames[i].top <= frames[i + 1].mark
    /\ frames # <<>> => Top.top <= used
============================================================================
