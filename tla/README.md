# IOb-SoC-OpenCryptoHW in TLA+

Specifications, model-checking configurations and machine-checked proofs for the
firmware of IOb-SoC-OpenCryptoHW: SHA-256, AES and the McEliece key generation on
a RISC-V processor with a Versat accelerator. Paths below are relative to
`src/software/src/` unless they start with `src/`.

Contents: [the system](#1-the-system), [modules](#2-modules),
[runs](#3-runs-bounds-and-what-they-show), [fairness](#4-fairness),
[proofs](#5-proofs), [findings](#6-findings),
[what is not modelled](#7-what-is-not-modelled), [plan](#8-plan).

To check: `tlc -config <run>.cfg <module>` for each line of section 3, and
`tlapm <module>` for each line of section 5.

## 1. The system

One processor, one accelerator, one memory. The accelerator (`src/versatSpec.txt`,
unit `CryptoAlgos`) contains the SHA, AES and McEliece units side by side. A run is
started by `StartAccelerator` and waited for by `EndAccelerator`; **every run
steps all three units**, with whatever configuration each was last given. The
units that stream memory (`VRead`, `VWrite`) are double buffered: what a run
loads is consumed by the next one. Configuration is taken over when a run starts,
so the program may write the next configuration during a run; registers inside
the units are written directly and must not be touched then. There are no
interrupts and no threads: the concurrency of the system is that of the program
with the stages of a run.

| Component | State it keeps | Operations | What is hard | Correct when |
|---|---|---|---|---|
| McEliece elimination on the accelerator (`versat_mceliece.c:61-353`) | matrix in memory, pivot row in the unit, two stream units with two halves each, `savedMask` in each loop function, configuration | load row, loop 1 (pivot), loop 2 (clear), two flush runs, copy to `pk` | the program is two runs ahead of the data; loads, stores and the program's own reads hit the same matrix; static state survives failed attempts | it performs the elimination of `pk_gen.c`; the order of two accesses to a row never matters; the key holds the reduced rows (the copy to `pk` breaks the last two, section 6) |
| SHA-256 on the accelerator (`versat_sha.c`) | state registers, the loaded block, static `runInitialized` | `InitVersatSHA`, `VersatSHA` | one block behind; first run is garbage; runs of other algorithms in between; padding boundary | each call returns the digest of its message |
| AES on the accelerator (`versat_aes.c`) | key registers, state, `lastResult`, `lastValToAdd`, configuration | init, `LoadIV`, `ExpandKey`, `Encrypt`, `Decrypt`; ECB, CBC, CTR | registers that every run overwrites unless they are disabled in time; no `EndAccelerator` before some starts | the modes agree with the software, and decrypt what they encrypt |
| Software SHA-2 (`crypto/McEliece/common/sha2.c`) | contexts on the heap with a byte count | init, clone, blocks, finalize, release | cutting of messages; clones; ownership of contexts | digest of the bytes, heap exact |
| SHA-3, SHAKE, cSHAKE (`common/fips202.c`, `common/sp800-185.c`) | contexts on the heap: 25 words, and a count | incremental and one-shot absorb, finalize, squeeze, clone, release | one word with two meanings; cuts at every place of a block | output depends on the message only |
| Software AES (`crypto/aes.c`) | round keys | key expansion, cipher and its inverse; ECB, CBC, CTR of two blocks | - | reference for the accelerator |
| McEliece key generation (`versat_mceliece.c:355-428`, `operations.c:76-153`) | seed, expanded bytes, pointers `rp` and `skp`, `sk` | attempt: polynomial, permutation, elimination, control bits | any attempt may fail with `sk` half written | the keys are of one seed, and that seed is in `sk` |
| KEM (`operations.c:20-74`, `encrypt.c`, `decrypt.c`) | draws of `gen_e` | enc, dec | retry in `gen_e`, implicit rejection | dec returns the key of enc; any other word is answered with `s` unless it decodes |
| Goppa code arithmetic (`gf.c`, `root.c`, `synd.c`, `bm.c`, `sk_gen.c`, `util.c`) | none | field, `genpoly_gen`, key matrix, syndrome, Berlekamp-Massey | zero pivots, zero discrepancies | `genpoly_gen` returns the minimal polynomial; the decoder undoes every error of weight `SYS_T` |
| Control bits, Benes network (`controlbits.c`, `benes.c`, `transpose.c`), sorting networks | buffers of a try | compute, check, retry; apply | recursion over strides; the test and the use of the bits are different code | the network gives back the permutation, and the support of the decoder is that of the key |
| Constant-time helpers (`crypto_int16.c` and four more) | none | masks, min, max | signs at the limits of a word | they tell what their names say |
| NIST DRBG (`common/nistkatrng.c`, `common/aes.c`) | Key, V | init, `randombytes` | cut blocks, carries of V | no block is handed out twice, nor kept as the next key |
| NIST seed expander (`common/nistseedexpander.c`) | buffer, position, length remaining | init, expand | no caller | - |
| Arena (`crypto/McEliece/arena.c`) | `used` | push, mark, pop | unchecked overflow; early exits that skip the pop | no two live functions share memory, 1 MiB is enough |
| Test suites (`crypto_embedded_tests.c`, `crypto_common_tests.c`) and `main` | counts of tests and of good tests, `test_result` | three suites in order, verdict in `test.log` | malformed files, early exits | the log says passed exactly when it is so |

Interactions: `main` runs SHA, then AES, then McEliece tests
(`iob_soc_opencryptohw_firmware.c:56-58`; in simulation only the first two). The
suites call the accelerator and the software and compare. The key generation
calls `randombytes`, `shake256`, the Goppa arithmetic, `Versat_pk_gen` and the
control bits, and takes all its memory from the arena. Encapsulation and decapsulation
are compiled with it; a caller would use them as `api.h` says, after a key generation. The three algorithms
interact through the accelerator alone: a run of one is a run of the others.

## 2. Modules

| Module | Models | Kind |
|---|---|---|
| `BitRows` | rows of bits as sets of columns; masks; loop counters that skip the pivot row | operators |
| `GaussElim` | the elimination of `pk_gen.c:97-168` | abstract specification |
| `VersatElim` | `Versat_pk_gen`, `VersatMcElieceLoop1`, `VersatMcElieceLoop2` with the McEliece unit | implements `GaussElim` |
| `ShaBlocks` | messages, blocks, padding, the digest as a chain of blocks | operators |
| `ShaDigest` | what a hash function promises: a call, then the digest of its message | abstract specification |
| `VersatSha` | `VersatSHA` with the SHA unit, and runs of other algorithms | implements `ShaDigest` |
| `Sha2` | SHA-256 of `common/sha2.c`, contexts on a heap | component |
| `AesBlocks` | blocks, key schedule and cipher of `crypto/aes.c`, the modes | operators, reference |
| `VersatAes` | `versat_aes.c` with the FullAES unit | component |
| `Sponge` | the Keccak state, SP 800-185 encodings, padding and output of a whole message | operators, reference |
| `Fips202` | every call of `fips202.c` and the cSHAKE calls | component |
| `Keygen` | the loop of `VersatMcEliece` | component |
| `Field` | `gf.c`, `root.c`, the bit reversal of `util.c`, for a field that is a parameter | operators |
| `Goppa` | `genpoly_gen`, the matrix and the key of `pk_gen.c`, `synd.c`, `bm.c`, the acceptance of `decrypt.c` | operators |
| `Benes` | the sorting networks, `controlbits.c`, `benes.c`, `transpose.c` | operators |
| `Masks` | the comparisons without branches, for a width that is a parameter | operators |
| `Drbg` | `nistkatrng.c`, with AES uninterpreted | operators |
| `Kem` | `crypto_kem_enc` and `crypto_kem_dec` over `Keygen`, `Goppa`, `Benes` and `Drbg` | composition |
| `KatTests` | the suites, the files, `main`'s verdict | component |
| `Arena` | the arena through the whole test run | component |
| `MC*` | constants for TLC: matrices, messages, a small cipher, symmetry | instances |
| `*Proofs` | theorems | proofs |

How they relate to the code:

* **`VersatElim`.** One action per half of a loop function: `Loop1Configure` and
  `Loop2Configure` write configuration, `Loop1Start` and `Loop2Start` are
  `EndAccelerator` (the guard `Idle`), `StartAccelerator` and the update of
  `savedMask`. A run is up to three stages (`HwLoad`, `HwCompute`, `HwStore`) that
  end in any order and interleave with the program's own memory accesses
  (`LoadRow`, `XorPivotByte`, `ReadRow`, `CopyRow`). `Start` swaps the halves of
  both stream units. `Retry` is the caller's next attempt: it clears only what
  `ConfigureSimpleVReadBare` clears. The matrix is any matrix of the constant
  `Matrices`; a row is the set of its columns that are 1, so `^` is symmetric
  difference, and the pivot byte is the intersection with a byte's columns.
* **Refinement to `GaussElim`.** A `Pivot` step of the reference is the end of the
  compute stage of a loop-1 run, a `Clear` step the end of the store stage of a
  loop-2 run. The mapping reads the abstract `mat` from the unit's memory while the
  pivot row is there, and `k` from the row the run in progress stores.
* **`VersatSha`.** The SHA unit compresses the block the previous run loaded
  (`state`, `loaded`). An iteration of `versat_crypto_hashblocks_sha256` is one
  action, the padding another, the flush and the read of the registers a third.
  `ForeignRun` is a run by AES or McEliece between calls. The compression function
  is free: a state is the sequence of blocks compressed since the initial value.
  The bytes of `padded` that are not written are `Junk`.
* **`VersatAes`.** A call of the interface is cut at each start of the accelerator.
  `cfg` is what the program wrote, `run` what the run in progress took. Round layers
  are constants with the algebra of `AesAlgebra` (inverse pairs, linearity where
  decryption needs it). `ForeignRun` may happen between any two calls.
* **`Fips202`.** A Keccak state is the sequence of blocks xored in between
  permutations, a byte squeezed out is the pair of state and position. The block
  loops are the recursive functions `lanes`. A handle is a context of the caller,
  who keeps to the documented order of calls; `malloc` may fail whenever it is called.
  The words of a place are reset when it is freed; no one reads them.
* **`Sha2`.** The same for the SHA-256 contexts; `Garbage` is the content of a place
  that was never initialized.
* **`Keygen`.** A byte is known by where it came from, so a key made of bytes of
  two attempts is told from one of a single attempt. Which way each attempt ends
  is chosen in the initial state.
* **`Kem`.** Composes the loop of `Keygen` with what it computes. `data` gives every attempt its
  own field element, permutation and string `s`, with the key they lead to, and the outcome of an attempt is no choice
  any more: it is that of `genpoly_gen`, of the sort and of the elimination on that data
  (`Made`). `Generate` is a step of `Keygen`; its step out of `control` needs control bits that
  pass the test of `controlbits.c`, since the loop there does not end otherwise. `Return` reads the
  keys off by the origin of their bytes. `Draw` is a turn of the loop of `gen_e`, in which `ind` keeps
  what an earlier draw left; `Encapsulate` is the rest of `crypto_kem_enc`; `ReadSecret` and
  `DecapsulateSent` or `DecapsulateOther` are `crypto_kem_dec`, cut where the support is ready.
  A key is `<<1, e, c>>` or `<<0, s, c>>`, what is hashed.
* **`Field`, `Goppa`, `Benes`.** A field element is the set of bits of its `gf`. The two sizes that are
  built into the C text, the polynomial of the field and the chain of `gf_inv`, are parameters.
  `cbrecursion` is one call, and `controlbitsfrompermutation` makes all the calls of a depth at
  once, since none writes the bits of another; its two packings of `p` and `c` into words, of
  10 and of 16 bits, hold the same values and are one model. `int32_sort` of
  `key << 16 | value` by different keys is `Sorted`; the network itself is in `uint64_sort`.
  `pk_gen.c`'s elimination appears here by its result on the sets of ones; its
  steps are the subject of `GaussElim` and `VersatElim`.
* **`Drbg`.** A block is the call of AES it comes from, and V is a block with the number of
  increments since; so two blocks are equal exactly if they come from the same call.
* **`KatTests`.** A file is a sequence of tagged lines. One file may lack any one
  line, or have any one wrong result; each implementation may get `FAULTS` vectors wrong.
* **`Arena`.** The frames of the functions that are between mark and pop, with the
  real sizes of mceliece348864 and of the files in `src/software/KAT`.

## 3. Runs, bounds, and what they show

| Run | Module | Checks | Bounds |
|---|---|---|---|
| `gauss` | `MCGaussElim` | on success the left block is the identity; failure exactly when it is singular; the row space is kept | all 4096 matrices of 3 x 4 |
| `elim` | `MCVersatElim` | implements `GaussElim`; no row is raced for but by the copy to `pk`, on row `PK_NROWS - 2`; the program's pivot byte agrees with the unit; all rows of the key but one; every attempt ends | 4 rows, bytes of 2 columns, 144 matrices, any number of attempts |
| `elim_key` | `MCVersatElim` | violation: the key is not the reduced matrix | 3 rows, 27 matrices |
| `sha` | `MCVersatSha` | every byte of `padded` that is hashed was written; one block behind; implements `ShaDigest` | 22 messages of every length up to two bytes short of two blocks |
| `sha2` | `MCSha2` | no digest of bytes that were not written; finalize gives the digest; heap exact | 3 contexts, 2 places, 2 blocks |
| `aes` | `MCVersatAes` | modes correct; key schedule kept; no register written during a run | 8 jobs, 3 and 4 rounds, words of 3 bits |
| `fips202` | `MCFips202` | count below the rate; the output is that of the whole message; heap exact | rate 3, 2 contexts, 4 bytes in, 4 bytes out |
| `kem` | `MCKem` | keys of one seed; the loop ends; the polynomial is minimal; the support of the decoder is that of the key; `gen_e` keeps one draw; both sides agree on every error; other words are answered with `s`; no random block twice | GF(16), length 14, 3 errors; 3 attempts, 6 expansions; 364 errors and 3 bad draws; 512 words |
| `kat` | `KatTests` | the verdict is exact; passed means tested | 2 vectors, 1 fault, one bad file |
| `kat_compared` | `KatTests` | violation: results are not compared with the files | as `kat` |
| `kat_key` | `KatTests` | violation: passed without a key tested | as `kat` |
| `arena` | `MCArena` | 1 MiB is enough (also `Room`, an assumption of the module); no sharing | real sizes, every early exit, any number of retries |

Why the bounds are enough.

* *Elimination.* The pipeline is two runs deep, so the interesting places are the
  first two and last two calls of a loop and the step over the pivot row. Four
  rows have a first, two middle and a last pivot, each with a different place of the
  skip, and a loop with a call that is none of the first and last two; bytes of two
  columns add a change of pivot byte between them. The matrices include ones
  that fail at each pivot, so attempts start with what every kind of failure left.
* *SHA.* The state of a call depends on the length of the rest and on whether there was
  a whole block before it: every length of the rest occurs with none and with one
  block. `BLOCK` = 4 with a length field of 2 keeps both kinds of padding.
* *AES.* 3 and 4 rounds have a first, a middle and a last one for both key sizes and
  for both parities of the 256-bit schedule; jobs of every mode follow each other in every order.
* *SHA-2, Fips202.* Two contexts are enough for a clone and its original to interfere, a
  third for a place to be used again. A rate of 3 has a block that is empty, part full,
  one short and full; 4 bytes out include a piece that takes part of what is left,
  all of it, and all of it with more; cSHAKE prefixes end at every place of a block.
* *Key generation and KEM.* The state of an attempt depends on the one before it only; 3
  attempts cover every pair of outcomes. The initial states have one good
  seed at least: the chance that no seed is good is what the algorithm neglects, too. Of the six
  expansions three are good, and one fails in each of the three ways; the element of one
  has a zero first coordinate, which makes `genpoly_gen` add rows. Every error of weight 3 is
  encapsulated, for each key, after a draw that is thrown away or not; the bad draws have
  too few numbers in range and a repeated one. The words are all of one residue
  class of eight; about one in eleven decodes. 14 < 16 leaves two positions of the permutation out of the
  code. GF(16) has layers of the network on both sides of the transposition; `GFBITS` has to
  be even for it. The field of the program, 12 bits wide, is checked by the assumption
  `RealField` of `MCKem` on products of powers and on inverses; the network on 8 places by
  `NetworkSorts` (zeros and ones suffice for a network; `SortOrders` is the proof for every size); the masks, for all
  words of 2 to 5 bits, by `ComparisonsRight`. TLC evaluates the three before the run.
* *Tests.* Two vectors distinguish a first from a last; the suites are three.

`CHECK_DEADLOCK FALSE` stands where the program stops by itself: after the key is
copied (`VersatElim`), at the end of the elimination (`GaussElim`), after `exit(111)`
(`Sha2`, `Fips202`). Elsewhere the end is an explicit stuttering action.
Symmetry is used for handles and places, in runs of invariants only.

## 4. Fairness

`VersatElim!FairSpec`: the processor goes on (weak fairness of `Cpu`), and each stage of
a run that was started ends (weak fairness of each stage). The first is the
single-threaded firmware; the second is what makes `EndAccelerator` a wait at all: a
stage is never disabled but by its own end. Nothing is assumed of the order of
stages. `Keygen!FairSpec` and `Kem!KemFairSpec`: the processor goes on with the key
generation, `Ends`. That of `gen_e` ends only with probability one; there is no claim of it, and `TRIES` bounds it. No strong fairness is used, and
no property of the other modules needs any.

## 5. Proofs

All by `tlapm`, for all values of the constants that satisfy the named assumptions.

| Module | Theorems | Argument |
|---|---|---|
| `GaussElimProofs` | `TypeCorrect`; `SystematicForm`: a successful elimination leaves the identity; `RowSpaceIsKept`; `FailsExactly`: `pk_gen` gives up exactly on the matrices whose left block is singular | `Systematic` says nothing before the end, so it is strengthened: columns left of the pivot are unit columns (`UnitColumns`), the pivot loop works below the pivot (`PivotInv`), and inside the clear loop the pivot column is zero in the rows passed (`ClearInv`). A step adds one row to another, which permutes the sums of rows. When a matrix is given up, there are more sets of the rows left over than sums they can have in the left block, so two sets have the same sum |
| `VersatElimProofs` | `TypeCorrect`; `OneRace`: of all accesses of the program and of the stages, only the copy to `pk` meets a store on the same row, and on row `PK_NROWS - 2` alone; `PivotByteCorrect`; `KeyRows`; `Refinement`: every step is a step of `GaussElim` or a stutter; `ReducesExactly`: what `GaussElimProofs` says of `pk_gen`, of the accelerator | one invariant, `IInv`: at every place of the processor, what each of the three stages has still to do, which row each half of the stream units holds and where it goes, and that memory without the row in the unit and with the store under way is the matrix of the reference. Counters are bounded by `Counters`: no more calls of loop 2 than values of `k` |
| `VersatShaProofs` | `TypeCorrect`, with what is hashed of `padded` being written before; `OneBlockBehind`; `Refinement` of `ShaDigest` | arithmetic first: the blocks the code cuts from the message and from `padded` are those of the padded message, for both kinds of padding and every length. Then the invariant: when `h` blocks are handed over the unit holds block `h` and has compressed the `h - 1` before; a run of another algorithm comes between calls only, where nothing is claimed of the unit |
| `Sha2Proofs` | `TypeCorrect`; `HeapPartitioned`: every place is free or the context of one handle; `DigestExact`, however the message is cut | `HeapExact` counts; the invariant is the bijection between handles in use and places given out (`OnePlaceEach`). A context in use has compressed the whole blocks absorbed and counts their bytes; the loop over blocks is a recursive function with one solution (`HashBlocksAppends`), and the padded rest completes the blocks of the digest (`FinalBlocks`) |
| `VersatAesProofs` | `TypeCorrect`; `WritesOnlyAtRest`; `KeySchedule`; `ModesAreCorrect` | `Quiet`: where the program writes registers the accelerator is idle. The words of the key schedule and the states of the cipher are recursive functions with one solution (`RoundWordsAre`, `StatesAre`); a run makes the next round key, or the next state, or the previous one. The invariant speaks of the registers as they will be when the run in progress is over, since the program only changes configuration meanwhile; decryption gives back the data by `AesAlgebra` |
| `Fips202Proofs` | `TypeCorrect`; `CountsBelowRate`; `HeapPartitioned`; `StreamIsExact` | counts are remainders by the rate (`Remainder`); contexts in use partition the places that are not free (`Partition`). A context that has absorbed `x` is `ContextOf(x)`, whatever the cuts, and once finalized the padded blocks of `x` followed by as many permutations as blocks were taken; each function of the sponge goes from one such state to another (`IncAbsorbIs`, `IncFinalizeIs`, `AbsorbIs`, `CshakePrefix`, `IncSqueezeIs`, `BlocksOutIs`) |
| `KemProofs` | `OneSeed`: the keys are whole those of the first good seed; `KeysInUseAreOfOneSeed`: the same for `KemSpec`, with outcomes computed from what the seeds expand to; `ErrorIsOfOneDraw`; `BlocksAreNew`; `KemTypeCorrect`; `SortOrders`: `uint64_sort` sorts; `NetworkPermutes`: what `benes.c` does with bits that passed the test of `controlbits.c`; `SupportOfEveryKey` | `KeysOfOneSeed` speaks of the end only; the invariant names the attempt `t` that is going on: all before it failed (`Chain`), the seed is the `t`-th, and each variable that a later step reads, with the part of `sk` written so far, is of attempt `t`. `SecretKeyBytes` and `FinishedKey` show byte by byte that what the program pastes is the key; only `Return` of the caller touches these variables. The loop of `gen_e` keeps a prefix of the positions in the draw (`KeptIsPrefix`). The keys of the generator are a chain from the zero key, no two of them equal (`KeysDiffer`). The columns of the identity are not stored, so the types of the keys hold whatever the elimination finds (`SystematicRowsAreStored`). `SupportIsPermuted` needs three arguments. The sort: the second loop over `i` does the comparisons of a distance place by place, and `At` shows that each place has then seen the same as if they were done distance by distance (`MergedIs`); a distance of comparisons at a time, what is ordered at twice the distance stays ordered and becomes ordered at the distance (`LayerOrders`, `StageOrders`), so at the end neighbours are in order; a place after the sort is a rank (`PermutationRanks`). The network: `transpose_64x64` exchanges rows and columns (`TransposedIs`, by the binary digits exchanged so far), and a layer of `benes.c` on words, or on their transpose, moves the bits of a string as the same layer of `controlbits.c` moves the values of a permutation (`NetworkLayerIs`). The key: bits are tested in the step before `done`, against the order of the attempt that `sk` and `pk` are of (`KeyInv`) |
| `TestRunProofs` | of `Arena`: `ArenaTypeCorrect` (alignment), `NeverShared`, `FitsIfRoom` | types and `Disjoint` are inductive together: a pop returns to a mark, and what lies below is known from `Disjoint`; `Depth` provides the frames for the early exits that skip a pop. `Fits` needs where each mark is: below it are the files of the suites before, which may have been left there, the file of this suite, and the pushes of the callers (`Marks`, `UsedAtMost`) |
| | of `KatTests`: `TypeCorrect`, `VerdictIsExact`, `PassedIsTested`, for any number of vectors and faults | the lines found so far are `tests` times the lines of a vector and those of the test that runs; as long as the lines of the file are in place the next one is the one searched (`Follow`), so each result is computed from the values of one vector (`Collected`) and compares as the implementations do (`GoodIsAgree`, `GoodIsRight`). Equal counts mean that all vectors so far agree (`CountedEach`), and the verdict is that of the suites that are over (`Verdict`) |

Assumptions, each on constants, and evaluated by TLC in the runs of its module:
`Dimensions` and `MatricesAreBits` (`BitRows`: at least two rows, no more rows than columns,
a whole number of bytes), `ShaSizes` and `MessagesAreBytes` (`ShaBlocks`: the length field is
shorter than a block), `ShaHeap` (`Sha2`), `AesAlgebra` and `AesRounds` (`AesBlocks`: xor is a
group in which every word is its own inverse, the layers of a round have inverses), `RegFileLargeEnough`
and `JobsAreTyped` (`VersatAes`: keys have the words their size asks for), `RateAssumption`
(`Sponge`), `HeapAssumption`, `InputAssumption` and `DigestAssumption` (`Fips202`), `KeygenSizes`
(no part of a key is empty), `FieldSizes`, `CodeSizes`, `BenesSizes` (the number of bits of an element is even, so that the
strings of the network are square matrices), `BlockSize` and `KemInputs` (`Field`, `Goppa`, `Benes`,
`Drbg`, `Kem`), `ArenaSizes`, `KatSizes`. `FitsIfRoom` takes `Room`, that the deepest calls
of each suite fit on top of the files before; `MCArena` has TLC evaluate it (`RealSizesFit`) for
mceliece348864 and the files of the repository.

Induction: the induction theorems of the library take an operator as a parameter, which the
provers cannot instantiate. The same is had from `WFMin` and `NatLessThanWellFounded`, stated
for a set of numbers (`Smallest`, `Induction`). With it a recursive function is shown to have a
solution, and the only one, before anything is said of its values; loops of `Kem`
share `LoopHasResult` and `LoopKeeps`. Every invariant was checked by TLC on the run of its module before it was proved.

Only model-checked: liveness (`AttemptEnds`, `Ends`), which is out of the provers' reach;
the algebra of the code
(`DecapsReturnsSharedKey`, `DecapsExact`, `GoppaIsMinimalPolynomial`):
polynomials over a field and the Berlekamp-Massey algorithm, for each of which the
general theorem is a development of its own. That `cbrecursion` makes bits that pass is not proved
either: the program tests them, and so does the model.

## 6. Findings

* **`elim_key`** (code): the rows are copied to `pk` at `versat_mceliece.c:347` after the second
  flush run was *started* (line 342). For every other pivot the `EndAccelerator` at line
  297 waits for that store; after the last pivot nothing does. Row `PK_NROWS - 2` may be copied
  before it is written, and the store may land after the arena was popped. On the
  hardware the copies of the 766 rows before it take longer than the store.
  `KeyButLastStore` shows that this row is the only one whose copy may be wrong, `RaceOnlyInCopy` that the
  copy is the only place, and this row the only one, where the program and a stage meet.
* **`kat_compared`** (documentation): the SHA and AES suites compare accelerator and
  software and only print what the file expects; `src/README.md:129` and
  `crypto_tests.h:105,113` say the results are compared with a KAT.
* **`kat_key`** (documentation): `VersatMcElieceTests` returns 0 after an early exit; `crypto_tests.h:100`
  says any error gives another number.

A remark: for `LEN = 0` the SHA suite pushes 0 bytes and `HexStringToHex` writes one, where
`versat_crypto.h:76` asks for space for `str/2` bytes. Nothing live is above it (`Fits`).

`ModesCorrect` excludes, as the note at `versat_aes.c:644` does, counters whose last 32 bits overflow.

## 7. What is not modelled

* Versat and IOb-SoC themselves (submodules, not in the repository): their contract is
  modelled from how the code uses it and marked external. Timing in cycles is left out:
  stages end in any order, which is weaker than the hardware. `lastValToAdd` is a register
  without an input (`versatSpec.txt`); that it takes 0 in each run is an assumption on Versat.
* The Verilog of `xunitF`, `xunitM`, `SBox`, `RSBox`, and the arithmetic of the compression
  functions, the AES layers and the Keccak permutation: data, uninterpreted.
* `randombytes.c` and `sha2_old.c` are not part of the build; build, FPGA and ASIC scripts do not run.
* `nistseedexpander.c` and `aes256ctr.c` have no caller in the program, and `apply_benes` none with
  `rev` set. The bit-sliced AES of `common/aes.c` is the uninterpreted AES of `Drbg`.
* `crypto_int32.c`, `crypto_uint32.c` and `crypto_uint64.c` repeat `crypto_int16.c` and `crypto_uint16.c` at another
  width. The signed functions of 32 bits have no caller; their difference overflows, undefined in C,
  where that of 16 bits is computed in `int`.
* `uint64_MINMAX` compares by the sign of the difference alone, which is wrong for words 2^63 or more
  apart (`SortOfPkGenOrders`); `pk_gen` sorts words of 63 bits.
* The division by `goodTests` when it is 0 (`crypto_embedded_tests.c:54,78`): -1 on RISC-V, a trap on a PC.
* Secrecy and timing: the models say what is computed, not what can be observed of it.

## 8. Plan

In order of importance; the first seven are done.

1. `BitRows`, `GaussElim`, `VersatElim` (the core: program and accelerator interleaved).
2. `ShaBlocks`, `ShaDigest`, `VersatSha`; `Sha2`.
3. `AesBlocks`, `VersatAes`.
4. `Keygen`.
5. `KatTests`, `Arena`.
6. `Sponge`, `Fips202`.
7. `Field`, `Goppa`, `Benes`, `Drbg`, `Masks`, `Kem`; proofs of `KeysOfOneSeed`.
8. `CryptoSoc`: SHA, AES and McEliece calls in the order of `main` on one accelerator,
   composing 1-3, in place of `ForeignRun`; the McEliece writer that is still enabled
   in a foreign run is the question to ask of it.
9. A proof still worth having: decapsulation of what encapsulation made, which needs polynomials
   over a field.
