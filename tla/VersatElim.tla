----------------------------- MODULE VersatElim -----------------------------
(***************************************************************************)
(* Versat_pk_gen (versat_mceliece.c): the elimination of GaussElim run on  *)
(* the McEliece unit of the accelerator.  The unit holds the pivot row in  *)
(* a memory (acc) and streams the other rows past it:                      *)
(*                                                                         *)
(*     VRead --half--> datapath --half--> VWrite         (versatSpec.txt)  *)
(*                                                                         *)
(* Both stream units are double buffered.  In one run the VRead unit loads *)
(* a row into one half while the datapath consumes the half loaded by the  *)
(* run before, and the VWrite unit stores the half the run before filled.  *)
(* The program is therefore up to two runs ahead of the data: the masks it *)
(* computes are kept in the static savedMask of each loop function for one *)
(* call, and the two flush calls at the end of a loop drain the pipeline.  *)
(*                                                                         *)
(* The processor and the three stages of a run are interleaved.  The       *)
(* accelerator takes its configuration when it is started (cfg is copied   *)
(* to run), which is what lets the program write the next configuration    *)
(* before EndAccelerator; EndAccelerator is the guard Idle.                *)
(***************************************************************************)
EXTENDS BitRows

VARIABLES
    mat0,           \* the matrix this attempt started from (history)
    mat,            \* the rows in memory
    pk,             \* the public key, a row at a time
    pc,             \* the processor's place in Versat_pk_gen
    row, k,         \* its loop counters
    calls,          \* index: calls of VersatMcElieceLoop2 for this pivot
    mask,           \* the mask of the call in progress
    savedMask1,     \* static savedMask of VersatMcElieceLoop1
    savedMask2,     \* static savedMask of VersatMcElieceLoop2
    cfg,            \* the configuration registers, as last written
    run,            \* the configuration of the current run
    todo,           \* stages of the current run that are not over
    acc,            \* the memory of the unit, a working copy of mat[row]
    rdIn, rdOut,    \* halves of VRead: being loaded, being consumed
    wrIn, wrOut     \* halves of VWrite: being filled, being stored

program == <<mat0, pk, pc, row, k, calls, mask, savedMask1, savedMask2>>
halves == <<rdIn, rdOut, wrIn, wrOut>>
unit == <<run, todo, acc, halves>>
vars == <<program, mat, cfg, unit>>

Stage == {"load", "compute", "store"}

Config == [rdEn : BOOLEAN, rdRow : Row,     \* vec->row
           wrEn : BOOLEAN, wrRow : Row,     \* vec->writer
           mask : BOOLEAN,                  \* vec->mask.constant
           matWr : BOOLEAN]                 \* vec->mat.in0_wr

\* vec->writer.enableWrite = 0, and ConfigureSimpleVReadBare(&vec->row)
WriterOff(c) ==
    [rdEn |-> c.rdEn, rdRow |-> c.rdRow, wrEn |-> FALSE, wrRow |-> c.wrRow,
     mask |-> c.mask, matWr |-> c.matWr]
ReaderBare(c) ==
    [rdEn |-> FALSE, rdRow |-> 0, wrEn |-> c.wrEn, wrRow |-> c.wrRow,
     mask |-> c.mask, matWr |-> c.matWr]

Idle == todo = {}

\* StartAccelerator: the stages that are switched on are due, and both stream
\* units swap their halves.
Start ==
    /\ run' = cfg
    /\ todo' = {s \in Stage : (s = "load" => cfg.rdEn) /\ (s = "store" => cfg.wrEn)}
    /\ rdIn' = rdOut /\ rdOut' = rdIn
    /\ wrIn' = wrOut /\ wrOut' = wrIn

Over(s) ==
    /\ s \in todo
    /\ todo' = todo \ {s}
    /\ UNCHANGED <<program, cfg, run>>

HwLoad ==
    /\ Over("load")
    /\ rdIn' = mat[run.rdRow]
    /\ UNCHANGED <<mat, acc, rdOut, wrIn, wrOut>>

\* b = mat ^ (row & mask) and d = row ^ (mat & mask)
HwCompute ==
    /\ Over("compute")
    /\ acc' = IF run.matWr THEN Xor(acc, Masked(rdOut, run.mask)) ELSE acc
    /\ wrIn' = Xor(rdOut, Masked(acc, run.mask))
    /\ UNCHANGED <<mat, rdIn, rdOut, wrOut>>

HwStore ==
    /\ Over("store")
    /\ mat' = [mat EXCEPT ![run.wrRow] = wrOut]
    /\ UNCHANGED <<acc, halves>>

----------------------------------------------------------------------------
Init ==
    /\ mat \in Matrices
    /\ mat0 = mat
    /\ pc = "load"
    /\ row = 0
    /\ k = 0
    /\ pk = [r \in Row |-> {}]
    /\ calls = 0
    /\ mask = FALSE /\ savedMask1 = FALSE /\ savedMask2 = FALSE
    /\ cfg = [rdEn |-> FALSE, rdRow |-> 0, wrEn |-> FALSE, wrRow |-> 0,
              mask |-> FALSE, matWr |-> FALSE]
    /\ run = cfg
    /\ todo = {}
    /\ acc = {} /\ rdIn = {} /\ rdOut = {} /\ wrIn = {} /\ wrOut = {}

\* EndAccelerator and VersatLoadRow.
LoadRow ==
    /\ pc = "load"
    /\ Idle
    /\ acc' = mat[row]
    /\ k' = Below(row)
    /\ pc' = "mask1"
    /\ UNCHANGED <<mat0, mat, pk, row, calls, mask, savedMask1, savedMask2,
                   cfg, run, todo, halves>>

\* The mask with which row k is folded into the pivot row.  It is due one call
\* later, when row k is no longer loaded but computed on; the slip forgets that.
Mask1 == k < PK_NROWS /\ (row \in mat[row]) # (row \in mat[k])
UndelayedMask1 == Mask1
DelayedMask1 == savedMask1

\* The mask of row k, and the first half of VersatMcElieceLoop1.  With k at
\* PK_NROWS it is the flush call, on the last row and with mask 0.  In the first
\* call the datapath holds garbage and the unit's memory is not written.
Loop1Configure ==
    LET first == k = Below(row) /\ k < PK_NROWS
        last == PK_NROWS - 1
    IN /\ pc = "mask1"
       /\ mask' = Mask1
       /\ cfg' = [rdEn |-> TRUE,
                  rdRow |-> IF k < PK_NROWS THEN k ELSE last,
                  wrEn |-> cfg.wrEn, wrRow |-> cfg.wrRow,
                  mask |-> IF first THEN cfg.mask ELSE DelayedMask1,
                  matWr |-> ~first]
       /\ pc' = "run1"
       /\ UNCHANGED <<mat0, mat, pk, row, k, calls, savedMask1, savedMask2, unit>>

\* The second half: EndAccelerator, StartAccelerator, savedMask.
Loop1Start ==
    /\ pc = "run1"
    /\ Idle
    /\ Start
    /\ savedMask1' = mask
    /\ pc' = IF k < PK_NROWS THEN "byte" ELSE "check"
    /\ UNCHANGED <<mat0, mat, pk, row, k, calls, mask, savedMask2, cfg, acc>>

\* The byte of a row that holds the pivot column.  The slip takes the first.
FirstByte(r) == r \cap ByteOf(0)
PivotByte(r) == r \cap ByteOf(row)

\* The program keeps only the pivot byte of mat[row] up to date itself.
XorPivotByte ==
    /\ pc = "byte"
    /\ mat' = [mat EXCEPT ![row] = Xor(@, Masked(PivotByte(mat[k]), mask))]
    /\ k' = Below(k)
    /\ pc' = "mask1"
    /\ UNCHANGED <<mat0, pk, row, calls, mask, savedMask1, savedMask2, cfg, unit>>

NotSystematic ==
    /\ pc = "check"
    /\ Idle
    /\ row \notin mat[row]
    /\ pc' = "fail"
    /\ UNCHANGED <<mat0, mat, pk, row, k, calls, mask, savedMask1, savedMask2,
                   cfg, unit>>

ReadRow ==
    /\ pc = "check"
    /\ Idle
    /\ row \in mat[row]
    /\ mat' = [mat EXCEPT ![row] = acc]
    /\ k' = FirstOther(row)
    /\ calls' = 0
    /\ pc' = "mask2"
    /\ UNCHANGED <<mat0, pk, row, mask, savedMask1, savedMask2, cfg, unit>>

\* A slip: the pivot row is not skipped on the way back.
BeforeNoSkip(r) == r - 1

\* The mask of row k, and the first half of VersatMcElieceLoop2.  The flush
\* calls pass PK_NROWS and PK_NROWS + 1 with mask 0.
Before(r) == IF r - 1 = row THEN r - 2 ELSE r - 1

Loop2Configure ==
    LET toRead == k
        toCompute == Before(toRead)
        toWrite == Before(toCompute)
        reads == toRead < PK_NROWS
        computes == calls >= 1 /\ toCompute >= 0 /\ toCompute < PK_NROWS
        writes == calls >= 2 /\ toWrite >= 0
    IN /\ pc = "mask2"
       /\ mask' = (reads /\ row \in mat[k])
       /\ cfg' = [rdEn |-> reads,
                  rdRow |-> IF reads THEN toRead ELSE cfg.rdRow,
                  wrEn |-> writes,
                  wrRow |-> IF writes THEN toWrite ELSE cfg.wrRow,
                  mask |-> IF computes THEN savedMask2 ELSE cfg.mask,
                  matWr |-> ~reads /\ cfg.matWr]
       /\ pc' = "run2"
       /\ UNCHANGED <<mat0, mat, pk, row, k, calls, savedMask1, savedMask2, unit>>

\* The argument of the last flush call, and slips: one flush too many, or only one.
ThirdFlush == PK_NROWS + 2
OneFlush == PK_NROWS
LastFlush == PK_NROWS + 1

\* The second half.  After the second flush call the writer is switched off
\* (for the next run: this one is still storing) and the next pivot follows.
Loop2Start ==
    /\ pc = "run2"
    /\ Idle
    /\ Start
    /\ savedMask2' = mask
    /\ IF k < LastFlush
       THEN /\ k' = IF k < PK_NROWS THEN NextOther(k, row) ELSE k + 1
            /\ calls' = calls + 1
            /\ pc' = "mask2"
            /\ UNCHANGED <<row, cfg>>
       ELSE /\ cfg' = WriterOff(cfg)
            /\ row' = IF row + 1 < PK_NROWS THEN row + 1 ELSE row
            /\ k' = 0
            /\ pc' = IF row + 1 < PK_NROWS THEN "load" ELSE "copy"
            /\ UNCHANGED calls
    /\ UNCHANGED <<mat0, mat, pk, mask, savedMask1, acc>>

\* The memcpy of one row.  Nothing ends the accelerator before it.
CopyRow ==
    /\ pc = "copy"
    /\ pk' = [pk EXCEPT ![k] = KeyPart(mat[k])]
    /\ k' = k + 1
    /\ pc' = IF k + 1 < PK_NROWS THEN "copy" ELSE "done"
    /\ UNCHANGED <<mat0, mat, row, calls, mask, savedMask1, savedMask2, cfg, unit>>

\* VersatMcEliece calls again with another matrix.  ConfigureSimpleVReadBare
\* clears the VRead configuration; all else is what the failed call left.
Retry ==
    /\ pc = "fail"
    /\ mat' \in Matrices
    /\ mat0' = mat'
    /\ pc' = "load"
    /\ row' = 0
    /\ k' = 0
    /\ cfg' = ReaderBare(cfg)
    /\ UNCHANGED <<pk, calls, mask, savedMask1, savedMask2, unit>>

Cpu ==
    \/ LoadRow \/ Loop1Configure \/ Loop1Start \/ XorPivotByte
    \/ NotSystematic \/ ReadRow \/ Loop2Configure \/ Loop2Start
    \/ CopyRow \/ Retry

Next == Cpu \/ HwLoad \/ HwCompute \/ HwStore

Spec == Init /\ [][Next]_vars

\* The program runs on, and every stage of a run that was started ends.
FairSpec ==
    /\ Spec
    /\ WF_vars(Cpu)
    /\ WF_vars(HwLoad) /\ WF_vars(HwCompute) /\ WF_vars(HwStore)

----------------------------------------------------------------------------
TypeOK ==
    /\ mat0 \in [Row -> SUBSET Bit]
    /\ mat \in [Row -> SUBSET Bit]
    /\ pk \in [Row -> SUBSET Bit]
    /\ pc \in {"load", "mask1", "run1", "byte", "check", "mask2", "run2",
               "copy", "done", "fail"}
    /\ row \in Row
    /\ k \in 0 .. PK_NROWS + 1
    /\ calls \in 0 .. PK_NROWS + 1
    /\ mask \in BOOLEAN /\ savedMask1 \in BOOLEAN /\ savedMask2 \in BOOLEAN
    /\ cfg \in Config /\ run \in Config
    /\ todo \in SUBSET Stage
    /\ acc \in SUBSET Bit
    /\ rdIn \in SUBSET Bit /\ rdOut \in SUBSET Bit
    /\ wrIn \in SUBSET Bit /\ wrOut \in SUBSET Bit

\* Loop 1 is in progress: the pivot row is the one in the unit.
Pivoting == pc \in {"mask1", "run1", "byte", "check"}

\* The row the unit will hold once the calls made so far have drained: the
\* current run may not have computed, and the row it loads waits for the next.
Drained ==
    LET half == IF "load" \in todo THEN mat[run.rdRow] ELSE rdIn
        now == IF "compute" \in todo /\ run.matWr
               THEN Xor(acc, Masked(rdOut, run.mask)) ELSE acc
    IN Xor(now, Masked(half, savedMask1))

\* The pivot byte the program computes for itself is the one the unit would
\* compute, although the unit is up to two rows behind: the masks, and the
\* systematic test, are taken from a byte that agrees with the row that will be
\* read back.  (The row whose mask is being applied, in XorPivotByte, is already
\* part of Drained.)
PivotByteAgrees ==
    Pivoting =>
        LET mine == IF pc = "byte" THEN Xor(mat[row], Masked(mat[k], mask))
                                   ELSE mat[row]
        IN mine \cap ByteOf(row) = Drained \cap ByteOf(row)

\* The rows in memory the program accesses next without waiting for the unit:
\* the other places that access rows come after an EndAccelerator.
ProgramReads ==
    {r \in Row : \/ pc \in {"mask1", "byte"} /\ r \in {row, k}
                 \/ pc \in {"mask2", "copy"} /\ r = k}
ProgramWrites == {r \in Row : pc = "byte" /\ r = row}

\* The order of two accesses to a row, of which one is a write, is left to the
\* interleaving in one place only: a run never loads the row it stores, nor a
\* row the program is writing, and a row being stored is read by the program
\* only when it is row PK_NROWS - 2 and the reader is the memcpy into pk.
RaceOnlyInCopy ==
    /\ {"load", "store"} \subseteq todo => run.rdRow # run.wrRow
    /\ "load" \in todo => run.rdRow \notin ProgramWrites
    /\ "store" \in todo =>
          \/ run.wrRow \notin ProgramReads
          \/ pc = "copy" /\ run.wrRow = PK_NROWS - 2

----------------------------------------------------------------------------
(* The elimination the unit performs is the one of GaussElim.  A Pivot step  *)
(* of GaussElim is the compute stage of a run of the first loop, whose mask  *)
(* the program took one call before; a Clear step is the store stage of a    *)
(* run of the second loop, two runs after the row was loaded.                *)

Storing == "store" \in todo

GEphase ==
    CASE pc = "fail" -> "fail"
      [] Pivoting -> "pivot"
      [] pc = "load" /\ ~Storing -> "pivot"
      [] pc \in {"copy", "done"} /\ ~Storing -> "done"
      [] OTHER -> "clear"

GErow == IF pc = "load" /\ Storing THEN row - 1 ELSE row

\* While the pivot row is in the unit, memory holds an outdated copy.
GEmat == IF Pivoting \/ pc = "fail" THEN [mat EXCEPT ![row] = acc] ELSE mat

GEk ==
    LET \* the last row the first loop has handed to the unit
        issued == IF pc = "byte" THEN k ELSE IF pc = "check" THEN PK_NROWS ELSE k - 1
        pivoted == IF "compute" \in todo THEN issued - 1 ELSE issued
        toWrite == Before(Before(k))
    IN CASE pc = "fail" -> PK_NROWS
         [] pc = "load" /\ ~Storing -> row + 1
         [] Pivoting -> IF issued <= row + 1 THEN row + 1 ELSE pivoted
         [] pc \in {"mask2", "run2"} /\ ~Storing ->
                IF calls >= 2 /\ toWrite >= 0 THEN toWrite ELSE FirstOther(row)
         [] OTHER -> run.wrRow

GE == INSTANCE GaussElim WITH mat <- GEmat, row <- GErow, k <- GEk,
                              phase <- GEphase

\* Every behaviour of the accelerated elimination is one of the reference: the
\* rows are combined with the masks and in the order of pk_gen.c.
ImplementsGaussElim == GE!Spec

\* The public key holds the reduced rows, but for the row of the last store,
\* which the program does not wait for.
KeyButLastStore ==
    pc = "done" /\ Idle =>
        \A r \in Row \ {PK_NROWS - 2} : pk[r] = KeyPart(mat[r])

\* What the two flush calls are there for: once the elimination is over, memory
\* holds the processed rows, and the public key is made of them.
KeyIsReducedMatrix ==
    pc = "done" /\ Idle => \A r \in Row : pk[r] = KeyPart(mat[r])

\* No attempt blocks in EndAccelerator or runs on for ever.
AttemptEnds == pc = "load" ~> pc \in {"done", "fail"}
============================================================================
