-------------------------- MODULE VersatElimProofs --------------------------
(***************************************************************************)
(* What is proved of the accelerated elimination, for all dimensions and   *)
(* all matrices: type correctness (every row the stream units are aimed at *)
(* is a row of the matrix), the absence of races on memory, the agreement  *)
(* of the program's pivot byte with the unit's row, the rows of the public *)
(* key, and that the whole implements the elimination of pk_gen, with what *)
(* GaussElimProofs proves of that one.                                     *)
(*                                                                         *)
(* All but the first rest on one inductive invariant, IInv: what each      *)
(* stage and each half of the stream units is about to do, at every place  *)
(* of the processor.                                                       *)
(***************************************************************************)
EXTENDS VersatElim, TLAPS

\* What bounds the counters: the copy and the first loop stop at the last row,
\* and the second loop makes at most one call per value of k.
Counters ==
    /\ pc \in {"byte", "copy"} => k < PK_NROWS
    /\ pc \in {"mask2", "run2"} => calls <= k

TypeInv == TypeOK /\ Counters

\* Whatever is masked, cut to a byte and added up, the result is a row.
LEMMA MaskedRow ==
    ASSUME NEW b \in SUBSET Bit, NEW m
    PROVE  Masked(b, m) \in SUBSET Bit
  BY Zenon DEF Masked

LEMMA XorRow ==
    ASSUME NEW a \in SUBSET Bit, NEW b \in SUBSET Bit
    PROVE  Xor(a, b) \in SUBSET Bit
  BY DEF Xor, SymDiff

LEMMA InitType == Init => TypeInv
  <1> SUFFICES ASSUME Init PROVE TypeInv
    OBVIOUS
  <1> USE Dimensions, MatricesAreBits DEF Init, Row
  <1>1. cfg \in Config /\ run \in Config
    BY DEF Config
  <1>2. mask \in BOOLEAN /\ savedMask1 \in BOOLEAN /\ savedMask2 \in BOOLEAN
    OBVIOUS
  <1>3. pk \in [Row -> SUBSET Bit] /\ mat \in [Row -> SUBSET Bit]
    OBVIOUS
  <1> QED
    BY <1>1, <1>2, <1>3 DEF TypeInv, TypeOK, Counters

\* Starting the accelerator and ending a stage keep the types of the unit.
LEMMA StartType ==
    ASSUME TypeOK, Start
    PROVE  /\ run' \in Config /\ todo' \in SUBSET Stage
           /\ rdIn' \in SUBSET Bit /\ rdOut' \in SUBSET Bit
           /\ wrIn' \in SUBSET Bit /\ wrOut' \in SUBSET Bit
  BY DEF TypeOK, Start

LEMMA HardwareType == TypeInv /\ (HwLoad \/ HwCompute \/ HwStore) => TypeInv'
  <1> SUFFICES ASSUME TypeInv, HwLoad \/ HwCompute \/ HwStore PROVE TypeInv'
    OBVIOUS
  <1> USE DEF TypeInv, TypeOK, Counters, Over, program, halves
  <1>0. run.rdRow \in Row /\ run.wrRow \in Row
    BY DEF Config
  <1>1. CASE HwLoad
    BY <1>0, <1>1 DEF HwLoad
  <1>2. CASE HwCompute
    <2>1. Xor(acc, Masked(rdOut, run.mask)) \in SUBSET Bit
      BY MaskedRow, XorRow
    <2>2. Xor(rdOut, Masked(acc, run.mask)) \in SUBSET Bit
      BY MaskedRow, XorRow
    <2>3. acc' \in SUBSET Bit /\ wrIn' \in SUBSET Bit
      BY <1>2, <2>1, <2>2 DEF HwCompute
    <2> QED
      BY <1>2, <2>3 DEF HwCompute
  <1>3. CASE HwStore
    BY <1>0, <1>3 DEF HwStore
  <1> QED
    BY <1>1, <1>2, <1>3

LEMMA Loop1Type ==
    TypeInv /\ (LoadRow \/ Loop1Configure \/ Loop1Start \/ XorPivotByte) => TypeInv'
  <1> SUFFICES ASSUME TypeInv,
                      LoadRow \/ Loop1Configure \/ Loop1Start \/ XorPivotByte
               PROVE  TypeInv'
    OBVIOUS
  <1> USE Dimensions DEF TypeInv, TypeOK, Counters, unit, halves, Row
  <1>1. CASE LoadRow
    BY <1>1 DEF LoadRow, Below
  <1>2. CASE Loop1Configure
    <2>1. cfg' \in Config
      BY <1>2 DEF Loop1Configure, Config, DelayedMask1
    <2>2. mask' \in BOOLEAN
      BY <1>2 DEF Loop1Configure, Mask1
    <2> QED
      BY <1>2, <2>1, <2>2 DEF Loop1Configure
  <1>3. CASE Loop1Start
    BY <1>3, StartType DEF Loop1Start
  <1>4. CASE XorPivotByte
    <2>1. k \in Row /\ mat[k] \in SUBSET Bit /\ mat[row] \in SUBSET Bit
      BY <1>4 DEF XorPivotByte
    <2>2. PivotByte(mat[k]) \in SUBSET Bit
      BY <2>1 DEF PivotByte
    <2>3. Xor(mat[row], Masked(PivotByte(mat[k]), mask)) \in SUBSET Bit
      BY <2>1, <2>2, MaskedRow, XorRow
    <2>4. mat' \in [Row -> SUBSET Bit]
      BY <1>4, <2>3 DEF XorPivotByte
    <2> QED
      BY <1>4, <2>1, <2>4 DEF XorPivotByte, Below
  <1> QED
    BY <1>1, <1>2, <1>3, <1>4

LEMMA CheckType == TypeInv /\ (NotSystematic \/ ReadRow) => TypeInv'
  BY Dimensions
     DEF TypeInv, TypeOK, Counters, unit, halves, Row, NotSystematic, ReadRow,
         FirstOther, NextOther

LEMMA Loop2Type == TypeInv /\ (Loop2Configure \/ Loop2Start) => TypeInv'
  <1> SUFFICES ASSUME TypeInv, Loop2Configure \/ Loop2Start PROVE TypeInv'
    OBVIOUS
  <1> USE Dimensions DEF TypeInv, TypeOK, Counters, unit, halves, Row
  <1>1. CASE Loop2Configure
    <2>1. Before(Before(k)) \in Int /\ Before(Before(k)) < PK_NROWS
      BY DEF Before
    <2>2. cfg' \in Config
      BY <1>1, <2>1 DEF Loop2Configure, Config
    <2>3. mask' \in BOOLEAN
      BY <1>1 DEF Loop2Configure
    <2> QED
      BY <1>1, <2>2, <2>3 DEF Loop2Configure
  <1>2. CASE Loop2Start
    <2>1. CASE k < LastFlush
      <3>1. (k < PK_NROWS => NextOther(k, row) \in k + 1 .. PK_NROWS + 1)
        BY DEF NextOther
      <3> QED
        BY <1>2, <2>1, <3>1, StartType, SMTT(30) DEF Loop2Start, LastFlush
    <2>2. CASE ~(k < LastFlush)
      <3>1. WriterOff(cfg) \in Config
        BY DEF Config, WriterOff
      <3>2. cfg' = WriterOff(cfg)
        BY <1>2, <2>2 DEF Loop2Start
      <3> QED
        BY <1>2, <2>2, <3>1, <3>2, StartType DEF Loop2Start
    <2> QED
      BY <2>1, <2>2
  <1> QED
    BY <1>1, <1>2

LEMMA CopyType == TypeInv /\ CopyRow => TypeInv'
  <1> SUFFICES ASSUME TypeInv, CopyRow PROVE TypeInv'
    OBVIOUS
  <1> USE Dimensions DEF TypeInv, TypeOK, Counters, unit, halves, Row
  <1>1. k \in Row /\ mat[k] \in SUBSET Bit
    BY DEF CopyRow
  <1>2. pk' \in [Row -> SUBSET Bit]
    BY <1>1 DEF CopyRow, KeyPart
  <1> QED
    BY <1>1, <1>2 DEF CopyRow

LEMMA RetryType == TypeInv /\ Retry => TypeInv'
  <1> SUFFICES ASSUME TypeInv, Retry PROVE TypeInv'
    OBVIOUS
  <1> USE Dimensions, MatricesAreBits
      DEF TypeInv, TypeOK, Counters, unit, halves, Row
  <1>1. cfg' \in Config
    BY DEF Retry, Config, ReaderBare
  <1> QED
    BY <1>1 DEF Retry

\* Every address the program hands to the stream units is that of a row of the
\* matrix, and no counter of Versat_pk_gen leaves its range.
THEOREM TypeCorrect == Spec => []TypeOK
  <1>1. TypeInv /\ [Next]_vars => TypeInv'
    <2> SUFFICES ASSUME TypeInv, [Next]_vars PROVE TypeInv'
      OBVIOUS
    <2>1. CASE Next
      BY <2>1, HardwareType, Loop1Type, CheckType, Loop2Type, CopyType, RetryType
         DEF Next, Cpu
    <2>2. CASE UNCHANGED vars
      BY <2>2 DEF vars, program, unit, halves, TypeInv, TypeOK, Counters
    <2> QED
      BY <2>1, <2>2
  <1>2. TypeInv => TypeOK
    BY DEF TypeInv
  <1> QED
    BY InitType, <1>1, <1>2, PTL DEF Spec

----------------------------------------------------------------------------
(***************************************************************************)
(* The inductive invariant.  It says, for every place of the processor and *)
(* every set of stages that are not over, which row each half of the       *)
(* stream units holds, with which mask it will be combined and where it    *)
(* will be stored.  The units are up to two rows behind the program, so    *)
(* these are the rows of the last call and of the two calls before it.     *)
(***************************************************************************)

\* The last row the first loop has handed to the unit (PK_NROWS: the flush).
Issued == IF pc = "byte" THEN k ELSE IF pc = "check" THEN PK_NROWS ELSE k - 1

\* Row r added to row a under a mask, and the mask of the first loop.
Plus(a, r, m) == Xor(a, Masked(r, m))
Differ(a, b) == ~((row \in a) <=> (row \in b))

\* The unit's row when the current run has computed, when all calls made so far
\* have drained, and the program's own copy of it.
Now == IF "compute" \in todo /\ run.matWr THEN Plus(acc, rdOut, run.mask) ELSE acc
Ahead == IF savedMask1 THEN Xor(Now, mat[Issued]) ELSE Now
Mine == IF pc = "byte" THEN Plus(mat[row], mat[k], mask) ELSE mat[row]

\* First loop: which rows are on their way.  No row is stored.
Loop1Rows ==
    /\ ~cfg.wrEn /\ "store" \notin todo
    /\ row <= Issued /\ k <= PK_NROWS
    /\ Issued = row => todo = {}
    /\ row < Issued /\ pc # "check" =>
         /\ "load" \in todo => run.rdRow = Issued
         /\ "load" \notin todo => rdIn = mat[Issued]

\* First loop: the masks are those of the rows they are applied to.
Loop1Masks ==
    /\ Issued = row \/ pc = "check" => ~savedMask1
    /\ row < Issued /\ pc # "check" => (savedMask1 <=> Differ(Now, mat[Issued]))
    /\ "compute" \in todo /\ Issued = row + 1 => ~run.matWr \/ ~run.mask
    /\ "compute" \in todo /\ Issued > row + 1 =>
         /\ run.matWr
         /\ rdOut = mat[Issued - 1]
         /\ run.mask <=> Differ(acc, mat[Issued - 1])
    /\ pc = "byte" => (mask <=> savedMask1)

\* First loop: the configuration that waits for the accelerator to be idle.
Loop1Config ==
    pc = "run1" =>
       /\ cfg.rdEn /\ (k < PK_NROWS => cfg.rdRow = k)
       /\ cfg.matWr <=> ~(k = row + 1 /\ k < PK_NROWS)
       /\ cfg.matWr => (cfg.mask <=> savedMask1)
       /\ mask <=> (k < PK_NROWS /\ Differ(mat[row], mat[k]))

\* First loop: the program's pivot byte is the unit's.
Loop1Byte == Mine \cap ByteOf(row) = Ahead \cap ByteOf(row)

Loop1Inv == Pivoting => Loop1Rows /\ Loop1Masks /\ Loop1Config /\ Loop1Byte

\* Row j when the pivot row p has been added to it where it must.
Cleared(j, p) == Plus(mat[j], mat[p], p \in mat[j])

\* The rows of the last call of the second loop and of the two before it.
Last1 == Before(k)
Last2 == Before(Last1)
Last3 == Before(Last2)

Loop2Counts ==
    /\ k # row
    /\ calls = IF k > row THEN k - 1 ELSE k
    /\ ~savedMask1
    /\ row \in mat[row]
    /\ acc = mat[row]
    /\ calls = 0 => todo = {}
    /\ calls >= 1 => ~run.matWr /\ ~cfg.matWr

\* Second loop: what the halves hold, from the last call to the third last.
Loop2Load ==
    calls >= 1 =>
       /\ "load" \in todo => Last1 < PK_NROWS /\ run.rdRow = Last1
       /\ Last1 < PK_NROWS /\ "load" \notin todo => rdIn = mat[Last1]
       /\ Last1 < PK_NROWS => (savedMask2 <=> (row \in mat[Last1]))
Loop2Compute ==
    calls >= 2 =>
       /\ "compute" \in todo => rdOut = mat[Last2] /\ (run.mask <=> (row \in mat[Last2]))
       /\ "compute" \notin todo => wrIn = Cleared(Last2, row)
Loop2Store ==
    "store" \in todo => calls >= 3 /\ run.wrRow = Last3 /\ wrOut = Cleared(Last3, row)

Loop2Config ==
    pc = "run2" =>
       /\ cfg.rdEn <=> (k < PK_NROWS)
       /\ k < PK_NROWS => cfg.rdRow = k
       /\ cfg.wrEn <=> (calls >= 2)
       /\ calls >= 2 => cfg.wrRow = Last2
       /\ calls >= 1 /\ Last1 < PK_NROWS => (cfg.mask <=> savedMask2)
       /\ ~cfg.matWr
       /\ k < PK_NROWS => (mask <=> (row \in mat[k]))

Loop2Inv ==
    pc \in {"mask2", "run2"} =>
       Loop2Counts /\ Loop2Load /\ Loop2Compute /\ Loop2Store /\ Loop2Config

\* Outside the loops the last flush may still be storing, the last row but the
\* pivot row; GErow is the pivot row it belongs to.
TailInv ==
    pc \in {"load", "copy", "done", "fail"} =>
       /\ ~cfg.wrEn /\ ~savedMask1 /\ "load" \notin todo
       /\ pc = "fail" => todo = {}
       /\ pc \in {"copy", "done"} => row = PK_NROWS - 1
       /\ pc = "done" => k = PK_NROWS
       /\ "store" \in todo =>
            /\ pc = "load" => row > 0
            /\ run.wrRow = IF GErow = PK_NROWS - 1 THEN PK_NROWS - 2 ELSE PK_NROWS - 1
            /\ wrOut = Cleared(run.wrRow, GErow)
       /\ pc \in {"copy", "done"} =>
            \A j \in Row : j < k /\ j # PK_NROWS - 2 => pk[j] = KeyPart(mat[j])

IInv == TypeInv /\ Loop1Inv /\ Loop2Inv /\ TailInv

----------------------------------------------------------------------------
(* Addition of rows.                                                        *)

LEMMA XorIn ==
    ASSUME NEW a, NEW b, NEW x
    PROVE  x \in Xor(a, b) <=> ~((x \in a) <=> (x \in b))
  BY DEF Xor, SymDiff

LEMMA XorNothing ==
    ASSUME NEW a
    PROVE  Xor(a, {}) = a
  BY DEF Xor, SymDiff

LEMMA XorCut ==
    ASSUME NEW a, NEW b, NEW r, NEW c, a \cap c = b \cap c
    PROVE  Xor(a, r) \cap c = Xor(b, r) \cap c
  BY DEF Xor, SymDiff

LEMMA PlusIs ==
    ASSUME NEW a, NEW r, NEW m
    PROVE  /\ m => Plus(a, r, m) = Xor(a, r)
           /\ ~m => Plus(a, r, m) = a
  BY XorNothing DEF Plus, Masked

LEMMA PlusRow ==
    ASSUME NEW a \in SUBSET Bit, NEW r \in SUBSET Bit, NEW m
    PROVE  Plus(a, r, m) \in SUBSET Bit
  BY MaskedRow, XorRow DEF Plus

\* The pivot column is in its own byte.
LEMMA OwnByte ==
    ASSUME NEW r \in Row
    PROVE  r \in ByteOf(r)
  BY Dimensions DEF ByteOf, Row, Bit

----------------------------------------------------------------------------
(* The first loop.                                                          *)

LEMMA LoadRowKeeps == IInv /\ LoadRow => Loop1Inv'
  <1> SUFFICES ASSUME IInv, LoadRow PROVE Loop1Inv'
    OBVIOUS
  <1>1. /\ pc' = "mask1" /\ k' = row + 1 /\ row' = row /\ mat' = mat
        /\ todo = {} /\ todo' = todo /\ acc' = mat[row]
        /\ savedMask1' = savedMask1 /\ cfg' = cfg
    BY DEF LoadRow, Idle, Below
  <1>2. row \in Int /\ row < PK_NROWS /\ ~savedMask1 /\ ~cfg.wrEn
    BY Dimensions DEF IInv, TypeInv, TypeOK, TailInv, LoadRow, Row
  <1>3. Issued' = row /\ Now' = mat[row] /\ Ahead' = mat[row] /\ Mine' = mat[row]
    BY <1>1, <1>2 DEF Issued, Now, Ahead, Mine
  <1>4. Loop1Rows'
    BY <1>1, <1>2, <1>3, Dimensions DEF Loop1Rows
  <1>5. Loop1Masks'
    BY <1>1, <1>2, <1>3 DEF Loop1Masks
  <1>6. Loop1Config' /\ Loop1Byte'
    BY <1>1, <1>3 DEF Loop1Config, Loop1Byte
  <1> QED
    BY <1>4, <1>5, <1>6 DEF Loop1Inv

LEMMA Loop1ConfigureKeeps == IInv /\ Loop1Configure => Loop1Inv'
  <1> SUFFICES ASSUME IInv, Loop1Configure PROVE Loop1Inv'
    OBVIOUS
  <1>1. /\ pc = "mask1" /\ pc' = "run1"
        /\ mat' = mat /\ row' = row /\ k' = k /\ savedMask1' = savedMask1
        /\ todo' = todo /\ run' = run /\ acc' = acc /\ rdIn' = rdIn /\ rdOut' = rdOut
        /\ mask' = Mask1
    BY DEF Loop1Configure, unit, halves
  <1>2. Loop1Inv /\ Pivoting
    BY <1>1 DEF IInv, Pivoting
  <1>3. Issued' = Issued /\ Now' = Now /\ Mine' = Mine
    BY <1>1 DEF Issued, Now, Mine
  <1>4. Ahead' = Ahead
    BY <1>1, <1>3 DEF Ahead
  <1>5. Loop1Byte'
    BY <1>1, <1>2, <1>3, <1>4 DEF Loop1Inv, Loop1Byte
  <1>6. Loop1Masks'
    BY <1>1, <1>2, <1>3 DEF Loop1Inv, Loop1Masks, Differ
  <1>7. Loop1Rows'
    <2>1. cfg'.wrEn = cfg.wrEn
      BY DEF Loop1Configure
    <2> QED
      BY <1>1, <1>2, <1>3, <2>1 DEF Loop1Inv, Loop1Rows
  <1>8. Loop1Config'
    <2>1. cfg'.rdEn /\ (k < PK_NROWS => cfg'.rdRow = k)
      BY DEF Loop1Configure
    <2>2. cfg'.matWr <=> ~(k = row + 1 /\ k < PK_NROWS)
      BY DEF Loop1Configure, Below
    <2>3. cfg'.matWr => (cfg'.mask <=> savedMask1)
      BY <2>2 DEF Loop1Configure, Below, DelayedMask1
    <2>4. mask' <=> (k < PK_NROWS /\ Differ(mat[row], mat[k]))
      <3>1. mask' = Mask1
        BY DEF Loop1Configure
      <3>2. Mask1 <=> (k < PK_NROWS /\ Differ(mat[row], mat[k]))
        BY DEF Mask1, Differ
      <3> QED
        BY <3>1, <3>2
    <2>5. Differ(mat[row], mat[k])' <=> Differ(mat[row], mat[k])
      BY <1>1 DEF Differ
    <2> QED
      BY <1>1, <2>1, <2>2, <2>3, <2>4, <2>5 DEF Loop1Config
  <1> QED
    BY <1>5, <1>6, <1>7, <1>8 DEF Loop1Inv

\* Starting a run of the first loop: what was loaded is now computed on, and
\* the mask that was kept for it is now the unit's.
LEMMA Loop1StartKeeps == IInv /\ Loop1Start => Loop1Inv'
  <1> SUFFICES ASSUME IInv, Loop1Start PROVE Loop1Inv'
    OBVIOUS
  <1> USE Dimensions
  <1>1. /\ pc = "run1" /\ pc' = IF k < PK_NROWS THEN "byte" ELSE "check"
        /\ mat' = mat /\ row' = row /\ k' = k /\ mask' = mask /\ cfg' = cfg
        /\ savedMask1' = mask
        /\ acc' = acc /\ todo = {}
        /\ run' = cfg /\ rdOut' = rdIn
    BY DEF Loop1Start, Start, Idle
  <1>2. Loop1Rows /\ Loop1Masks /\ Loop1Config /\ Loop1Byte
    BY <1>1 DEF IInv, Loop1Inv, Pivoting
  <1>3. row \in Row /\ k \in 0 .. PK_NROWS + 1 /\ row \in Int /\ k \in Int
    BY DEF IInv, TypeInv, TypeOK, Row
  <1>4. Issued = k - 1 /\ Issued' = k /\ row < k /\ k <= PK_NROWS
    BY <1>1, <1>2, <1>3 DEF Issued, Loop1Rows
  <1>5. "compute" \in todo' /\ "store" \notin todo' /\ "load" \in todo'
    BY <1>1, <1>2 DEF Loop1Start, Start, Stage, Loop1Rows, Loop1Config
  <1>6. Now = acc /\ Mine = mat[row]
    BY <1>1 DEF Now, Mine
  <1>7. cfg.matWr <=> ~(k = row + 1 /\ k < PK_NROWS)
    BY <1>1, <1>2 DEF Loop1Config
  <1>8. k # row + 1 => rdIn = mat[k - 1]
    BY <1>1, <1>2, <1>3, <1>4 DEF Loop1Rows
  <1>9. k = row + 1 => ~savedMask1
    BY <1>2, <1>4, <1>3 DEF Loop1Masks
  <1>10. cfg.matWr => (cfg.mask <=> savedMask1)
    BY <1>1, <1>2 DEF Loop1Config
  <1>11. Now' = Ahead
    <2>1. Now' = IF cfg.matWr THEN Plus(acc, rdIn, cfg.mask) ELSE acc
      BY <1>1, <1>5 DEF Now
    <2>2. Ahead = IF savedMask1 THEN Xor(acc, mat[k - 1]) ELSE acc
      BY <1>4, <1>6 DEF Ahead
    <2>3. CASE k = row + 1
      BY <2>1, <2>2, <2>3, <1>9, <1>10, PlusIs
    <2>4. CASE k # row + 1
      BY <2>1, <2>2, <2>4, <1>7, <1>8, <1>10, PlusIs
    <2> QED
      BY <2>3, <2>4
  <1>12. mat[row] \cap ByteOf(row) = Ahead \cap ByteOf(row)
    BY <1>2, <1>6 DEF Loop1Byte
  <1>13. row \in mat[row] <=> row \in Ahead
    BY <1>12, <1>3, OwnByte
  <1>14. mask <=> (k < PK_NROWS /\ Differ(mat[row], mat[k]))
    BY <1>1, <1>2 DEF Loop1Config
  <1>15. mask <=> (k < PK_NROWS /\ Differ(Now', mat[k]))
    BY <1>11, <1>13, <1>14 DEF Differ
  <1>16. Loop1Rows'
    <2>1. ~cfg.wrEn /\ (k < PK_NROWS => cfg.rdRow = k)
      BY <1>1, <1>2 DEF Loop1Rows, Loop1Config
    <2> QED
      BY <1>1, <1>3, <1>4, <1>5, <2>1 DEF Loop1Rows
  <1>17. Loop1Masks'
    <2>1. Differ(Now, mat[Issued])' <=> Differ(Now', mat[k])
      BY <1>1, <1>4 DEF Differ
    <2>2. k = row + 1 => ~cfg.matWr \/ ~cfg.mask
      BY <1>7, <1>9, <1>10
    <2>3. k > row + 1 => cfg.matWr /\ rdIn = mat[k - 1] /\ (cfg.mask <=> Differ(acc, mat[k - 1]))
      BY <1>1, <1>2, <1>3, <1>4, <1>6, <1>7, <1>8, <1>10 DEF Loop1Masks
    <2>4. Differ(acc, mat[Issued - 1])' <=> Differ(acc, mat[k - 1])
      BY <1>1, <1>4 DEF Differ
    <2>5. k = PK_NROWS \/ pc' = "check" => ~mask
      BY <1>1, <1>14, <1>3
    <2> QED
      BY <1>1, <1>3, <1>4, <1>5, <1>15, <2>1, <2>2, <2>3, <2>4, <2>5 DEF Loop1Masks
  <1>18. Loop1Config'
    BY <1>1 DEF Loop1Config
  <1>19. Loop1Byte'
    <2>1. Ahead' = IF mask THEN Xor(Ahead, mat[k]) ELSE Ahead
      BY <1>1, <1>4, <1>11 DEF Ahead
    <2>2. Mine' = IF mask THEN Xor(mat[row], mat[k]) ELSE mat[row]
      <3>1. CASE k < PK_NROWS
        BY <1>1, <3>1, PlusIs DEF Mine
      <3>2. CASE ~(k < PK_NROWS)
        BY <1>1, <1>14, <3>2 DEF Mine
      <3> QED
        BY <3>1, <3>2
    <2>3. Xor(Ahead, mat[k]) \cap ByteOf(row) = Xor(mat[row], mat[k]) \cap ByteOf(row)
      BY <1>12, XorCut
    <2>4. Mine' \cap ByteOf(row) = Ahead' \cap ByteOf(row)
      BY <1>12, <2>1, <2>2, <2>3
    <2> QED
      BY <1>1, <2>4 DEF Loop1Byte
  <1> QED
    BY <1>16, <1>17, <1>18, <1>19 DEF Loop1Inv

\* The program's pivot byte takes part in the same addition as the unit's row.
LEMMA XorPivotByteKeeps == IInv /\ XorPivotByte => Loop1Inv'
  <1> SUFFICES ASSUME IInv, XorPivotByte PROVE Loop1Inv'
    OBVIOUS
  <1> USE Dimensions
  <1> DEFINE new == Xor(mat[row], Masked(PivotByte(mat[k]), mask))
  <1>1. /\ pc = "byte" /\ pc' = "mask1" /\ row' = row /\ k' = k + 1
        /\ mat' = [mat EXCEPT ![row] = new]
        /\ savedMask1' = savedMask1 /\ cfg' = cfg /\ run' = run /\ todo' = todo
        /\ acc' = acc /\ rdIn' = rdIn /\ rdOut' = rdOut
    BY DEF XorPivotByte, Below, unit, halves
  <1>2. Loop1Rows /\ Loop1Masks /\ Loop1Byte
    BY <1>1 DEF IInv, Loop1Inv, Pivoting
  <1>3. row \in Row /\ row \in Int /\ k \in Int /\ k < PK_NROWS /\ mat \in [Row -> SUBSET Bit]
    BY <1>1 DEF IInv, TypeInv, TypeOK, Counters, Row
  <1>4. Issued = k /\ Issued' = k /\ row <= k
    BY <1>1, <1>2, <1>3 DEF Issued, Loop1Rows
  <1> HIDE DEF new
  <1>5. mat'[row] = new /\ \A j \in Row : j # row => mat'[j] = mat[j]
    BY <1>1, <1>3
  <1>6. k \in Row /\ k - 1 \in Int
    BY <1>3, <1>4 DEF Row
  <1>7. Now' = Now
    BY <1>1 DEF Now
  <1>8. k = row => ~savedMask1
    BY <1>2, <1>4 DEF Loop1Masks
  <1>9. k # row => mat'[k] = mat[k]
    BY <1>5, <1>6
  <1>10. Ahead' = Ahead
    BY <1>1, <1>4, <1>7, <1>8, <1>9 DEF Ahead
  <1>11. Loop1Byte'
    <2>1. new \cap ByteOf(row) = Plus(mat[row], mat[k], mask) \cap ByteOf(row)
      BY DEF new, Plus, PivotByte, Masked, Xor, SymDiff
    <2>2. Mine = Plus(mat[row], mat[k], mask) /\ Mine' = new
      BY <1>1, <1>5 DEF Mine
    <2> QED
      BY <1>1, <1>2, <1>10, <2>1, <2>2 DEF Loop1Byte
  <1>12. Loop1Rows'
    BY <1>1, <1>2, <1>3, <1>4, <1>9 DEF Loop1Rows
  <1>13. Loop1Masks'
    <2>1. k # row => (Differ(Now, mat[Issued])' <=> Differ(Now, mat[Issued]))
      BY <1>1, <1>4, <1>7, <1>9 DEF Differ
    <2>2. k > row + 1 => mat'[k - 1] = mat[k - 1]
      BY <1>3, <1>5, <1>6 DEF Row
    <2>3. k > row + 1 =>
             (Differ(acc, mat[Issued - 1])' <=> Differ(acc, mat[Issued - 1]))
      BY <1>1, <1>4, <2>2 DEF Differ
    <2> QED
      BY <1>1, <1>2, <1>3, <1>4, <1>8, <2>1, <2>2, <2>3 DEF Loop1Masks
  <1>14. Loop1Config'
    BY <1>1 DEF Loop1Config
  <1> QED
    BY <1>11, <1>12, <1>13, <1>14 DEF Loop1Inv

\* In the first loop a run's stages leave the rows that are read as they are.
LEMMA Loop1HardwareKeeps == IInv /\ (HwLoad \/ HwCompute \/ HwStore) => Loop1Inv'
  <1> SUFFICES ASSUME IInv, HwLoad \/ HwCompute \/ HwStore, Pivoting
               PROVE  Loop1Rows' /\ Loop1Masks' /\ Loop1Config' /\ Loop1Byte'
    BY DEF Loop1Inv, HwLoad, HwCompute, HwStore, Over, program, Pivoting
  <1>1. Loop1Rows /\ Loop1Masks /\ Loop1Config /\ Loop1Byte
    BY DEF IInv, Loop1Inv
  <1>2. /\ pc' = pc /\ row' = row /\ k' = k /\ mask' = mask /\ savedMask1' = savedMask1
        /\ cfg' = cfg /\ run' = run
    BY DEF HwLoad, HwCompute, HwStore, Over, program
  <1>3. ~HwStore /\ mat' = mat
    BY <1>1 DEF HwLoad, HwCompute, HwStore, Over, Loop1Rows
  <1>4. Issued' = Issued /\ Mine' = Mine
    BY <1>2, <1>3 DEF Issued, Mine
  <1>5. Now' = Now
    <2>1. CASE HwLoad
      BY <2>1, <1>2 DEF HwLoad, Over, Now
    <2>2. CASE HwCompute
      BY <2>2, <1>2 DEF HwCompute, Over, Now, Plus
    <2> QED
      BY <1>3, <2>1, <2>2
  <1>6. Loop1Config' /\ Loop1Byte'
    BY <1>1, <1>2, <1>3, <1>4, <1>5 DEF Loop1Config, Loop1Byte, Ahead, Differ
  <1>7. Loop1Rows'
    <2>1. CASE HwLoad
      BY <2>1, <1>1, <1>2, <1>3, <1>4 DEF HwLoad, Over, Loop1Rows
    <2>2. CASE HwCompute
      BY <2>2, <1>1, <1>2, <1>3, <1>4 DEF HwCompute, Over, Loop1Rows
    <2> QED
      BY <1>3, <2>1, <2>2
  <1>8. Loop1Masks'
    <2>1. Differ(Now, mat[Issued])' <=> Differ(Now, mat[Issued])
      BY <1>2, <1>3, <1>4, <1>5 DEF Differ
    <2>2. "compute" \in todo' => HwLoad /\ "compute" \in todo /\ acc' = acc /\ rdOut' = rdOut
      BY <1>3 DEF HwLoad, HwCompute, Over
    <2>3. "compute" \in todo' =>
             (Differ(acc, mat[Issued - 1])' <=> Differ(acc, mat[Issued - 1]))
      BY <2>2, <1>2, <1>3, <1>4 DEF Differ
    <2> QED
      BY <1>1, <1>2, <1>3, <1>4, <2>1, <2>2, <2>3 DEF Loop1Masks
  <1> QED
    BY <1>6, <1>7, <1>8

----------------------------------------------------------------------------
(* The second loop.                                                         *)

\* The row a call of the second loop is for, and the rows of the calls before
\* it, are rows other than the pivot row, in this order.
LEMMA CallsAndRows ==
    ASSUME TypeOK, k # row, calls = IF k > row THEN k - 1 ELSE k
    PROVE  /\ Last1 \in Int /\ Last2 \in Int /\ Last3 \in Int
           /\ Last3 < Last2 /\ Last2 < Last1 /\ Last1 < k
           /\ Last1 # row /\ Last2 # row /\ Last3 # row
           /\ Last1 <= PK_NROWS /\ Last2 < PK_NROWS
           /\ calls >= 1 <=> Last1 >= 0
           /\ calls >= 2 <=> Last2 >= 0
           /\ calls >= 3 <=> Last3 >= 0
  <1> USE Dimensions
  <1>1. row \in Int /\ row >= 0 /\ row < PK_NROWS /\ k \in Int /\ k >= 0 /\ k <= PK_NROWS + 1
    BY DEF TypeOK, Row
  <1>2. Last1 \in Int /\ Last1 < k /\ Last1 # row /\ Last1 <= PK_NROWS
    BY <1>1 DEF Last1, Before
  <1>3. Last2 \in Int /\ Last2 < Last1 /\ Last2 # row /\ Last2 < PK_NROWS
    BY <1>1, <1>2 DEF Last2, Before
  <1>4. Last3 \in Int /\ Last3 < Last2 /\ Last3 # row
    BY <1>1, <1>3 DEF Last3, Before
  <1>5. calls >= 1 <=> Last1 >= 0
    BY <1>1 DEF Last1, Before
  <1>6. calls >= 2 <=> Last2 >= 0
    BY <1>1 DEF Last1, Last2, Before
  <1>7. calls >= 3 <=> Last3 >= 0
    BY <1>1 DEF Last1, Last2, Last3, Before
  <1> QED
    BY <1>2, <1>3, <1>4, <1>5, <1>6, <1>7

\* What the actions leave alone the lists of rows leave alone.
LEMMA SameRows ==
    ASSUME k' = k, row' = row
    PROVE  Last1' = Last1 /\ Last2' = Last2 /\ Last3' = Last3
  BY DEF Last1, Last2, Last3, Before

\* The systematic test and the row read back are those of the unit's row.
LEMMA CheckedRow ==
    ASSUME IInv, pc = "check", Idle
    PROVE  row \in mat[row] <=> row \in acc
  <1>1. Loop1Masks /\ Loop1Byte
    BY DEF IInv, Loop1Inv, Pivoting
  <1>2. ~savedMask1 /\ row \in Row
    BY <1>1 DEF Loop1Masks, IInv, TypeInv, TypeOK
  <1>3. Ahead = acc /\ Mine = mat[row]
    BY <1>2 DEF Ahead, Now, Mine, Idle
  <1> QED
    BY <1>1, <1>2, <1>3, OwnByte DEF Loop1Byte

LEMMA ReadRowKeeps == IInv /\ ReadRow => Loop2Inv'
  <1> SUFFICES ASSUME IInv, ReadRow PROVE Loop2Inv'
    OBVIOUS
  <1>1. /\ pc = "check" /\ todo = {} /\ row \in mat[row]
        /\ pc' = "mask2" /\ row' = row /\ k' = FirstOther(row) /\ calls' = 0
        /\ mat' = [mat EXCEPT ![row] = acc]
        /\ savedMask1' = savedMask1 /\ todo' = todo /\ acc' = acc
    BY DEF ReadRow, unit, Idle
  <1>2. row \in acc
    BY <1>1, CheckedRow DEF Idle
  <1>3. row \in Row /\ row \in Int /\ row >= 0 /\ mat'[row] = acc
    BY <1>1 DEF IInv, TypeInv, TypeOK, Row
  <1>4. ~savedMask1
    BY <1>1 DEF IInv, Loop1Inv, Pivoting, Loop1Masks
  <1>5. k' # row /\ calls' = IF k' > row THEN k' - 1 ELSE k'
    BY <1>1, <1>3 DEF FirstOther, NextOther
  <1>6. Loop2Counts'
    BY <1>1, <1>2, <1>3, <1>4, <1>5 DEF Loop2Counts
  <1> QED
    BY <1>1, <1>6 DEF Loop2Inv, Loop2Load, Loop2Compute, Loop2Store, Loop2Config

LEMMA Loop2ConfigureKeeps == IInv /\ Loop2Configure => Loop2Inv'
  <1> SUFFICES ASSUME IInv, Loop2Configure PROVE Loop2Inv'
    OBVIOUS
  <1> USE Dimensions
  <1>1. /\ pc = "mask2" /\ pc' = "run2"
        /\ mat' = mat /\ row' = row /\ k' = k /\ calls' = calls
        /\ savedMask1' = savedMask1 /\ savedMask2' = savedMask2
        /\ todo' = todo /\ run' = run /\ acc' = acc /\ rdIn' = rdIn /\ rdOut' = rdOut
        /\ wrIn' = wrIn /\ wrOut' = wrOut
        /\ mask' = (k < PK_NROWS /\ row \in mat[k])
    BY DEF Loop2Configure, unit, halves
  <1>2. Loop2Counts /\ Loop2Load /\ Loop2Compute /\ Loop2Store
    BY <1>1 DEF IInv, Loop2Inv
  <1>3. /\ Last1 \in Int /\ Last2 \in Int
        /\ Last2 < Last1 /\ Last1 < k /\ Last2 < PK_NROWS
        /\ calls >= 1 <=> Last1 >= 0
        /\ calls >= 2 <=> Last2 >= 0
    BY <1>2, CallsAndRows DEF Loop2Counts, IInv, TypeInv
  <1>4. k \in Int /\ row \in Row /\ calls \in Int /\ k <= PK_NROWS + 1
    BY DEF IInv, TypeInv, TypeOK
  <1>5. Last1' = Last1 /\ Last2' = Last2 /\ Last3' = Last3
    BY <1>1, SameRows
  <1>6. cfg' = [rdEn |-> k < PK_NROWS,
                rdRow |-> IF k < PK_NROWS THEN k ELSE cfg.rdRow,
                wrEn |-> calls >= 2 /\ Last2 >= 0,
                wrRow |-> IF calls >= 2 /\ Last2 >= 0 THEN Last2 ELSE cfg.wrRow,
                mask |-> IF calls >= 1 /\ Last1 >= 0 /\ Last1 < PK_NROWS
                         THEN savedMask2 ELSE cfg.mask,
                matWr |-> ~(k < PK_NROWS) /\ cfg.matWr]
    BY DEF Loop2Configure, Last1, Last2
  <1>7. ~cfg'.matWr
    <2>1. k < PK_NROWS \/ calls >= 1
      BY <1>2, <1>4 DEF Loop2Counts, Row
    <2>2. calls >= 1 => ~cfg.matWr
      BY <1>2 DEF Loop2Counts
    <2> QED
      BY <2>1, <2>2, <1>6
  <1>8. Loop2Counts'
    BY <1>1, <1>2, <1>7 DEF Loop2Counts
  <1>9. Loop2Load' /\ Loop2Compute' /\ Loop2Store'
    BY <1>1, <1>2, <1>5 DEF Loop2Load, Loop2Compute, Loop2Store, Cleared, Plus
  <1>10. Loop2Config'
    <2>1. cfg'.rdEn <=> k < PK_NROWS
      BY <1>6
    <2>2. k < PK_NROWS => cfg'.rdRow = k
      BY <1>6
    <2>3. cfg'.wrEn <=> calls >= 2
      BY <1>3, <1>6
    <2>4. calls >= 2 => cfg'.wrRow = Last2
      BY <1>3, <1>6
    <2>5. calls >= 1 /\ Last1 < PK_NROWS => (cfg'.mask <=> savedMask2)
      BY <1>3, <1>6
    <2>6. k < PK_NROWS => (mask' <=> (row \in mat[k]))
      BY <1>1
    <2> QED
      BY <1>1, <1>5, <1>7, <2>1, <2>2, <2>3, <2>4, <2>5, <2>6 DEF Loop2Config
  <1> QED
    BY <1>8, <1>9, <1>10 DEF Loop2Inv

\* The next call of the second loop shifts the rows of the calls by one.
LEMMA RowsShift ==
    ASSUME TypeOK, k # row, row' = row,
           k' = IF k < PK_NROWS THEN NextOther(k, row) ELSE k + 1
    PROVE  Last1' = k /\ Last2' = Last1 /\ Last3' = Last2
  <1>1. row \in Int /\ row >= 0 /\ row < PK_NROWS /\ k \in Int /\ k >= 0
    BY Dimensions DEF TypeOK, Row
  <1>2. Before(k)' = k
    BY <1>1, Dimensions DEF Before, NextOther
  <1>3. Last1' = k
    BY <1>2 DEF Last1
  <1>4. Last2' = Last1
    BY <1>3 DEF Last1, Last2, Before
  <1> QED
    BY <1>3, <1>4 DEF Last2, Last3, Before

\* What a run of the second loop starts with.
LEMMA Loop2StartUnit ==
    ASSUME IInv, Loop2Start
    PROVE  /\ pc = "run2" /\ todo = {} /\ mat' = mat /\ mask' = mask
           /\ savedMask1' = savedMask1 /\ savedMask2' = mask /\ acc' = acc
           /\ run' = cfg /\ rdOut' = rdIn /\ wrOut' = wrIn
           /\ "load" \in todo' <=> k < PK_NROWS
           /\ "compute" \in todo'
           /\ "store" \in todo' <=> calls >= 2
           /\ Loop2Counts /\ Loop2Load /\ Loop2Compute /\ Loop2Config
  <1>1. /\ pc = "run2" /\ todo = {} /\ mat' = mat /\ mask' = mask
        /\ savedMask1' = savedMask1 /\ savedMask2' = mask /\ acc' = acc
        /\ run' = cfg /\ rdOut' = rdIn /\ wrOut' = wrIn
        /\ todo' = {s \in Stage : (s = "load" => cfg.rdEn) /\ (s = "store" => cfg.wrEn)}
    BY DEF Loop2Start, Start, Idle
  <1>2. Loop2Counts /\ Loop2Load /\ Loop2Compute /\ Loop2Config
    BY <1>1 DEF IInv, Loop2Inv
  <1>3. (cfg.rdEn <=> k < PK_NROWS) /\ (cfg.wrEn <=> calls >= 2)
    BY <1>1, <1>2 DEF Loop2Config
  <1>4. /\ "load" \in todo' <=> cfg.rdEn
        /\ "compute" \in todo'
        /\ "store" \in todo' <=> cfg.wrEn
    BY <1>1 DEF Stage
  <1> QED
    BY <1>1, <1>2, <1>3, <1>4

\* Starting a run of the second loop: each half moves on by one stage, and the
\* mask with it.
LEMMA Loop2StartKeeps == IInv /\ Loop2Start /\ k < LastFlush => Loop2Inv'
  <1> SUFFICES ASSUME IInv, Loop2Start, k < LastFlush PROVE Loop2Inv'
    OBVIOUS
  <1> USE Dimensions
  <1>1. /\ pc = "run2" /\ todo = {} /\ mat' = mat /\ mask' = mask
        /\ savedMask1' = savedMask1 /\ savedMask2' = mask /\ acc' = acc
        /\ run' = cfg /\ rdOut' = rdIn /\ wrOut' = wrIn
        /\ "load" \in todo' <=> k < PK_NROWS
        /\ "compute" \in todo'
        /\ "store" \in todo' <=> calls >= 2
        /\ Loop2Counts /\ Loop2Load /\ Loop2Compute /\ Loop2Config
    BY Loop2StartUnit
  <1>2. /\ pc' = "mask2" /\ row' = row /\ calls' = calls + 1 /\ cfg' = cfg
        /\ k' = IF k < PK_NROWS THEN NextOther(k, row) ELSE k + 1
    BY DEF Loop2Start
  <1>3. k # row /\ TypeOK
    BY <1>1 DEF Loop2Counts, IInv, TypeInv
  <1>4. Last1' = k /\ Last2' = Last1 /\ Last3' = Last2
    BY <1>2, <1>3, RowsShift
  <1>5. /\ Last1 \in Int /\ Last2 \in Int /\ Last1 <= PK_NROWS
        /\ calls >= 1 <=> Last1 >= 0
        /\ calls >= 2 <=> Last2 >= 0
        /\ Last2 < Last1 /\ Last1 < k
    BY <1>1, <1>3, CallsAndRows DEF Loop2Counts
  <1>6. /\ k \in Int /\ k >= 0 /\ k <= PK_NROWS /\ row \in Int /\ row < PK_NROWS
        /\ calls \in Int /\ calls >= 0
    BY <1>3 DEF TypeOK, Row, LastFlush
  <1>7. Last1 < PK_NROWS
    BY <1>5, <1>6
  <1>8. /\ k < PK_NROWS => cfg.rdRow = k
        /\ calls >= 2 => cfg.wrRow = Last2
        /\ calls >= 1 => (cfg.mask <=> savedMask2)
        /\ ~cfg.matWr
        /\ k < PK_NROWS => (mask <=> (row \in mat[k]))
    BY <1>1, <1>7 DEF Loop2Config
  <1>9. Loop2Counts'
    <2>1. k' # row /\ calls + 1 = IF k' > row THEN k' - 1 ELSE k'
      BY <1>1, <1>2, <1>6 DEF Loop2Counts, NextOther
    <2> QED
      BY <1>1, <1>2, <1>6, <1>8, <2>1 DEF Loop2Counts
  <1>10. Loop2Load'
    BY <1>1, <1>2, <1>4, <1>8 DEF Loop2Load
  <1>11. Loop2Compute'
    <2>1. calls >= 1 => rdIn = mat[Last1] /\ (cfg.mask <=> (row \in mat[Last1]))
      BY <1>1, <1>7, <1>8 DEF Loop2Load
    <2> QED
      BY <1>1, <1>2, <1>4, <1>6, <2>1 DEF Loop2Compute
  <1>12. Loop2Store'
    <2>1. calls >= 2 => wrIn = Cleared(Last2, row) /\ cfg.wrRow = Last2
      BY <1>1, <1>8 DEF Loop2Compute
    <2>2. Cleared(Last3, row)' = Cleared(Last2, row)
      BY <1>1, <1>2, <1>4 DEF Cleared, Plus
    <2> QED
      BY <1>1, <1>2, <1>4, <1>6, <2>1, <2>2 DEF Loop2Store
  <1>13. Loop2Config'
    BY <1>2 DEF Loop2Config
  <1> QED
    BY <1>9, <1>10, <1>11, <1>12, <1>13 DEF Loop2Inv

\* The second flush call leaves the store of the last row but the pivot row to
\* the run it starts, and the writer off for the runs after it.
LEMMA FlushKeeps == IInv /\ Loop2Start /\ ~(k < LastFlush) => TailInv'
  <1> SUFFICES ASSUME IInv, Loop2Start, ~(k < LastFlush) PROVE TailInv'
    OBVIOUS
  <1> USE Dimensions
  <1>1. /\ mat' = mat /\ savedMask1' = savedMask1 /\ run' = cfg /\ wrOut' = wrIn
        /\ pc = "run2" /\ todo = {}
        /\ "load" \in todo' <=> k < PK_NROWS
        /\ "store" \in todo' <=> calls >= 2
        /\ Loop2Counts /\ Loop2Compute /\ Loop2Config
    BY Loop2StartUnit
  <1>2. /\ cfg' = WriterOff(cfg) /\ k' = 0
        /\ row' = IF row + 1 < PK_NROWS THEN row + 1 ELSE row
        /\ pc' = IF row + 1 < PK_NROWS THEN "load" ELSE "copy"
    BY DEF Loop2Start
  <1>3. k = PK_NROWS + 1 /\ row \in Int /\ row >= 0 /\ row < PK_NROWS
    BY DEF IInv, TypeInv, TypeOK, LastFlush, Row
  <1>4. Last2 = IF row = PK_NROWS - 1 THEN PK_NROWS - 2 ELSE PK_NROWS - 1
    BY <1>3 DEF Last1, Last2, Before
  <1>5. calls >= 2
    BY <1>1, <1>3 DEF Loop2Counts
  <1>6. wrIn = Cleared(Last2, row) /\ cfg.wrRow = Last2
    BY <1>1, <1>5 DEF Loop2Compute, Loop2Config
  <1>7. "store" \in todo' /\ "load" \notin todo'
    BY <1>1, <1>3, <1>5
  <1>8. GErow' = row
    BY <1>2, <1>3, <1>7 DEF GErow, Storing
  <1>9. Cleared(run.wrRow, GErow)' = Cleared(Last2, row)
    BY <1>1, <1>6, <1>8 DEF Cleared, Plus
  <1>10. ~cfg'.wrEn /\ ~savedMask1'
    BY <1>1, <1>2 DEF WriterOff, Loop2Counts
  <1>11. run'.wrRow = IF GErow' = PK_NROWS - 1 THEN PK_NROWS - 2 ELSE PK_NROWS - 1
    BY <1>1, <1>4, <1>6, <1>8
  <1>12. pc' \in {"copy", "done"} => row' = PK_NROWS - 1 /\ k' = 0
    BY <1>2, <1>3
  <1>13. pc' = "load" => row' > 0
    BY <1>2, <1>3
  <1>14. pc' # "done" /\ pc' # "fail"
    BY <1>2
  <1>15. k' = 0 => ~\E j \in Row : j < k'
    BY DEF Row
  <1> QED
    BY <1>1, <1>2, <1>6, <1>7, <1>9, <1>10, <1>11, <1>12, <1>13, <1>14, <1>15 DEF TailInv

\* A row other than those still to be read is stored.
LEMMA Loop2HardwareKeeps == IInv /\ (HwLoad \/ HwCompute \/ HwStore) => Loop2Inv'
  <1> SUFFICES ASSUME IInv, HwLoad \/ HwCompute \/ HwStore, pc \in {"mask2", "run2"}
               PROVE  Loop2Counts' /\ Loop2Load' /\ Loop2Compute' /\ Loop2Store' /\ Loop2Config'
    BY DEF Loop2Inv, HwLoad, HwCompute, HwStore, Over, program
  <1>1. Loop2Counts /\ Loop2Load /\ Loop2Compute /\ Loop2Store /\ Loop2Config
    BY DEF IInv, Loop2Inv
  <1>2. /\ pc' = pc /\ row' = row /\ k' = k /\ calls' = calls /\ mask' = mask
        /\ savedMask1' = savedMask1 /\ savedMask2' = savedMask2
        /\ cfg' = cfg /\ run' = run
    BY DEF HwLoad, HwCompute, HwStore, Over, program
  <1>3. Last1' = Last1 /\ Last2' = Last2 /\ Last3' = Last3
    BY <1>2, SameRows
  <1>4. TypeOK /\ row \in Row /\ calls \in Int /\ mat \in [Row -> SUBSET Bit]
    BY DEF IInv, TypeInv, TypeOK
  <1>5. /\ Last1 \in Int /\ Last2 \in Int /\ Last3 \in Int /\ k \in Int
        /\ Last3 < Last2 /\ Last2 < Last1 /\ Last1 < k
        /\ Last3 # row
        /\ calls >= 3 <=> Last3 >= 0
    BY <1>1, <1>4, CallsAndRows DEF Loop2Counts, TypeOK
  <1>6. CASE HwLoad
    <2>1. /\ "load" \in todo /\ todo' = todo \ {"load"} /\ rdIn' = mat[run.rdRow]
          /\ mat' = mat /\ acc' = acc /\ rdOut' = rdOut /\ wrIn' = wrIn /\ wrOut' = wrOut
      BY <1>6 DEF HwLoad, Over
    <2>2. Loop2Counts'
      BY <1>1, <1>2, <2>1 DEF Loop2Counts
    <2>3. Loop2Load'
      BY <1>1, <1>2, <1>3, <2>1 DEF Loop2Load
    <2>4. Loop2Compute' /\ Loop2Store'
      BY <1>1, <1>2, <1>3, <2>1 DEF Loop2Compute, Loop2Store, Cleared, Plus
    <2>5. Loop2Config'
      BY <1>1, <1>2, <1>3, <2>1 DEF Loop2Config
    <2> QED
      BY <2>2, <2>3, <2>4, <2>5
  <1>7. CASE HwCompute
    <2>1. /\ "compute" \in todo /\ todo' = todo \ {"compute"}
          /\ acc' = IF run.matWr THEN Xor(acc, Masked(rdOut, run.mask)) ELSE acc
          /\ wrIn' = Plus(rdOut, acc, run.mask)
          /\ mat' = mat /\ rdIn' = rdIn /\ rdOut' = rdOut /\ wrOut' = wrOut
      BY <1>7 DEF HwCompute, Over, Plus
    <2>2. calls >= 1 /\ acc' = acc
      BY <1>1, <1>4, <2>1 DEF Loop2Counts, TypeOK
    <2>3. Loop2Counts'
      BY <1>1, <1>2, <2>1, <2>2 DEF Loop2Counts
    <2>4. Loop2Load' /\ Loop2Config'
      BY <1>1, <1>2, <1>3, <2>1 DEF Loop2Load, Loop2Config
    <2>5. Loop2Compute'
      <3>1. calls >= 2 => rdOut = mat[Last2] /\ (run.mask <=> (row \in mat[Last2]))
        BY <1>1, <2>1 DEF Loop2Compute
      <3>2. acc = mat[row]
        BY <1>1 DEF Loop2Counts
      <3>3. calls >= 2 => wrIn' = Cleared(Last2, row)
        BY <2>1, <3>1, <3>2 DEF Cleared, Plus, Masked
      <3>4. Cleared(Last2, row)' = Cleared(Last2, row)
        BY <1>2, <1>3, <2>1 DEF Cleared, Plus
      <3> QED
        BY <1>2, <2>1, <3>3, <3>4 DEF Loop2Compute
    <2>6. Loop2Store'
      BY <1>1, <1>2, <1>3, <2>1 DEF Loop2Store, Cleared, Plus
    <2> QED
      BY <2>3, <2>4, <2>5, <2>6
  <1>8. CASE HwStore
    <2>1. /\ "store" \in todo /\ todo' = todo \ {"store"}
          /\ mat' = [mat EXCEPT ![run.wrRow] = wrOut]
          /\ acc' = acc /\ rdIn' = rdIn /\ rdOut' = rdOut /\ wrIn' = wrIn /\ wrOut' = wrOut
      BY <1>8 DEF HwStore, Over, halves
    <2>2. calls >= 3 /\ run.wrRow = Last3
      BY <1>1, <2>1 DEF Loop2Store
    <2>3. /\ mat'[row] = mat[row] /\ mat'[Last2] = mat[Last2]
          /\ mat'[Last1] = mat[Last1] /\ mat'[k] = mat[k]
      <3>1. /\ Last3 # row /\ Last3 # Last2 /\ Last3 # Last1 /\ Last3 # k
        BY <1>5
      <3>2. \A j : j # Last3 => mat'[j] = mat[j]
        BY <1>4, <2>1, <2>2
      <3> QED
        BY <3>1, <3>2
    <2>4. Loop2Counts'
      BY <1>1, <1>2, <2>1, <2>3 DEF Loop2Counts
    <2>5. Loop2Load' /\ Loop2Config'
      BY <1>1, <1>2, <1>3, <2>1, <2>3 DEF Loop2Load, Loop2Config
    <2>6. Loop2Compute'
      <3>1. Cleared(Last2, row)' = Cleared(Last2, row)
        BY <1>2, <1>3, <2>3 DEF Cleared, Plus
      <3> QED
        BY <1>1, <1>2, <1>3, <2>1, <2>3, <3>1 DEF Loop2Compute
    <2>7. Loop2Store'
      BY <2>1 DEF Loop2Store
    <2> QED
      BY <2>4, <2>5, <2>6, <2>7
  <1> QED
    BY <1>6, <1>7, <1>8

----------------------------------------------------------------------------
(* Between the loops, and after the last.                                   *)

LEMMA NotSystematicKeeps == IInv /\ NotSystematic => TailInv'
  <1> SUFFICES ASSUME IInv, NotSystematic PROVE TailInv'
    OBVIOUS
  <1>1. /\ pc = "check" /\ pc' = "fail" /\ todo = {} /\ todo' = todo
        /\ cfg' = cfg /\ savedMask1' = savedMask1
    BY DEF NotSystematic, Idle, unit
  <1>2. ~cfg.wrEn /\ ~savedMask1
    BY <1>1 DEF IInv, Loop1Inv, Pivoting, Loop1Rows, Loop1Masks
  <1> QED
    BY <1>1, <1>2 DEF TailInv

LEMMA RetryKeeps == IInv /\ Retry => TailInv'
  <1> SUFFICES ASSUME IInv, Retry PROVE TailInv'
    OBVIOUS
  <1>1. /\ pc = "fail" /\ pc' = "load" /\ todo' = todo
        /\ cfg'.wrEn = cfg.wrEn /\ savedMask1' = savedMask1
    BY DEF Retry, ReaderBare, unit
  <1>2. ~cfg.wrEn /\ ~savedMask1 /\ todo = {}
    BY <1>1 DEF IInv, TailInv
  <1> QED
    BY <1>1, <1>2 DEF TailInv

LEMMA CopyRowKeeps == IInv /\ CopyRow => TailInv'
  <1> SUFFICES ASSUME IInv, CopyRow PROVE TailInv'
    OBVIOUS
  <1> USE Dimensions
  <1>1. /\ pc = "copy" /\ pk' = [pk EXCEPT ![k] = KeyPart(mat[k])] /\ k' = k + 1
        /\ pc' = IF k + 1 < PK_NROWS THEN "copy" ELSE "done"
        /\ mat' = mat /\ row' = row /\ savedMask1' = savedMask1 /\ cfg' = cfg
        /\ run' = run /\ todo' = todo /\ wrOut' = wrOut
    BY DEF CopyRow, unit, halves
  <1>2. /\ ~cfg.wrEn /\ ~savedMask1 /\ "load" \notin todo
        /\ row = PK_NROWS - 1
        /\ "store" \in todo =>
             /\ run.wrRow = IF GErow = PK_NROWS - 1 THEN PK_NROWS - 2 ELSE PK_NROWS - 1
             /\ wrOut = Cleared(run.wrRow, GErow)
        /\ \A j \in Row : j < k /\ j # PK_NROWS - 2 => pk[j] = KeyPart(mat[j])
    BY <1>1 DEF IInv, TailInv
  <1>3. k \in Int /\ k < PK_NROWS /\ pk \in [Row -> SUBSET Bit]
    BY <1>1 DEF IInv, TypeInv, TypeOK, Counters
  <1>4. \A j \in Row : j < k' /\ j # PK_NROWS - 2 => pk'[j] = KeyPart(mat[j])
    <2> SUFFICES ASSUME NEW j \in Row, j < k + 1, j # PK_NROWS - 2
                 PROVE  pk'[j] = KeyPart(mat[j])
      BY <1>1
    <2>1. CASE j = k
      BY <2>1, <1>1, <1>3
    <2>2. CASE j # k
      <3>1. j < k
        BY <2>2, <1>3 DEF Row
      <3> QED
        BY <3>1, <2>2, <1>1, <1>2, <1>3
    <2> QED
      BY <2>1, <2>2
  <1>5. GErow' = GErow
    BY <1>1 DEF GErow, Storing
  <1>6. Cleared(run.wrRow, GErow)' = Cleared(run.wrRow, GErow)
    BY <1>1, <1>5 DEF Cleared, Plus
  <1>7. pc' = "done" => k' = PK_NROWS
    BY <1>1, <1>3
  <1>8. pc' # "load" /\ pc' # "fail"
    BY <1>1
  <1>9. \A j \in Row : (j < k /\ j # PK_NROWS - 2 => pk[j] = KeyPart(mat[j]))'
    BY <1>1, <1>4 DEF KeyPart
  <1> QED
    BY <1>1, <1>2, <1>4, <1>5, <1>6, <1>7, <1>8 DEF TailInv, KeyPart

\* The late store is the only stage of a run that is seen outside the loops.
LEMMA TailHardwareKeeps == IInv /\ (HwLoad \/ HwCompute \/ HwStore) => TailInv'
  <1> SUFFICES ASSUME IInv, HwLoad \/ HwCompute \/ HwStore,
                      pc \in {"load", "copy", "done", "fail"}
               PROVE  TailInv'
    BY DEF TailInv, HwLoad, HwCompute, HwStore, Over, program
  <1> USE Dimensions
  <1>1. /\ pc' = pc /\ row' = row /\ k' = k /\ pk' = pk
        /\ savedMask1' = savedMask1 /\ cfg' = cfg /\ run' = run
    BY DEF HwLoad, HwCompute, HwStore, Over, program
  <1>2. TailInv
    BY DEF IInv
  <1>3. ~HwLoad
    BY <1>2 DEF HwLoad, Over, TailInv
  <1>4. CASE HwCompute
    <2>1. /\ todo' = todo \ {"compute"} /\ mat' = mat /\ wrOut' = wrOut
      BY <1>4 DEF HwCompute, Over
    <2>2. GErow' = GErow /\ ("store" \in todo' <=> "store" \in todo)
      BY <1>1, <2>1 DEF GErow, Storing
    <2>3. Cleared(run.wrRow, GErow)' = Cleared(run.wrRow, GErow)
      BY <1>1, <2>1, <2>2 DEF Cleared, Plus
    <2> QED
      BY <1>1, <1>2, <2>1, <2>2, <2>3 DEF TailInv, KeyPart
  <1>5. CASE HwStore
    <2>1. /\ "store" \in todo /\ todo' = todo \ {"store"}
          /\ mat' = [mat EXCEPT ![run.wrRow] = wrOut]
      BY <1>5 DEF HwStore, Over
    <2>2. /\ ~cfg.wrEn /\ ~savedMask1 /\ "load" \notin todo /\ pc # "fail"
          /\ pc \in {"copy", "done"} => row = PK_NROWS - 1
          /\ pc = "done" => k = PK_NROWS
          /\ run.wrRow = IF GErow = PK_NROWS - 1 THEN PK_NROWS - 2 ELSE PK_NROWS - 1
          /\ pc \in {"copy", "done"} =>
               \A j \in Row : j < k /\ j # PK_NROWS - 2 => pk[j] = KeyPart(mat[j])
      BY <1>2, <2>1 DEF TailInv
    <2>3. pc \in {"copy", "done"} => run.wrRow = PK_NROWS - 2
      BY <2>2 DEF GErow
    <2>4. pc \in {"copy", "done"} =>
             \A j \in Row : j # PK_NROWS - 2 => mat'[j] = mat[j]
      BY <2>1, <2>3 DEF IInv, TypeInv, TypeOK
    <2>5. "store" \notin todo' /\ "load" \notin todo'
      BY <2>1, <2>2
    <2>6. pc \in {"copy", "done"} =>
             \A j \in Row : j < k' /\ j # PK_NROWS - 2 => pk'[j] = KeyPart(mat'[j])
      BY <1>1, <2>2, <2>4
    <2> QED
      BY <1>1, <2>2, <2>5, <2>6 DEF TailInv, KeyPart
  <1> QED
    BY <1>3, <1>4, <1>5

LEMMA InitInv == Init => IInv
  <1> SUFFICES ASSUME Init PROVE IInv
    OBVIOUS
  <1>1. pc = "load" /\ todo = {} /\ ~cfg.wrEn /\ ~savedMask1
    BY DEF Init
  <1>2. TailInv
    BY <1>1 DEF TailInv
  <1> QED
    BY <1>1, <1>2, InitType DEF IInv, Loop1Inv, Loop2Inv, Pivoting

\* No step of the processor or of the unit breaks the invariant.
LEMMA StepInv == IInv /\ [Next]_vars => IInv'
  <1> SUFFICES ASSUME IInv, [Next]_vars PROVE IInv'
    OBVIOUS
  <1>1. TypeInv'
    <2>1. CASE Next
      BY <2>1, HardwareType, Loop1Type, CheckType, Loop2Type, CopyType, RetryType
         DEF Next, Cpu, IInv
    <2>2. CASE UNCHANGED vars
      BY <2>2 DEF vars, program, unit, halves, IInv, TypeInv, TypeOK, Counters
    <2> QED
      BY <2>1, <2>2
  <1>2. CASE LoadRow
    <2>1. pc' = "mask1"
      BY <1>2 DEF LoadRow
    <2> QED
      BY <1>1, <1>2, <2>1, LoadRowKeeps DEF IInv, Loop2Inv, TailInv
  <1>3. CASE Loop1Configure
    <2>1. pc' = "run1"
      BY <1>3 DEF Loop1Configure
    <2> QED
      BY <1>1, <1>3, <2>1, Loop1ConfigureKeeps DEF IInv, Loop2Inv, TailInv
  <1>4. CASE Loop1Start
    <2>1. pc' \in {"byte", "check"}
      BY <1>4 DEF Loop1Start
    <2> QED
      BY <1>1, <1>4, <2>1, Loop1StartKeeps DEF IInv, Loop2Inv, TailInv
  <1>5. CASE XorPivotByte
    <2>1. pc' = "mask1"
      BY <1>5 DEF XorPivotByte
    <2> QED
      BY <1>1, <1>5, <2>1, XorPivotByteKeeps DEF IInv, Loop2Inv, TailInv
  <1>6. CASE NotSystematic
    <2>1. pc' = "fail"
      BY <1>6 DEF NotSystematic
    <2> QED
      BY <1>1, <1>6, <2>1, NotSystematicKeeps DEF IInv, Loop1Inv, Loop2Inv, Pivoting
  <1>7. CASE ReadRow
    <2>1. pc' = "mask2"
      BY <1>7 DEF ReadRow
    <2> QED
      BY <1>1, <1>7, <2>1, ReadRowKeeps DEF IInv, Loop1Inv, TailInv, Pivoting
  <1>8. CASE Loop2Configure
    <2>1. pc' = "run2"
      BY <1>8 DEF Loop2Configure
    <2> QED
      BY <1>1, <1>8, <2>1, Loop2ConfigureKeeps DEF IInv, Loop1Inv, TailInv, Pivoting
  <1>9. CASE Loop2Start /\ k < LastFlush
    <2>1. pc' = "mask2"
      BY <1>9 DEF Loop2Start
    <2> QED
      BY <1>1, <1>9, <2>1, Loop2StartKeeps DEF IInv, Loop1Inv, TailInv, Pivoting
  <1>10. CASE Loop2Start /\ ~(k < LastFlush)
    <2>1. pc' \in {"load", "copy"}
      BY <1>10 DEF Loop2Start
    <2> QED
      BY <1>1, <1>10, <2>1, FlushKeeps DEF IInv, Loop1Inv, Loop2Inv, Pivoting
  <1>11. CASE CopyRow
    <2>1. pc' \in {"copy", "done"}
      BY <1>11 DEF CopyRow
    <2> QED
      BY <1>1, <1>11, <2>1, CopyRowKeeps DEF IInv, Loop1Inv, Loop2Inv, Pivoting
  <1>12. CASE Retry
    <2>1. pc' = "load"
      BY <1>12 DEF Retry
    <2> QED
      BY <1>1, <1>12, <2>1, RetryKeeps DEF IInv, Loop1Inv, Loop2Inv, Pivoting
  <1>13. CASE HwLoad \/ HwCompute \/ HwStore
    BY <1>1, <1>13, Loop1HardwareKeeps, Loop2HardwareKeeps, TailHardwareKeeps DEF IInv
  <1>14. CASE UNCHANGED vars
    <2>1. Issued' = Issued /\ Now' = Now /\ Mine' = Mine /\ GErow' = GErow
      BY <1>14 DEF vars, program, unit, halves, Issued, Now, Mine, GErow, Storing
    <2>2. Loop1Inv'
      BY <1>14, <2>1 DEF vars, program, unit, halves, IInv, Loop1Inv, Pivoting,
         Loop1Rows, Loop1Masks, Loop1Config, Loop1Byte, Ahead, Differ
    <2>3. Last1' = Last1 /\ Last2' = Last2 /\ Last3' = Last3
      BY <1>14, SameRows DEF vars, program
    <2>4. Loop2Inv'
      BY <1>14, <2>3 DEF vars, program, unit, halves, IInv, Loop2Inv, Loop2Counts,
         Loop2Load, Loop2Compute, Loop2Store, Loop2Config, Cleared, Plus
    <2>5. TailInv'
      BY <1>14, <2>1 DEF vars, program, unit, halves, IInv, TailInv, Cleared, Plus, KeyPart
    <2> QED
      BY <1>1, <2>2, <2>4, <2>5 DEF IInv
  <1> QED
    BY <1>2, <1>3, <1>4, <1>5, <1>6, <1>7, <1>8, <1>9, <1>10, <1>11, <1>12, <1>13, <1>14
       DEF Next, Cpu

LEMMA Invariance == Spec => []IInv
  BY InitInv, StepInv, PTL DEF Spec

----------------------------------------------------------------------------
(* What the invariant says of the memory, the pivot byte and the key.       *)

\* Whatever the order in which the stages of a run end and the program reads
\* and writes rows, none of them meets another on the same row, with the one
\* exception of the copy to pk: it may read row PK_NROWS - 2 before or after the
\* last store writes it, and no other row.
THEOREM OneRace == Spec => []RaceOnlyInCopy
  <1>1. IInv => RaceOnlyInCopy
    <2> SUFFICES ASSUME IInv PROVE RaceOnlyInCopy
      OBVIOUS
    <2>1. CASE Pivoting
      <3>1. Loop1Rows
        BY <2>1 DEF IInv, Loop1Inv
      <3>2. "load" \in todo /\ pc = "byte" => run.rdRow # row
        BY <3>1 DEF Loop1Rows, Issued, IInv, TypeInv, TypeOK, Row
      <3> QED
        BY <2>1, <3>1, <3>2 DEF RaceOnlyInCopy, ProgramReads, ProgramWrites, Pivoting, Loop1Rows
    <2>2. CASE pc \in {"mask2", "run2"}
      <3>1. Loop2Counts /\ Loop2Load /\ Loop2Store
        BY <2>2 DEF IInv, Loop2Inv
      <3>2. Last3 < Last1 /\ Last3 < k /\ Last3 \in Int /\ Last1 \in Int /\ k \in Int
        BY <3>1, CallsAndRows DEF Loop2Counts, IInv, TypeInv, TypeOK
      <3>3. "store" \in todo => run.wrRow = Last3 /\ calls >= 3
        BY <3>1 DEF Loop2Store
      <3>4. "load" \in todo /\ calls >= 3 => run.rdRow = Last1
        BY <3>1 DEF Loop2Load, IInv, TypeInv, TypeOK
      <3> QED
        BY <2>2, <3>2, <3>3, <3>4 DEF RaceOnlyInCopy, ProgramReads, ProgramWrites
    <2>3. CASE pc \in {"load", "copy", "done", "fail"}
      <3>1. "load" \notin todo /\ ProgramWrites = {}
        BY <2>3 DEF IInv, TailInv, ProgramWrites
      <3>2. pc # "copy" => ProgramReads = {}
        BY <2>3 DEF ProgramReads
      <3>3. "store" \in todo /\ pc = "copy" => run.wrRow = PK_NROWS - 2
        BY DEF IInv, TailInv, GErow
      <3> QED
        BY <3>1, <3>2, <3>3 DEF RaceOnlyInCopy
    <2> QED
      BY <2>1, <2>2, <2>3 DEF IInv, TypeInv, TypeOK, Pivoting
  <1> QED
    BY <1>1, Invariance, PTL

\* The masks and the systematic test are taken from a byte that agrees with the
\* row in the unit, two rows ahead of it.
THEOREM PivotByteCorrect == Spec => []PivotByteAgrees
  <1>1. IInv => PivotByteAgrees
    <2> SUFFICES ASSUME IInv, Pivoting
                 PROVE  Mine \cap ByteOf(row) = Drained \cap ByteOf(row)
      BY DEF PivotByteAgrees, Mine, Plus
    <2>1. Loop1Rows /\ Loop1Masks /\ Loop1Byte
      BY DEF IInv, Loop1Inv
    <2> DEFINE half == IF "load" \in todo THEN mat[run.rdRow] ELSE rdIn
    <2>2. Drained = Plus(Now, half, savedMask1)
      BY DEF Drained, Now, Plus
    <2>3. savedMask1 => row < Issued /\ pc # "check"
      BY <2>1 DEF Loop1Masks, Loop1Rows, IInv, TypeInv, TypeOK, Row, Issued
    <2>4. savedMask1 => half = mat[Issued]
      BY <2>1, <2>3 DEF Loop1Rows
    <2>5. Drained = Ahead
      BY <2>2, <2>4, PlusIs DEF Ahead
    <2> QED
      BY <2>1, <2>5 DEF Loop1Byte
  <1> QED
    BY <1>1, Invariance, PTL

\* The rows copied to the public key are the rows memory holds in the end, but
\* for the one the last store is still on its way to.
THEOREM KeyRows == Spec => []KeyButLastStore
  <1>1. IInv => KeyButLastStore
    <2> SUFFICES ASSUME IInv, pc = "done", NEW r \in Row, r # PK_NROWS - 2
                 PROVE  pk[r] = KeyPart(mat[r])
      BY DEF KeyButLastStore
    <2>1. r < k
      BY Dimensions DEF IInv, TailInv, Row
    <2> QED
      BY <2>1 DEF IInv, TailInv
  <1> QED
    BY <1>1, Invariance, PTL

----------------------------------------------------------------------------
(* The refinement: every step of the program or of the unit is a step of    *)
(* GaussElim, or one that GaussElim does not see.                           *)

LEMMA RefinesInit == Init => GE!Init
  <1> SUFFICES ASSUME Init PROVE GE!Init
    OBVIOUS
  <1>1. /\ pc = "load" /\ todo = {} /\ row = 0 /\ mat \in Matrices /\ mat0 = mat
    BY DEF Init
  <1>2. GEmat = mat /\ GErow = 0 /\ GEk = 1 /\ GEphase = "pivot"
    BY <1>1 DEF GEmat, GErow, GEk, GEphase, Storing, Pivoting
  <1> QED
    BY <1>1, <1>2 DEF GE!Init, GE!Below

\* The abstract state while the first loop is in progress.
PivotInUnit ==
    /\ GEphase = "pivot"
    /\ GErow = row
    /\ GEmat = [mat EXCEPT ![row] = acc]
    /\ GEk = IF Issued <= row + 1 THEN row + 1
             ELSE IF "compute" \in todo THEN Issued - 1 ELSE Issued

LEMMA PivotState == Pivoting => PivotInUnit
  BY DEF PivotInUnit, Pivoting, GEphase, GErow, GEmat, GEk, Issued

\* The abstract state while the second loop is in progress: the row to be
\* cleared next is the one being stored, or the one that will be stored next.
Sweeping == pc \in {"mask2", "run2"}

Clearing ==
    /\ GEphase = "clear"
    /\ GErow = row
    /\ GEmat = mat
    /\ GEk = IF "store" \in todo THEN Last3
             ELSE IF calls >= 2 THEN Last2 ELSE FirstOther(row)

LEMMA ClearState == IInv /\ Sweeping => Clearing
  <1> SUFFICES ASSUME IInv, pc \in {"mask2", "run2"} PROVE Clearing
    BY DEF Sweeping
  <1>1. GEphase = "clear" /\ GErow = row /\ GEmat = mat
    BY DEF GEphase, GErow, GEmat, Pivoting
  <1>2. Loop2Counts /\ Loop2Store
    BY DEF IInv, Loop2Inv
  <1>3. calls >= 2 <=> Last2 >= 0
    BY <1>2, CallsAndRows DEF Loop2Counts, IInv, TypeInv
  <1>4. "store" \in todo => run.wrRow = Last3
    BY <1>2 DEF Loop2Store
  <1>5. GEk = IF "store" \notin todo
              THEN IF calls >= 2 /\ Before(Before(k)) >= 0
                   THEN Before(Before(k)) ELSE FirstOther(row)
              ELSE run.wrRow
    BY DEF GEk, Storing, Pivoting
  <1>6. Before(Before(k)) = Last2
    BY DEF Last1, Last2
  <1> QED
    BY <1>1, <1>3, <1>4, <1>5, <1>6 DEF Clearing

LEMMA LoadRowRefines == IInv /\ LoadRow => UNCHANGED GE!vars
  <1> SUFFICES ASSUME IInv, LoadRow PROVE UNCHANGED GE!vars
    OBVIOUS
  <1>1. /\ pc = "load" /\ pc' = "mask1" /\ mat0' = mat0 /\ k' = row + 1 /\ row' = row
        /\ mat' = mat /\ todo = {} /\ todo' = todo /\ acc' = mat[row]
    BY DEF LoadRow, Idle, Below
  <1>2. row \in Row /\ row \in Int /\ mat \in [Row -> SUBSET Bit]
    BY DEF IInv, TypeInv, TypeOK, Row
  <1>3. GEphase = "pivot" /\ GErow = row /\ GEmat = mat /\ GEk = row + 1
    BY <1>1 DEF GEphase, GErow, GEmat, GEk, Storing, Pivoting
  <1>4. /\ GEphase' = "pivot" /\ GErow' = row'
        /\ GEmat' = [mat' EXCEPT ![row'] = acc']
    BY <1>1 DEF GEphase, GErow, GEmat, Pivoting
  <1>5. GEk' = row + 1
    BY <1>1, <1>2 DEF GEk, Pivoting
  <1>6. [mat' EXCEPT ![row'] = acc'] = mat
    BY <1>1, <1>2
  <1> QED
    BY <1>1, <1>3, <1>4, <1>5, <1>6 DEF GE!vars

LEMMA Loop1Refines ==
    IInv /\ (Loop1Configure \/ Loop1Start \/ XorPivotByte) => UNCHANGED GE!vars
  <1> SUFFICES ASSUME IInv, Loop1Configure \/ Loop1Start \/ XorPivotByte
               PROVE  UNCHANGED GE!vars
    OBVIOUS
  <1> USE Dimensions
  <1>1. Pivoting /\ Pivoting'
    BY DEF Loop1Configure, Loop1Start, XorPivotByte, Pivoting
  <1>2. Loop1Rows
    BY <1>1 DEF IInv, Loop1Inv
  <1>3. /\ row \in Row /\ row \in Int /\ k \in Int /\ mat \in [Row -> SUBSET Bit]
    BY DEF IInv, TypeInv, TypeOK, Row
  <1>4. PivotInUnit
    BY <1>1, PivotState
  <1>5. PivotInUnit'
    BY <1>1, PivotState, PTL
  <1>6. row' = row /\ mat0' = mat0 /\ acc' = acc
    BY DEF Loop1Configure, Loop1Start, XorPivotByte, unit
  <1>7. [mat' EXCEPT ![row] = acc] = [mat EXCEPT ![row] = acc]
    <2>1. mat' = mat \/ \E r : mat' = [mat EXCEPT ![row] = r]
      BY DEF Loop1Configure, Loop1Start, XorPivotByte
    <2> QED
      BY <2>1, <1>3
  <1>8. CASE Loop1Configure
    <2>1. Issued' = Issued /\ todo' = todo
      BY <1>8 DEF Loop1Configure, Issued, unit
    <2> QED
      BY <1>4, <1>5, <1>6, <1>7, <2>1 DEF PivotInUnit, GE!vars
  <1>9. CASE Loop1Start
    <2>1. pc = "run1" /\ pc' = IF k < PK_NROWS THEN "byte" ELSE "check"
      BY <1>9 DEF Loop1Start
    <2>2. k' = k /\ todo = {} /\ "compute" \in todo'
      BY <1>9 DEF Loop1Start, Start, Idle, Stage
    <2>3. k <= PK_NROWS
      BY <1>2 DEF Loop1Rows
    <2>4. Issued = k - 1 /\ Issued' = k
      BY <1>3, <2>1, <2>2, <2>3 DEF Issued
    <2>5. GEk' = GEk
      BY <1>3, <1>4, <1>5, <1>6, <2>2, <2>4, <1>2 DEF Loop1Rows, PivotInUnit
    <2> QED
      BY <1>4, <1>5, <1>6, <1>7, <2>5 DEF PivotInUnit, GE!vars
  <1>10. CASE XorPivotByte
    <2>1. pc = "byte" /\ pc' = "mask1" /\ k' = k + 1 /\ todo' = todo
      BY <1>10 DEF XorPivotByte, Below, unit
    <2>2. Issued' = Issued
      BY <1>3, <2>1 DEF Issued
    <2> QED
      BY <1>4, <1>5, <1>6, <1>7, <2>1, <2>2 DEF PivotInUnit, GE!vars
  <1> QED
    BY <1>8, <1>9, <1>10

\* The systematic test of the program is that of pk_gen on the unit's row.
LEMMA CheckRefines ==
    /\ IInv /\ NotSystematic => GE!NotSystematic
    /\ IInv /\ ReadRow => GE!StartClear
  <1> SUFFICES ASSUME IInv, NotSystematic \/ ReadRow
               PROVE  /\ NotSystematic => GE!NotSystematic
                      /\ ReadRow => GE!StartClear
    OBVIOUS
  <1> USE Dimensions
  <1>1. pc = "check" /\ Idle /\ todo = {}
    BY DEF NotSystematic, ReadRow, Idle
  <1>2. row \in Row /\ row \in Int /\ row < PK_NROWS /\ mat \in [Row -> SUBSET Bit]
    BY DEF IInv, TypeInv, TypeOK, Row
  <1>3. Pivoting /\ Issued = PK_NROWS
    BY <1>1 DEF Pivoting, Issued
  <1>4. /\ GEphase = "pivot" /\ GErow = row /\ GEmat = [mat EXCEPT ![row] = acc]
        /\ GEk = PK_NROWS
    BY <1>1, <1>2, <1>3, PivotState DEF PivotInUnit
  <1>5. GEmat[GErow] = acc
    BY <1>2, <1>4
  <1>6. row \in mat[row] <=> row \in acc
    BY <1>1, CheckedRow
  <1>7. ASSUME NotSystematic PROVE GE!NotSystematic
    <2>1. /\ row \notin mat[row] /\ pc' = "fail"
          /\ mat0' = mat0 /\ mat' = mat /\ row' = row /\ acc' = acc
      BY <1>7 DEF NotSystematic, unit
    <2>2. GEphase' = "fail" /\ GErow' = row' /\ GEmat' = [mat' EXCEPT ![row'] = acc']
      BY <2>1 DEF GEphase, GErow, GEmat, Pivoting
    <2>3. GEk' = PK_NROWS
      BY <2>1 DEF GEk, Pivoting
    <2> QED
      BY <1>4, <1>5, <1>6, <2>1, <2>2, <2>3 DEF GE!NotSystematic
  <1>8. ASSUME ReadRow PROVE GE!StartClear
    <2>1. /\ row \in mat[row] /\ pc' = "mask2" /\ mat' = [mat EXCEPT ![row] = acc]
          /\ mat0' = mat0 /\ row' = row /\ calls' = 0 /\ todo' = todo
      BY <1>8 DEF ReadRow, unit
    <2>2. GEphase' = "clear" /\ GErow' = row' /\ GEmat' = mat'
      BY <2>1 DEF GEphase, GErow, GEmat, Pivoting
    <2>3. GEk' = FirstOther(row)
      <3>1. FirstOther(row)' = FirstOther(row)
        BY <2>1 DEF FirstOther, NextOther
      <3> QED
        BY <1>1, <2>1, <3>1 DEF GEk, Storing, Pivoting
    <2>4. FirstOther(row) = GE!FirstOther(GErow)
      BY <1>4 DEF FirstOther, NextOther, GE!FirstOther, GE!NextOther
    <2> QED
      BY <1>4, <1>5, <1>6, <2>1, <2>2, <2>3, <2>4 DEF GE!StartClear
  <1> QED
    BY <1>7, <1>8

LEMMA Loop2ConfigureRefines == IInv /\ Loop2Configure => UNCHANGED GE!vars
  <1> SUFFICES ASSUME IInv, Loop2Configure PROVE UNCHANGED GE!vars
    OBVIOUS
  <1>1. /\ pc = "mask2" /\ pc' = "run2" /\ mat0' = mat0 /\ mat' = mat /\ row' = row
        /\ k' = k /\ calls' = calls /\ todo' = todo /\ run' = run
    BY DEF Loop2Configure, unit
  <1>2. Clearing
    BY <1>1, ClearState DEF Sweeping
  <1>3. IInv' /\ Sweeping'
    BY <1>1, StepInv DEF Next, Cpu, Sweeping
  <1>4. Clearing'
    BY <1>3, ClearState, PTL
  <1>5. Last2' = Last2 /\ Last3' = Last3 /\ FirstOther(row)' = FirstOther(row)
    BY <1>1, SameRows DEF FirstOther, NextOther
  <1> QED
    BY <1>1, <1>2, <1>4, <1>5 DEF Clearing, GE!vars

\* The abstract state outside the loops: the last row of the elimination, or of
\* a pivot, is cleared when its late store is over.
Outside == pc \in {"load", "copy", "done"}

Settled ==
    /\ GEphase = IF "store" \in todo THEN "clear"
                 ELSE IF pc = "load" THEN "pivot" ELSE "done"
    /\ GErow = IF "store" \in todo /\ pc = "load" THEN row - 1 ELSE row
    /\ GEmat = mat
    /\ GEk = IF "store" \notin todo /\ pc = "load" THEN row + 1 ELSE run.wrRow

LEMMA OutsideState == Outside => Settled
  <1> SUFFICES ASSUME Outside PROVE Settled
    OBVIOUS
  <1>1. ~Pivoting /\ pc # "fail" /\ pc \notin {"mask2", "run2"}
    BY DEF Outside, Pivoting
  <1>2. GErow = IF "store" \in todo /\ pc = "load" THEN row - 1 ELSE row
    BY DEF GErow, Storing
  <1>3. GEmat = mat
    BY <1>1 DEF GEmat
  <1>4. GEphase = IF "store" \in todo THEN "clear"
                  ELSE IF pc = "load" THEN "pivot" ELSE "done"
    BY <1>1 DEF GEphase, Storing, Outside
  <1>5. GEk = IF "store" \notin todo /\ pc = "load" THEN row + 1 ELSE run.wrRow
    BY <1>1 DEF GEk, Storing, Outside
  <1> QED
    BY <1>2, <1>3, <1>4, <1>5 DEF Settled

LEMMA Loop2StartRefines == IInv /\ Loop2Start => UNCHANGED GE!vars
  <1> SUFFICES ASSUME IInv, Loop2Start PROVE UNCHANGED GE!vars
    OBVIOUS
  <1> USE Dimensions
  <1>1. /\ pc = "run2" /\ todo = {} /\ mat' = mat /\ run' = cfg
        /\ "store" \in todo' <=> calls >= 2
        /\ Loop2Counts /\ Loop2Config
    BY Loop2StartUnit
  <1>2. mat0' = mat0
    BY DEF Loop2Start
  <1>3. Clearing
    BY <1>1, ClearState DEF Sweeping
  <1>4. /\ k # row /\ TypeOK /\ calls = IF k > row THEN k - 1 ELSE k
        /\ row \in Int /\ k \in Int /\ calls \in Int /\ k >= 0 /\ row < PK_NROWS
    BY <1>1 DEF Loop2Counts, IInv, TypeInv, TypeOK, Row
  <1>5. calls >= 2 => cfg.wrRow = Last2
    BY <1>1 DEF Loop2Config
  <1>6. IInv'
    BY StepInv DEF Next, Cpu
  <1>7. CASE k < LastFlush
    <2>1. /\ pc' = "mask2" /\ row' = row /\ calls' = calls + 1
          /\ k' = IF k < PK_NROWS THEN NextOther(k, row) ELSE k + 1
      BY <1>7 DEF Loop2Start
    <2>2. Clearing'
      <3>1. Sweeping'
        BY <2>1 DEF Sweeping
      <3> QED
        BY <1>6, <3>1, ClearState, PTL
    <2>3. Last1' = k /\ Last2' = Last1 /\ Last3' = Last2
      BY <1>4, <2>1, RowsShift
    <2>4. FirstOther(row)' = FirstOther(row)
      BY <2>1 DEF FirstOther, NextOther
    <2>5. calls = 1 => Last1 = FirstOther(row)
      <3>1. row >= 0
        BY <1>4 DEF TypeOK, Row
      <3> QED
        BY <1>4, <3>1 DEF Last1, Before, FirstOther, NextOther
    <2> QED
      BY <1>1, <1>2, <1>3, <1>4, <2>1, <2>2, <2>3, <2>4, <2>5 DEF Clearing, GE!vars
  <1>8. CASE ~(k < LastFlush)
    <2>1. /\ row' = IF row + 1 < PK_NROWS THEN row + 1 ELSE row
          /\ pc' = IF row + 1 < PK_NROWS THEN "load" ELSE "copy"
      BY <1>8 DEF Loop2Start
    <2>2. Settled'
      <3>1. Outside'
        BY <2>1 DEF Outside
      <3> QED
        BY <3>1, OutsideState, PTL
    <2>3. k = PK_NROWS + 1
      BY <1>4, <1>8 DEF TypeOK, LastFlush
    <2>4. calls >= 2 /\ "store" \in todo'
      BY <1>1, <1>4, <2>3
    <2>5. GErow' = row
      BY <1>4, <2>1, <2>2, <2>4 DEF Settled
    <2>6. GEk' = Last2
      BY <1>1, <1>5, <2>2, <2>4 DEF Settled
    <2> QED
      BY <1>1, <1>2, <1>3, <2>2, <2>4, <2>5, <2>6 DEF Clearing, Settled, GE!vars
  <1> QED
    BY <1>7, <1>8

LEMMA CopyRowRefines == IInv /\ CopyRow => UNCHANGED GE!vars
  <1> SUFFICES ASSUME IInv, CopyRow PROVE UNCHANGED GE!vars
    OBVIOUS
  <1>1. /\ pc = "copy" /\ pc' \in {"copy", "done"} /\ mat0' = mat0 /\ mat' = mat
        /\ row' = row /\ todo' = todo /\ run' = run
    BY DEF CopyRow, unit
  <1>2. Settled
    BY <1>1, OutsideState DEF Outside
  <1>3. Settled'
    <2>1. Outside'
      BY <1>1 DEF Outside
    <2> QED
      BY <2>1, OutsideState, PTL
  <1> QED
    BY <1>1, <1>2, <1>3 DEF Settled, GE!vars

LEMMA RetryRefines == IInv /\ Retry => GE!Retry
  <1> SUFFICES ASSUME IInv, Retry PROVE GE!Retry
    OBVIOUS
  <1>1. /\ pc = "fail" /\ pc' = "load" /\ mat' \in Matrices /\ mat0' = mat'
        /\ row' = 0 /\ todo' = todo
    BY DEF Retry, unit
  <1>2. todo = {}
    BY <1>1 DEF IInv, TailInv
  <1>3. GEphase = "fail"
    BY <1>1 DEF GEphase, Pivoting
  <1>4. Settled'
    <2>1. Outside'
      BY <1>1 DEF Outside
    <2> QED
      BY <2>1, OutsideState, PTL
  <1>5. GEphase' = "pivot" /\ GErow' = 0 /\ GEmat' = mat' /\ GEk' = 1
    BY <1>1, <1>2, <1>4 DEF Settled
  <1> QED
    BY <1>1, <1>3, <1>5 DEF GE!Retry, GE!Below

\* Loading changes nothing GaussElim sees.
LEMMA HwLoadRefines == IInv /\ HwLoad => UNCHANGED GE!vars
  <1> SUFFICES ASSUME IInv, HwLoad PROVE UNCHANGED GE!vars
    OBVIOUS
  <1>1. /\ pc' = pc /\ mat0' = mat0 /\ mat' = mat /\ row' = row /\ k' = k
        /\ calls' = calls /\ acc' = acc /\ run' = run
        /\ "store" \in todo' <=> "store" \in todo
        /\ "compute" \in todo' <=> "compute" \in todo
    BY DEF HwLoad, Over, program
  <1>2. GEphase' = GEphase /\ GErow' = GErow /\ GEmat' = GEmat
    BY <1>1 DEF GEphase, GErow, GEmat, Pivoting, Storing
  <1>3. Issued' = Issued /\ Last2' = Last2 /\ Last3' = Last3
        /\ FirstOther(row)' = FirstOther(row)
    BY <1>1, SameRows DEF Issued, FirstOther, NextOther
  <1>4. GEk' = GEk
    BY <1>1, <1>3 DEF GEk, Storing, Pivoting, Before
  <1> QED
    BY <1>1, <1>2, <1>4 DEF GE!vars

\* The additions of the two specifications are the same.
LEMMA SameAddition ==
    ASSUME NEW a, NEW r, NEW m, NEW n, m <=> n
    PROVE  Plus(a, r, m) = GE!Xor(a, GE!Masked(r, n))
  BY DEF Plus, Xor, Masked, SymDiff, GE!Xor, GE!Masked, GE!SymDiff

\* A run of the first loop computes: a Pivot step, with the mask that was taken
\* one call earlier.  The first run and the flush of the last row add nothing.
LEMMA HwComputeRefines == IInv /\ HwCompute => GE!Pivot \/ UNCHANGED GE!vars
  <1> SUFFICES ASSUME IInv, HwCompute PROVE GE!Pivot \/ UNCHANGED GE!vars
    OBVIOUS
  <1> USE Dimensions
  <1>1. /\ pc' = pc /\ mat0' = mat0 /\ mat' = mat /\ row' = row /\ k' = k
        /\ calls' = calls /\ run' = run
        /\ acc' = IF run.matWr THEN Plus(acc, rdOut, run.mask) ELSE acc
        /\ "compute" \in todo /\ todo' = todo \ {"compute"}
    BY DEF HwCompute, Over, program, Plus
  <1>2. row \in Row /\ row \in Int /\ k \in Int /\ mat \in [Row -> SUBSET Bit]
    BY DEF IInv, TypeInv, TypeOK, Row
  <1>3. CASE Pivoting
    <2>1. PivotInUnit
      BY <1>3, PivotState
    <2>2. PivotInUnit'
      <3>1. Pivoting'
        BY <1>1, <1>3 DEF Pivoting
      <3> QED
        BY <3>1, PivotState, PTL
    <2>3. Loop1Rows /\ Loop1Masks
      BY <1>3 DEF IInv, Loop1Inv
    <2>4. Issued' = Issued /\ Issued \in Int /\ row < Issued /\ Issued <= PK_NROWS
      <3>1. Issued' = Issued /\ Issued \in Int /\ row <= Issued /\ Issued <= PK_NROWS
        BY <1>1, <1>2, <2>3 DEF Issued, Loop1Rows, IInv, TypeInv, Counters
      <3>2. Issued # row
        BY <1>1, <2>3 DEF Loop1Rows
      <3> QED
        BY <1>2, <3>1, <3>2
    <2>5. GEmat[row] = acc /\ \A j \in Row : j # row => GEmat[j] = mat[j]
      BY <1>2, <2>1 DEF PivotInUnit
    <2>6. CASE Issued = row + 1
      <3>1. acc' = acc
        BY <1>1, <2>3, <2>6, PlusIs DEF Loop1Masks
      <3>2. GEk = row + 1 /\ GEk' = row + 1
        BY <1>1, <1>2, <2>1, <2>2, <2>4, <2>6 DEF PivotInUnit
      <3>3. GEmat' = GEmat /\ GErow' = GErow /\ GEphase' = GEphase
        BY <1>1, <2>1, <2>2, <3>1 DEF PivotInUnit
      <3> QED
        BY <1>1, <3>2, <3>3 DEF GE!vars
    <2>7. CASE Issued # row + 1
      <3>1. Issued > row + 1
        BY <1>2, <2>4, <2>7
      <3>2. /\ run.matWr /\ rdOut = mat[Issued - 1]
            /\ run.mask <=> Differ(acc, mat[Issued - 1])
        BY <1>1, <2>3, <3>1 DEF Loop1Masks
      <3>3. Issued - 1 \in Row /\ Issued - 1 # row
        BY <1>2, <2>4, <3>1 DEF Row
      <3>4. GEk = Issued - 1 /\ GEk' = Issued /\ GErow = row /\ GErow' = row
        BY <1>1, <1>2, <2>1, <2>2, <2>4, <3>1 DEF PivotInUnit
      <3>5. GEmat[GEk] = mat[Issued - 1] /\ GEmat[GErow] = acc
        BY <2>5, <3>3, <3>4
      <3>6. GE!Differs <=> run.mask
        BY <3>2, <3>4, <3>5 DEF GE!Differs, Differ
      <3>7. acc' = GE!Xor(GEmat[GErow], GE!Masked(GEmat[GEk], GE!Differs))
        BY <1>1, <3>2, <3>5, <3>6, SameAddition
      <3>8. GEmat' = [GEmat EXCEPT ![GErow] = acc']
        BY <1>1, <1>2, <2>1, <2>2, <3>4 DEF PivotInUnit
      <3>9. GEphase = "pivot" /\ GEphase' = "pivot" /\ GEk < PK_NROWS /\ GEk' = GEk + 1
        BY <2>1, <2>2, <2>4, <3>4 DEF PivotInUnit
      <3> QED
        BY <1>1, <3>4, <3>7, <3>8, <3>9 DEF GE!Pivot, GE!Below
    <2> QED
      BY <2>6, <2>7
  <1>4. CASE Sweeping
    <2>1. Clearing /\ Clearing'
      <3>1. IInv' /\ Sweeping'
        BY <1>1, <1>4, StepInv DEF Next, Sweeping
      <3>2. Clearing'
        BY <3>1, ClearState, PTL
      <3> QED
        BY <1>4, ClearState, <3>2
    <2>2. Last2' = Last2 /\ Last3' = Last3 /\ FirstOther(row)' = FirstOther(row)
      BY <1>1, SameRows DEF FirstOther, NextOther
    <2> QED
      BY <1>1, <2>1, <2>2 DEF Clearing, GE!vars
  <1>5. CASE Outside
    <2>1. Settled /\ Settled'
      <3>1. Outside'
        BY <1>1, <1>5 DEF Outside
      <3>2. Settled'
        BY <3>1, OutsideState, PTL
      <3> QED
        BY <1>5, OutsideState, <3>2
    <2> QED
      BY <1>1, <2>1 DEF Settled, GE!vars
  <1>6. pc # "fail"
    BY <1>1 DEF IInv, TailInv
  <1> QED
    BY <1>3, <1>4, <1>5, <1>6 DEF IInv, TypeInv, TypeOK, Pivoting, Sweeping, Outside

\* A store is a Clear step: the row stored is the row in memory with the pivot
\* row added to it where it must, and it is the next one in the order of pk_gen.
LEMMA HwStoreRefines == IInv /\ HwStore => GE!Clear
  <1> SUFFICES ASSUME IInv, HwStore PROVE GE!Clear
    OBVIOUS
  <1> USE Dimensions
  <1>1. /\ pc' = pc /\ mat0' = mat0 /\ row' = row /\ k' = k
        /\ calls' = calls /\ run' = run
        /\ mat' = [mat EXCEPT ![run.wrRow] = wrOut]
        /\ "store" \in todo /\ "store" \notin todo'
    BY DEF HwStore, Over, program
  <1>2. /\ row \in Row /\ row \in Int /\ row >= 0 /\ row < PK_NROWS
        /\ k \in Int /\ calls \in Int /\ mat \in [Row -> SUBSET Bit]
    BY DEF IInv, TypeInv, TypeOK, Row
  <1>3. CASE Sweeping
    <2>1. Clearing /\ Clearing'
      <3>1. IInv' /\ Sweeping'
        BY <1>1, <1>3, StepInv DEF Next, Sweeping
      <3>2. Clearing'
        BY <3>1, ClearState, PTL
      <3> QED
        BY <1>3, ClearState, <3>2
    <2>2. Loop2Counts /\ Loop2Store
      BY <1>3 DEF IInv, Loop2Inv, Sweeping
    <2>3. calls >= 3 /\ run.wrRow = Last3 /\ wrOut = Cleared(Last3, row)
      BY <1>1, <2>2 DEF Loop2Store
    <2>4. Last2' = Last2
      BY <1>1, SameRows
    <2>5. Last2 = NextOther(Last3, row) /\ Last2 < PK_NROWS
      <3>1. Last2 < PK_NROWS /\ Last2 # row /\ Last2 \in Int
        BY <2>2, CallsAndRows DEF Loop2Counts, IInv, TypeInv
      <3> QED
        BY <1>2, <3>1 DEF Last3, Before, NextOther
    <2>6. GEk = Last3 /\ GEk' = Last2 /\ GErow = row /\ GErow' = row
      BY <1>1, <1>2, <2>1, <2>3, <2>4 DEF Clearing
    <2>7. GEmat = mat /\ GEmat' = [mat EXCEPT ![Last3] = Cleared(Last3, row)]
      BY <1>1, <2>1, <2>3 DEF Clearing
    <2>8. Cleared(Last3, row)
             = GE!Xor(mat[Last3], GE!Masked(mat[row], row \in mat[Last3]))
      BY SameAddition DEF Cleared
    <2>9. GEphase = "clear" /\ GEphase' = "clear"
      BY <2>1 DEF Clearing
    <2> QED
      BY <1>1, <2>5, <2>6, <2>7, <2>8, <2>9 DEF GE!Clear, GE!NextOther, NextOther
  <1>4. CASE Outside
    <2>1. Settled /\ Settled'
      <3>1. Outside'
        BY <1>1, <1>4 DEF Outside
      <3>2. Settled'
        BY <3>1, OutsideState, PTL
      <3> QED
        BY <1>4, OutsideState, <3>2
    <2> DEFINE j == run.wrRow
    <2>2. /\ pc = "load" => row > 0
          /\ pc # "load" => row = PK_NROWS - 1
          /\ j = IF GErow = PK_NROWS - 1 THEN PK_NROWS - 2 ELSE PK_NROWS - 1
          /\ wrOut = Cleared(j, GErow)
      BY <1>1, <1>4 DEF IInv, TailInv, Outside
    <2>3. /\ GEphase = "clear" /\ GErow = (IF pc = "load" THEN row - 1 ELSE row)
          /\ GEmat = mat /\ GEk = j
      BY <1>1, <2>1 DEF Settled
    <2>4. /\ GEphase' = (IF pc = "load" THEN "pivot" ELSE "done") /\ GErow' = row
          /\ GEmat' = mat' /\ GEk' = (IF pc = "load" THEN row + 1 ELSE j)
      BY <1>1, <2>1 DEF Settled
    <2> HIDE DEF j
    <2>5. mat' = [mat EXCEPT ![j] = Cleared(j, GErow)]
      BY <1>1, <2>2 DEF j
    <2>6. Cleared(j, GErow) = GE!Xor(mat[j], GE!Masked(mat[GErow], GErow \in mat[j]))
      BY SameAddition DEF Cleared
    <2>7. GE!NextOther(j, GErow) >= PK_NROWS
      BY <1>2, <2>2, <2>3 DEF GE!NextOther
    <2>8. CASE pc = "load"
      <3>1. GErow < PK_NROWS - 1 /\ GErow' = GErow + 1 /\ GEk' = GErow + 2
        BY <1>2, <2>2, <2>3, <2>4, <2>8
      <3> QED
        BY <1>1, <2>3, <2>4, <2>5, <2>6, <2>7, <2>8, <3>1 DEF GE!Clear, GE!Below
    <2>9. CASE pc # "load"
      BY <1>1, <2>2, <2>3, <2>4, <2>5, <2>6, <2>7, <2>9 DEF GE!Clear
    <2> QED
      BY <2>8, <2>9
  <1>5. ~Pivoting /\ pc # "fail"
    BY <1>1 DEF IInv, Loop1Inv, Loop1Rows, TailInv
  <1> QED
    BY <1>3, <1>4, <1>5 DEF IInv, TypeInv, TypeOK, Pivoting, Sweeping, Outside

\* The accelerated elimination implements that of pk_gen, for every matrix and
\* every order in which the stages of its runs end: the same rows are combined,
\* with the same masks and in the same order.
THEOREM Refinement == Spec => ImplementsGaussElim
  <1>1. IInv /\ [Next]_vars => [GE!Next]_(GE!vars)
    <2> SUFFICES ASSUME IInv, [Next]_vars PROVE [GE!Next]_(GE!vars)
      OBVIOUS
    <2>1. CASE Cpu
      BY <2>1, LoadRowRefines, Loop1Refines, CheckRefines, Loop2ConfigureRefines,
         Loop2StartRefines, CopyRowRefines, RetryRefines
         DEF Cpu, GE!Next
    <2>2. CASE HwLoad \/ HwCompute \/ HwStore
      BY <2>2, HwLoadRefines, HwComputeRefines, HwStoreRefines DEF GE!Next
    <2>3. CASE UNCHANGED vars
      BY <2>3 DEF vars, program, unit, halves, GE!vars, GEmat, GErow, GEk, GEphase,
         Pivoting, Storing, Before, FirstOther, NextOther
    <2> QED
      BY <2>1, <2>2, <2>3 DEF Next
  <1> QED
    BY RefinesInit, <1>1, Invariance, PTL DEF Spec, ImplementsGaussElim, GE!Spec

----------------------------------------------------------------------------
GEP == INSTANCE GaussElimProofs WITH mat <- GEmat, row <- GErow, k <- GEk,
                                     phase <- GEphase

\* What is proved of the elimination of pk_gen holds of the accelerated one: it fails
\* exactly on the matrices whose left block is singular, and every row it stores is of
\* the row space of the matrix it was given.
THEOREM ReducesExactly == Spec => [](GE!FailsIffSingular /\ GE!RowSpaceKept)
  <1>1. Matrices \subseteq [GEP!Row -> SUBSET GEP!Bit]
    BY MatricesAreBits DEF Row, Bit, GEP!Row, GEP!Bit
  <1>2. /\ PK_NROWS \in Nat /\ PK_NROWS > 1
        /\ SYS_N \in Nat /\ SYS_N >= PK_NROWS
        /\ BYTE \in Nat /\ BYTE > 0
        /\ PK_NROWS % BYTE = 0
    BY Dimensions
  <1>3. GEP!Spec => []GEP!FailsIffSingular
    BY <1>1, <1>2, GEP!FailsExactly, PTL
  <1>4. GEP!Spec => []GEP!RowSpaceKept
    BY <1>1, <1>2, GEP!RowSpaceIsKept, PTL
  <1>5. GE!Init => GEP!Init
    BY Zenon DEF GE!Init, GEP!Init, GE!Below, GEP!Below
  <1>6. [GE!Next]_(GE!vars) => [GEP!Next]_(GEP!vars)
    <2>1. /\ GE!Pivot => GEP!Pivot
          /\ GE!NotSystematic => GEP!NotSystematic
          /\ GE!StartClear => GEP!StartClear
          /\ GE!Clear => GEP!Clear
          /\ GE!Retry => GEP!Retry
      <3> USE DEF GE!Below, GEP!Below, GE!Xor, GEP!Xor, GE!Masked, GEP!Masked,
              GE!SymDiff, GEP!SymDiff
      <3>1. GE!Pivot => GEP!Pivot
        BY Zenon DEF GE!Pivot, GEP!Pivot, GE!Differs, GEP!Differs
      <3>2. GE!NotSystematic => GEP!NotSystematic
        BY Zenon DEF GE!NotSystematic, GEP!NotSystematic
      <3>3. GE!StartClear => GEP!StartClear
        BY Zenon DEF GE!StartClear, GEP!StartClear, GE!FirstOther, GEP!FirstOther,
           GE!NextOther, GEP!NextOther
      <3>4. GE!Clear => GEP!Clear
        BY Zenon DEF GE!Clear, GEP!Clear, GE!NextOther, GEP!NextOther
      <3>5. GE!Retry => GEP!Retry
        BY Zenon DEF GE!Retry, GEP!Retry
      <3> QED
        BY <3>1, <3>2, <3>3, <3>4, <3>5
    <2> QED
      BY <2>1, Zenon DEF GE!Next, GEP!Next, GE!vars, GEP!vars
  <1>7. \A m, S : GE!Combine(m, S) = GEP!Combine(m, S)
    BY Zenon DEF GE!Combine, GEP!Combine, GE!Bit, GEP!Bit, GE!Cardinality, GEP!Cardinality
  <1>8. GEP!FailsIffSingular => GE!FailsIffSingular
    BY <1>7, Zenon DEF GE!FailsIffSingular, GEP!FailsIffSingular, GE!Singular, GEP!Singular,
       GE!Row, GEP!Row
  <1>9. GEP!RowSpaceKept => GE!RowSpaceKept
    <2>1. \A m : GEP!RowSpace(m) = GE!RowSpace(m)
      BY <1>7 DEF GE!RowSpace, GEP!RowSpace, GE!Row, GEP!Row
    <2> QED
      BY <2>1, Zenon DEF GE!RowSpaceKept, GEP!RowSpaceKept
  <1>10. GE!Spec => GEP!Spec
    BY <1>5, <1>6, PTL DEF GE!Spec, GEP!Spec
  <1> QED
    BY <1>3, <1>4, <1>8, <1>9, <1>10, Refinement, PTL DEF ImplementsGaussElim
============================================================================
