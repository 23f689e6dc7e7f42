---------------------------- MODULE TestRunProofs ----------------------------
(***************************************************************************)
(* Proofs about the test run of the firmware.  Of Arena, for every size:   *)
(* the two invariants are inductive together, since a pop hands back the   *)
(* memory above a mark, and what lies below it is known from Disjoint;     *)
(* that there is a frame to pop, and two for an early exit, is known from  *)
(* Depth.  Of KatTests, for any number of vectors and faults: what each    *)
(* loop has found in its file, what the counts say of the implementations, *)
(* and what the verdict says of the suites that are over.                  *)
(***************************************************************************)
EXTENDS Arena, KatTests, SequenceTheorems, WellFoundedInduction, TLAPS



ArenaInv == ArenaTypeOK /\ Disjoint

----------------------------------------------------------------------------
(* Sizes. *)

\* PushBytes rounds up to a multiple of 4.
LEMMA Align4Type ==
    ASSUME NEW size \in Nat
    PROVE  Align4(size) \in Offset
BY DEF Align4, Offset

LEMMA OffsetSum ==
    ASSUME NEW m \in Offset, NEW n \in Offset
    PROVE  m + n \in Offset
BY DEF Offset

LEMMA FourTimes ==
    ASSUME NEW q \in Nat
    PROVE  4 * q \in Offset
BY DEF Offset

LEMMA OffsetProduct ==
    ASSUME NEW count \in Nat, NEW m \in Offset
    PROVE  count * m \in Offset
<1>1. PICK q \in Nat : m = 4 * q
  BY DEF Offset
<1>2. count * m = 4 * (count * q) /\ count * q \in Nat
  BY <1>1
<1> QED  BY <1>2, FourTimes

\* What each function pushes keeps the arena aligned.
LEMMA PushesAligned ==
    /\ KeygenPushes \in Offset /\ GenpolyPushes \in Offset /\ GfMulPushes \in Offset
    /\ PkGenPushes \in Offset /\ ControlBitsPushes \in Offset /\ HexPushes \in Offset
    /\ \A s \in {"SHA", "AES", "McEliece"} : FilePush(s) \in Offset
    /\ Align4(PUBLICKEYBYTES) + Align4(SECRETKEYBYTES) + FilePush("McEliece") \in Offset
    /\ \A bits \in BITS : Align4(bits) \in Offset
    /\ Align4(32 + 1) \in Offset /\ Align4(16 + 1) \in Offset
<1> USE ArenaSizes
<1>1. Perm \in Nat
  BY DEF Perm
<1>2. KeygenPushes \in Offset
  <2>1. SYS_N \div 8 \in Nat /\ SYS_T * 2 \in Nat /\ Perm * 4 \in Nat /\ Perm * 2 \in Nat
    BY <1>1
  <2>2. SizeOfR \in Nat
    BY <2>1 DEF SizeOfR
  <2>3. /\ Align4(SizeOfR) \in Offset /\ Align4(SYS_T * 2) \in Offset
        /\ Align4(Perm * 4) \in Offset /\ Align4(Perm * 2) \in Offset
    BY <2>1, <2>2, Align4Type
  <2> QED  BY <2>3, OffsetSum DEF KeygenPushes
<1>3. GenpolyPushes \in Offset
  <2>1. Align4((SYS_T + 1) * 4) \in Offset /\ Align4(SYS_T * 2) \in Offset
    BY Align4Type
  <2>2. (SYS_T + 1) * Align4(SYS_T * 2) \in Offset
    BY <2>1, OffsetProduct
  <2> QED  BY <2>1, <2>2, OffsetSum DEF GenpolyPushes
<1>4. GfMulPushes \in Offset
  BY Align4Type DEF GfMulPushes
<1>5. PkGenPushes \in Offset
  <2>1. /\ Align4(PK_NROWS * 4) \in Offset /\ Align4(SYS_N \div 8) \in Offset
        /\ Align4((SYS_T + 1) * 2) \in Offset /\ Align4(SYS_N * 2) \in Offset
    BY Align4Type
  <2>2. PK_NROWS * Align4(SYS_N \div 8) \in Offset
    BY <2>1, OffsetProduct
  <2> QED  BY <2>1, <2>2, OffsetSum DEF PkGenPushes
<1>6. ControlBitsPushes \in Offset
  <2>1. 2 * Perm * 4 \in Nat /\ Perm * 2 \in Nat
    BY <1>1
  <2> QED  BY <2>1, Align4Type, OffsetSum DEF ControlBitsPushes
<1>7. HexPushes \in Offset
  BY Align4Type, OffsetSum DEF HexPushes
<1>8. \A s \in {"SHA", "AES", "McEliece"} : FilePush(s) \in Offset
  BY Align4Type DEF FilePush
<1>9. Align4(PUBLICKEYBYTES) + Align4(SECRETKEYBYTES) + FilePush("McEliece") \in Offset
  <2>1. Align4(PUBLICKEYBYTES) \in Offset /\ Align4(SECRETKEYBYTES) \in Offset
    BY Align4Type
  <2> QED  BY <2>1, <1>8, OffsetSum
<1>10. /\ \A bits \in BITS : Align4(bits) \in Offset
       /\ Align4(32 + 1) \in Offset /\ Align4(16 + 1) \in Offset
  BY Align4Type
<1> QED  BY <1>2, <1>3, <1>4, <1>5, <1>6, <1>7, <1>8, <1>9, <1>10

----------------------------------------------------------------------------
(* The operations on the stack of frames.                                  *)

Stack == used \in Offset /\ frames \in Seq(FrameType) /\ Disjoint

LEMMA CallStack ==
    ASSUME Stack, NEW fn \in Function, NEW bytes \in Offset, Call(fn, bytes)
    PROVE  Stack' /\ Len(frames') = Len(frames) + 1
<1> DEFINE new == Frame(fn, used, used + bytes, used + bytes)
<1>1. new \in FrameType /\ new.mark = used /\ new.top = used + bytes
  BY OffsetSum DEF Stack, Frame, FrameType, Offset
<1>2. used' = used + bytes /\ frames' = Append(frames, new)
  BY DEF Call
<1> HIDE DEF new
<1>3. used' \in Offset /\ frames' \in Seq(FrameType)
  BY <1>1, <1>2, OffsetSum DEF Stack
<1>4. Len(frames') = Len(frames) + 1 /\ frames'[Len(frames')] = new
  BY <1>2 DEF Stack
<1>5. \A i \in 1 .. Len(frames) : frames'[i] = frames[i]
  BY <1>2 DEF Stack
<1>6. Disjoint'
  <2>1. ASSUME NEW i \in 1 .. Len(frames') - 1
        PROVE  frames'[i].top <= frames'[i + 1].mark
    <3>1. CASE i = Len(frames)
      BY <3>1, <1>1, <1>4, <1>5 DEF Stack, Disjoint, Top
    <3>2. CASE i < Len(frames)
      BY <3>2, <1>4, <1>5 DEF Stack, Disjoint
    <3> QED  BY <3>1, <3>2, <1>4 DEF Stack
  <2>2. frames'[Len(frames')].top <= used'
    BY <1>1, <1>2, <1>4 DEF Stack, Offset
  <2>3. ASSUME NEW i \in DOMAIN frames'
        PROVE  frames'[i].mark <= frames'[i].top
    <3>1. CASE i = Len(frames')
      BY <3>1, <1>1, <1>4 DEF Stack, Offset
    <3>2. CASE i \in 1 .. Len(frames)
      BY <3>2, <1>5 DEF Stack, Disjoint
    <3> QED  BY <3>1, <3>2, <1>3, <1>4 DEF Stack
  <2> QED  BY <2>1, <2>2, <2>3 DEF Disjoint, Top
<1> QED  BY <1>3, <1>4, <1>6 DEF Stack

LEMMA PushMoreStack ==
    ASSUME Stack, frames # <<>>, NEW bytes \in Offset, NEW written \in Nat, PushMore(bytes, written)
    PROVE  Stack' /\ Len(frames') = Len(frames)
<1> DEFINE new == Frame(Top.fn, Top.mark, used + bytes, used + written)
<1>1. Top \in FrameType /\ Len(frames) \in Nat \ {0} /\ frames \in Seq(FrameType)
  BY DEF Stack, Top
<1>2. new \in FrameType /\ new.mark = Top.mark /\ new.top = used + bytes
  <2>1. used + bytes \in Offset /\ used + written \in Nat
    <3>1. used \in Offset
      BY DEF Stack
    <3> QED  BY <3>1, OffsetSum DEF Offset
  <2>2. Top.fn \in Function /\ Top.mark \in Offset
    BY <1>1 DEF FrameType
  <2> QED  BY <2>1, <2>2 DEF Frame, FrameType
<1>3. used' = used + bytes /\ frames' = [frames EXCEPT ![Len(frames)] = new]
  BY DEF PushMore
<1> HIDE DEF new
<1>4. used' \in Offset /\ frames' \in Seq(FrameType) /\ Len(frames') = Len(frames)
  BY <1>1, <1>2, <1>3, OffsetSum DEF Stack
<1>5. frames'[Len(frames)] = new /\ \A i \in 1 .. Len(frames) - 1 : frames'[i] = frames[i]
  BY <1>1, <1>3
<1>6. Disjoint'
  <2>1. ASSUME NEW i \in 1 .. Len(frames') - 1
        PROVE  frames'[i].top <= frames'[i + 1].mark
    <3>1. CASE i + 1 = Len(frames)
      BY <3>1, <1>1, <1>2, <1>4, <1>5 DEF Stack, Disjoint, Top
    <3>2. CASE i + 1 < Len(frames)
      BY <3>2, <1>1, <1>4, <1>5, SMTT(30) DEF Stack, Disjoint
    <3> QED  BY <3>1, <3>2, <1>1, <1>4
  <2>2. frames'[Len(frames')].top <= used'
    <3>1. frames'[Len(frames')].top = used'
      BY <1>2, <1>3, <1>4, <1>5
    <3> QED  BY <3>1, <1>4 DEF Offset
  <2>3. ASSUME NEW i \in DOMAIN frames'
        PROVE  frames'[i].mark <= frames'[i].top
    <3>1. CASE i = Len(frames)
      <4>1. Top.mark <= Top.top /\ Top.top <= used
        BY <1>1 DEF Stack, Disjoint, Top
      <4>2. Top.mark \in Nat /\ Top.top \in Nat /\ used \in Nat /\ bytes \in Nat
        BY <1>1 DEF Stack, FrameType, Offset
      <4> QED  BY <3>1, <4>1, <4>2, <1>2, <1>5
    <3>2. CASE i \in 1 .. Len(frames) - 1
      BY <3>2, <1>1, <1>5 DEF Stack, Disjoint
    <3> QED  BY <3>1, <3>2, <1>1, <1>4
  <2> QED  BY <2>1, <2>2, <2>3 DEF Disjoint, Top
<1> QED  BY <1>4, <1>6 DEF Stack

\* The first n frames, with used at what frame n + 1 had as its mark.
LEMMA BackToMark ==
    ASSUME Stack, NEW n \in 0 .. Len(frames) - 1,
           used' = frames[n + 1].mark, frames' = SubSeq(frames, 1, n)
    PROVE  Stack' /\ Len(frames') = n
<1>1. frames \in Seq(FrameType) /\ n + 1 \in 1 .. Len(frames)
  BY DEF Stack
<1>2. used' \in Offset
  <2>1. frames[n + 1] \in FrameType
    BY <1>1
  <2> QED  BY <2>1 DEF FrameType
<1>3. /\ frames' \in Seq(FrameType) /\ Len(frames') = n
      /\ \A i \in 1 .. n : frames'[i] = frames[i]
  BY <1>1
<1>4. Disjoint'
  <2>1. \A i \in 1 .. n - 1 : frames'[i].top <= frames'[i + 1].mark
    <3> TAKE i \in 1 .. n - 1
    <3>1. i \in 1 .. n /\ i + 1 \in 1 .. n /\ i \in 1 .. Len(frames) - 1
      OBVIOUS
    <3>2. frames[i].top <= frames[i + 1].mark
      BY <3>1 DEF Stack, Disjoint
    <3> QED  BY <3>1, <3>2, <1>3
  <2>2. n # 0 => frames'[n].top <= used'
    BY <1>1, <1>3 DEF Stack, Disjoint
  <2>3. \A i \in 1 .. n : frames'[i].mark <= frames'[i].top
    BY <1>1, <1>3 DEF Stack, Disjoint
  <2> QED  BY <2>1, <2>2, <2>3, <1>3 DEF Disjoint, Top
<1> QED  BY <1>2, <1>3, <1>4 DEF Stack

LEMMA PopStack ==
    ASSUME Stack, frames # <<>>, Pop
    PROVE  Stack' /\ Len(frames') = Len(frames) - 1
<1> DEFINE n == Len(frames) - 1
<1>1. n \in 0 .. Len(frames) - 1 /\ n + 1 = Len(frames)
  BY DEF Stack
<1>2. used' = frames[n + 1].mark /\ frames' = SubSeq(frames, 1, n)
  BY <1>1 DEF Pop, Mark, Top, Front
<1> HIDE DEF n
<1>3. Stack' /\ Len(frames') = n
  BY <1>1, <1>2, BackToMark
<1> QED  BY <1>3 DEF n

LEMMA ReturnUnpoppedStack ==
    ASSUME Stack, frames # <<>>, ReturnUnpopped
    PROVE  Stack' /\ Len(frames') = Len(frames) - 1
<1> DEFINE n == Len(frames) - 1
<1>1. frames \in Seq(FrameType) /\ n \in Nat /\ Len(frames) = n + 1 /\ used' = used
  BY DEF Stack, ReturnUnpopped
<1>2. frames' = SubSeq(frames, 1, n)
  BY DEF ReturnUnpopped, Front
<1> HIDE DEF n
<1>3. /\ frames' \in Seq(FrameType) /\ Len(frames') = n
      /\ \A i \in 1 .. n : frames'[i] = frames[i]
  BY <1>1, <1>2
<1>4. n # 0 => frames[n].top <= used
  <2> SUFFICES ASSUME n # 0
               PROVE  frames[n].top <= used
    OBVIOUS
  <2>1. frames[n] \in FrameType /\ frames[n + 1] \in FrameType /\ used \in Nat
    BY <1>1 DEF Stack, Offset
  <2>2. /\ frames[n].top \in Nat /\ frames[n + 1].mark \in Nat /\ frames[n + 1].top \in Nat
    BY <2>1 DEF FrameType, Offset
  <2>3. frames[n].top <= frames[n + 1].mark
    BY <1>1 DEF Stack, Disjoint
  <2>4. frames[n + 1].mark <= frames[n + 1].top
    BY <1>1 DEF Stack, Disjoint
  <2>5. frames[n + 1].top <= used
    BY <1>1 DEF Stack, Disjoint, Top
  <2> QED  BY <2>1, <2>2, <2>3, <2>4, <2>5
<1>5. Disjoint'
  <2>1. \A i \in 1 .. n - 1 : frames'[i].top <= frames'[i + 1].mark
    BY <1>1, <1>3 DEF Stack, Disjoint
  <2>2. n # 0 => frames'[n].top <= used'
    BY <1>1, <1>3, <1>4
  <2>3. \A i \in 1 .. n : frames'[i].mark <= frames'[i].top
    BY <1>1, <1>3 DEF Stack, Disjoint
  <2> QED  BY <2>1, <2>2, <2>3, <1>3 DEF Disjoint, Top
<1> QED  BY <1>1, <1>3, <1>5 DEF Stack, n

----------------------------------------------------------------------------
(* The invariant. *)

\* The points of the program are told apart by their depth.
LEMMA DepthAt ==
    ASSUME Depth
    PROVE  /\ pc \in InMain => Len(frames) = 0
           /\ pc \in InSuite => Len(frames) = 1
           /\ pc \in InLoop => Len(frames) = 2
           /\ pc \in InLeaf => Len(frames) = 3
           /\ pc = "GF_mul" => Len(frames) = 4
BY DEF Depth, InMain, InSuite, InLoop, InLeaf

LEMMA ArenaStep == ArenaInv /\ [ArenaNext]_arena => ArenaInv'
<1>0. SUFFICES ASSUME ArenaInv, [ArenaNext]_arena
             PROVE  ArenaInv'
  OBVIOUS
<1>1. Stack /\ frames \in Seq(FrameType)
  BY <1>0 DEF ArenaInv, ArenaTypeOK, Stack
<1>7. /\ pc \in InMain => Len(frames) = 0
      /\ pc \in InSuite => Len(frames) = 1
      /\ pc \in InLoop => Len(frames) = 2
      /\ pc \in InLeaf => Len(frames) = 3
      /\ pc = "GF_mul" => Len(frames) = 4
  BY <1>0, DepthAt DEF ArenaInv, ArenaTypeOK
<1>8. frames = <<>> => Len(frames) = 0
  BY <1>1
<1>2. SUFFICES Stack' /\ Depth'
  BY DEF ArenaInv, ArenaTypeOK, Stack
<1>3. CASE UNCHANGED arena
  BY <1>0, <1>3 DEF arena, Stack, Disjoint, Top, Depth, ArenaInv, ArenaTypeOK
<1>4. CASE ShaAndAes
  <2>1. CASE SuiteCalled
    <3>1. pc \in InMain /\ pc' \in InSuite
      BY <2>1 DEF SuiteCalled, InMain, InSuite
    <3>2. Len(frames) = 0
      BY <1>7, <3>1
    <3>3. FilePush(pc) \in Offset
      BY <2>1, PushesAligned DEF SuiteCalled, Offset
    <3>4. Stack' /\ Len(frames') = Len(frames) + 1
      BY <1>1, <2>1, <3>3, CallStack DEF SuiteCalled, Function
    <3>5. Len(frames') = 1
      BY <3>4, <3>2
    <3> QED  BY <3>1, <3>4, <3>5 DEF Depth
  <2>2. CASE CommonTests
    <3>1. pc \in InSuite /\ pc' \in InLoop
      BY <2>2 DEF CommonTests, InSuite, InLoop
    <3>2. Len(frames) = 1
      BY <1>7, <3>1
    <3>3. Top.fn \in Function /\ 0 \in Offset
      <4>1. Top \in FrameType
        BY <1>1, <1>7, <3>1 DEF Top
      <4> QED  BY <4>1 DEF FrameType, Offset
    <3>4. Stack' /\ Len(frames') = Len(frames) + 1
      BY <1>1, <2>2, <3>3, CallStack DEF CommonTests
    <3>5. Len(frames') = 2
      BY <3>4, <3>2
    <3> QED  BY <3>1, <3>4, <3>5 DEF Depth
  <2>3. CASE ShaTest
    <3>1. pc \in InLoop /\ pc' \in InLeaf
      BY <2>3 DEF ShaTest, InLoop, InLeaf
    <3>2. Len(frames) = 2
      BY <1>7, <3>1
    <3>3. 0 \in Offset
      BY <2>3, PushesAligned DEF ShaTest, Offset
    <3>4. Stack' /\ Len(frames') = Len(frames) + 1
      BY <1>1, <2>3, <3>3, CallStack DEF ShaTest, Function
    <3>5. Len(frames') = 3
      BY <3>4, <3>2
    <3> QED  BY <3>1, <3>4, <3>5 DEF Depth
  <2>4. CASE \E bits \in BITS : ShaMessage(bits)
    <3>1. PICK bits \in BITS : ShaMessage(bits)
      BY <2>4
    <3>2. pc \in InLeaf /\ pc' \in InLeaf
      BY <3>1 DEF ShaMessage, InLeaf
    <3>3. Len(frames) = 3
      BY <1>7, <3>2
    <3>4. frames # <<>> /\ Align4(bits) \in Offset /\ MessageBytes(bits) \in Nat
      BY <1>8, <3>3, PushesAligned, ArenaSizes DEF MessageBytes
    <3>5. Stack' /\ Len(frames') = Len(frames)
      BY <1>1, <3>1, <3>4, PushMoreStack DEF ShaMessage
    <3>6. Len(frames') = 3
      BY <3>5, <3>3
    <3> QED  BY <3>2, <3>5, <3>6 DEF Depth
  <2>5. CASE AesTest
    <3>1. pc \in InLoop /\ pc' \in InLeaf
      BY <2>5 DEF AesTest, InLoop, InLeaf
    <3>2. Len(frames) = 2
      BY <1>7, <3>1
    <3>3. 0 \in Offset
      BY <2>5, PushesAligned DEF AesTest, Offset
    <3>4. Stack' /\ Len(frames') = Len(frames) + 1
      BY <1>1, <2>5, <3>3, CallStack DEF AesTest, Function
    <3>5. Len(frames') = 3
      BY <3>4, <3>2
    <3> QED  BY <3>1, <3>4, <3>5 DEF Depth
  <2>6. CASE AesKey
    <3>1. pc \in InLeaf /\ pc' \in InLeaf
      BY <2>6 DEF AesKey, InLeaf
    <3>2. Len(frames) = 3
      BY <1>7, <3>1
    <3>3. frames # <<>> /\ Align4(32 + 1) \in Offset
      BY <1>8, <3>2, PushesAligned
    <3>4. Stack' /\ Len(frames') = Len(frames)
      BY <1>1, <2>6, <3>3, PushMoreStack DEF AesKey
    <3>5. Len(frames') = 3
      BY <3>4, <3>2
    <3> QED  BY <3>1, <3>4, <3>5 DEF Depth
  <2>7. CASE AesPlain
    <3>1. pc \in InLeaf /\ pc' \in InLeaf
      BY <2>7 DEF AesPlain, InLeaf
    <3>2. Len(frames) = 3
      BY <1>7, <3>1
    <3>3. frames # <<>> /\ Align4(16 + 1) \in Offset
      BY <1>8, <3>2, PushesAligned
    <3>4. Stack' /\ Len(frames') = Len(frames)
      BY <1>1, <2>7, <3>3, PushMoreStack DEF AesPlain
    <3>5. Len(frames') = 3
      BY <3>4, <3>2
    <3> QED  BY <3>1, <3>4, <3>5 DEF Depth
  <2>8. CASE TestEnds
    <3>1. pc \in InLeaf /\ pc' \in InLoop
      BY <2>8 DEF TestEnds, InLeaf, InLoop
    <3>2. Len(frames) = 3
      BY <1>7, <3>1
    <3>3. frames # <<>>
      BY <1>8, <3>2
    <3>4. Stack' /\ Len(frames') = Len(frames) - 1
      BY <1>1, <2>8, <3>3, PopStack DEF TestEnds
    <3>5. Len(frames') = 2
      BY <3>4, <3>2
    <3> QED  BY <3>1, <3>4, <3>5 DEF Depth
  <2>9. CASE LoopEnds
    <3>1. pc \in InLoop /\ pc' \in InSuite
      BY <2>9 DEF LoopEnds, InLoop, InSuite
    <3>2. Len(frames) = 2
      BY <1>7, <3>1
    <3>3. frames # <<>>
      BY <1>8, <3>2
    <3>4. Stack' /\ Len(frames') = Len(frames) - 1
      BY <1>1, <2>9, <3>3, PopStack DEF LoopEnds
    <3>5. Len(frames') = 1
      BY <3>4, <3>2
    <3> QED  BY <3>1, <3>4, <3>5 DEF Depth
  <2>10. CASE LoopLeaves
    <3> DEFINE n == Len(frames) - 2
    <3>1. pc \in InLeaf /\ pc' \in InSuite
      BY <2>10 DEF LoopLeaves, InLeaf, InSuite
    <3>2. Len(frames) = 3
      BY <1>7, <3>1
    <3>3. n \in 0 .. Len(frames) - 1 /\ n + 1 = Len(frames) - 1 /\ n = 1
      BY <3>2
    <3>4. used' = frames[n + 1].mark /\ frames' = SubSeq(frames, 1, n)
      BY <2>10, <3>3 DEF LoopLeaves
    <3> HIDE DEF n
    <3>5. Stack' /\ Len(frames') = n
      BY <1>1, <3>3, <3>4, BackToMark
    <3> QED  BY <3>1, <3>3, <3>5 DEF Depth
  <2>11. CASE SuiteReturns
    <3>1. pc \in InSuite /\ pc' \in InMain /\ (Pop \/ ReturnUnpopped)
      BY <2>11 DEF SuiteReturns, InSuite, InMain
    <3>2. Len(frames) = 1
      BY <1>7, <3>1
    <3>3. frames # <<>>
      BY <1>8, <3>2
    <3>4. Stack' /\ Len(frames') = Len(frames) - 1
      BY <1>1, <3>1, <3>3, PopStack, ReturnUnpoppedStack
    <3>5. Len(frames') = 0
      BY <3>4, <3>2
    <3> QED  BY <3>1, <3>4, <3>5 DEF Depth
  <2> QED  BY <1>4, <2>1, <2>2, <2>3, <2>4, <2>5, <2>6, <2>7, <2>8, <2>9, <2>10, <2>11 DEF ShaAndAes
<1>5. CASE McEliece
  <2>1. CASE McElieceTests
    <3>1. pc \in InMain /\ pc' \in InSuite
      BY <2>1 DEF McElieceTests, InMain, InSuite
    <3>2. Len(frames) = 0
      BY <1>7, <3>1
    <3>3. Align4(PUBLICKEYBYTES) + Align4(SECRETKEYBYTES) + FilePush(pc) \in Offset
      BY <2>1, PushesAligned DEF McElieceTests, Offset
    <3>4. Stack' /\ Len(frames') = Len(frames) + 1
      BY <1>1, <2>1, <3>3, CallStack DEF McElieceTests, Function
    <3>5. Len(frames') = 1
      BY <3>4, <3>2
    <3> QED  BY <3>1, <3>4, <3>5 DEF Depth
  <2>2. CASE KeyPair
    <3>1. pc \in InSuite /\ pc' \in InLoop
      BY <2>2 DEF KeyPair, InSuite, InLoop
    <3>2. Len(frames) = 1
      BY <1>7, <3>1
    <3>3. KeygenPushes \in Offset
      BY <2>2, PushesAligned DEF KeyPair, Offset
    <3>4. Stack' /\ Len(frames') = Len(frames) + 1
      BY <1>1, <2>2, <3>3, CallStack DEF KeyPair, Function
    <3>5. Len(frames') = 2
      BY <3>4, <3>2
    <3> QED  BY <3>1, <3>4, <3>5 DEF Depth
  <2>3. CASE Genpoly
    <3>1. pc \in InLoop /\ pc' \in InLeaf
      BY <2>3 DEF Genpoly, InLoop, InLeaf
    <3>2. Len(frames) = 2
      BY <1>7, <3>1
    <3>3. GenpolyPushes \in Offset
      BY <2>3, PushesAligned DEF Genpoly, Offset
    <3>4. Stack' /\ Len(frames') = Len(frames) + 1
      BY <1>1, <2>3, <3>3, CallStack DEF Genpoly, Function
    <3>5. Len(frames') = 3
      BY <3>4, <3>2
    <3> QED  BY <3>1, <3>4, <3>5 DEF Depth
  <2>4. CASE GfMul
    <3>1. pc \in InLeaf /\ pc' = "GF_mul"
      BY <2>4 DEF GfMul, InLeaf
    <3>2. Len(frames) = 3
      BY <1>7, <3>1
    <3>3. GfMulPushes \in Offset
      BY <2>4, PushesAligned DEF GfMul, Offset
    <3>4. Stack' /\ Len(frames') = Len(frames) + 1
      BY <1>1, <2>4, <3>3, CallStack DEF GfMul, Function
    <3>5. Len(frames') = 4
      BY <3>4, <3>2
    <3> QED  BY <3>1, <3>4, <3>5 DEF Depth
  <2>5. CASE GfMulReturns
    <3>1. pc = "GF_mul" /\ pc' \in InLeaf
      BY <2>5 DEF GfMulReturns, InLeaf
    <3>2. Len(frames) = 4
      BY <1>7, <3>1
    <3>3. frames # <<>>
      BY <1>8, <3>2
    <3>4. Stack' /\ Len(frames') = Len(frames) - 1
      BY <1>1, <2>5, <3>3, PopStack DEF GfMulReturns
    <3>5. Len(frames') = 3
      BY <3>4, <3>2
    <3> QED  BY <3>1, <3>4, <3>5 DEF Depth
  <2>6. CASE GenpolyReturns
    <3>1. pc \in InLeaf /\ pc' \in InLoop
      BY <2>6 DEF GenpolyReturns, InLeaf, InLoop
    <3>2. Len(frames) = 3
      BY <1>7, <3>1
    <3>3. frames # <<>>
      BY <1>8, <3>2
    <3>4. Stack' /\ Len(frames') = Len(frames) - 1
      BY <1>1, <2>6, <3>3, PopStack DEF GenpolyReturns
    <3>5. Len(frames') = 2
      BY <3>4, <3>2
    <3> QED  BY <3>1, <3>4, <3>5 DEF Depth
  <2>7. CASE PkGen
    <3>1. pc \in InLoop /\ pc' \in InLeaf
      BY <2>7 DEF PkGen, InLoop, InLeaf
    <3>2. Len(frames) = 2
      BY <1>7, <3>1
    <3>3. PkGenPushes \in Offset
      BY <2>7, PushesAligned DEF PkGen, Offset
    <3>4. Stack' /\ Len(frames') = Len(frames) + 1
      BY <1>1, <2>7, <3>3, CallStack DEF PkGen, Function
    <3>5. Len(frames') = 3
      BY <3>4, <3>2
    <3> QED  BY <3>1, <3>4, <3>5 DEF Depth
  <2>8. CASE PkGenReturns
    <3>1. pc \in InLeaf /\ pc' \in InLoop
      BY <2>8 DEF PkGenReturns, InLeaf, InLoop
    <3>2. Len(frames) = 3
      BY <1>7, <3>1
    <3>3. frames # <<>>
      BY <1>8, <3>2
    <3>4. Stack' /\ Len(frames') = Len(frames) - 1
      BY <1>1, <2>8, <3>3, PopStack DEF PkGenReturns
    <3>5. Len(frames') = 2
      BY <3>4, <3>2
    <3> QED  BY <3>1, <3>4, <3>5 DEF Depth
  <2>9. CASE ControlBits
    <3>1. pc \in InLoop /\ pc' \in InLeaf
      BY <2>9 DEF ControlBits, InLoop, InLeaf
    <3>2. Len(frames) = 2
      BY <1>7, <3>1
    <3>3. ControlBitsPushes \in Offset
      BY <2>9, PushesAligned DEF ControlBits, Offset
    <3>4. Stack' /\ Len(frames') = Len(frames) + 1
      BY <1>1, <2>9, <3>3, CallStack DEF ControlBits, Function
    <3>5. Len(frames') = 3
      BY <3>4, <3>2
    <3> QED  BY <3>1, <3>4, <3>5 DEF Depth
  <2>10. CASE ControlBitsReturns
    <3>1. pc \in InLeaf /\ pc' \in InLoop
      BY <2>10 DEF ControlBitsReturns, InLeaf, InLoop
    <3>2. Len(frames) = 3
      BY <1>7, <3>1
    <3>3. frames # <<>>
      BY <1>8, <3>2
    <3>4. Stack' /\ Len(frames') = Len(frames) - 1
      BY <1>1, <2>10, <3>3, PopStack DEF ControlBitsReturns
    <3>5. Len(frames') = 2
      BY <3>4, <3>2
    <3> QED  BY <3>1, <3>4, <3>5 DEF Depth
  <2>11. CASE KeyPairReturns
    <3>1. pc \in InLoop /\ pc' \in InSuite
      BY <2>11 DEF KeyPairReturns, InLoop, InSuite
    <3>2. Len(frames) = 2
      BY <1>7, <3>1
    <3>3. frames # <<>>
      BY <1>8, <3>2
    <3>4. Stack' /\ Len(frames') = Len(frames) - 1
      BY <1>1, <2>11, <3>3, PopStack DEF KeyPairReturns
    <3>5. Len(frames') = 1
      BY <3>4, <3>2
    <3> QED  BY <3>1, <3>4, <3>5 DEF Depth
  <2>12. CASE Hex
    <3>1. pc \in InSuite /\ pc' \in InLoop
      BY <2>12 DEF Hex, InSuite, InLoop
    <3>2. Len(frames) = 1
      BY <1>7, <3>1
    <3>3. HexPushes \in Offset
      BY <2>12, PushesAligned DEF Hex, Offset
    <3>4. Stack' /\ Len(frames') = Len(frames) + 1
      BY <1>1, <2>12, <3>3, CallStack DEF Hex, Function
    <3>5. Len(frames') = 2
      BY <3>4, <3>2
    <3> QED  BY <3>1, <3>4, <3>5 DEF Depth
  <2>13. CASE Compare
    <3>1. pc \in InLoop /\ pc' \in InSuite
      BY <2>13 DEF Compare, InLoop, InSuite
    <3>2. Len(frames) = 2
      BY <1>7, <3>1
    <3>3. frames # <<>>
      BY <1>8, <3>2
    <3>4. Stack' /\ Len(frames') = Len(frames) - 1
      BY <1>1, <2>13, <3>3, PopStack DEF Compare
    <3>5. Len(frames') = 1
      BY <3>4, <3>2
    <3> QED  BY <3>1, <3>4, <3>5 DEF Depth
  <2>14. CASE NoTest
    <3>1. pc \in InSuite /\ pc' \in InSuite /\ UNCHANGED <<used, frames>>
      BY <2>14 DEF NoTest, InSuite
    <3> QED  BY <1>1, <1>7, <3>1 DEF Depth, Stack, Disjoint, Top
  <2>15. CASE McElieceReturns
    <3>1. pc \in InSuite /\ pc' \in InMain
      BY <2>15 DEF McElieceReturns, InSuite, InMain
    <3>2. Len(frames) = 1
      BY <1>7, <3>1
    <3>3. frames # <<>>
      BY <1>8, <3>2
    <3>4. Stack' /\ Len(frames') = Len(frames) - 1
      BY <1>1, <2>15, <3>3, PopStack DEF McElieceReturns
    <3>5. Len(frames') = 0
      BY <3>4, <3>2
    <3> QED  BY <3>1, <3>4, <3>5 DEF Depth
  <2> QED  BY <1>5, <2>1, <2>2, <2>3, <2>4, <2>5, <2>6, <2>7, <2>8, <2>9, <2>10, <2>11, <2>12, <2>13,
           <2>14, <2>15 DEF McEliece
<1>6. CASE End
  BY <1>3, <1>6 DEF End
<1> QED  BY <1>0, <1>3, <1>4, <1>5, <1>6 DEF ArenaNext

LEMMA ArenaInvHolds == ArenaSpec => []ArenaInv
<1>1. ArenaInit => ArenaInv
  BY DEF ArenaInit, ArenaInv, ArenaTypeOK, Offset, Disjoint, Depth, InMain, InSuite, InLoop, InLeaf
<1> QED  BY <1>1, ArenaStep, PTL DEF ArenaSpec

\* The arena of every function is aligned to a word, and the stack of marks and the
\* program agree on how many functions are live, for all sizes.
THEOREM ArenaTypeCorrect == ArenaSpec => []ArenaTypeOK
<1>1. ArenaInv => ArenaTypeOK
  BY DEF ArenaInv
<1> QED  BY <1>1, ArenaInvHolds, PTL

\* No two live functions of the test run share a byte of the arena, for all sizes,
\* whether or not a suite leaves early without giving back its file.
THEOREM NeverShared == ArenaSpec => []Disjoint
<1>1. ArenaInv => Disjoint
  BY DEF ArenaInv
<1> QED  BY <1>1, ArenaInvHolds, PTL

----------------------------------------------------------------------------
(* The memory the run takes: how far each point of the program is on.      *)

Base == [SHA |-> 0, AES |-> AfterSha, McEliece |-> AfterAes]
FileTop == [SHA |-> AfterSha, AES |-> AfterAes, McEliece |-> KeyTests]
LoopTop == [SHA |-> AfterSha, AES |-> AfterAes, McEliece |-> Keygen]

\* Which suite is running, and which the loop of the tests belongs to.
TestPoints == {"common", "tests", "report", "unpopped", "message", "key", "plain", "test"}
SuiteOf ==
    /\ pc \in {"common", "tests", "report", "unpopped", "test"} => frames[1].fn \in {"SHA", "AES"}
    /\ pc = "message" => frames[1].fn = "SHA"
    /\ pc \in {"key", "plain"} => frames[1].fn = "AES"
    /\ pc \notin TestPoints => frames[1].fn = "McEliece"
    /\ pc \in {"tests", "message", "key", "plain", "test"} => frames[2].fn = frames[1].fn

\* A suite may leave its file behind, and only that.
Marks ==
    /\ Len(frames) >= 1 => SuiteOf /\ frames[1].mark <= Base[frames[1].fn]
    /\ Len(frames) >= 2 => frames[2].mark <= FileTop[frames[1].fn]
    /\ Len(frames) >= 3 => frames[3].mark <= LoopTop[frames[1].fn]
    /\ Len(frames) >= 4 => frames[4].mark <= Keygen + GenpolyPushes
UsedAtMost ==
    /\ pc \in {"SHA", "AES", "McEliece"} => used <= Base[pc]
    /\ pc \in {"common", "tests", "report", "unpopped", "message", "key", "keypair", "hex", "finished"} =>
           used <= FileTop[frames[1].fn]
    /\ pc = "plain" => used <= AfterAes + Align4(32 + 1)
    /\ pc \in {"attempt", "polynomial", "public_key", "secret_key"} => used <= Keygen
    /\ pc = "genpoly_gen" => used <= Keygen + GenpolyPushes
    /\ used <= ALLOCATED
Written == \A i \in DOMAIN frames : frames[i].written <= ALLOCATED
RoomInv == Written /\ Marks /\ UsedAtMost

\* The tables at each suite, and the sums as numbers that grow.
LEMMA Tables ==
    /\ Base["SHA"] = 0 /\ Base["AES"] = AfterSha /\ Base["McEliece"] = AfterAes
    /\ FileTop["SHA"] = AfterSha /\ FileTop["AES"] = AfterAes /\ FileTop["McEliece"] = KeyTests
    /\ LoopTop["SHA"] = AfterSha /\ LoopTop["AES"] = AfterAes /\ LoopTop["McEliece"] = Keygen
BY DEF Base, FileTop, LoopTop

LEMMA SizesAre ==
    /\ FilePush("SHA") \in Nat /\ FilePush("AES") \in Nat
    /\ AfterSha = FilePush("SHA") /\ AfterAes = AfterSha + FilePush("AES")
    /\ Align4(PUBLICKEYBYTES) + Align4(SECRETKEYBYTES) + FilePush("McEliece") \in Nat
    /\ KeyTests = AfterAes + (Align4(PUBLICKEYBYTES) + Align4(SECRETKEYBYTES) + FilePush("McEliece"))
    /\ Keygen = KeyTests + KeygenPushes
<1>1. FilePush("SHA") \in Nat /\ FilePush("AES") \in Nat /\ FilePush("McEliece") \in Nat
  BY PushesAligned DEF Offset
<1>2. Align4(PUBLICKEYBYTES) \in Nat /\ Align4(SECRETKEYBYTES) \in Nat
  BY ArenaSizes, Align4Type DEF Offset
<1> QED  BY <1>1, <1>2 DEF AfterSha, AfterAes, KeyTests, Keygen

LEMMA SizesGrow ==
    /\ AfterSha \in Nat /\ AfterAes \in Nat /\ KeyTests \in Nat /\ Keygen \in Nat /\ ALLOCATED \in Nat
    /\ AfterSha <= AfterAes /\ AfterAes <= KeyTests /\ KeyTests <= Keygen
<1>1. KeygenPushes \in Nat /\ ALLOCATED \in Nat
  BY ArenaSizes, PushesAligned DEF Offset
<1> QED  BY <1>1, SizesAre

\* Room in the same words.
LEMMA RoomLeft ==
    ASSUME Room
    PROVE  /\ AfterAes <= ALLOCATED /\ KeyTests <= ALLOCATED /\ Keygen <= ALLOCATED
           /\ Keygen + GenpolyPushes <= ALLOCATED
<1>1. /\ GenpolyPushes \in Nat /\ GfMulPushes \in Nat /\ PkGenPushes \in Nat /\ HexPushes \in Nat
      /\ Align4(32 + 1) \in Nat /\ Align4(16 + 1) \in Nat
  BY PushesAligned DEF Offset
<1>2. /\ AfterAes + Align4(32 + 1) + Align4(16 + 1) <= ALLOCATED
      /\ KeyTests + HexPushes <= ALLOCATED
      /\ Keygen + GenpolyPushes + GfMulPushes <= ALLOCATED
  BY DEF Room
<1> QED  BY <1>1, <1>2, SizesGrow

\* What a call, a further push and a return leave of the stack.
LEMMA CallFrames ==
    ASSUME frames \in Seq(FrameType), NEW fn, NEW bytes, Call(fn, bytes)
    PROVE  /\ used' = used + bytes /\ Len(frames') = Len(frames) + 1
           /\ \A i \in 1 .. Len(frames) : frames'[i] = frames[i]
           /\ frames'[Len(frames) + 1].fn = fn
           /\ frames'[Len(frames) + 1].mark = used
           /\ frames'[Len(frames) + 1].written = used + bytes
<1> DEFINE new == Frame(fn, used, used + bytes, used + bytes)
<1>1. new.fn = fn /\ new.mark = used /\ new.written = used + bytes
  BY DEF Frame
<1>2. used' = used + bytes /\ frames' = Append(frames, new)
  BY DEF Call
<1> HIDE DEF new
<1>3. /\ Len(frames') = Len(frames) + 1 /\ frames'[Len(frames) + 1] = new
      /\ \A i \in 1 .. Len(frames) : frames'[i] = frames[i]
  BY <1>2
<1> QED  BY <1>1, <1>2, <1>3

LEMMA PushMoreFrames ==
    ASSUME frames \in Seq(FrameType), frames # <<>>, NEW bytes, NEW written, PushMore(bytes, written)
    PROVE  /\ used' = used + bytes /\ Len(frames') = Len(frames)
           /\ \A i \in 1 .. Len(frames) - 1 : frames'[i] = frames[i]
           /\ frames'[Len(frames)].fn = frames[Len(frames)].fn
           /\ frames'[Len(frames)].mark = frames[Len(frames)].mark
           /\ frames'[Len(frames)].written = used + written
<1> DEFINE new == Frame(Top.fn, Top.mark, used + bytes, used + written)
<1>1. new.fn = Top.fn /\ new.mark = Top.mark /\ new.written = used + written
  BY DEF Frame
<1>2. used' = used + bytes /\ frames' = [frames EXCEPT ![Len(frames)] = new]
  BY DEF PushMore
<1> HIDE DEF new
<1>3. Len(frames) \in Nat \ {0}
  OBVIOUS
<1>4. /\ Len(frames') = Len(frames) /\ frames'[Len(frames)] = new
      /\ \A i \in 1 .. Len(frames) - 1 : frames'[i] = frames[i]
  BY <1>2, <1>3
<1> QED  BY <1>1, <1>2, <1>4 DEF Top

LEMMA PopFrames ==
    ASSUME frames \in Seq(FrameType), frames # <<>>, frames' = Front(frames)
    PROVE  /\ Len(frames') = Len(frames) - 1
           /\ \A i \in 1 .. Len(frames) - 1 : frames'[i] = frames[i]
<1> DEFINE n == Len(frames) - 1
<1>1. n \in 0 .. Len(frames)
  OBVIOUS
<1>2. frames' = SubSeq(frames, 1, n)
  BY DEF Front
<1> HIDE DEF n
<1>3. Len(frames') = n /\ \A i \in 1 .. n : frames'[i] = frames[i]
  BY <1>1, <1>2
<1> QED  BY <1>3 DEF n

\* What is written stays below the end when the new frame does.
LEMMA WrittenByCall ==
    ASSUME frames \in Seq(FrameType), Written, NEW fn, NEW bytes, Call(fn, bytes),
           used + bytes <= ALLOCATED
    PROVE  Written'
<1>1. /\ Len(frames') = Len(frames) + 1
      /\ \A i \in 1 .. Len(frames) : frames'[i] = frames[i]
      /\ frames'[Len(frames) + 1].written = used + bytes
  BY CallFrames
<1>2. frames' \in Seq(FrameType) \cup {frames'} /\ DOMAIN frames' = 1 .. Len(frames) + 1
  BY <1>1 DEF Call
<1>3. ASSUME NEW i \in DOMAIN frames'
      PROVE  frames'[i].written <= ALLOCATED
  <2>1. CASE i = Len(frames) + 1
    BY <2>1, <1>1
  <2>2. CASE i \in 1 .. Len(frames)
    BY <2>2, <1>1 DEF Written
  <2> QED  BY <2>1, <2>2, <1>2
<1> QED  BY <1>3 DEF Written

LEMMA WrittenByPushMore ==
    ASSUME frames \in Seq(FrameType), frames # <<>>, Written, NEW bytes, NEW written,
           PushMore(bytes, written), used + written <= ALLOCATED
    PROVE  Written'
<1>1. /\ Len(frames') = Len(frames)
      /\ \A i \in 1 .. Len(frames) - 1 : frames'[i] = frames[i]
      /\ frames'[Len(frames)].written = used + written
  BY PushMoreFrames
<1>2. DOMAIN frames' = 1 .. Len(frames)
  BY DEF PushMore
<1>3. ASSUME NEW i \in DOMAIN frames'
      PROVE  frames'[i].written <= ALLOCATED
  <2>1. CASE i = Len(frames)
    BY <2>1, <1>1
  <2>2. CASE i \in 1 .. Len(frames) - 1
    BY <2>2, <1>1 DEF Written
  <2> QED  BY <2>1, <2>2, <1>2
<1> QED  BY <1>3 DEF Written

LEMMA WrittenByReturn ==
    ASSUME frames \in Seq(FrameType), Written, NEW n \in 0 .. Len(frames), frames' = SubSeq(frames, 1, n)
    PROVE  Written'
<1>1. DOMAIN frames' = 1 .. n /\ \A i \in 1 .. n : frames'[i] = frames[i]
  OBVIOUS
<1> QED  BY <1>1 DEF Written

\* No step takes the arena past its end when the sizes leave room.
LEMMA RoomStep ==
    ASSUME Room
    PROVE  ArenaInv /\ RoomInv /\ [ArenaNext]_arena => RoomInv'
<1>0. SUFFICES ASSUME ArenaInv, RoomInv, [ArenaNext]_arena
               PROVE  RoomInv'
  OBVIOUS
<1>1. frames \in Seq(FrameType) /\ Written /\ used \in Nat /\ Len(frames) \in Nat
  BY <1>0 DEF ArenaInv, ArenaTypeOK, RoomInv, Offset
<1>2. /\ pc \in InMain => Len(frames) = 0
      /\ pc \in InSuite => Len(frames) = 1
      /\ pc \in InLoop => Len(frames) = 2
      /\ pc \in InLeaf => Len(frames) = 3
      /\ pc = "GF_mul" => Len(frames) = 4
  BY <1>0, DepthAt DEF ArenaInv, ArenaTypeOK
<1>3. /\ KeygenPushes \in Nat /\ GenpolyPushes \in Nat /\ GfMulPushes \in Nat
      /\ PkGenPushes \in Nat /\ ControlBitsPushes \in Nat /\ HexPushes \in Nat
      /\ Align4(32 + 1) \in Nat /\ Align4(16 + 1) \in Nat
      /\ \A bits \in BITS : Align4(bits) \in Nat
  BY PushesAligned DEF Offset
<1>4. ASSUME NEW i \in 1 .. Len(frames)
      PROVE  frames[i].mark \in Nat
  <2>1. frames[i] \in FrameType
    BY <1>1
  <2> QED  BY <2>1 DEF FrameType, Offset
<1>9. /\ frames = <<>> => Len(frames) = 0
      /\ frames # <<>> => Front(frames) = SubSeq(frames, 1, Len(frames) - 1)
  BY <1>1 DEF Front
<1>10. used \in Nat
  BY <1>1
<1>11. /\ AfterSha \in Nat /\ AfterAes \in Nat /\ KeyTests \in Nat /\ Keygen \in Nat /\ ALLOCATED \in Nat
       /\ AfterSha <= AfterAes /\ AfterAes <= KeyTests /\ KeyTests <= Keygen
       /\ Keygen <= ALLOCATED /\ Keygen + GenpolyPushes <= ALLOCATED
       /\ Keygen = KeyTests + KeygenPushes
       /\ KeygenPushes \in Nat /\ GenpolyPushes \in Nat /\ GfMulPushes \in Nat
       /\ PkGenPushes \in Nat /\ ControlBitsPushes \in Nat /\ HexPushes \in Nat
       /\ Align4(32 + 1) \in Nat /\ Align4(16 + 1) \in Nat
  BY <1>3, SizesGrow, SizesAre, RoomLeft
<1>5. CASE UNCHANGED arena
  BY <1>0, <1>5 DEF arena, RoomInv, Written, Marks, SuiteOf, UsedAtMost
<1>6. CASE ShaAndAes
  <2>1. CASE SuiteCalled
    <3>1. pc \in {"SHA", "AES"} /\ pc' = "common" /\ Call(pc, FilePush(pc)) /\ Len(frames) = 0
      BY <2>1, <1>2 DEF SuiteCalled, InMain
    <3>2. used <= Base[pc]
      BY <1>0, <3>1 DEF RoomInv, UsedAtMost
    <3>3. Base[pc] + FilePush(pc) = FileTop[pc] /\ FilePush(pc) \in Nat /\ FileTop[pc] <= ALLOCATED
      <4>1. CASE pc = "SHA"
        BY <4>1, <1>11, Tables, SizesAre
      <4>2. CASE pc = "AES"
        BY <4>2, <1>11, Tables, SizesAre
      <4> QED  BY <3>1, <4>1, <4>2
    <3>4. Base[pc] \in Nat /\ FileTop[pc] \in Nat
      BY <3>1, <1>11, Tables
    <3>5. used + FilePush(pc) <= FileTop[pc] /\ used + FilePush(pc) <= ALLOCATED
      BY ONLY <1>10, <1>11, <3>2, <3>3, <3>4
    <3>6. /\ used' = used + FilePush(pc) /\ Len(frames') = 1
          /\ frames'[1].fn = pc /\ frames'[1].mark = used
      BY <1>1, <3>1, CallFrames
    <3>7. Written'
      BY <1>1, <3>1, <3>5, WrittenByCall
    <3>8. Marks'
      BY <3>1, <3>2, <3>6 DEF Marks, SuiteOf, TestPoints
    <3>9. UsedAtMost'
      BY <3>1, <3>3, <3>5, <3>6 DEF UsedAtMost
    <3> QED  BY <3>7, <3>8, <3>9 DEF RoomInv
  <2>2. CASE CommonTests
    <3>1. pc = "common" /\ pc' = "tests" /\ Call(Top.fn, 0) /\ Len(frames) = 1
      BY <2>2, <1>2 DEF CommonTests, InSuite
    <3>2. /\ frames[1].fn \in {"SHA", "AES"} /\ frames[1].mark <= Base[frames[1].fn]
          /\ used <= FileTop[frames[1].fn] /\ used <= ALLOCATED /\ Top.fn = frames[1].fn
      BY <1>0, <3>1 DEF RoomInv, Marks, SuiteOf, UsedAtMost, Top
    <3>3. used + 0 = used
      BY <1>1
    <3>4. /\ used' = used /\ Len(frames') = 2 /\ frames'[1] = frames[1]
          /\ frames'[2].fn = frames[1].fn /\ frames'[2].mark = used
      BY <1>1, <3>1, <3>2, <3>3, CallFrames
    <3>5. Written'
      BY <1>1, <3>1, <3>2, <3>3, WrittenByCall
    <3>6. Marks'
      BY <3>1, <3>2, <3>4 DEF Marks, SuiteOf, TestPoints
    <3>7. UsedAtMost'
      BY <3>1, <3>2, <3>4 DEF UsedAtMost
    <3> QED  BY <3>5, <3>6, <3>7 DEF RoomInv
  <2>3. CASE ShaTest
    <3>1. pc = "tests" /\ pc' = "message" /\ Call("test", 0) /\ Len(frames) = 2 /\ Top.fn = "SHA"
      BY <2>3, <1>2 DEF ShaTest, InLoop
    <3>2. /\ frames[2].fn = frames[1].fn /\ frames[1].mark <= Base[frames[1].fn]
          /\ frames[2].mark <= FileTop[frames[1].fn]
          /\ used <= FileTop[frames[1].fn] /\ used <= ALLOCATED /\ Top.fn = frames[2].fn
      BY <1>0, <3>1 DEF RoomInv, Marks, SuiteOf, UsedAtMost, Top
    <3>3. used + 0 = used /\ frames[1].fn = "SHA"
      BY <1>1, <3>1, <3>2
    <3>4. /\ used' = used /\ Len(frames') = 3 /\ frames'[1] = frames[1] /\ frames'[2] = frames[2]
          /\ frames'[3].mark = used
      BY <1>1, <3>1, <3>3, CallFrames
    <3>5. Written'
      BY <1>1, <3>1, <3>2, <3>3, WrittenByCall
    <3>6. Marks'
      BY <3>1, <3>2, <3>3, <3>4, Tables DEF Marks, SuiteOf, TestPoints
    <3>7. UsedAtMost'
      BY <3>1, <3>2, <3>4 DEF UsedAtMost
    <3> QED  BY <3>5, <3>6, <3>7 DEF RoomInv
  <2>4. CASE \E bits \in BITS : ShaMessage(bits)
    <3> PICK bits \in BITS : ShaMessage(bits)
      BY <2>4
    <3>1. /\ pc = "message" /\ pc' = "test" /\ Len(frames) = 3 /\ frames # <<>>
          /\ PushMore(Align4(bits), MessageBytes(bits))
      <4>1. pc = "message" /\ pc' = "test" /\ PushMore(Align4(bits), MessageBytes(bits))
        BY DEF ShaMessage
      <4>2. Len(frames) = 3
        BY <4>1, <1>2 DEF InLeaf
      <4> QED  BY <4>1, <4>2, <1>9
    <3>2. /\ frames[2].fn = frames[1].fn /\ frames[1].mark <= Base[frames[1].fn]
          /\ frames[2].mark <= FileTop[frames[1].fn] /\ frames[3].mark <= LoopTop[frames[1].fn]
          /\ used <= FileTop[frames[1].fn] /\ frames[1].fn = "SHA"
      BY <1>0, <3>1 DEF RoomInv, Marks, SuiteOf, UsedAtMost
    <3>3. used <= AfterSha
      BY <3>2, Tables
    <3>4. AfterSha + Align4(bits) <= ALLOCATED /\ AfterSha + MessageBytes(bits) <= ALLOCATED
      BY DEF Room
    <3>5. MessageBytes(bits) \in Nat /\ Align4(bits) \in Nat
      BY <1>3, ArenaSizes DEF MessageBytes
    <3>6. used + Align4(bits) <= ALLOCATED /\ used + MessageBytes(bits) <= ALLOCATED
      BY ONLY <1>1, <3>3, <3>4, <3>5, SizesGrow
    <3>7. /\ used' = used + Align4(bits) /\ Len(frames') = 3
          /\ frames'[1] = frames[1] /\ frames'[2] = frames[2] /\ frames'[3].mark = frames[3].mark
      BY <1>1, <3>1, PushMoreFrames
    <3>8. Written'
      BY <1>1, <3>1, <3>6, WrittenByPushMore
    <3>9. Marks'
      BY <3>1, <3>2, <3>7 DEF Marks, SuiteOf, TestPoints
    <3>10. UsedAtMost'
      BY <3>1, <3>6, <3>7 DEF UsedAtMost
    <3> QED  BY <3>8, <3>9, <3>10 DEF RoomInv
  <2>5. CASE AesTest
    <3>1. pc = "tests" /\ pc' = "key" /\ Call("test", 0) /\ Len(frames) = 2 /\ Top.fn = "AES"
      BY <2>5, <1>2 DEF AesTest, InLoop
    <3>2. /\ frames[2].fn = frames[1].fn /\ frames[1].mark <= Base[frames[1].fn]
          /\ frames[2].mark <= FileTop[frames[1].fn]
          /\ used <= FileTop[frames[1].fn] /\ used <= ALLOCATED /\ Top.fn = frames[2].fn
      BY <1>0, <3>1 DEF RoomInv, Marks, SuiteOf, UsedAtMost, Top
    <3>3. used + 0 = used /\ frames[1].fn = "AES"
      BY <1>1, <3>1, <3>2
    <3>4. /\ used' = used /\ Len(frames') = 3 /\ frames'[1] = frames[1] /\ frames'[2] = frames[2]
          /\ frames'[3].mark = used
      BY <1>1, <3>1, <3>3, CallFrames
    <3>5. Written'
      BY <1>1, <3>1, <3>2, <3>3, WrittenByCall
    <3>6. Marks'
      BY <3>1, <3>2, <3>3, <3>4, Tables DEF Marks, SuiteOf, TestPoints
    <3>7. UsedAtMost'
      BY <3>1, <3>2, <3>4 DEF UsedAtMost
    <3> QED  BY <3>5, <3>6, <3>7 DEF RoomInv
  <2>6. CASE AesKey
    <3>1. /\ pc = "key" /\ pc' = "plain" /\ Len(frames) = 3 /\ frames # <<>>
          /\ PushMore(Align4(32 + 1), 32)
      BY <2>6, <1>1, <1>2 DEF AesKey, InLeaf
    <3>2. /\ frames[2].fn = frames[1].fn /\ frames[1].mark <= Base[frames[1].fn]
          /\ frames[2].mark <= FileTop[frames[1].fn] /\ frames[3].mark <= LoopTop[frames[1].fn]
          /\ frames[1].fn = "AES"
      BY <1>0, <3>1 DEF RoomInv, Marks, SuiteOf
    <3>3. used <= AfterAes
      BY <1>0, <3>1, <3>2, Tables DEF RoomInv, UsedAtMost
    <3>4. 32 <= Align4(32 + 1)
      BY DEF Align4
    <3>5. AfterAes + Align4(32 + 1) + Align4(16 + 1) <= ALLOCATED
      BY DEF Room
    <3>6. used + Align4(32 + 1) <= ALLOCATED /\ used + 32 <= ALLOCATED
      BY ONLY <1>10, <1>11, <3>3, <3>4, <3>5
    <3>7. /\ used' = used + Align4(32 + 1) /\ Len(frames') = 3
          /\ frames'[1] = frames[1] /\ frames'[2] = frames[2] /\ frames'[3].mark = frames[3].mark
      BY <1>1, <3>1, PushMoreFrames
    <3>8. Written'
      BY <1>1, <3>1, <3>6, WrittenByPushMore
    <3>9. Marks'
      BY <3>1, <3>2, <3>7 DEF Marks, SuiteOf, TestPoints
    <3>10. used' <= AfterAes + Align4(32 + 1)
      BY ONLY <1>10, <1>11, <3>3, <3>7
    <3>11. UsedAtMost'
      BY <3>1, <3>6, <3>7, <3>10 DEF UsedAtMost
    <3> QED  BY <3>8, <3>9, <3>11 DEF RoomInv
  <2>7. CASE AesPlain
    <3>1. /\ pc = "plain" /\ pc' = "test" /\ Len(frames) = 3 /\ frames # <<>>
          /\ PushMore(Align4(16 + 1), 16)
      BY <2>7, <1>1, <1>2 DEF AesPlain, InLeaf
    <3>2. /\ frames[2].fn = frames[1].fn /\ frames[1].mark <= Base[frames[1].fn]
          /\ frames[2].mark <= FileTop[frames[1].fn] /\ frames[3].mark <= LoopTop[frames[1].fn]
          /\ frames[1].fn = "AES"
      BY <1>0, <3>1 DEF RoomInv, Marks, SuiteOf
    <3>3. used <= AfterAes + Align4(32 + 1)
      BY <1>0, <3>1, <3>2, Tables DEF RoomInv, UsedAtMost
    <3>4. 16 <= Align4(16 + 1)
      BY DEF Align4
    <3>5. AfterAes + Align4(32 + 1) + Align4(16 + 1) <= ALLOCATED
      BY DEF Room
    <3>6. used + Align4(16 + 1) <= ALLOCATED /\ used + 16 <= ALLOCATED
      BY ONLY <1>10, <1>11, <3>3, <3>4, <3>5
    <3>7. /\ used' = used + Align4(16 + 1) /\ Len(frames') = 3
          /\ frames'[1] = frames[1] /\ frames'[2] = frames[2] /\ frames'[3].mark = frames[3].mark
      BY <1>1, <3>1, PushMoreFrames
    <3>8. Written'
      BY <1>1, <3>1, <3>6, WrittenByPushMore
    <3>9. Marks'
      BY <3>1, <3>2, <3>7 DEF Marks, SuiteOf, TestPoints
    <3>10. UsedAtMost'
      BY <3>1, <3>6, <3>7 DEF UsedAtMost
    <3> QED  BY <3>8, <3>9, <3>10 DEF RoomInv
  <2>8. CASE TestEnds
    <3>1. /\ pc = "test" /\ pc' = "tests" /\ Len(frames) = 3 /\ frames # <<>>
          /\ used' = frames[3].mark /\ frames' = Front(frames)
      <4>1. pc = "test" /\ pc' = "tests" /\ Pop
        BY <2>8 DEF TestEnds
      <4>2. Len(frames) = 3
        BY <4>1, <1>2 DEF InLeaf
      <4>3. frames # <<>>
        BY <4>2, <1>9
      <4> QED  BY <4>1, <4>2, <4>3 DEF Pop, Mark, Top
    <3>2. /\ frames[1].fn \in {"SHA", "AES"} /\ frames[2].fn = frames[1].fn
          /\ frames[1].mark <= Base[frames[1].fn]
          /\ frames[2].mark <= FileTop[frames[1].fn] /\ frames[3].mark <= LoopTop[frames[1].fn]
      BY <1>0, <3>1 DEF RoomInv, Marks, SuiteOf
    <3>3. /\ FileTop[frames[1].fn] = LoopTop[frames[1].fn]
          /\ FileTop[frames[1].fn] \in Nat /\ FileTop[frames[1].fn] <= ALLOCATED
      BY <3>2, Tables, SizesGrow, RoomLeft
    <3>4. used' <= FileTop[frames[1].fn] /\ used' <= ALLOCATED
      <4>1. frames[3].mark \in Nat
        BY <1>4, <3>1
      <4> QED  BY <4>1, <3>1, <3>2, <3>3, SizesGrow
    <3>5. Len(frames') = 2 /\ frames'[1] = frames[1] /\ frames'[2] = frames[2]
      BY <1>1, <3>1, PopFrames
    <3>6. Written'
      BY <1>1, <3>1, WrittenByReturn DEF Front
    <3>7. Marks'
      BY <3>1, <3>2, <3>5 DEF Marks, SuiteOf, TestPoints
    <3>8. UsedAtMost'
      BY <3>1, <3>4, <3>5 DEF UsedAtMost
    <3> QED  BY <3>6, <3>7, <3>8 DEF RoomInv
  <2>9. CASE LoopEnds
    <3>1. /\ pc = "tests" /\ pc' = "report" /\ Len(frames) = 2
          /\ used' = frames[2].mark /\ frames' = SubSeq(frames, 1, 1)
      <4>1. pc = "tests" /\ pc' = "report" /\ Pop
        BY <2>9 DEF LoopEnds
      <4>2. Len(frames) = 2
        BY <4>1, <1>2 DEF InLoop
      <4> QED  BY <4>1, <4>2 DEF Pop, Mark, Top, Front
    <3>2. /\ frames[1].fn \in {"SHA", "AES"} /\ frames[1].mark <= Base[frames[1].fn]
          /\ frames[2].mark <= FileTop[frames[1].fn]
      BY <1>0, <3>1 DEF RoomInv, Marks, SuiteOf
    <3>3. FileTop[frames[1].fn] \in Nat /\ FileTop[frames[1].fn] <= ALLOCATED
      BY <3>2, Tables, SizesGrow, RoomLeft
    <3>4. used' <= FileTop[frames[1].fn] /\ used' <= ALLOCATED
      <4>1. frames[2].mark \in Nat
        BY <1>4, <3>1
      <4> QED  BY <4>1, <3>1, <3>2, <3>3, SizesGrow
    <3>5. Len(frames') = 1 /\ frames'[1] = frames[1]
      BY <1>1, <3>1
    <3>6. Written'
      BY <1>1, <3>1, WrittenByReturn
    <3>7. Marks'
      BY <3>1, <3>2, <3>5 DEF Marks, SuiteOf, TestPoints
    <3>8. UsedAtMost'
      BY <3>1, <3>4, <3>5 DEF UsedAtMost
    <3> QED  BY <3>6, <3>7, <3>8 DEF RoomInv
  <2>10. CASE LoopLeaves
    <3>1. /\ pc \in {"message", "key", "plain", "test"} /\ pc' = "unpopped" /\ Len(frames) = 3
          /\ used' = frames[2].mark /\ frames' = SubSeq(frames, 1, 1)
      <4>1. pc \in {"message", "key", "plain", "test"} /\ pc' = "unpopped"
        BY <2>10 DEF LoopLeaves
      <4>2. Len(frames) = 3 /\ Len(frames) - 1 = 2 /\ Len(frames) - 2 = 1
        BY <4>1, <1>2 DEF InLeaf
      <4> QED  BY <2>10, <4>1, <4>2 DEF LoopLeaves
    <3>2. /\ frames[1].fn \in {"SHA", "AES"} /\ frames[1].mark <= Base[frames[1].fn]
          /\ frames[2].mark <= FileTop[frames[1].fn]
      BY <1>0, <3>1 DEF RoomInv, Marks, SuiteOf
    <3>3. FileTop[frames[1].fn] \in Nat /\ FileTop[frames[1].fn] <= ALLOCATED
      BY <3>2, Tables, SizesGrow, RoomLeft
    <3>4. used' <= FileTop[frames[1].fn] /\ used' <= ALLOCATED
      <4>1. frames[2].mark \in Nat
        BY <1>4, <3>1
      <4> QED  BY <4>1, <3>1, <3>2, <3>3, SizesGrow
    <3>5. Len(frames') = 1 /\ frames'[1] = frames[1]
      BY <1>1, <3>1
    <3>6. Written'
      BY <1>1, <3>1, WrittenByReturn
    <3>7. Marks'
      BY <3>1, <3>2, <3>5 DEF Marks, SuiteOf, TestPoints
    <3>8. UsedAtMost'
      BY <3>1, <3>4, <3>5 DEF UsedAtMost
    <3> QED  BY <3>6, <3>7, <3>8 DEF RoomInv
  <2>11. CASE SuiteReturns
    <3>1. /\ pc \in {"report", "unpopped"} /\ Len(frames) = 1 /\ frames # <<>> /\ frames' = Front(frames)
          /\ used' = frames[1].mark \/ used' = used
          /\ pc' = IF frames[1].fn = "SHA" THEN "AES" ELSE "McEliece"
      BY <2>11, <1>1, <1>2 DEF SuiteReturns, InSuite, Pop, Mark, Top, ReturnUnpopped
    <3>2. /\ frames[1].fn \in {"SHA", "AES"} /\ frames[1].mark <= Base[frames[1].fn]
          /\ used <= FileTop[frames[1].fn]
      BY <1>0, <3>1 DEF RoomInv, Marks, SuiteOf, UsedAtMost
    <3>3. /\ Base[frames[1].fn] <= FileTop[frames[1].fn] /\ Base[frames[1].fn] \in Nat
          /\ FileTop[frames[1].fn] \in Nat /\ FileTop[frames[1].fn] <= ALLOCATED
      BY <3>2, Tables, SizesGrow, RoomLeft
    <3>4. used' <= FileTop[frames[1].fn] /\ used' <= ALLOCATED
      <4>1. frames[1].mark \in Nat
        BY <1>4, <3>1
      <4> QED  BY ONLY <4>1, <1>1, <3>1, <3>2, <3>3, SizesGrow
    <3>5. Len(frames') = 0
      BY <1>1, <3>1, PopFrames
    <3>6. Written'
      BY <1>1, <3>1, WrittenByReturn DEF Front
    <3>7. Base[pc'] = FileTop[frames[1].fn] /\ pc' \in {"AES", "McEliece"}
      BY <3>1, <3>2, Tables
    <3>8. Marks'
      BY <3>5 DEF Marks
    <3>9. UsedAtMost'
      BY <3>4, <3>7 DEF UsedAtMost
    <3> QED  BY <3>6, <3>8, <3>9 DEF RoomInv
  <2> QED  BY <1>6, <2>1, <2>2, <2>3, <2>4, <2>5, <2>6, <2>7, <2>8, <2>9, <2>10, <2>11 DEF ShaAndAes
<1>7. CASE McEliece
  <2>1. CASE McElieceTests
    <3> DEFINE pushes == Align4(PUBLICKEYBYTES) + Align4(SECRETKEYBYTES) + FilePush("McEliece")
    <3>1. /\ pc = "McEliece" /\ pc' = "keypair" /\ Len(frames) = 0
          /\ Call("McEliece", pushes)
      BY <2>1, <1>2 DEF McElieceTests, InMain
    <3>3. used <= AfterAes
      BY <1>0, <3>1, Tables DEF RoomInv, UsedAtMost
    <3>4. used + pushes <= KeyTests /\ used + pushes <= ALLOCATED
      <4>1. pushes \in Nat
        BY PushesAligned DEF Offset
      <4>2. KeyTests = AfterAes + pushes
        BY SizesAre
      <4> QED  BY ONLY <4>1, <4>2, <1>10, <1>11, <3>3
    <3>5. /\ used' = used + pushes /\ Len(frames') = 1
          /\ frames'[1].fn = "McEliece" /\ frames'[1].mark = used
      BY <1>1, <3>1, CallFrames
    <3>6. Written'
      BY <1>1, <3>1, <3>4, WrittenByCall
    <3>7. Marks'
      BY <3>1, <3>3, <3>5, Tables DEF Marks, SuiteOf, TestPoints
    <3>8. UsedAtMost'
      BY <3>1, <3>4, <3>5, Tables DEF UsedAtMost
    <3> QED  BY <3>6, <3>7, <3>8 DEF RoomInv
  <2>2. CASE KeyPair
    <3>1. pc = "keypair" /\ pc' = "attempt" /\ Len(frames) = 1 /\ Call("VersatMcEliece", KeygenPushes)
      BY <2>2, <1>2 DEF KeyPair, InSuite
    <3>2. /\ frames[1].fn = "McEliece" /\ frames[1].mark <= AfterAes
      BY <1>0, <3>1, Tables DEF RoomInv, Marks, SuiteOf, TestPoints
    <3>3. used <= KeyTests
      BY <1>0, <3>1, <3>2, Tables DEF RoomInv, UsedAtMost
    <3>4. used + KeygenPushes <= Keygen /\ used + KeygenPushes <= ALLOCATED
      BY ONLY <1>10, <1>11, <3>3
    <3>5. /\ used' = used + KeygenPushes /\ Len(frames') = 2 /\ frames'[1] = frames[1]
          /\ frames'[2].fn = "VersatMcEliece" /\ frames'[2].mark = used
      BY <1>1, <3>1, CallFrames
    <3>6. Written'
      BY <1>1, <3>1, <3>4, WrittenByCall
    <3>7. Marks'
      BY <3>1, <3>2, <3>3, <3>5, Tables DEF Marks, SuiteOf, TestPoints
    <3>8. UsedAtMost'
      BY <3>1, <3>2, <3>4, <3>5, Tables DEF UsedAtMost
    <3> QED  BY <3>6, <3>7, <3>8 DEF RoomInv
  <2>3. CASE Genpoly
    <3>1. pc = "attempt" /\ pc' = "genpoly_gen" /\ Len(frames) = 2 /\ Call("genpoly_gen", GenpolyPushes)
      BY <2>3, <1>2 DEF Genpoly, InLoop
    <3>2. /\ frames[1].fn = "McEliece" /\ frames[1].mark <= AfterAes /\ frames[2].mark <= KeyTests
      BY <1>0, <3>1, Tables DEF RoomInv, Marks, SuiteOf, TestPoints
    <3>3. used <= Keygen
      BY <1>0, <3>1, <3>2, Tables DEF RoomInv, UsedAtMost
    <3>4. used + GenpolyPushes <= Keygen + GenpolyPushes /\ used + GenpolyPushes <= ALLOCATED
      BY ONLY <1>10, <1>11, <3>3
    <3>5. /\ used' = used + GenpolyPushes /\ Len(frames') = 3
          /\ frames'[1] = frames[1] /\ frames'[2] = frames[2]
          /\ frames'[3].fn = "genpoly_gen" /\ frames'[3].mark = used
      BY <1>1, <3>1, CallFrames
    <3>6. Written'
      BY <1>1, <3>1, <3>4, WrittenByCall
    <3>7. Marks'
      BY <3>1, <3>2, <3>3, <3>5, Tables DEF Marks, SuiteOf, TestPoints
    <3>8. UsedAtMost'
      BY <3>1, <3>2, <3>4, <3>5, Tables DEF UsedAtMost
    <3> QED  BY <3>6, <3>7, <3>8 DEF RoomInv
  <2>4. CASE GfMul
    <3>1. pc = "genpoly_gen" /\ pc' = "GF_mul" /\ Len(frames) = 3 /\ Call("GF_mul", GfMulPushes)
      BY <2>4, <1>2 DEF GfMul, InLeaf
    <3>2. /\ frames[1].fn = "McEliece" /\ frames[1].mark <= AfterAes /\ frames[2].mark <= KeyTests
          /\ frames[3].mark <= Keygen
      BY <1>0, <3>1, Tables DEF RoomInv, Marks, SuiteOf, TestPoints
    <3>3. used <= Keygen + GenpolyPushes
      BY <1>0, <3>1, <3>2, Tables DEF RoomInv, UsedAtMost
    <3>4. used + GfMulPushes <= Keygen + GenpolyPushes + GfMulPushes /\ used + GfMulPushes <= ALLOCATED
      <4>1. Keygen + GenpolyPushes + GfMulPushes <= ALLOCATED
        BY DEF Room
      <4> QED  BY ONLY <4>1, <1>10, <1>11, <3>3
    <3>5. /\ used' = used + GfMulPushes /\ Len(frames') = 4
          /\ frames'[1] = frames[1] /\ frames'[2] = frames[2] /\ frames'[3] = frames[3]
          /\ frames'[4].fn = "GF_mul" /\ frames'[4].mark = used
      BY <1>1, <3>1, CallFrames
    <3>6. Written'
      BY <1>1, <3>1, <3>4, WrittenByCall
    <3>7. Marks'
      BY <3>1, <3>2, <3>3, <3>5, Tables DEF Marks, SuiteOf, TestPoints
    <3>8. UsedAtMost'
      BY <3>1, <3>2, <3>4, <3>5, Tables DEF UsedAtMost
    <3> QED  BY <3>6, <3>7, <3>8 DEF RoomInv
  <2>5. CASE GfMulReturns
    <3>1. /\ pc = "GF_mul" /\ pc' = "genpoly_gen" /\ Len(frames) = 4 /\ frames # <<>>
          /\ used' = frames[4].mark /\ frames' = Front(frames)
      <4>1. pc = "GF_mul" /\ pc' = "genpoly_gen" /\ Pop
        BY <2>5 DEF GfMulReturns
      <4>2. Len(frames) = 4
        BY <4>1, <1>2
      <4>3. frames # <<>>
        BY <4>2, <1>9
      <4> QED  BY <4>1, <4>2, <4>3 DEF Pop, Mark, Top
    <3>2. /\ frames[1].fn = "McEliece" /\ frames[1].mark <= AfterAes /\ frames[2].mark <= KeyTests
          /\ frames[3].mark <= Keygen /\ frames[4].mark <= Keygen + GenpolyPushes
      BY <1>0, <3>1, Tables DEF RoomInv, Marks, SuiteOf, TestPoints
    <3>3. used' <= Keygen + GenpolyPushes /\ used' <= ALLOCATED
      <4>1. frames[4].mark \in Nat
        BY <1>4, <3>1
      <4>2. used' = frames[4].mark /\ frames[4].mark <= Keygen + GenpolyPushes
        BY <3>1, <3>2
      <4> QED  BY ONLY <4>1, <4>2, <1>11
    <3>4. Len(frames') = 3 /\ frames'[1] = frames[1] /\ frames'[2] = frames[2] /\ frames'[3] = frames[3]
      BY <1>1, <3>1, PopFrames
    <3>5. Written'
      BY <1>1, <3>1, WrittenByReturn DEF Front
    <3>6. Marks'
      BY <3>1, <3>2, <3>4, Tables DEF Marks, SuiteOf, TestPoints
    <3>7. UsedAtMost'
      BY <3>1, <3>2, <3>3, <3>4, Tables DEF UsedAtMost
    <3> QED  BY <3>5, <3>6, <3>7 DEF RoomInv
  <2>6. CASE GenpolyReturns
    <3>1. /\ pc = "genpoly_gen" /\ pc' \in {"attempt", "polynomial"} /\ Len(frames) = 3 /\ frames # <<>>
          /\ used' = frames[3].mark /\ frames' = Front(frames)
      <4>1. pc = "genpoly_gen" /\ pc' \in {"attempt", "polynomial"} /\ Pop
        BY <2>6 DEF GenpolyReturns
      <4>2. Len(frames) = 3
        BY <4>1, <1>2 DEF InLeaf
      <4>3. frames # <<>>
        BY <4>2, <1>9
      <4> QED  BY <4>1, <4>2, <4>3 DEF Pop, Mark, Top
    <3>2. /\ frames[1].fn = "McEliece" /\ frames[1].mark <= AfterAes /\ frames[2].mark <= KeyTests
          /\ frames[3].mark <= Keygen
      BY <1>0, <3>1, Tables DEF RoomInv, Marks, SuiteOf, TestPoints
    <3>3. used' <= Keygen /\ used' <= ALLOCATED
      <4>1. frames[3].mark \in Nat
        BY <1>4, <3>1
      <4>2. used' = frames[3].mark /\ frames[3].mark <= Keygen
        BY <3>1, <3>2
      <4> QED  BY ONLY <4>1, <4>2, <1>11
    <3>4. Len(frames') = 2 /\ frames'[1] = frames[1] /\ frames'[2] = frames[2]
      BY <1>1, <3>1, PopFrames
    <3>5. Written'
      BY <1>1, <3>1, WrittenByReturn DEF Front
    <3>6. Marks'
      BY <3>1, <3>2, <3>4, Tables DEF Marks, SuiteOf, TestPoints
    <3>7. UsedAtMost'
      BY <3>1, <3>2, <3>3, <3>4, Tables DEF UsedAtMost
    <3> QED  BY <3>5, <3>6, <3>7 DEF RoomInv
  <2>7. CASE PkGen
    <3>1. pc = "polynomial" /\ pc' = "Versat_pk_gen" /\ Len(frames) = 2 /\ Call("Versat_pk_gen", PkGenPushes)
      BY <2>7, <1>2 DEF PkGen, InLoop
    <3>2. /\ frames[1].fn = "McEliece" /\ frames[1].mark <= AfterAes /\ frames[2].mark <= KeyTests
      BY <1>0, <3>1, Tables DEF RoomInv, Marks, SuiteOf, TestPoints
    <3>3. used <= Keygen
      BY <1>0, <3>1, <3>2, Tables DEF RoomInv, UsedAtMost
    <3>4. used + PkGenPushes <= Keygen + PkGenPushes /\ used + PkGenPushes <= ALLOCATED
      <4>1. Keygen + PkGenPushes <= ALLOCATED
        BY DEF Room
      <4> QED  BY ONLY <4>1, <1>10, <1>11, <3>3
    <3>5. /\ used' = used + PkGenPushes /\ Len(frames') = 3
          /\ frames'[1] = frames[1] /\ frames'[2] = frames[2]
          /\ frames'[3].fn = "Versat_pk_gen" /\ frames'[3].mark = used
      BY <1>1, <3>1, CallFrames
    <3>6. Written'
      BY <1>1, <3>1, <3>4, WrittenByCall
    <3>7. Marks'
      BY <3>1, <3>2, <3>3, <3>5, Tables DEF Marks, SuiteOf, TestPoints
    <3>8. UsedAtMost'
      BY <3>1, <3>2, <3>4, <3>5, Tables DEF UsedAtMost
    <3> QED  BY <3>6, <3>7, <3>8 DEF RoomInv
  <2>8. CASE PkGenReturns
    <3>1. /\ pc = "Versat_pk_gen" /\ pc' \in {"attempt", "public_key"} /\ Len(frames) = 3 /\ frames # <<>>
          /\ used' = frames[3].mark /\ frames' = Front(frames)
      <4>1. pc = "Versat_pk_gen" /\ pc' \in {"attempt", "public_key"} /\ Pop
        BY <2>8 DEF PkGenReturns
      <4>2. Len(frames) = 3
        BY <4>1, <1>2 DEF InLeaf
      <4>3. frames # <<>>
        BY <4>2, <1>9
      <4> QED  BY <4>1, <4>2, <4>3 DEF Pop, Mark, Top
    <3>2. /\ frames[1].fn = "McEliece" /\ frames[1].mark <= AfterAes /\ frames[2].mark <= KeyTests
          /\ frames[3].mark <= Keygen
      BY <1>0, <3>1, Tables DEF RoomInv, Marks, SuiteOf, TestPoints
    <3>3. used' <= Keygen /\ used' <= ALLOCATED
      <4>1. frames[3].mark \in Nat
        BY <1>4, <3>1
      <4>2. used' = frames[3].mark /\ frames[3].mark <= Keygen
        BY <3>1, <3>2
      <4> QED  BY ONLY <4>1, <4>2, <1>11
    <3>4. Len(frames') = 2 /\ frames'[1] = frames[1] /\ frames'[2] = frames[2]
      BY <1>1, <3>1, PopFrames
    <3>5. Written'
      BY <1>1, <3>1, WrittenByReturn DEF Front
    <3>6. Marks'
      BY <3>1, <3>2, <3>4, Tables DEF Marks, SuiteOf, TestPoints
    <3>7. UsedAtMost'
      BY <3>1, <3>2, <3>3, <3>4, Tables DEF UsedAtMost
    <3> QED  BY <3>5, <3>6, <3>7 DEF RoomInv
  <2>9. CASE ControlBits
    <3>1. /\ pc = "public_key" /\ pc' = "controlbits" /\ Len(frames) = 2
          /\ Call("controlbits", ControlBitsPushes)
      BY <2>9, <1>2 DEF ControlBits, InLoop
    <3>2. /\ frames[1].fn = "McEliece" /\ frames[1].mark <= AfterAes /\ frames[2].mark <= KeyTests
      BY <1>0, <3>1, Tables DEF RoomInv, Marks, SuiteOf, TestPoints
    <3>3. used <= Keygen
      BY <1>0, <3>1, <3>2, Tables DEF RoomInv, UsedAtMost
    <3>4. used + ControlBitsPushes <= Keygen + ControlBitsPushes /\ used + ControlBitsPushes <= ALLOCATED
      <4>1. Keygen + ControlBitsPushes <= ALLOCATED
        BY DEF Room
      <4> QED  BY ONLY <4>1, <1>10, <1>11, <3>3
    <3>5. /\ used' = used + ControlBitsPushes /\ Len(frames') = 3
          /\ frames'[1] = frames[1] /\ frames'[2] = frames[2]
          /\ frames'[3].fn = "controlbits" /\ frames'[3].mark = used
      BY <1>1, <3>1, CallFrames
    <3>6. Written'
      BY <1>1, <3>1, <3>4, WrittenByCall
    <3>7. Marks'
      BY <3>1, <3>2, <3>3, <3>5, Tables DEF Marks, SuiteOf, TestPoints
    <3>8. UsedAtMost'
      BY <3>1, <3>2, <3>4, <3>5, Tables DEF UsedAtMost
    <3> QED  BY <3>6, <3>7, <3>8 DEF RoomInv
  <2>10. CASE ControlBitsReturns
    <3>1. /\ pc = "controlbits" /\ pc' = "secret_key" /\ Len(frames) = 3 /\ frames # <<>>
          /\ used' = frames[3].mark /\ frames' = Front(frames)
      <4>1. pc = "controlbits" /\ pc' = "secret_key" /\ Pop
        BY <2>10 DEF ControlBitsReturns
      <4>2. Len(frames) = 3
        BY <4>1, <1>2 DEF InLeaf
      <4>3. frames # <<>>
        BY <4>2, <1>9
      <4> QED  BY <4>1, <4>2, <4>3 DEF Pop, Mark, Top
    <3>2. /\ frames[1].fn = "McEliece" /\ frames[1].mark <= AfterAes /\ frames[2].mark <= KeyTests
          /\ frames[3].mark <= Keygen
      BY <1>0, <3>1, Tables DEF RoomInv, Marks, SuiteOf, TestPoints
    <3>3. used' <= Keygen /\ used' <= ALLOCATED
      <4>1. frames[3].mark \in Nat
        BY <1>4, <3>1
      <4>2. used' = frames[3].mark /\ frames[3].mark <= Keygen
        BY <3>1, <3>2
      <4> QED  BY ONLY <4>1, <4>2, <1>11
    <3>4. Len(frames') = 2 /\ frames'[1] = frames[1] /\ frames'[2] = frames[2]
      BY <1>1, <3>1, PopFrames
    <3>5. Written'
      BY <1>1, <3>1, WrittenByReturn DEF Front
    <3>6. Marks'
      BY <3>1, <3>2, <3>4, Tables DEF Marks, SuiteOf, TestPoints
    <3>7. UsedAtMost'
      BY <3>1, <3>2, <3>3, <3>4, Tables DEF UsedAtMost
    <3> QED  BY <3>5, <3>6, <3>7 DEF RoomInv
  <2>11. CASE KeyPairReturns
    <3>1. /\ pc = "secret_key" /\ pc' = "hex" /\ Len(frames) = 2 /\ frames # <<>>
          /\ used' = frames[2].mark /\ frames' = Front(frames)
      <4>1. pc = "secret_key" /\ pc' = "hex" /\ Pop
        BY <2>11 DEF KeyPairReturns
      <4>2. Len(frames) = 2
        BY <4>1, <1>2 DEF InLoop
      <4>3. frames # <<>>
        BY <4>2, <1>9
      <4> QED  BY <4>1, <4>2, <4>3 DEF Pop, Mark, Top
    <3>2. /\ frames[1].fn = "McEliece" /\ frames[1].mark <= AfterAes /\ frames[2].mark <= KeyTests
      BY <1>0, <3>1, Tables DEF RoomInv, Marks, SuiteOf, TestPoints
    <3>3. used' <= KeyTests /\ used' <= ALLOCATED
      <4>1. frames[2].mark \in Nat
        BY <1>4, <3>1
      <4>2. used' = frames[2].mark /\ frames[2].mark <= KeyTests
        BY <3>1, <3>2
      <4> QED  BY ONLY <4>1, <4>2, <1>11
    <3>4. Len(frames') = 1 /\ frames'[1] = frames[1]
      BY <1>1, <3>1, PopFrames
    <3>5. Written'
      BY <1>1, <3>1, WrittenByReturn DEF Front
    <3>6. Marks'
      BY <3>1, <3>2, <3>4, Tables DEF Marks, SuiteOf, TestPoints
    <3>7. UsedAtMost'
      BY <3>1, <3>2, <3>3, <3>4, Tables DEF UsedAtMost
    <3> QED  BY <3>5, <3>6, <3>7 DEF RoomInv
  <2>12. CASE Hex
    <3>1. pc = "hex" /\ pc' = "compare" /\ Len(frames) = 1 /\ Call("test", HexPushes)
      BY <2>12, <1>2 DEF Hex, InSuite
    <3>2. /\ frames[1].fn = "McEliece" /\ frames[1].mark <= AfterAes
      BY <1>0, <3>1, Tables DEF RoomInv, Marks, SuiteOf, TestPoints
    <3>3. used <= KeyTests
      BY <1>0, <3>1, <3>2, Tables DEF RoomInv, UsedAtMost
    <3>4. used + HexPushes <= KeyTests + HexPushes /\ used + HexPushes <= ALLOCATED
      <4>1. KeyTests + HexPushes <= ALLOCATED
        BY DEF Room
      <4> QED  BY ONLY <4>1, <1>10, <1>11, <3>3
    <3>5. /\ used' = used + HexPushes /\ Len(frames') = 2 /\ frames'[1] = frames[1]
          /\ frames'[2].fn = "test" /\ frames'[2].mark = used
      BY <1>1, <3>1, CallFrames
    <3>6. Written'
      BY <1>1, <3>1, <3>4, WrittenByCall
    <3>7. Marks'
      BY <3>1, <3>2, <3>3, <3>5, Tables DEF Marks, SuiteOf, TestPoints
    <3>8. UsedAtMost'
      BY <3>1, <3>2, <3>4, <3>5, Tables DEF UsedAtMost
    <3> QED  BY <3>6, <3>7, <3>8 DEF RoomInv
  <2>13. CASE Compare
    <3>1. /\ pc = "compare" /\ pc' = "finished" /\ Len(frames) = 2 /\ frames # <<>>
          /\ used' = frames[2].mark /\ frames' = Front(frames)
      <4>1. pc = "compare" /\ pc' = "finished" /\ Pop
        BY <2>13 DEF Compare
      <4>2. Len(frames) = 2
        BY <4>1, <1>2 DEF InLoop
      <4>3. frames # <<>>
        BY <4>2, <1>9
      <4> QED  BY <4>1, <4>2, <4>3 DEF Pop, Mark, Top
    <3>2. /\ frames[1].fn = "McEliece" /\ frames[1].mark <= AfterAes /\ frames[2].mark <= KeyTests
      BY <1>0, <3>1, Tables DEF RoomInv, Marks, SuiteOf, TestPoints
    <3>3. used' <= KeyTests /\ used' <= ALLOCATED
      <4>1. frames[2].mark \in Nat
        BY <1>4, <3>1
      <4>2. used' = frames[2].mark /\ frames[2].mark <= KeyTests
        BY <3>1, <3>2
      <4> QED  BY ONLY <4>1, <4>2, <1>11
    <3>4. Len(frames') = 1 /\ frames'[1] = frames[1]
      BY <1>1, <3>1, PopFrames
    <3>5. Written'
      BY <1>1, <3>1, WrittenByReturn DEF Front
    <3>6. Marks'
      BY <3>1, <3>2, <3>4, Tables DEF Marks, SuiteOf, TestPoints
    <3>7. UsedAtMost'
      BY <3>1, <3>2, <3>3, <3>4, Tables DEF UsedAtMost
    <3> QED  BY <3>5, <3>6, <3>7 DEF RoomInv
  <2>14. CASE NoTest
    <3>1. pc = "keypair" /\ pc' = "finished" /\ used' = used /\ frames' = frames /\ Len(frames) = 1
      BY <2>14, <1>2 DEF NoTest, InSuite
    <3>2. /\ frames[1].fn = "McEliece" /\ frames[1].mark <= Base[frames[1].fn]
          /\ used <= FileTop[frames[1].fn] /\ used <= ALLOCATED
      BY <1>0, <3>1 DEF RoomInv, Marks, SuiteOf, UsedAtMost, TestPoints
    <3>3. Written'
      BY <1>1, <3>1 DEF Written
    <3>4. Marks'
      BY <3>1, <3>2 DEF Marks, SuiteOf, TestPoints
    <3>5. UsedAtMost'
      BY <3>1, <3>2 DEF UsedAtMost
    <3> QED  BY <3>3, <3>4, <3>5 DEF RoomInv
  <2>15. CASE McElieceReturns
    <3>1. /\ pc = "finished" /\ pc' = "end" /\ Len(frames) = 1 /\ frames # <<>>
          /\ used' = frames[1].mark /\ frames' = Front(frames)
      <4>1. pc = "finished" /\ pc' = "end" /\ Pop
        BY <2>15 DEF McElieceReturns
      <4>2. Len(frames) = 1
        BY <4>1, <1>2 DEF InSuite
      <4>3. frames # <<>>
        BY <4>2, <1>9
      <4> QED  BY <4>1, <4>2, <4>3 DEF Pop, Mark, Top
    <3>2. /\ frames[1].fn = "McEliece" /\ frames[1].mark <= AfterAes
      BY <1>0, <3>1, Tables DEF RoomInv, Marks, SuiteOf, TestPoints
    <3>3. used' <= AfterAes /\ used' <= ALLOCATED
      <4>1. frames[1].mark \in Nat
        BY <1>4, <3>1
      <4>2. used' = frames[1].mark /\ frames[1].mark <= AfterAes
        BY <3>1, <3>2
      <4> QED  BY ONLY <4>1, <4>2, <1>11
    <3>4. Len(frames') = 0
      BY <1>1, <3>1, PopFrames
    <3>5. Written'
      BY <1>1, <3>1, WrittenByReturn DEF Front
    <3>6. Marks'
      BY <3>1, <3>2, <3>4, Tables DEF Marks, SuiteOf, TestPoints
    <3>7. UsedAtMost'
      BY <3>1, <3>2, <3>3, <3>4, Tables DEF UsedAtMost
    <3> QED  BY <3>5, <3>6, <3>7 DEF RoomInv
  <2> QED  BY <1>7, <2>1, <2>2, <2>3, <2>4, <2>5, <2>6, <2>7, <2>8, <2>9, <2>10, <2>11, <2>12, <2>13,
           <2>14, <2>15 DEF McEliece
<1>8. CASE End
  BY <1>5, <1>8 DEF End
<1> QED  BY <1>0, <1>5, <1>6, <1>7, <1>8 DEF ArenaNext

\* When the sizes leave room for the deepest calls on top of the files the suites may
\* leave behind, nothing is ever written past the end of the arena, whichever tests
\* leave early and however often the key generation retries.
THEOREM FitsIfRoom ==
    ASSUME Room
    PROVE  ArenaSpec => []Fits
<1>1. ArenaInit => RoomInv
  <2> SUFFICES ASSUME ArenaInit
               PROVE  RoomInv
    OBVIOUS
  <2>1. used = 0 /\ frames = <<>> /\ pc = "SHA" /\ Len(frames) = 0
    BY DEF ArenaInit
  <2>2. 0 <= ALLOCATED
    BY SizesGrow
  <2>3. Written
    BY <2>1 DEF Written
  <2>4. Marks
    BY <2>1 DEF Marks
  <2>5. UsedAtMost
    BY <2>1, <2>2, Tables DEF UsedAtMost
  <2> QED  BY <2>3, <2>4, <2>5 DEF RoomInv
<1>2. RoomInv => Fits
  BY DEF RoomInv, UsedAtMost, Written, Fits
<1>3. ArenaInv /\ RoomInv /\ [ArenaNext]_arena => RoomInv'
  BY RoomStep
<1> QED  BY <1>1, <1>2, <1>3, ArenaInvHolds, PTL DEF ArenaSpec

----------------------------------------------------------------------------
(* The verdict of the known-answer tests.                                  *)

Suites == {"SHA", "AES", "McEliece"}
Lines(s) == Len(Tags(s))
Tag == {"LEN", "MSG", "MD", "COUNT", "KEY", "PLAINTEXT", "CIPHERTEXT", "SEED", "PK", "PKL", "SK", "SKL"}
FileLine == [tag : Tag, value : Nat]

\* A line of the file of s is where it belongs; its value is that of its vector,
\* but for a result, which may be that of no vector.
LineInPlace(s, i) ==
    /\ i \in DOMAIN file[s]
    /\ file[s][i].tag = GoodFile(s)[i].tag
    /\ file[s][i].value # GoodFile(s)[i].value =>
           file[s][i].value = NoVector /\ file[s][i].tag \in Range(Expected[s])
InPlace(s, p) == \A i \in 1 .. p : LineInPlace(s, i)

FilesInv ==
    /\ DOMAIN file = Suites
    /\ \A s \in Suites :
          /\ file[s] \in Seq(FileLine)
          /\ Len(file[s]) <= VECTORS * Lines(s)
          /\ Whole(s) => InPlace(s, VECTORS * Lines(s))

\* Lines found so far, by this test and those before it.
FoundLines == tests[Now] * Lines(Now) + Len(got)

Follow ==
    Running =>
        /\ ptr \in 0 .. Len(file[Now]) /\ got \in Seq(Nat)
        /\ Len(got) <= Lines(Now)
        /\ FoundLines <= ptr
        /\ \A p \in 0 .. VECTORS * Lines(Now) :
              InPlace(Now, p) /\ FoundLines <= p =>
                 /\ ptr = FoundLines
                 /\ \A j \in 1 .. Len(got) : got[j] = file[Now][tests[Now] * Lines(Now) + j].value

AgreeOn(s, n) == <<s, n>> \in accelFaults <=> <<s, n>> \in softFaults

CountedEach ==
    /\ tests \in [Suites -> 0 .. VECTORS] /\ goodTests \in [Suites -> 0 .. VECTORS]
    /\ \A s \in Suites : goodTests[s] <= tests[s]
    /\ \A s \in {"SHA", "AES"} :
          /\ goodTests[s] = tests[s] =>
                \A n \in 1 .. tests[s] : InPlace(s, n * Lines(s)) => AgreeOn(s, n)
          /\ Whole(s) /\ goodTests[s] # tests[s] => ~Agree(s)

\* The suites to come have counted nothing, and McEliece stops at its first test.
NotYet ==
    /\ \A j \in suite + 1 .. 3 : tests[Suite[j]] = 0 /\ goodTests[Suite[j]] = 0
    /\ Running /\ Now = "McEliece" => tests[Now] = 0 /\ goodTests[Now] = 0

Counted == CountedEach /\ NotYet

AllWhole == \A s \in Suites : Whole(s)
Right(s) == IF s = "McEliece" THEN FirstKeyRight ELSE Agree(s)

Verdict ==
    /\ suite \in 1 .. 4 /\ test_result \in {0, 1}
    /\ AllWhole => (test_result = 0 <=> \A j \in 1 .. suite - 1 : Right(Suite[j]))
    /\ test_result = 0 =>
          \A j \in 1 .. suite - 1 : Suite[j] # "McEliece" =>
             \A n \in Vector : Before(Suite[j], n) =>
                tests[Suite[j]] >= n /\ AgreeOn(Suite[j], n)
    /\ log \in {"none", "Test passed!", "Test failed!"}
    /\ log # "none" => suite = 4 /\ (log = "Test passed!" <=> test_result = 0)

KatInv == FilesInv /\ Follow /\ Counted /\ Verdict

----------------------------------------------------------------------------
(* Files. *)

LEMMA SuitesAre ==
    /\ Suites = Range(Suite) /\ Len(Suite) = 3
    /\ Suite[1] = "SHA" /\ Suite[2] = "AES" /\ Suite[3] = "McEliece"
  <1>1. DOMAIN Suite = 1 .. 3 /\ Len(Suite) = 3
    BY DEF Suite
  <1>2. Suite[1] = "SHA" /\ Suite[2] = "AES" /\ Suite[3] = "McEliece"
    BY DEF Suite
  <1>3. 1 .. 3 = {1, 2, 3}
    OBVIOUS
  <1> QED
    BY <1>1, <1>2, <1>3 DEF Suites, Range

LEMMA ThreeParts ==
    ASSUME NEW x \in Seq(Tag), NEW y \in Seq(Tag), NEW z \in Seq(Tag)
    PROVE  /\ (x \o y) \o z \in Seq(Tag)
           /\ Len((x \o y) \o z) = Len(x) + Len(y) + Len(z)
           /\ \A i \in 1 .. Len(x) : ((x \o y) \o z)[i] = x[i]
           /\ \A i \in 1 .. Len(y) : ((x \o y) \o z)[Len(x) + i] = y[i]
  <1> DEFINE xy == x \o y
  <1>1. Len(x) \in Nat /\ Len(y) \in Nat /\ Len(z) \in Nat
    OBVIOUS
  <1>2. /\ xy \in Seq(Tag) /\ Len(xy) = Len(x) + Len(y)
        /\ \A i \in 1 .. Len(x) + Len(y) : xy[i] = IF i <= Len(x) THEN x[i] ELSE y[i - Len(x)]
    BY ConcatProperties
  <1> HIDE DEF xy
  <1>6. ASSUME NEW w \in Seq(Tag)
        PROVE  /\ w \o z \in Seq(Tag) /\ Len(w \o z) = Len(w) + Len(z)
               /\ \A i \in 1 .. Len(w) + Len(z) : (w \o z)[i] = IF i <= Len(w) THEN w[i] ELSE z[i - Len(w)]
    BY ConcatProperties
  <1>3. /\ xy \o z \in Seq(Tag) /\ Len(xy \o z) = Len(xy) + Len(z)
        /\ \A i \in 1 .. Len(xy) + Len(z) : (xy \o z)[i] = IF i <= Len(xy) THEN xy[i] ELSE z[i - Len(xy)]
    BY <1>2, <1>6
  <1>4. ASSUME NEW i \in 1 .. Len(x) PROVE (xy \o z)[i] = x[i]
    BY <1>1, <1>2, <1>3
  <1>5. ASSUME NEW i \in 1 .. Len(y) PROVE (xy \o z)[Len(x) + i] = y[i]
    <2>1. Len(x) + i \in 1 .. Len(xy) + Len(z) /\ Len(x) + i <= Len(xy) /\ ~(Len(x) + i <= Len(x))
      BY <1>1, <1>2
    <2>2. (xy \o z)[Len(x) + i] = xy[Len(x) + i]
      BY <2>1, <1>3
    <2>3. xy[Len(x) + i] = y[(Len(x) + i) - Len(x)]
      BY <2>1, <1>1, <1>2
    <2> QED
      BY <2>2, <2>3, <1>1
  <1> QED
    BY <1>1, <1>2, <1>3, <1>4, <1>5 DEF xy

\* The tags of each suite: their number, and that its inputs are not among its results.
LEMMA TagsOfSha ==
    /\ Lines("SHA") = 3 /\ Tags("SHA") \in Seq(Tag)
    /\ \A k \in 1 .. 2 : Tags("SHA")[k] \notin Range(Expected["SHA"])
  <1> DEFINE x == <<>> y == <<"LEN", "MSG">> z == <<"MD">>
  <1>1. x \in Seq(Tag) /\ Len(x) = 0
    OBVIOUS
  <1>2. y \in Seq(Tag) /\ Len(y) = 2
    BY DEF Tag
  <1>3. z \in Seq(Tag) /\ Len(z) = 1
    BY DEF Tag
  <1>4. \A k \in 1 .. 2 : y[k] \notin Range(z)
    BY DEF Range
  <1>5. Tags("SHA") = (x \o y) \o z /\ Expected["SHA"] = z
    BY DEF Tags, FirstTag, Inputs, Expected
  <1> HIDE DEF x, y, z
  <1>6. /\ (x \o y) \o z \in Seq(Tag)
        /\ Len((x \o y) \o z) = Len(x) + Len(y) + Len(z)
        /\ \A i \in 1 .. Len(x) : ((x \o y) \o z)[i] = x[i]
        /\ \A i \in 1 .. Len(y) : ((x \o y) \o z)[Len(x) + i] = y[i]
    BY <1>1, <1>2, <1>3, ThreeParts, ZenonT(30)
  <1>7. ASSUME NEW k \in 1 .. 2 PROVE Tags("SHA")[k] \notin Range(z)
    <2>1. Tags("SHA")[Len(x) + k] = y[k] /\ Len(x) + k = k
      BY <1>1, <1>2, <1>5, <1>6
    <2> QED
      BY <2>1, <1>4
  <1>9. Tags("SHA") \in Seq(Tag) /\ Len(Tags("SHA")) = 3
    <2>1. Len(x) + Len(y) + Len(z) = 3
      BY ONLY <1>1, <1>2, <1>3
    <2> QED
      BY ONLY <2>1, <1>5, <1>6, Zenon
  <1> QED
    BY ONLY <1>4, <1>5, <1>7, <1>9, Zenon DEF Lines

LEMMA TagsOfAes ==
    /\ Lines("AES") = 4 /\ Tags("AES") \in Seq(Tag)
    /\ \A k \in 1 .. 3 : Tags("AES")[k] \notin Range(Expected["AES"])
  <1> DEFINE x == <<"COUNT">> y == <<"KEY", "PLAINTEXT">> z == <<"CIPHERTEXT">>
  <1>1. x \in Seq(Tag) /\ Len(x) = 1
    BY DEF Tag
  <1>2. y \in Seq(Tag) /\ Len(y) = 2
    BY DEF Tag
  <1>3. z \in Seq(Tag) /\ Len(z) = 1
    BY DEF Tag
  <1>4. x[1] \notin Range(z) /\ \A k \in 1 .. 2 : y[k] \notin Range(z)
    BY DEF Range
  <1>5. Tags("AES") = (x \o y) \o z /\ Expected["AES"] = z
    BY DEF Tags, FirstTag, Inputs, Expected
  <1> HIDE DEF x, y, z
  <1>6. /\ (x \o y) \o z \in Seq(Tag)
        /\ Len((x \o y) \o z) = Len(x) + Len(y) + Len(z)
        /\ \A i \in 1 .. Len(x) : ((x \o y) \o z)[i] = x[i]
        /\ \A i \in 1 .. Len(y) : ((x \o y) \o z)[Len(x) + i] = y[i]
    BY <1>1, <1>2, <1>3, ThreeParts, ZenonT(30)
  <1>7. /\ Tags("AES")[1] = x[1]
        /\ \A k \in 1 .. 2 : Tags("AES")[1 + k] = y[k]
    BY <1>1, <1>2, <1>5, <1>6
  <1>8. ASSUME NEW k \in 1 .. 3 PROVE Tags("AES")[k] \notin Range(z)
    <2>1. CASE k = 1
      BY <2>1, <1>4, <1>7
    <2>2. CASE k - 1 \in 1 .. 2
      <3>1. Tags("AES")[1 + (k - 1)] = y[k - 1]
        BY <2>2, <1>7
      <3> QED
        BY <2>2, <3>1, <1>4
    <2> QED
      BY <2>1, <2>2
  <1>9. Tags("AES") \in Seq(Tag) /\ Len(Tags("AES")) = 4
    <2>1. Len(x) + Len(y) + Len(z) = 4
      BY ONLY <1>1, <1>2, <1>3
    <2> QED
      BY ONLY <2>1, <1>5, <1>6, Zenon
  <1> QED
    BY ONLY <1>4, <1>5, <1>8, <1>9, Zenon DEF Lines

LEMMA TagsOfMcEliece ==
    /\ Lines("McEliece") = 6 /\ Tags("McEliece") \in Seq(Tag)
    /\ \A k \in 1 .. 2 : Tags("McEliece")[k] \notin Range(Expected["McEliece"])
  <1> DEFINE x == <<"COUNT">> y == <<"SEED">> z == <<"PK", "PKL", "SK", "SKL">>
  <1>1. x \in Seq(Tag) /\ Len(x) = 1
    BY DEF Tag
  <1>2. y \in Seq(Tag) /\ Len(y) = 1
    BY DEF Tag
  <1>3. z \in Seq(Tag) /\ Len(z) = 4
    BY DEF Tag
  <1>4. x[1] \notin Range(z) /\ y[1] \notin Range(z)
    BY DEF Range
  <1>5. Tags("McEliece") = (x \o y) \o z /\ Expected["McEliece"] = z
    BY DEF Tags, FirstTag, Inputs, Expected
  <1> HIDE DEF x, y, z
  <1>6. /\ (x \o y) \o z \in Seq(Tag)
        /\ Len((x \o y) \o z) = Len(x) + Len(y) + Len(z)
        /\ \A i \in 1 .. Len(x) : ((x \o y) \o z)[i] = x[i]
        /\ \A i \in 1 .. Len(y) : ((x \o y) \o z)[Len(x) + i] = y[i]
    BY <1>1, <1>2, <1>3, ThreeParts, ZenonT(30)
  <1>7. Tags("McEliece")[1] = x[1] /\ Tags("McEliece")[2] = y[1]
    BY <1>1, <1>2, <1>5, <1>6
  <1>8. ASSUME NEW k \in 1 .. 2 PROVE Tags("McEliece")[k] \notin Range(z)
    <2>1. CASE k = 1
      BY <2>1, <1>4, <1>7
    <2>2. CASE k = 2
      BY <2>2, <1>4, <1>7
    <2> QED
      BY <2>1, <2>2
  <1>9. Tags("McEliece") \in Seq(Tag) /\ Len(Tags("McEliece")) = 6
    <2>1. Len(x) + Len(y) + Len(z) = 6
      BY ONLY <1>1, <1>2, <1>3
    <2> QED
      BY ONLY <2>1, <1>5, <1>6, Zenon
  <1> QED
    BY ONLY <1>4, <1>5, <1>8, <1>9, Zenon DEF Lines

LEMMA LinesAre ==
    /\ Lines("SHA") = 3 /\ Lines("AES") = 4 /\ Lines("McEliece") = 6
    /\ \A s \in Suites : Tags(s) \in Seq(Tag)
  BY TagsOfSha, TagsOfAes, TagsOfMcEliece DEF Suites

\* The i-th line of a file that has them all.
LEMMA GoodLine ==
    ASSUME NEW s \in Suites, NEW n \in 0 .. VECTORS - 1, NEW k \in 1 .. Lines(s)
    PROVE  /\ n * Lines(s) + k \in 1 .. VECTORS * Lines(s)
           /\ GoodFile(s)[n * Lines(s) + k] = Line(Tags(s)[k], n + 1)
  <1> DEFINE i == n * Lines(s) + k
  <1>1. CASE s = "SHA"
    <2>1. Lines(s) = 3
      BY <1>1, LinesAre
    <2>2. i \in 1 .. VECTORS * 3 /\ (i - 1) % 3 = k - 1 /\ (i - 1) \div 3 = n
      BY <2>1, KatSizes, Z3
    <2> QED
      BY <2>1, <2>2 DEF GoodFile, Lines
  <1>2. CASE s = "AES"
    <2>1. Lines(s) = 4
      BY <1>2, LinesAre
    <2>2. i \in 1 .. VECTORS * 4 /\ (i - 1) % 4 = k - 1 /\ (i - 1) \div 4 = n
      BY <2>1, KatSizes, Z3
    <2> QED
      BY <2>1, <2>2 DEF GoodFile, Lines
  <1>3. CASE s = "McEliece"
    <2>1. Lines(s) = 6
      BY <1>3, LinesAre
    <2>2. i \in 1 .. VECTORS * 6 /\ (i - 1) % 6 = k - 1 /\ (i - 1) \div 6 = n
      BY <2>1, KatSizes, Z3
    <2> QED
      BY <2>1, <2>2 DEF GoodFile, Lines
  <1> QED
    BY <1>1, <1>2, <1>3 DEF Suites

\* The line a test searches for as its k-th, after n tests.
LEMMA Positions ==
    ASSUME NEW s \in Suites, NEW i \in 1 .. VECTORS * Lines(s)
    PROVE  ((i - 1) % Lines(s)) + 1 \in 1 .. Lines(s) /\ (i - 1) \div Lines(s) + 1 \in Vector
  <1>1. CASE s = "SHA"
    <2>1. Lines(s) = 3
      BY <1>1, LinesAre
    <2> QED
      BY <2>1, KatSizes, Z3 DEF Vector
  <1>2. CASE s = "AES"
    <2>1. Lines(s) = 4
      BY <1>2, LinesAre
    <2> QED
      BY <2>1, KatSizes, Z3 DEF Vector
  <1>3. CASE s = "McEliece"
    <2>1. Lines(s) = 6
      BY <1>3, LinesAre
    <2> QED
      BY <2>1, KatSizes, Z3 DEF Vector
  <1> QED
    BY <1>1, <1>2, <1>3 DEF Suites

LEMMA LinesNat ==
    ASSUME NEW s \in Suites
    PROVE  /\ Lines(s) \in Nat \ {0} /\ VECTORS * Lines(s) \in Nat
           /\ DOMAIN Tags(s) = 1 .. Lines(s) /\ \A k \in 1 .. Lines(s) : Tags(s)[k] \in Tag
  <1>1. Lines(s) \in {3, 4, 6}
    BY LinesAre DEF Suites
  <1>2. Tags(s) \in Seq(Tag) /\ Len(Tags(s)) = Lines(s)
    BY LinesAre DEF Lines
  <1>3. VECTORS * Lines(s) \in Nat
    <2>1. VECTORS \in Nat /\ Lines(s) \in Nat
      BY <1>1, KatSizes
    <2> QED
      BY <2>1
  <1> QED
    BY <1>1, <1>2, <1>3

LEMMA GoodFileIs ==
    ASSUME NEW s \in Suites
    PROVE  /\ GoodFile(s) \in Seq(FileLine) /\ Len(GoodFile(s)) = VECTORS * Lines(s)
           /\ DOMAIN GoodFile(s) = 1 .. VECTORS * Lines(s)
  <1> DEFINE all == VECTORS * Lines(s)
  <1>1. all \in Nat
    BY LinesNat
  <1>2. GoodFile(s) = [i \in 1 .. all |->
                         Line(Tags(s)[((i - 1) % Lines(s)) + 1], ((i - 1) \div Lines(s)) + 1)]
    BY DEF GoodFile, Lines
  <1>3. ASSUME NEW i \in 1 .. all
        PROVE  Line(Tags(s)[((i - 1) % Lines(s)) + 1], ((i - 1) \div Lines(s)) + 1) \in FileLine
    <2> DEFINE k == ((i - 1) % Lines(s)) + 1
               n == ((i - 1) \div Lines(s)) + 1
    <2>1. k \in 1 .. Lines(s) /\ n \in Nat
      BY Positions, KatSizes DEF Vector
    <2>2. Tags(s)[k] \in Tag
      BY <2>1, LinesNat
    <2> HIDE DEF k, n
    <2>3. Line(Tags(s)[k], n) \in FileLine
      BY <2>1, <2>2 DEF Line, FileLine
    <2> QED
      BY <2>3 DEF k, n
  <1> HIDE DEF all
  <1>4. GoodFile(s) \in [1 .. all -> FileLine]
    BY <1>2, <1>3
  <1>5. GoodFile(s) \in Seq(FileLine) /\ Len(GoodFile(s)) = all
    BY <1>1, <1>4
  <1> QED
    BY <1>4, <1>5 DEF all

\* A file that lacks a line is not whole.
LEMMA WithoutIs ==
    ASSUME NEW s \in Suites, NEW i \in DOMAIN GoodFile(s)
    PROVE  Without(s, i) \in Seq(FileLine) /\ Len(Without(s, i)) = VECTORS * Lines(s) - 1
  <1> DEFINE g == GoodFile(s)
             all == VECTORS * Lines(s)
  <1>1. g \in Seq(FileLine) /\ Len(g) = all /\ all \in Nat /\ i \in 1 .. all
    BY GoodFileIs, LinesNat
  <1> HIDE DEF g, all
  <1> DEFINE a == SubSeq(g, 1, i - 1)
             b == SubSeq(g, i + 1, Len(g))
  <1>2. a \in Seq(FileLine) /\ Len(a) = i - 1
    BY <1>1
  <1>3. b \in Seq(FileLine) /\ Len(b) = all - i
    BY <1>1
  <1> HIDE DEF a, b
  <1>4. a \o b \in Seq(FileLine) /\ Len(a \o b) = Len(a) + Len(b)
    BY <1>2, <1>3
  <1>5. Len(a \o b) = all - 1
    BY <1>1, <1>2, <1>3, <1>4
  <1> QED
    BY <1>4, <1>5 DEF Without, RemoveAt, a, b, g, all

\* A file with a wrong result has every line in its place.
LEMMA WrongResultIs ==
    ASSUME NEW s \in Suites, NEW i \in DOMAIN GoodFile(s)
    PROVE  /\ WrongResult(s, i) \in Seq(FileLine) /\ Len(WrongResult(s, i)) = VECTORS * Lines(s)
           /\ DOMAIN WrongResult(s, i) = 1 .. VECTORS * Lines(s)
           /\ \A j \in 1 .. VECTORS * Lines(s) :
                 /\ WrongResult(s, i)[j].tag = GoodFile(s)[j].tag
                 /\ WrongResult(s, i)[j].value = IF j = i THEN NoVector ELSE GoodFile(s)[j].value
  <1> DEFINE g == GoodFile(s)
             all == VECTORS * Lines(s)
  <1>1. g \in Seq(FileLine) /\ Len(g) = all /\ all \in Nat /\ i \in 1 .. all /\ DOMAIN g = 1 .. all
    BY GoodFileIs, LinesNat
  <1>2. NoVector \in Nat
    BY KatSizes DEF NoVector
  <1>3. WrongResult(s, i) = [g EXCEPT ![i].value = NoVector]
    BY DEF WrongResult
  <1> HIDE DEF g, all
  <1>4. \A j \in 1 .. all : g[j] \in FileLine
    BY <1>1
  <1>5. WrongResult(s, i) = [g EXCEPT ![i] = [g[i] EXCEPT !.value = NoVector]]
    BY <1>3
  <1>6. /\ [g[i] EXCEPT !.value = NoVector] \in FileLine
        /\ [g[i] EXCEPT !.value = NoVector].tag = g[i].tag
        /\ [g[i] EXCEPT !.value = NoVector].value = NoVector
    BY <1>1, <1>2, <1>4 DEF FileLine
  <1> DEFINE new == [g[i] EXCEPT !.value = NoVector]
  <1> HIDE DEF new
  <1>7. /\ WrongResult(s, i) = [g EXCEPT ![i] = new]
        /\ new \in FileLine /\ new.tag = g[i].tag /\ new.value = NoVector
    BY <1>5, <1>6 DEF new
  <1>8. WrongResult(s, i) \in Seq(FileLine) /\ Len(WrongResult(s, i)) = all
    BY <1>1, <1>7
  <1>9. DOMAIN WrongResult(s, i) = 1 .. all
    BY <1>1, <1>7
  <1>10. \A j \in 1 .. all : WrongResult(s, i)[j] = IF j = i THEN new ELSE g[j]
    BY <1>1, <1>7
  <1> QED
    BY <1>7, <1>8, <1>9, <1>10 DEF g, all

FileFits(s) ==
    /\ file[s] \in Seq(FileLine)
    /\ Len(file[s]) <= VECTORS * Lines(s)
    /\ Whole(s) => InPlace(s, VECTORS * Lines(s))

\* Files as Init has them.
LEMMA GoodFits ==
    ASSUME NEW s \in Suites, file[s] = GoodFile(s)
    PROVE  FileFits(s)
  <1>1. /\ GoodFile(s) \in Seq(FileLine) /\ Len(GoodFile(s)) = VECTORS * Lines(s)
        /\ DOMAIN GoodFile(s) = 1 .. VECTORS * Lines(s) /\ VECTORS * Lines(s) \in Nat
    BY GoodFileIs, LinesNat
  <1>2. InPlace(s, VECTORS * Lines(s))
    BY <1>1 DEF InPlace, LineInPlace
  <1> QED
    BY <1>1, <1>2 DEF FileFits

LEMMA BadFits ==
    ASSUME NEW s \in Suites, file[s] \in BadFiles(s)
    PROVE  FileFits(s)
  <1> DEFINE all == VECTORS * Lines(s)
  <1>1. all \in Nat /\ Len(GoodFile(s)) = all /\ DOMAIN GoodFile(s) = 1 .. all
    BY GoodFileIs, LinesNat
  <1>2. CASE \E i \in DOMAIN GoodFile(s) : file[s] = Without(s, i)
    <2>1. PICK i \in DOMAIN GoodFile(s) : file[s] = Without(s, i)
      BY <1>2
    <2>2. file[s] \in Seq(FileLine) /\ Len(file[s]) = all - 1
      BY <2>1, WithoutIs
    <2> QED
      BY <1>1, <2>2 DEF FileFits, Whole
  <1>3. CASE \E i \in DOMAIN GoodFile(s) :
                 file[s] = WrongResult(s, i) /\ GoodFile(s)[i].tag \in Range(Expected[s])
    <2>1. PICK i \in DOMAIN GoodFile(s) :
                 file[s] = WrongResult(s, i) /\ GoodFile(s)[i].tag \in Range(Expected[s])
      BY <1>3
    <2>2. /\ file[s] \in Seq(FileLine) /\ Len(file[s]) = all /\ DOMAIN file[s] = 1 .. all
          /\ \A j \in 1 .. all :
                /\ file[s][j].tag = GoodFile(s)[j].tag
                /\ file[s][j].value = IF j = i THEN NoVector ELSE GoodFile(s)[j].value
      BY <2>1, WrongResultIs
    <2>3. ASSUME NEW j \in 1 .. all PROVE LineInPlace(s, j)
      BY <2>1, <2>2 DEF LineInPlace
    <2> QED
      BY <1>1, <2>2, <2>3 DEF FileFits, InPlace
  <1> QED
    BY <1>2, <1>3 DEF BadFiles

LEMMA InitFiles == Init => FilesInv
  <1> SUFFICES ASSUME Init PROVE FilesInv
    OBVIOUS
  <1>1. PICK s \in Suites : \E content \in BadFiles(s) \cup {GoodFile(s)} :
            file = [u \in Suites |-> IF u = s THEN content ELSE GoodFile(u)]
    BY SuitesAre DEF Init
  <1>2. PICK content \in BadFiles(s) \cup {GoodFile(s)} :
            file = [u \in Suites |-> IF u = s THEN content ELSE GoodFile(u)]
    BY <1>1
  <1>3. ASSUME NEW u \in Suites PROVE FileFits(u)
    <2>1. CASE file[u] = GoodFile(u)
      BY <2>1, GoodFits
    <2>2. CASE file[u] \in BadFiles(u)
      BY <2>2, BadFits
    <2> QED
      BY <1>2, <2>1, <2>2
  <1> QED
    BY <1>2, <1>3 DEF FilesInv, FileFits

LEMMA InitKat == Init => KatInv
  <1> SUFFICES ASSUME Init PROVE KatInv
    OBVIOUS
  <1> USE KatSizes
  <1>1. FilesInv
    BY InitFiles
  <1>2. suite = 1 /\ ptr = 0 /\ got = <<>> /\ test_result = 0 /\ log = "none"
    BY DEF Init
  <1>3. \A s \in Suites : tests[s] = 0 /\ goodTests[s] = 0
    BY SuitesAre DEF Init
  <1>4. tests \in [Suites -> 0 .. VECTORS] /\ goodTests \in [Suites -> 0 .. VECTORS]
    BY SuitesAre DEF Init
  <1>5. Now = "SHA" /\ Now \in Suites
    BY <1>2, SuitesAre DEF Now, Suites
  <1>6. Follow
    <2>1. FoundLines = 0 /\ Len(got) = 0
      BY <1>2, <1>3, <1>5, LinesAre DEF FoundLines
    <2>2. Len(file[Now]) \in Nat /\ Lines(Now) \in Nat
      BY <1>1, <1>5, LinesNat DEF FilesInv
    <2> QED
      BY <1>2, <2>1, <2>2 DEF Follow
  <1>7. Counted
    <2>1. ASSUME NEW j \in suite + 1 .. 3 PROVE Suite[j] \in Suites
      <3>1. j = 2 \/ j = 3
        BY <1>2
      <3> QED
        BY <3>1, SuitesAre DEF Suites
    <2> QED
      BY <1>2, <1>3, <1>4, <1>5, <2>1 DEF Counted, CountedEach, NotYet, Suites
  <1>8. Verdict
    BY <1>2 DEF Verdict
  <1> QED
    BY <1>1, <1>6, <1>7, <1>8 DEF KatInv

----------------------------------------------------------------------------
(* What all steps share. *)

\* Counting in lines.
LEMMA Counting ==
    ASSUME NEW s \in Suites, NEW t \in Nat, NEW v \in Nat
    PROVE  /\ t * Lines(s) \in Nat
           /\ t * Lines(s) < v * Lines(s) <=> t < v
           /\ t <= v => t * Lines(s) <= v * Lines(s)
           /\ (t + 1) * Lines(s) = t * Lines(s) + Lines(s)
  <1>1. CASE Lines(s) = 3
    BY <1>1
  <1>2. CASE Lines(s) = 4
    BY <1>2
  <1>3. CASE Lines(s) = 6
    BY <1>3
  <1> QED
    BY <1>1, <1>2, <1>3, LinesAre DEF Suites

\* No step touches the files or the faults.
LEMMA Untouched ==
    ASSUME file' = file, accelFaults' = accelFaults, softFaults' = softFaults
    PROVE  /\ FilesInv' <=> FilesInv
           /\ AllWhole' <=> AllWhole
           /\ FirstKeyRight' <=> FirstKeyRight
           /\ \A s \in Suites :
                 /\ Whole(s)' <=> Whole(s)
                 /\ Agree(s)' <=> Agree(s)
                 /\ Right(s)' <=> Right(s)
                 /\ \A p : /\ InPlace(s, p)' <=> InPlace(s, p)
                           /\ AgreeOn(s, p)' <=> AgreeOn(s, p)
                           /\ Before(s, p)' <=> Before(s, p)
  BY DEF FilesInv, AllWhole, FirstKeyRight, Whole, Agree, Right, InPlace, LineInPlace, AgreeOn, Before

LEMMA RunningSuite ==
    ASSUME KatInv, Running
    PROVE  /\ suite \in {1, 2, 3} /\ Now = Suite[suite] /\ Now \in Suites
           /\ ptr \in 0 .. Len(file[Now]) /\ got \in Seq(Nat) /\ Len(got) \in 0 .. Lines(Now)
           /\ file[Now] \in Seq(FileLine) /\ Len(file[Now]) \in 0 .. VECTORS * Lines(Now)
           /\ tests[Now] \in 0 .. VECTORS /\ goodTests[Now] \in 0 .. tests[Now]
           /\ FoundLines \in Nat /\ FoundLines <= ptr
           /\ FoundLines = tests[Now] * Lines(Now) + Len(got)
           /\ tests[Now] * Lines(Now) \in Nat
           /\ Lines(Now) \in Nat \ {0} /\ VECTORS * Lines(Now) \in Nat
  <1>1. suite \in {1, 2, 3}
    <2>1. suite \in 1 .. 4 /\ suite <= 3
      BY SuitesAre DEF KatInv, Verdict, Running
    <2> QED
      BY <2>1
  <1>2. Now = Suite[suite] /\ Now \in Suites
    BY <1>1, SuitesAre DEF Now, Suites
  <1>3. /\ ptr \in 0 .. Len(file[Now]) /\ got \in Seq(Nat) /\ Len(got) <= Lines(Now)
        /\ FoundLines <= ptr
    BY DEF KatInv, Follow
  <1>4. file[Now] \in Seq(FileLine) /\ Len(file[Now]) <= VECTORS * Lines(Now)
    BY <1>2 DEF KatInv, FilesInv
  <1>5. tests[Now] \in 0 .. VECTORS /\ goodTests[Now] \in 0 .. VECTORS /\ goodTests[Now] <= tests[Now]
    BY <1>2 DEF KatInv, Counted, CountedEach
  <1>6. Len(got) \in Nat /\ Len(file[Now]) \in Nat
    BY <1>3, <1>4
  <1>7. tests[Now] * Lines(Now) \in Nat
    BY <1>2, <1>5, Counting, KatSizes
  <1>8. FoundLines = tests[Now] * Lines(Now) + Len(got)
    BY DEF FoundLines
  <1>9. Lines(Now) \in Nat \ {0} /\ VECTORS * Lines(Now) \in Nat
    BY <1>2, LinesNat
  <1> QED
    BY <1>1, <1>2, <1>3, <1>4, <1>5, <1>6, <1>7, <1>8, <1>9, KatSizes, SMTT(30)

\* While the lines are where they belong, the one that is searched for comes next.
LEMMA NextLine ==
    ASSUME KatInv, Searching, NEW p \in 0 .. VECTORS * Lines(Now), InPlace(Now, p), FoundLines < p
    PROVE  /\ tests[Now] < VECTORS
           /\ ptr = FoundLines /\ ptr + 1 \in Found(Wanted)
  <1> DEFINE t == tests[Now]
             l == Lines(Now)
             k == Len(got) + 1
  <1>1. Running /\ Len(got) < l /\ Now \in Suites
    BY RunningSuite DEF Searching, Lines
  <1>2. /\ t \in 0 .. VECTORS /\ Len(got) \in 0 .. l /\ FoundLines = t * l + Len(got)
        /\ l \in Nat \ {0} /\ VECTORS * l \in Nat /\ t * l \in Nat
    BY <1>1, RunningSuite, Zenon
  <1>3. t * l < VECTORS * l
    BY <1>2
  <1>4. t < VECTORS
    <2>1. t \in Nat /\ VECTORS \in Nat
      BY <1>2, KatSizes
    <2> QED
      BY ONLY <1>1, <1>3, <2>1, Counting
  <1>5. ptr = FoundLines
    BY <1>1, <1>2 DEF KatInv, Follow
  <1>6. ptr + 1 \in 1 .. p /\ ptr + 1 = t * l + k /\ k \in 1 .. l /\ ptr \in Nat
    <2> HIDE DEF t, l
    <2>1. Len(got) \in Nat /\ Len(got) + 1 \in 1 .. l
      BY <1>1, <1>2
    <2> DEFINE tl == t * l
    <2>2. tl \in Nat /\ FoundLines = tl + Len(got)
      BY <1>2
    <2> HIDE DEF tl
    <2>3. ptr \in Nat /\ ptr + 1 \in 1 .. p /\ ptr + 1 = tl + (Len(got) + 1)
      BY <1>5, <2>1, <2>2
    <2> QED
      BY <2>1, <2>3 DEF tl
  <1>7. LineInPlace(Now, ptr + 1)
    BY <1>6 DEF InPlace
  <1>8. GoodFile(Now)[t * l + k] = Line(Tags(Now)[k], t + 1)
    <2>1. t \in 0 .. VECTORS - 1
      BY <1>2, <1>4, KatSizes
    <2> QED
      BY ONLY <1>1, <1>6, <2>1, GoodLine
  <1>9. GoodFile(Now)[ptr + 1].tag = Wanted
    <2>1. Line(Tags(Now)[k], t + 1).tag = Wanted
      BY DEF Wanted, Line
    <2> QED
      BY <1>6, <1>8, <2>1
  <1> QED
    BY <1>4, <1>5, <1>6, <1>7, <1>9 DEF LineInPlace, Found

LEMMA Smallest ==
    ASSUME NEW T \in SUBSET Nat, T # {}
    PROVE  Min(T) \in T /\ \A y \in T : Min(T) <= y
  <1>1. PICK x \in T : \A y \in T : ~(<<y, x>> \in OpToRel(<, Nat))
    BY NatLessThanWellFounded, WFMin
  <1>2. ASSUME NEW y \in T PROVE ~(y < x)
    BY <1>1 DEF OpToRel
  <1>3. \E z \in T : \A y \in T : z <= y
    BY <1>2
  <1> QED
    BY <1>3, Zenon DEF Min

\* Steps that count nothing and return nothing.
LEMMA CountsKept ==
    ASSUME KatInv, file' = file, accelFaults' = accelFaults, softFaults' = softFaults,
           suite' = suite, tests' = tests, goodTests' = goodTests,
           test_result' = test_result, log' = log, Now' = Now, Running' <=> Running
    PROVE  Counted' /\ Verdict'
  <1>1. Counted'
    <2>1. Counted
      BY DEF KatInv
    <2>2. \A s \in {"SHA", "AES"} : s \in Suites
      BY DEF Suites
    <2> QED
      BY <2>1, <2>2, Untouched DEF Counted, CountedEach, NotYet
  <1>2. Verdict'
    <2>1. Verdict
      BY DEF KatInv
    <2>2. \A j \in 1 .. suite - 1 : Suite[j] \in Suites
      <3>1. suite \in 1 .. 4
        BY <2>1 DEF Verdict
      <3>2. \A j \in 1 .. suite - 1 : j = 1 \/ j = 2 \/ j = 3
        BY <3>1
      <3> QED
        BY <3>2, SuitesAre DEF Suites
    <2> QED
      BY <2>1, <2>2, Untouched DEF Verdict
  <1> QED
    BY <1>1, <1>2

LEMMA SearchStep ==
    ASSUME KatInv, Search
    PROVE  KatInv'
  <1>1. Searching /\ Running /\ Found(Wanted) # {} /\ ptr' = Min(Found(Wanted))
    BY DEF Search, Searching
  <1>2. /\ file' = file /\ accelFaults' = accelFaults /\ softFaults' = softFaults
        /\ suite' = suite /\ tests' = tests /\ goodTests' = goodTests
        /\ test_result' = test_result /\ log' = log /\ Now' = Now /\ (Running' <=> Running)
    BY DEF Search, Now, Running
  <1>3. /\ Now \in Suites /\ ptr \in Nat /\ got \in Seq(Nat) /\ Len(got) < Lines(Now)
        /\ file[Now] \in Seq(FileLine) /\ FoundLines \in Nat /\ FoundLines <= ptr
        /\ FoundLines = tests[Now] * Lines(Now) + Len(got) /\ Len(file[Now]) \in Nat
        /\ Lines(Now) \in Nat
    BY <1>1, RunningSuite, LinesNat DEF Searching, Lines
  <1>4. /\ ptr' \in Found(Wanted) /\ \A i \in Found(Wanted) : ptr' <= i
    <2>1. Found(Wanted) \in SUBSET Nat
      BY <1>3 DEF Found
    <2> QED
      BY <1>1, <2>1, Smallest
  <1>5. ptr' \in 1 .. Len(file[Now]) /\ ptr < ptr'
    BY <1>3, <1>4 DEF Found
  <1>6. file[Now][ptr'].value \in Nat
    <2>1. file[Now][ptr'] \in FileLine
      BY <1>3, <1>5
    <2> QED
      BY <2>1 DEF FileLine
  <1>7. /\ got' \in Seq(Nat) /\ Len(got') = Len(got) + 1 /\ got'[Len(got) + 1] = file[Now][ptr'].value
        /\ \A j \in 1 .. Len(got) : got'[j] = got[j]
    <2>1. got' = Append(got, file[Now][ptr'].value)
      BY DEF Search
    <2> QED
      BY <1>3, <1>6, <2>1
  <1>8. FoundLines' = FoundLines + 1
    <2>1. FoundLines' = tests[Now] * Lines(Now) + Len(got')
      BY <1>2 DEF FoundLines
    <2>2. tests[Now] * Lines(Now) \in Nat
      BY <1>1, RunningSuite
    <2> QED
      BY <1>3, <1>7, <2>1, <2>2, SMTT(30)
  <1>9. FilesInv' /\ \A p : InPlace(Now, p)' <=> InPlace(Now, p)
    BY <1>2, <1>3, Untouched DEF KatInv
  <1>10. Follow'
    <2>1. ASSUME NEW p \in 0 .. VECTORS * Lines(Now), InPlace(Now, p), FoundLines + 1 <= p
          PROVE  /\ ptr' = FoundLines + 1
                 /\ \A j \in 1 .. Len(got') : got'[j] = file[Now][tests[Now] * Lines(Now) + j].value
      <3>1. FoundLines < p /\ FoundLines <= p
        BY <1>3, <2>1
      <3>2. ptr = FoundLines /\ ptr + 1 \in Found(Wanted)
        BY <1>1, <2>1, <3>1, NextLine
      <3>3. ptr' = ptr + 1
        BY <1>3, <1>4, <1>5, <3>2
      <3>4. \A j \in 1 .. Len(got) : got[j] = file[Now][tests[Now] * Lines(Now) + j].value
        BY <1>1, <2>1, <3>1 DEF KatInv, Follow
      <3>5. got'[Len(got) + 1] = file[Now][tests[Now] * Lines(Now) + (Len(got) + 1)].value
        <4>1. ptr' = tests[Now] * Lines(Now) + (Len(got) + 1)
          <5>1. tests[Now] * Lines(Now) \in Nat /\ Len(got) \in Nat
            BY <1>1, RunningSuite
          <5> QED
            BY <1>3, <3>2, <3>3, <5>1
        <4> QED
          BY <1>7, <4>1
      <3>6. ASSUME NEW j \in 1 .. Len(got')
            PROVE  got'[j] = file[Now][tests[Now] * Lines(Now) + j].value
        <4>1. CASE j \in 1 .. Len(got)
          BY <1>7, <3>4, <4>1
        <4>2. CASE j = Len(got) + 1
          BY <3>5, <4>2
        <4> QED
          BY <1>3, <1>7, <4>1, <4>2
      <3> QED
        BY <3>2, <3>3, <3>6
    <2>2. /\ ptr' \in 0 .. Len(file[Now]) /\ Len(got') <= Lines(Now) /\ FoundLines' <= ptr'
      BY <1>3, <1>5, <1>7, <1>8
    <2> QED
      BY <1>2, <1>7, <1>8, <1>9, <2>1, <2>2 DEF Follow
  <1>11. Counted' /\ Verdict'
    BY <1>2, CountsKept, Zenon
  <1> QED
    BY <1>9, <1>10, <1>11 DEF KatInv

----------------------------------------------------------------------------
(* One test. *)

LEMMA PartsAre ==
    ASSUME NEW v
    PROVE  /\ FromInputs("SHA", v) = SubSeq(v, 1, 2)
           /\ FromInputs("AES", v) = SubSeq(v, 2, 3)
           /\ FromInputs("McEliece", v) = SubSeq(v, 2, 2)
           /\ FromFile("McEliece", v) = SubSeq(v, 3, 6)
  <1>1. /\ Len(Tags("SHA")) = 3 /\ Len(Tags("AES")) = 4 /\ Len(Tags("McEliece")) = 6
    BY LinesAre DEF Lines
  <1>2. /\ Len(Inputs["SHA"]) = 2 /\ Len(Inputs["AES"]) = 2 /\ Len(Inputs["McEliece"]) = 1
        /\ Len(Expected["SHA"]) = 1 /\ Len(Expected["AES"]) = 1 /\ Len(Expected["McEliece"]) = 4
    BY DEF Inputs, Expected
  <1>3. FromInputs("SHA", v) = SubSeq(v, 1, 2)
    <2> DEFINE skip == Len(Tags("SHA")) - Len(Inputs["SHA"]) - Len(Expected["SHA"])
    <2>1. skip + 1 = 1 /\ skip + Len(Inputs["SHA"]) = 2
      BY <1>1, <1>2
    <2> QED
      BY ONLY <2>1, Zenon DEF FromInputs
  <1>4. FromInputs("AES", v) = SubSeq(v, 2, 3)
    <2> DEFINE skip == Len(Tags("AES")) - Len(Inputs["AES"]) - Len(Expected["AES"])
    <2>1. skip + 1 = 2 /\ skip + Len(Inputs["AES"]) = 3
      BY <1>1, <1>2
    <2> QED
      BY ONLY <2>1, Zenon DEF FromInputs
  <1>5. FromInputs("McEliece", v) = SubSeq(v, 2, 2)
    <2> DEFINE skip == Len(Tags("McEliece")) - Len(Inputs["McEliece"]) - Len(Expected["McEliece"])
    <2>1. skip + 1 = 2 /\ skip + Len(Inputs["McEliece"]) = 2
      BY <1>1, <1>2
    <2> QED
      BY ONLY <2>1, Zenon DEF FromInputs
  <1>6. FromFile("McEliece", v) = SubSeq(v, 3, 6)
    <2>1. Len(Tags("McEliece")) - Len(Expected["McEliece"]) + 1 = 3
      BY <1>1, <1>2
    <2> QED
      BY ONLY <1>1, <2>1, Zenon DEF FromFile
  <1> QED
    BY <1>3, <1>4, <1>5, <1>6

LEMMA Pair ==
    ASSUME NEW v \in Seq(Nat), NEW a \in Nat \ {0}, NEW b \in Nat, b = a + 1, b <= Len(v)
    PROVE  /\ SubSeq(v, a, b) \in Seq(Nat) /\ Len(SubSeq(v, a, b)) = 2
           /\ SubSeq(v, a, b)[1] = v[a] /\ SubSeq(v, a, b)[2] = v[b]
  <1>1. \A i \in a .. b : v[i] \in Nat
    BY ElementOfSeq
  <1>2. /\ SubSeq(v, a, b) \in Seq(Nat)
        /\ Len(SubSeq(v, a, b)) = IF a <= b THEN b - a + 1 ELSE 0
        /\ \A i \in 1 .. b - a + 1 : SubSeq(v, a, b)[i] = v[a + i - 1]
    BY <1>1, SubSeqProperties, SMTT(30)
  <1>3. b - a + 1 = 2 /\ a <= b /\ a + 1 - 1 = a /\ a + 2 - 1 = b
    OBVIOUS
  <1> DEFINE pair == SubSeq(v, a, b)
  <1> HIDE DEF pair
  <1>4. /\ pair \in Seq(Nat) /\ Len(pair) = 2
        /\ \A i \in 1 .. 2 : pair[i] = v[a + i - 1]
    BY <1>2, <1>3 DEF pair
  <1>5. pair[1] = v[a + 1 - 1] /\ pair[2] = v[a + 2 - 1]
    BY <1>4
  <1>6. pair[1] = v[a] /\ pair[2] = v[b]
    BY <1>3, <1>5
  <1> QED
    BY <1>4, <1>6 DEF pair

\* An implementation gives back what it was given for a vector, or garbage.
LEMMA ComputedIs ==
    ASSUME NEW faults, NEW s, NEW n \in Vector, NEW x \in Seq(Nat), Len(x) > 0,
           \A i \in 1 .. Len(x) : x[i] = n
    PROVE  /\ <<s, n>> \in faults => Computed(faults, s, x) = Garbage
           /\ <<s, n>> \notin faults => Computed(faults, s, x) = x
           /\ x # Garbage
  <1>1. x = [i \in DOMAIN x |-> n] /\ 1 \in DOMAIN x /\ x[1] = n
    <2>1. DOMAIN x = 1 .. Len(x) /\ Len(x) \in Nat /\ x = [i \in DOMAIN x |-> x[i]]
      OBVIOUS
    <2> QED
      BY <2>1
  <1>2. \A m : x = [i \in DOMAIN x |-> m] => m = n
    <2> SUFFICES ASSUME NEW m, x = [i \in DOMAIN x |-> m] PROVE m = n
      OBVIOUS
    <2> DEFINE d == DOMAIN x
    <2>1. 1 \in d /\ x = [i \in d |-> m]
      BY <1>1
    <2> HIDE DEF d
    <2>2. x[1] = m
      BY <2>1
    <2> QED
      BY <1>1, <2>2
  <1>3. (\E m \in Vector : x = [i \in DOMAIN x |-> m] /\ <<s, m>> \in faults) <=> <<s, n>> \in faults
    BY <1>1, <1>2, Zenon
  <1>4. x # Garbage
    BY DEF Garbage
  <1> QED
    BY <1>3, <1>4, Zenon DEF Computed

\* A test that has all its lines is one of the vectors.
LEMMA TestFits ==
    ASSUME KatInv, Running, Len(got) = Lines(Now)
    PROVE  /\ tests[Now] \in 0 .. VECTORS - 1
           /\ (tests[Now] + 1) * Lines(Now) \in 0 .. VECTORS * Lines(Now)
           /\ FoundLines = (tests[Now] + 1) * Lines(Now)
  <1>1. /\ Now \in Suites /\ tests[Now] \in 0 .. VECTORS /\ Lines(Now) \in Nat \ {0}
        /\ tests[Now] * Lines(Now) \in Nat /\ VECTORS * Lines(Now) \in Nat
        /\ FoundLines = tests[Now] * Lines(Now) + Len(got) /\ FoundLines <= ptr
        /\ ptr \in 0 .. Len(file[Now]) /\ Len(file[Now]) \in 0 .. VECTORS * Lines(Now)
    BY RunningSuite, Zenon
  <1>2. tests[Now] \in Nat /\ VECTORS \in Nat
    BY <1>1, KatSizes
  <1>3. tests[Now] * Lines(Now) < VECTORS * Lines(Now)
    BY <1>1
  <1>4. tests[Now] < VECTORS
    BY ONLY <1>1, <1>2, <1>3, Counting
  <1>5. (tests[Now] + 1) * Lines(Now) = tests[Now] * Lines(Now) + Lines(Now)
    BY ONLY <1>1, <1>2, Counting
  <1> QED
    BY <1>1, <1>2, <1>4, <1>5, SMTT(30)

\* With its lines in place, the inputs a test has found are those of its vector.
LEMMA Collected ==
    ASSUME KatInv, Running, Len(got) = Lines(Now), InPlace(Now, (tests[Now] + 1) * Lines(Now))
    PROVE  \A j \in 1 .. Lines(Now) :
               /\ got[j] = file[Now][tests[Now] * Lines(Now) + j].value
               /\ Tags(Now)[j] \notin Range(Expected[Now]) => got[j] = tests[Now] + 1
  <1> DEFINE t == tests[Now]
             l == Lines(Now)
  <1>1. /\ t \in 0 .. VECTORS - 1 /\ (t + 1) * l \in 0 .. VECTORS * l /\ FoundLines = (t + 1) * l
    BY TestFits
  <1>2. Now \in Suites /\ t * l \in Nat /\ l \in Nat
    BY RunningSuite, Zenon
  <1>3. (t + 1) * l = t * l + l
    <2>1. t \in Nat
      BY <1>1
    <2> QED
      BY ONLY <1>2, <2>1, Counting
  <1>4. \A j \in 1 .. l : got[j] = file[Now][t * l + j].value
    <2>1. FoundLines <= (t + 1) * l
      BY <1>1
    <2> QED
      BY <1>1, <2>1 DEF KatInv, Follow
  <1>5. ASSUME NEW j \in 1 .. l, Tags(Now)[j] \notin Range(Expected[Now])
        PROVE  got[j] = t + 1
    <2>1. t * l + j \in 1 .. (t + 1) * l
      BY <1>2, <1>3
    <2>2. LineInPlace(Now, t * l + j)
      BY <2>1 DEF InPlace
    <2>3. GoodFile(Now)[t * l + j] = Line(Tags(Now)[j], t + 1)
      BY ONLY <1>1, <1>2, <1>5, GoodLine
    <2>4. /\ GoodFile(Now)[t * l + j].tag = Tags(Now)[j] /\ GoodFile(Now)[t * l + j].value = t + 1
      BY <2>3 DEF Line
    <2>5. file[Now][t * l + j].value = t + 1
      BY <1>5, <2>2, <2>4 DEF LineInPlace
    <2> QED
      BY <1>4, <2>5
  <1> QED
    BY <1>4, <1>5

\* The tests of SHA and AES compare two implementations on one vector.
LEMMA GoodIsAgree ==
    ASSUME KatInv, Running, Now # "McEliece", Len(got) = Lines(Now),
           InPlace(Now, (tests[Now] + 1) * Lines(Now))
    PROVE  Good(Now, FromInputs(Now, got), FromFile(Now, got)) <=> AgreeOn(Now, tests[Now] + 1)
  <1> DEFINE x == FromInputs(Now, got)
             n == tests[Now] + 1
  <1>1. Now = "SHA" \/ Now = "AES"
    BY RunningSuite DEF Suites
  <1>2. n \in Vector
    <2>1. tests[Now] \in 0 .. VECTORS - 1
      BY TestFits
    <2> QED
      BY <2>1, KatSizes DEF Vector
  <1>3. got \in Seq(Nat)
    BY RunningSuite
  <1>4. x \in Seq(Nat) /\ Len(x) = 2 /\ x[1] = n /\ x[2] = n
    <2>1. CASE Now = "SHA"
      <3>1. \A j \in 1 .. 2 : got[j] = n
        BY <2>1, Collected, TagsOfSha
      <3>2. x = SubSeq(got, 1, 2) /\ Len(got) = 3
        BY <2>1, PartsAre, TagsOfSha
      <3> HIDE DEF x, n
      <3>3. x \in Seq(Nat) /\ Len(x) = 2 /\ x[1] = got[1] /\ x[2] = got[2]
        <4>1. 1 \in Nat \ {0} /\ 2 \in Nat /\ 2 = 1 + 1 /\ 2 <= Len(got)
          BY ONLY <3>2
        <4> QED
          BY ONLY <1>3, <3>2, <4>1, Pair, Zenon
      <3>4. got[1] = n /\ got[2] = n
        BY ONLY <3>1
      <3> QED
        BY ONLY <3>3, <3>4
    <2>2. CASE Now = "AES"
      <3>1. \A j \in 1 .. 3 : got[j] = n
        BY <2>2, Collected, TagsOfAes
      <3>2. x = SubSeq(got, 2, 3) /\ Len(got) = 4
        BY <2>2, PartsAre, TagsOfAes
      <3> HIDE DEF x, n
      <3>3. x \in Seq(Nat) /\ Len(x) = 2 /\ x[1] = got[2] /\ x[2] = got[3]
        <4>1. 2 \in Nat \ {0} /\ 3 \in Nat /\ 3 = 2 + 1 /\ 3 <= Len(got)
          BY ONLY <3>2
        <4> QED
          BY ONLY <1>3, <3>2, <4>1, Pair, Zenon
      <3>4. got[2] = n /\ got[3] = n
        BY ONLY <3>1
      <3> QED
        BY ONLY <3>3, <3>4
    <2> QED
      BY <1>1, <2>1, <2>2
  <1> HIDE DEF x, n
  <1>5. Len(x) > 0 /\ \A i \in 1 .. Len(x) : x[i] = n
    BY <1>4
  <1>6. /\ <<Now, n>> \in accelFaults => Computed(accelFaults, Now, x) = Garbage
        /\ <<Now, n>> \notin accelFaults => Computed(accelFaults, Now, x) = x
        /\ <<Now, n>> \in softFaults => Computed(softFaults, Now, x) = Garbage
        /\ <<Now, n>> \notin softFaults => Computed(softFaults, Now, x) = x
        /\ x # Garbage
    BY <1>2, <1>4, <1>5, ComputedIs
  <1>7. Good(Now, x, FromFile(Now, got)) <=> AgreeOn(Now, n)
    <2>1. Good(Now, x, FromFile(Now, got)) <=> Computed(accelFaults, Now, x) = Computed(softFaults, Now, x)
      BY Zenon DEF Good
    <2> QED
      BY ONLY <1>6, <2>1 DEF AgreeOn
  <1> QED
    BY <1>7 DEF x, n

\* That of McEliece compares the key pair with the file.
LEMMA GoodIsRight ==
    ASSUME KatInv, Running, Now = "McEliece", Len(got) = Lines(Now), Whole(Now)
    PROVE  Good(Now, FromInputs(Now, got), FromFile(Now, got)) <=> FirstKeyRight
  <1> DEFINE x == FromInputs(Now, got)
             e == FromFile(Now, got)
  <1>1. Lines(Now) = 6 /\ Len(Tags("McEliece")) = 6 /\ Len(got) = 6
    BY LinesAre DEF Lines
  <1>2. tests[Now] = 0 /\ got \in Seq(Nat) /\ Now \in Suites
    BY RunningSuite DEF KatInv, Counted, NotYet
  <1>3. InPlace(Now, (tests[Now] + 1) * Lines(Now))
    <2>1. InPlace(Now, VECTORS * Lines(Now))
      BY <1>2 DEF KatInv, FilesInv
    <2>2. (tests[Now] + 1) * Lines(Now) = 6 /\ VECTORS * Lines(Now) >= 6 /\ VECTORS * Lines(Now) \in Nat
      BY <1>1, <1>2, KatSizes
    <2> QED
      BY <2>1, <2>2 DEF InPlace
  <1>4. \A j \in 1 .. 6 : got[j] = file["McEliece"][j].value
    <2>1. \A j \in 1 .. Lines(Now) : got[j] = file[Now][tests[Now] * Lines(Now) + j].value
      BY <1>1, <1>3, Collected
    <2>2. ASSUME NEW j \in 1 .. 6 PROVE tests[Now] * Lines(Now) + j = j
      BY <1>1, <1>2
    <2> QED
      BY <1>1, <2>1, <2>2
  <1>5. got[1] = 1 /\ got[2] = 1
    <2>1. \A j \in 1 .. 2 : got[j] = 0 + 1
      BY <1>1, <1>2, <1>3, Collected, TagsOfMcEliece
    <2> QED
      BY <2>1
  <1>6. x \in Seq(Nat) /\ Len(x) = 1 /\ x[1] = 1
    <2>1. x = SubSeq(got, 2, 2)
      BY PartsAre
    <2> HIDE DEF x
    <2> QED
      BY <1>1, <1>2, <1>5, <2>1
  <1>7. e \in Seq(Nat) /\ Len(e) = 4 /\ \A i \in 1 .. 4 : e[i] = got[i + 2]
    <2>1. e = SubSeq(got, 3, 6)
      BY PartsAre
    <2> HIDE DEF e
    <2> QED
      BY <1>1, <1>2, <2>1, SMTT(30)
  <1> HIDE DEF x, e
  <1>8. 1 \in Vector /\ Len(x) > 0 /\ \A i \in 1 .. Len(x) : x[i] = 1
    BY <1>6, KatSizes DEF Vector
  <1>9. /\ <<Now, 1>> \in accelFaults => Computed(accelFaults, Now, x) = Garbage
        /\ <<Now, 1>> \notin accelFaults => Computed(accelFaults, Now, x) = x
        /\ x # Garbage
    BY <1>6, <1>8, ComputedIs
  <1>10. Range(x) = Range(e) <=> \A i \in 1 .. 4 : got[i + 2] = 1
    <2>1. DOMAIN x = {1} /\ DOMAIN e = 1 .. 4
      BY <1>6, <1>7
    <2>2. Range(x) = {1}
      BY <1>6, <2>1 DEF Range
    <2>3. Range(e) = {1} <=> \A i \in 1 .. 4 : e[i] = 1
      <3>1. 1 \in DOMAIN e
        BY <2>1
      <3>2. Range(e) = {e[i] : i \in DOMAIN e}
        BY DEF Range
      <3>3. (\A i \in DOMAIN e : e[i] = 1) => Range(e) = {1}
        BY <3>1, <3>2
      <3>4. Range(e) = {1} => (\A i \in DOMAIN e : e[i] = 1)
        BY <3>2
      <3> QED
        BY <2>1, <3>3, <3>4
    <2> QED
      BY <1>7, <2>2, <2>3
  <1>11. (\A i \in 1 .. 6 : got[i] = 1) <=> \A i \in 1 .. 4 : got[i + 2] = 1
    <2>1. ASSUME \A i \in 1 .. 4 : got[i + 2] = 1, NEW i \in 1 .. 6 PROVE got[i] = 1
      <3>1. CASE i \in 1 .. 2
        BY <1>5, <3>1
      <3>2. CASE i - 2 \in 1 .. 4
        <4>1. got[(i - 2) + 2] = 1
          BY <2>1, <3>2
        <4> QED
          BY <4>1
      <3> QED
        BY <3>1, <3>2
    <2>2. ASSUME \A i \in 1 .. 6 : got[i] = 1, NEW i \in 1 .. 4 PROVE got[i + 2] = 1
      BY <2>2
    <2> QED
      BY <2>1, <2>2
  <1>12. FirstKeyRight <=> <<Now, 1>> \notin accelFaults /\ \A i \in 1 .. 6 : got[i] = 1
    BY <1>1, <1>4 DEF FirstKeyRight
  <1>13. Good(Now, x, e) <=> <<Now, 1>> \notin accelFaults /\ Range(x) = Range(e)
    BY <1>9, Zenon DEF Good, Matches
  <1> QED
    BY <1>10, <1>11, <1>12, <1>13 DEF x, e

----------------------------------------------------------------------------
(* A suite returns. *)

LEMMA BeforeInPlace ==
    ASSUME NEW s \in Suites, NEW n \in Nat, Before(s, n)
    PROVE  InPlace(s, n * Lines(s))
  BY DEF Before, InPlace, LineInPlace, Lines

LEMMA WholeInPlace ==
    ASSUME KatInv, NEW s \in Suites, Whole(s), NEW n \in 0 .. VECTORS
    PROVE  InPlace(s, n * Lines(s)) /\ n * Lines(s) \in 0 .. VECTORS * Lines(s)
  <1>1. InPlace(s, VECTORS * Lines(s))
    BY DEF KatInv, FilesInv
  <1>2. n \in Nat /\ VECTORS \in Nat /\ n <= VECTORS
    BY KatSizes
  <1>3. n * Lines(s) \in Nat /\ VECTORS * Lines(s) \in Nat /\ n * Lines(s) <= VECTORS * Lines(s)
    BY ONLY <1>2, s \in Suites, Counting
  <1> QED
    BY <1>1, <1>3 DEF InPlace

\* What a suite has to return for the verdict to stay exact.
LEMMA ReturnStep ==
    ASSUME KatInv, Running, NEW r \in {0, 1}, test_result' = Combined(r, test_result),
           file' = file, accelFaults' = accelFaults, softFaults' = softFaults, log' = log,
           suite' = suite + 1, ptr' = 0, got' = <<>>,
           CountedEach',
           \A s \in Suites : s # Now => tests'[s] = tests[s] /\ goodTests'[s] = goodTests[s],
           AllWhole => (r = 0 <=> Right(Now)),
           r = 0 /\ Now # "McEliece" =>
               \A n \in Vector : Before(Now, n) => tests'[Now] >= n /\ AgreeOn(Now, n)
    PROVE  KatInv'
  <1>1. /\ suite \in {1, 2, 3} /\ Now = Suite[suite] /\ Now \in Suites
    BY RunningSuite, Zenon
  <1>2. /\ Suite[1] = "SHA" /\ Suite[2] = "AES" /\ Suite[3] = "McEliece" /\ Len(Suite) = 3
        /\ \A j \in {1, 2, 3} : Suite[j] \in Suites
    BY SuitesAre DEF Suites
  <1>3. FilesInv'
    BY Untouched DEF KatInv
  <1>4. \A j \in suite + 1 .. 3 : /\ j \in {1, 2, 3} /\ Suite[j] # Now
                                  /\ tests'[Suite[j]] = 0 /\ goodTests'[Suite[j]] = 0
    <2> SUFFICES ASSUME NEW j \in suite + 1 .. 3
                 PROVE  /\ j \in {1, 2, 3} /\ Suite[j] # Now
                        /\ tests'[Suite[j]] = 0 /\ goodTests'[Suite[j]] = 0
      OBVIOUS
    <2>1. j \in {1, 2, 3} /\ Suite[j] # Now
      BY <1>1, <1>2
    <2>2. tests[Suite[j]] = 0 /\ goodTests[Suite[j]] = 0
      BY DEF KatInv, Counted, NotYet
    <2> QED
      BY <1>2, <2>1, <2>2
  <1>5. Running' => /\ suite' \in suite + 1 .. 3 /\ Now' = Suite[suite'] /\ Now' \in Suites
                    /\ tests'[Now'] = 0 /\ goodTests'[Now'] = 0
    <2> SUFFICES ASSUME Running'
                 PROVE  /\ suite' \in suite + 1 .. 3 /\ Now' = Suite[suite'] /\ Now' \in Suites
                        /\ tests'[Now'] = 0 /\ goodTests'[Now'] = 0
      OBVIOUS
    <2>1. suite' \in suite + 1 .. 3
      BY <1>1, <1>2 DEF Running
    <2>2. Now' = Suite[suite']
      BY DEF Now
    <2> QED
      BY <1>2, <1>4, <2>1, <2>2
  <1>6. Follow'
    <2> SUFFICES ASSUME Running' PROVE Follow'
      BY DEF Follow
    <2>1. Now' \in Suites /\ tests'[Now'] = 0 /\ Len(got') = 0 /\ got' \in Seq(Nat)
      BY <1>5
    <2>2. Lines(Now') \in Nat
      BY <2>1, LinesNat
    <2>3. FoundLines' = 0
      BY <2>1, <2>2 DEF FoundLines
    <2>4. file'[Now'] \in Seq(FileLine)
      BY <1>3, <2>1 DEF FilesInv
    <2>5. Len(file'[Now']) \in Nat
      BY <2>4
    <2> QED
      BY <2>1, <2>2, <2>3, <2>5 DEF Follow
  <1>7. Counted'
    <2>1. \A j \in suite' + 1 .. 3 : j \in suite + 1 .. 3
      BY <1>1
    <2> QED
      BY <1>4, <1>5, <2>1 DEF Counted, NotYet
  <1>8. Verdict'
    <2>1. /\ suite \in 1 .. 4 /\ test_result \in {0, 1}
          /\ AllWhole => (test_result = 0 <=> \A j \in 1 .. suite - 1 : Right(Suite[j]))
          /\ test_result = 0 =>
                \A j \in 1 .. suite - 1 : Suite[j] # "McEliece" =>
                   \A n \in Vector : Before(Suite[j], n) =>
                      tests[Suite[j]] >= n /\ AgreeOn(Suite[j], n)
          /\ log = "none"
      <3>1. Verdict
        BY DEF KatInv
      <3>2. suite # 4
        BY <1>1
      <3> QED
        BY <3>1, <3>2 DEF Verdict
    <2>2. test_result' \in {0, 1} /\ (test_result' = 0 <=> test_result = 0 /\ r = 0)
      BY <2>1 DEF Combined
    <2>3. \A j \in 1 .. suite' - 1 : \/ j = suite
                                     \/ j \in 1 .. suite - 1 /\ j \in {1, 2, 3} /\ Suite[j] # Now
      <3>1. ASSUME NEW j \in 1 .. suite' - 1, j # suite
            PROVE  j \in 1 .. suite - 1 /\ j \in {1, 2, 3} /\ Suite[j] # Now
        BY <1>1, <1>2, <3>1
      <3> QED
        BY <3>1
    <2>4. suite \in 1 .. suite' - 1 /\ \A j \in 1 .. suite - 1 : j \in 1 .. suite' - 1 /\ j \in {1, 2, 3}
      BY <1>1
    <2>5. (\A j \in 1 .. suite' - 1 : Right(Suite[j])) <=>
              Right(Now) /\ \A j \in 1 .. suite - 1 : Right(Suite[j])
      BY ONLY <1>1, <2>3, <2>4, Zenon
    <2>6. AllWhole' => (test_result' = 0 <=> \A j \in 1 .. suite' - 1 : Right(Suite[j])')
      <3>1. ASSUME NEW j \in 1 .. suite' - 1 PROVE Right(Suite[j])' <=> Right(Suite[j])
        <4>1. Suite[j] \in Suites
          BY <1>1, <1>2, <2>3
        <4> QED
          BY <4>1, Untouched
      <3>2. AllWhole' <=> AllWhole
        BY Untouched
      <3> QED
        BY <2>1, <2>2, <2>5, <3>1, <3>2, Zenon
    <2>7. ASSUME test_result' = 0, NEW j \in 1 .. suite' - 1, Suite[j] # "McEliece", NEW n \in Vector,
                 Before(Suite[j], n)'
          PROVE  tests'[Suite[j]] >= n /\ AgreeOn(Suite[j], n)'
      <3>1. Suite[j] \in Suites
        BY <1>1, <1>2, <2>3
      <3>2. Before(Suite[j], n) /\ (AgreeOn(Suite[j], n)' <=> AgreeOn(Suite[j], n))
        BY <2>7, <3>1, Untouched
      <3>3. CASE j = suite
        BY <1>1, <2>2, <2>7, <3>2, <3>3
      <3>4. CASE j \in 1 .. suite - 1 /\ Suite[j] # Now
        BY <2>1, <2>2, <2>7, <3>1, <3>2, <3>4
      <3> QED
        BY <2>3, <3>3, <3>4
    <2>8. suite' \in 1 .. 4
      BY <1>1
    <2> QED
      BY <2>1, <2>2, <2>6, <2>7, <2>8, Zenon DEF Verdict
  <1> QED
    BY <1>3, <1>6, <1>7, <1>8 DEF KatInv

LEMMA ResultIs ==
    ASSUME NEW early \in BOOLEAN, NEW good \in Nat, NEW all \in Nat
    PROVE  Result(early, good, all) \in {0, 1} /\ (Result(early, good, all) = 0 <=> ~early /\ good = all)
  BY DEF Result

LEMMA CountsUntouched ==
    ASSUME KatInv, file' = file, accelFaults' = accelFaults, softFaults' = softFaults,
           tests' = tests, goodTests' = goodTests
    PROVE  CountedEach'
  <1>1. CountedEach
    BY DEF KatInv, Counted
  <1>2. \A s \in {"SHA", "AES"} : s \in Suites
    BY DEF Suites
  <1> QED
    BY <1>1, <1>2, Untouched DEF CountedEach

\* At the end of a file that has its lines, all its vectors were tested.
LEMMA AllTested ==
    ASSUME KatInv, Searching, got = <<>>, Found(Wanted) = {}, NEW n \in Vector,
           InPlace(Now, n * Lines(Now))
    PROVE  n <= tests[Now]
  <1> SUFFICES ASSUME tests[Now] < n PROVE FALSE
    BY RunningSuite, KatSizes DEF Searching, Vector
  <1>1. /\ Now \in Suites /\ tests[Now] \in 0 .. VECTORS
        /\ FoundLines = tests[Now] * Lines(Now) + Len(got) /\ tests[Now] * Lines(Now) \in Nat
    BY RunningSuite, Zenon DEF Searching
  <1>2. n \in Nat /\ VECTORS \in Nat /\ n <= VECTORS /\ tests[Now] \in Nat
    BY <1>1, KatSizes DEF Vector
  <1>3. tests[Now] * Lines(Now) < n * Lines(Now)
    BY ONLY <1>1, <1>2, tests[Now] < n, Counting
  <1>4. n * Lines(Now) \in Nat /\ VECTORS * Lines(Now) \in Nat /\ n * Lines(Now) <= VECTORS * Lines(Now)
    BY ONLY <1>1, <1>2, Counting
  <1>5. FoundLines < n * Lines(Now) /\ n * Lines(Now) \in 0 .. VECTORS * Lines(Now)
    <2>1. Len(got) = 0
      OBVIOUS
    <2> QED
      BY <1>1, <1>3, <1>4, <2>1
  <1> QED
    BY <1>5, NextLine

LEMMA NoMoreTestsStep ==
    ASSUME KatInv, NoMoreTests
    PROVE  KatInv'
  <1> DEFINE t == tests[Now]
             r == Result(FALSE, goodTests[Now], tests[Now])
  <1>1. Searching /\ Running /\ got = <<>> /\ Found(Wanted) = {}
    BY DEF NoMoreTests, Searching
  <1>2. /\ file' = file /\ accelFaults' = accelFaults /\ softFaults' = softFaults /\ log' = log
        /\ tests' = tests /\ goodTests' = goodTests /\ suite' = suite + 1 /\ ptr' = 0 /\ got' = <<>>
        /\ test_result' = Combined(r, test_result)
    BY DEF NoMoreTests, Return
  <1>3. Now \in Suites /\ t \in 0 .. VECTORS /\ goodTests[Now] \in 0 .. t
    BY <1>1, RunningSuite
  <1>4. r \in {0, 1} /\ (r = 0 <=> goodTests[Now] = t)
    <2>1. goodTests[Now] \in Nat /\ t \in Nat
      BY <1>3, KatSizes
    <2> QED
      BY <2>1, ResultIs
  <1>5. CountedEach'
    BY <1>2, CountsUntouched
  <1>6. ASSUME AllWhole PROVE r = 0 <=> Right(Now)
    <2>1. InPlace(Now, VECTORS * Lines(Now)) /\ VECTORS \in Vector
      BY <1>3, <1>6, KatSizes DEF AllWhole, KatInv, FilesInv, Vector
    <2>2. t = VECTORS
      <3>1. VECTORS <= t
        BY <1>1, <2>1, AllTested
      <3> QED
        BY <1>3, <3>1, KatSizes
    <2>3. Now # "McEliece"
      BY <1>1, <2>2, KatSizes DEF KatInv, Counted, NotYet
    <2>4. Now \in {"SHA", "AES"}
      BY <1>3, <2>3 DEF Suites
    <2>5. Whole(Now)
      BY <1>3, <1>6 DEF AllWhole
    <2>6. goodTests[Now] = t => Agree(Now)
      <3> SUFFICES ASSUME goodTests[Now] = t, NEW n \in Vector PROVE AgreeOn(Now, n)
        BY DEF Agree, AgreeOn
      <3>1. n \in 1 .. t /\ n \in 0 .. VECTORS
        BY <2>2, KatSizes DEF Vector
      <3>2. InPlace(Now, n * Lines(Now))
        BY <1>3, <2>5, <3>1, WholeInPlace
      <3> QED
        BY <2>4, <3>1, <3>2 DEF KatInv, Counted, CountedEach
    <2>7. goodTests[Now] # t => ~Agree(Now)
      BY <2>4, <2>5 DEF KatInv, Counted, CountedEach
    <2> QED
      BY <1>4, <2>3, <2>6, <2>7 DEF Right
  <1>7. ASSUME r = 0, Now # "McEliece", NEW n \in Vector, Before(Now, n)
        PROVE  tests'[Now] >= n /\ AgreeOn(Now, n)
    <2>1. n \in Nat
      BY KatSizes DEF Vector
    <2>2. InPlace(Now, n * Lines(Now))
      BY <1>3, <1>7, <2>1, BeforeInPlace
    <2>3. n <= t
      BY <1>1, <2>2, AllTested
    <2>4. Now \in {"SHA", "AES"} /\ goodTests[Now] = t
      BY <1>3, <1>4, <1>7 DEF Suites
    <2>5. n \in 1 .. t
      BY <1>3, <2>3 DEF Vector
    <2>6. AgreeOn(Now, n)
      BY <2>2, <2>4, <2>5 DEF KatInv, Counted, CountedEach
    <2> QED
      BY <1>2, <1>3, <2>1, <2>3, <2>6
  <1> HIDE DEF r, t
  <1> QED
    BY <1>1, <1>2, <1>4, <1>5, <1>6, <1>7, ReturnStep

LEMMA EarlyExitStep ==
    ASSUME KatInv, EarlyExit
    PROVE  KatInv'
  <1> DEFINE t == tests[Now]
             r == Result(Now # "McEliece", goodTests[Now], tests[Now])
  <1>1. Searching /\ Running /\ got # <<>> /\ Found(Wanted) = {}
    BY DEF EarlyExit, Searching
  <1>2. /\ file' = file /\ accelFaults' = accelFaults /\ softFaults' = softFaults /\ log' = log
        /\ tests' = tests /\ goodTests' = goodTests /\ suite' = suite + 1 /\ ptr' = 0 /\ got' = <<>>
        /\ test_result' = Combined(r, test_result)
    BY DEF EarlyExit, Return
  <1>3. /\ Now \in Suites /\ t \in 0 .. VECTORS /\ goodTests[Now] \in 0 .. t
        /\ got \in Seq(Nat) /\ Lines(Now) \in Nat \ {0} /\ VECTORS * Lines(Now) \in Nat
        /\ FoundLines = t * Lines(Now) + Len(got) /\ t * Lines(Now) \in Nat /\ FoundLines <= ptr
        /\ ptr \in 0 .. Len(file[Now]) /\ Len(file[Now]) \in 0 .. VECTORS * Lines(Now)
    BY <1>1, RunningSuite, Zenon
  <1>4. r \in {0, 1} /\ (r = 0 => Now = "McEliece")
    <2>1. goodTests[Now] \in Nat /\ t \in Nat
      BY <1>3, KatSizes
    <2> QED
      BY <2>1, ResultIs
  <1>5. CountedEach'
    BY <1>2, CountsUntouched
  <1>6. ~AllWhole
    <2> SUFFICES ASSUME AllWhole PROVE FALSE
      OBVIOUS
    <2>1. InPlace(Now, VECTORS * Lines(Now))
      BY <1>3 DEF AllWhole, KatInv, FilesInv
    <2>2. Len(got) \in Nat \ {0} /\ Len(got) < Lines(Now)
      BY <1>1, <1>3 DEF Searching, Lines
    <2>3. t * Lines(Now) < VECTORS * Lines(Now)
      BY <1>3, <2>2
    <2>4. t \in Nat /\ t + 1 \in Nat /\ VECTORS \in Nat
      BY <1>3, KatSizes, SMTT(30)
    <2>5. t < VECTORS
      BY ONLY <1>3, <2>3, <2>4, Counting
    <2>6. t + 1 <= VECTORS
      BY ONLY <2>4, <2>5
    <2>7. (t + 1) * Lines(Now) <= VECTORS * Lines(Now)
      BY ONLY <1>3, <2>4, <2>6, Counting
    <2>8. (t + 1) * Lines(Now) = t * Lines(Now) + Lines(Now)
      BY ONLY <1>3, <2>4, Counting
    <2>9. FoundLines < VECTORS * Lines(Now)
      BY <1>3, <2>2, <2>7, <2>8
    <2> QED
      BY <1>1, <1>3, <2>1, <2>9, NextLine
  <1> HIDE DEF r, t
  <1> QED
    BY <1>1, <1>2, <1>4, <1>5, <1>6, ReturnStep

LEMMA TestStep ==
    ASSUME KatInv, Test
    PROVE  KatInv'
  <1> DEFINE t == tests[Now]
             g == goodTests[Now]
             good == Good(Now, FromInputs(Now, got), FromFile(Now, got))
  <1>1. Running /\ Len(got) = Lines(Now)
    BY DEF Test, Lines
  <1>2. /\ file' = file /\ accelFaults' = accelFaults /\ softFaults' = softFaults /\ log' = log
    BY DEF Test
  <1>3. /\ Now \in Suites /\ t \in 0 .. VECTORS - 1 /\ g \in 0 .. t
        /\ FoundLines = (t + 1) * Lines(Now)
        /\ (t + 1) * Lines(Now) \in 0 .. VECTORS * Lines(Now)
    BY <1>1, RunningSuite, TestFits
  <1>4. t \in Nat /\ g \in Nat /\ g <= t /\ t + 1 \in 0 .. VECTORS /\ t + 1 \in Vector
    BY <1>3, KatSizes DEF Vector
  <1>5. /\ tests \in [Suites -> 0 .. VECTORS] /\ goodTests \in [Suites -> 0 .. VECTORS]
        /\ \A s \in Suites : goodTests[s] <= tests[s]
    BY DEF KatInv, Counted, CountedEach
  <1>6. /\ tests' = [tests EXCEPT ![Now] = t + 1]
        /\ goodTests' = [goodTests EXCEPT ![Now] = IF good THEN g + 1 ELSE g]
    BY DEF Test
  <1> HIDE DEF t, g, good
  <1>7. /\ tests'[Now] = t + 1 /\ (good => goodTests'[Now] = g + 1) /\ (~good => goodTests'[Now] = g)
        /\ \A s \in Suites : s # Now => tests'[s] = tests[s] /\ goodTests'[s] = goodTests[s]
    BY <1>3, <1>5, <1>6
  <1>8. /\ tests' \in [Suites -> 0 .. VECTORS] /\ goodTests' \in [Suites -> 0 .. VECTORS]
        /\ \A s \in Suites : goodTests'[s] <= tests'[s]
    <2>1. (IF good THEN g + 1 ELSE g) \in 0 .. VECTORS /\ (IF good THEN g + 1 ELSE g) <= t + 1
      BY <1>3, <1>4, KatSizes
    <2>2. tests' \in [Suites -> 0 .. VECTORS] /\ goodTests' \in [Suites -> 0 .. VECTORS]
      BY <1>4, <1>5, <1>6, <2>1
    <2>3. ASSUME NEW s \in Suites PROVE goodTests'[s] <= tests'[s]
      <3>1. CASE s = Now
        BY <1>4, <1>7, <3>1
      <3>2. CASE s # Now
        BY <1>5, <1>7, <3>2
      <3> QED
        BY <3>1, <3>2
    <2> QED
      BY <2>2, <2>3
  <1>9. ASSUME NEW s \in {"SHA", "AES"}
        PROVE  /\ goodTests'[s] = tests'[s] =>
                     \A n \in 1 .. tests'[s] : InPlace(s, n * Lines(s)) => AgreeOn(s, n)
               /\ Whole(s) /\ goodTests'[s] # tests'[s] => ~Agree(s)
    <2>1. s \in Suites
      BY DEF Suites
    <2>2. /\ goodTests[s] = tests[s] =>
                 \A n \in 1 .. tests[s] : InPlace(s, n * Lines(s)) => AgreeOn(s, n)
          /\ Whole(s) /\ goodTests[s] # tests[s] => ~Agree(s)
      BY DEF KatInv, Counted, CountedEach
    <2>3. CASE s # Now
      BY <1>7, <2>1, <2>2, <2>3
    <2>4. CASE s = Now
      <3>1. InPlace(s, (t + 1) * Lines(s)) => (good <=> AgreeOn(s, t + 1))
        BY <1>1, <2>4, GoodIsAgree DEF t, good
      <3>2. ASSUME goodTests'[s] = tests'[s], NEW n \in 1 .. tests'[s], InPlace(s, n * Lines(s))
            PROVE  AgreeOn(s, n)
        <4>1. good /\ g = t
          BY <1>4, <1>7, <2>4, <3>2
        <4>2. CASE n = t + 1
          BY <3>1, <3>2, <4>1, <4>2
        <4>3. CASE n \in 1 .. t
          BY <2>2, <2>4, <3>2, <4>1, <4>3 DEF g, t
        <4> QED
          BY <1>4, <1>7, <2>4, <4>2, <4>3
      <3>3. ASSUME Whole(s), goodTests'[s] # tests'[s]
            PROVE  ~Agree(s)
        <4>1. CASE g # t
          BY <2>2, <2>4, <3>3, <4>1 DEF g, t
        <4>2. CASE ~good
          <5>1. InPlace(s, (t + 1) * Lines(s))
            BY <1>4, <2>1, <3>3, WholeInPlace
          <5>2. ~AgreeOn(s, t + 1)
            BY <3>1, <4>2, <5>1
          <5> QED
            BY <1>4, <5>2 DEF Agree, AgreeOn
        <4> QED
          BY <1>4, <1>7, <2>4, <3>3, <4>1, <4>2
      <3> QED
        BY <3>2, <3>3
    <2> QED
      BY <2>3, <2>4
  <1>10. CountedEach'
    <2>1. ASSUME NEW s \in {"SHA", "AES"}
          PROVE  /\ Whole(s)' <=> Whole(s)
                 /\ Agree(s)' <=> Agree(s)
                 /\ \A n : /\ InPlace(s, n * Lines(s))' <=> InPlace(s, n * Lines(s))
                           /\ AgreeOn(s, n)' <=> AgreeOn(s, n)
      <3>1. s \in Suites
        BY DEF Suites
      <3> QED
        BY <1>2, <3>1, Untouched
    <2> QED
      BY <1>8, <1>9, <2>1 DEF CountedEach
  <1>11. CASE Now = "McEliece"
    <2> DEFINE r == Result(FALSE, goodTests'[Now], tests'[Now])
    <2>1. /\ test_result' = Combined(r, test_result)
          /\ suite' = suite + 1 /\ ptr' = 0 /\ got' = <<>>
      BY <1>11 DEF Test, Return
    <2>2. t = 0 /\ g = 0
      BY <1>1, <1>11 DEF KatInv, Counted, NotYet, t, g
    <2>3. r \in {0, 1} /\ (r = 0 <=> good)
      <3>1. goodTests'[Now] \in Nat /\ tests'[Now] \in Nat
        BY <1>4, <1>7
      <3>2. r \in {0, 1} /\ (r = 0 <=> goodTests'[Now] = tests'[Now])
        BY <3>1, ResultIs
      <3> HIDE DEF r
      <3> QED
        BY <1>7, <2>2, <3>2
    <2>4. ASSUME AllWhole PROVE r = 0 <=> Right(Now)
      <3>1. Whole(Now)
        BY <1>3, <2>4 DEF AllWhole
      <3>2. good <=> FirstKeyRight
        BY <1>1, <1>11, <3>1, GoodIsRight DEF good
      <3> HIDE DEF r
      <3> QED
        BY <1>11, <2>3, <3>2 DEF Right
    <2> HIDE DEF r
    <2> QED
      BY <1>1, <1>2, <1>7, <1>10, <1>11, <2>1, <2>3, <2>4, ReturnStep
  <1>12. CASE Now # "McEliece"
    <2>1. got' = <<>> /\ suite' = suite /\ ptr' = ptr /\ test_result' = test_result
      BY <1>12 DEF Test
    <2>2. Now' = Now /\ (Running' <=> Running)
      BY <2>1 DEF Now, Running
    <2>3. FilesInv'
      BY <1>2, Untouched DEF KatInv
    <2>4. FoundLines' = FoundLines
      <3>1. FoundLines' = (t + 1) * Lines(Now) + 0
        <4>1. Len(got') = 0
          BY <2>1
        <4> QED
          BY <1>7, <2>2, <4>1 DEF FoundLines
      <3> QED
        BY <1>3, <3>1
    <2>5. Follow'
      <3>1. /\ ptr \in 0 .. Len(file[Now]) /\ FoundLines <= ptr /\ Lines(Now) \in Nat
            /\ \A p \in 0 .. VECTORS * Lines(Now) :
                  InPlace(Now, p) /\ FoundLines <= p => ptr = FoundLines
        BY <1>1, <1>3, LinesNat DEF KatInv, Follow
      <3>2. \A p : InPlace(Now, p)' <=> InPlace(Now, p)
        BY <1>2, <1>3, <2>2, Untouched
      <3>3. Len(got') = 0 /\ got' \in Seq(Nat)
        BY <2>1
      <3>4. \A j \in 1 .. Len(got') : FALSE
        BY <3>3
      <3>5. /\ ptr' \in 0 .. Len(file'[Now']) /\ Len(got') <= Lines(Now') /\ FoundLines' <= ptr'
        BY <1>2, <2>1, <2>2, <2>4, <3>1, <3>3
      <3>6. ASSUME NEW p \in 0 .. VECTORS * Lines(Now'), InPlace(Now, p)', FoundLines' <= p
            PROVE  ptr' = FoundLines'
        BY <2>1, <2>2, <2>4, <3>1, <3>2, <3>6
      <3> QED
        BY <3>3, <3>4, <3>5, <3>6 DEF Follow
    <2>6. Counted'
      <3>1. NotYet
        BY DEF KatInv, Counted
      <3>2. ASSUME NEW j \in suite + 1 .. 3 PROVE Suite[j] \in Suites /\ Suite[j] # Now
        <4>1. suite \in {1, 2, 3} /\ Now = Suite[suite]
          BY <1>1, RunningSuite, Zenon
        <4>2. j \in {1, 2, 3} /\ j # suite
          BY <4>1
        <4> QED
          BY <4>1, <4>2, SuitesAre DEF Suites
      <3>3. NotYet'
        BY <1>7, <1>12, <2>1, <2>2, <3>1, <3>2 DEF NotYet
      <3> QED
        BY <1>10, <3>3 DEF Counted
    <2>7. Verdict'
      <3>1. Verdict /\ suite \in {1, 2, 3}
        BY <1>1, RunningSuite DEF KatInv
      <3>2. ASSUME NEW j \in 1 .. suite - 1 PROVE Suite[j] \in Suites /\ Suite[j] # Now
        <4>1. Now = Suite[suite]
          BY <1>1, RunningSuite, Zenon
        <4>2. j \in {1, 2, 3} /\ j # suite
          BY <3>1
        <4> QED
          BY <3>1, <4>1, <4>2, SuitesAre DEF Suites
      <3>3. \A j \in 1 .. suite - 1 : tests'[Suite[j]] = tests[Suite[j]]
        BY <1>7, <3>2
      <3>4. AllWhole' <=> AllWhole
        BY <1>2, Untouched
      <3>5. \A j \in 1 .. suite - 1 :
               /\ Right(Suite[j])' <=> Right(Suite[j])
               /\ \A n : /\ Before(Suite[j], n)' <=> Before(Suite[j], n)
                         /\ AgreeOn(Suite[j], n)' <=> AgreeOn(Suite[j], n)
        BY <1>2, <3>2, Untouched
      <3> QED
        BY <1>2, <2>1, <3>1, <3>3, <3>4, <3>5 DEF Verdict
    <2> QED
      BY <2>3, <2>5, <2>6, <2>7 DEF KatInv
  <1> QED
    BY <1>11, <1>12

LEMMA SendLogStep ==
    ASSUME KatInv, SendLog
    PROVE  KatInv'
  <1>1. /\ ~Running /\ log' = (IF test_result = 1 THEN "Test failed!" ELSE "Test passed!")
        /\ file' = file /\ accelFaults' = accelFaults /\ softFaults' = softFaults /\ suite' = suite
        /\ tests' = tests /\ goodTests' = goodTests /\ test_result' = test_result
    BY DEF SendLog
  <1>2. ~Running' /\ Now' = Now
    BY <1>1 DEF Running, Now
  <1>3. FilesInv' /\ Follow' /\ CountedEach'
    BY <1>1, <1>2, Untouched, CountsUntouched DEF KatInv, Follow
  <1>4. NotYet'
    BY <1>1, <1>2 DEF KatInv, Counted, NotYet
  <1>5. Verdict'
    <2>1. Verdict /\ suite = 4
      <3>1. Verdict
        BY DEF KatInv
      <3>2. suite \in 1 .. 4
        BY <3>1 DEF Verdict
      <3>3. ~(suite <= 3)
        BY <1>1, SuitesAre DEF Running
      <3> QED
        BY <3>1, <3>2, <3>3
    <2>2. ASSUME NEW j \in 1 .. suite - 1 PROVE Suite[j] \in Suites
      <3>1. j \in {1, 2, 3}
        BY <2>1
      <3> QED
        BY <3>1, SuitesAre DEF Suites
    <2>3. AllWhole' <=> AllWhole
      BY <1>1, Untouched
    <2>4. \A j \in 1 .. suite - 1 :
             /\ Right(Suite[j])' <=> Right(Suite[j])
             /\ \A n : /\ Before(Suite[j], n)' <=> Before(Suite[j], n)
                       /\ AgreeOn(Suite[j], n)' <=> AgreeOn(Suite[j], n)
      BY <1>1, <2>2, Untouched
    <2>5. /\ log' \in {"none", "Test passed!", "Test failed!"}
          /\ suite' = 4 /\ (log' = "Test passed!" <=> test_result' = 0)
      <3>1. test_result \in {0, 1}
        BY <2>1 DEF Verdict
      <3>2. /\ test_result = 1 => log' = "Test failed!"
            /\ test_result # 1 => log' = "Test passed!"
        BY <1>1, Zenon
      <3>3. "Test failed!" # "Test passed!" /\ 0 # 1
        OBVIOUS
      <3>4. suite' = 4 /\ test_result' = test_result
        BY <1>1, <2>1, Zenon
      <3>5. test_result # 1 <=> test_result = 0
        BY ONLY <3>1
      <3> QED
        BY ONLY <3>2, <3>3, <3>4, <3>5, Zenon
    <2> QED
      BY <1>1, <2>1, <2>3, <2>4, <2>5 DEF Verdict
  <1> QED
    BY <1>3, <1>4, <1>5 DEF KatInv, Counted

LEMMA KatStep == KatInv /\ [Next]_vars => KatInv'
  <1> SUFFICES ASSUME KatInv, [Next]_vars PROVE KatInv'
    OBVIOUS
  <1>1. CASE UNCHANGED vars
    <2>1. /\ file' = file /\ accelFaults' = accelFaults /\ softFaults' = softFaults /\ suite' = suite
          /\ ptr' = ptr /\ got' = got /\ tests' = tests /\ goodTests' = goodTests
          /\ test_result' = test_result /\ log' = log
      BY <1>1 DEF vars
    <2>2. Now' = Now /\ (Running' <=> Running)
      BY <2>1 DEF Now, Running
    <2>3. Counted' /\ Verdict' /\ FilesInv'
      BY <2>1, <2>2, CountsKept, Untouched DEF KatInv
    <2>4. Follow'
      BY <2>1, <2>2 DEF KatInv, Follow, FoundLines, InPlace, LineInPlace
    <2> QED
      BY <2>3, <2>4 DEF KatInv
  <1> QED
    BY <1>1, SearchStep, NoMoreTestsStep, EarlyExitStep, TestStep, SendLogStep DEF Next, Finished

LEMMA KatInvHolds == Spec => []KatInv
  BY InitKat, KatStep, PTL DEF Spec

\* The counts of each suite and the place in its file keep their types, for any number of
\* vectors, whatever line a file lacks.
THEOREM TypeCorrect == Spec => []TypeOK
  <1>1. KatInv => TypeOK
    <2> SUFFICES ASSUME KatInv PROVE TypeOK
      OBVIOUS
    <2>1. /\ suite \in 1 .. Len(Suite) + 1 /\ test_result \in {0, 1}
          /\ log \in {"none", "Test passed!", "Test failed!"}
      <3>1. Verdict /\ Len(Suite) = 3
        BY SuitesAre DEF KatInv
      <3>2. suite \in 1 .. 4
        BY <3>1 DEF Verdict
      <3>3. Len(Suite) + 1 = 4
        BY ONLY <3>1
      <3> QED
        BY <3>1, <3>2, <3>3, Zenon DEF Verdict
    <2>2. Running => ptr \in 0 .. Len(file[Now]) /\ Len(got) <= Len(Tags(Now))
      BY DEF KatInv, Follow, Lines
    <2>3. \A s \in Range(Suite) : goodTests[s] <= tests[s] /\ tests[s] <= VECTORS
      BY SuitesAre, KatSizes DEF KatInv, Counted, CountedEach
    <2> QED
      BY <2>1, <2>2, <2>3 DEF TypeOK
  <1> QED
    BY <1>1, KatInvHolds, PTL

\* With whole files, the log says passed exactly when accelerator and software agree on
\* every vector of SHA and AES and the first key pair is right, for any number of vectors and
\* whichever of them the implementations get wrong.
THEOREM VerdictIsExact == Spec => []VerdictExact
  <1>1. KatInv => VerdictExact
    <2> SUFFICES ASSUME KatInv, log # "none", \A s \in Range(Suite) : Whole(s)
                 PROVE  log = "Test passed!" <=> Agree("SHA") /\ Agree("AES") /\ FirstKeyRight
      BY DEF VerdictExact
    <2>1. AllWhole
      BY SuitesAre DEF AllWhole
    <2>2. suite = 4 /\ (log = "Test passed!" <=> \A j \in 1 .. suite - 1 : Right(Suite[j]))
      BY <2>1 DEF KatInv, Verdict
    <2>3. 1 .. suite - 1 = {1, 2, 3}
      <3>1. suite = 4
        BY <2>2
      <3> QED
        BY ONLY <3>1
    <2>4. (\A j \in 1 .. suite - 1 : Right(Suite[j])) <=>
              Right("SHA") /\ Right("AES") /\ Right("McEliece")
      BY <2>3, SuitesAre
    <2> QED
      BY <2>2, <2>4 DEF Right
  <1> QED
    BY <1>1, KatInvHolds, PTL

\* A passed log means that every vector of SHA and AES before a lost line was tested and
\* agreed, wherever the line was lost.
THEOREM PassedIsTested == Spec => []PassedMeansTested
  <1>1. KatInv => PassedMeansTested
    <2> SUFFICES ASSUME KatInv, log = "Test passed!", NEW s \in {"SHA", "AES"}, NEW n \in Vector, Before(s, n)
                 PROVE  tests[s] >= n /\ AgreeOn(s, n)
      BY DEF PassedMeansTested, AgreeOn
    <2>1. suite = 4 /\ test_result = 0
      BY DEF KatInv, Verdict
    <2>2. PICK j \in 1 .. suite - 1 : Suite[j] = s /\ Suite[j] # "McEliece"
      <3>0. suite = 4
        BY <2>1
      <3>1. 1 \in 1 .. suite - 1 /\ 2 \in 1 .. suite - 1
        BY ONLY <3>0
      <3>2. (s = "SHA" \/ s = "AES") /\ s # "McEliece"
        OBVIOUS
      <3> QED
        BY <3>1, <3>2, SuitesAre, Zenon
    <2> QED
      BY <2>1, <2>2 DEF KatInv, Verdict
  <1> QED
    BY <1>1, KatInvHolds, PTL
==============================================================================
