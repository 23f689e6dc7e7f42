SPECIFICATION Spec
CONSTANTS
    Word = {0, 1, 2, 3, 4, 5, 6, 7}
    Zero = 0
    XorWord <- SmallXor
    SubWord <- SmallSub
    RotWord <- SmallRot
    Plus1 <- SmallPlus1
    Max32 = 7
    Rcon <- SmallRcon
    SubShift <- SmallSubShift
    InvSubShift <- SmallInvSubShift
    Mix <- SmallMix
    InvMix <- SmallInvMix
    ROUNDS128 = 3
    ROUNDS256 = 4
    Jobs <- SmallJobs
INVARIANTS
    TypeOK
    ModesCorrect
    KeyScheduleKept
PROPERTIES
    NoWriteDuringRun
