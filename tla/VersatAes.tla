----------------------------- MODULE VersatAes -----------------------------
(***************************************************************************)
(* AES on the accelerator (versat_aes.c): the calls InitAESEncryption,     *)
(* InitAESDecryption, LoadIV, ExpandKey, Encrypt and Decrypt, and the      *)
(* routines ECB, CBC and CTR that are made of them.                        *)
(*                                                                         *)
(* One run of the accelerator is one step of the key schedule and one      *)
(* round.  Which round it is, which round key it uses and which registers  *)
(* it writes is configuration, taken when the run starts; the program      *)
(* writes the configuration of the next run while the current one goes on. *)
(* Registers, in contrast, are written directly.  In every run              *)
(*                                                                         *)
(*   key[selIn]   takes the next round key, unless key is disabled,        *)
(*   state        takes the round's result,                                *)
(*   lastResult   takes it as well, unless lastResult is disabled,         *)
(*   lastValToAdd takes 0: it is a register without an input.              *)
(*                                                                         *)
(* Runs for other algorithms are runs of this unit, too (ForeignRun).      *)
(***************************************************************************)
EXTENDS AesBlocks

CONSTANTS
    Jobs            \* [mode, is256, key, iv, data]: what the unit is asked to do

VARIABLES
    job,            \* the job in progress
    script,         \* the calls it still has to make
    mem,            \* the buffers of the job
    pc, i,          \* the place in the call, and its loop counter
    lent,           \* another algorithm has had its run since the last call
    cfg, run,       \* configuration registers; configuration of the current run
    running,        \* a run is in progress
    keys, state, lastResult, lastValToAdd

program == <<job, script, mem, pc, i, lent>>
registers == <<keys, state, lastResult, lastValToAdd>>
vars == <<program, cfg, run, running, registers>>

RegFile == 0 .. 15
Datapath == {"FirstAdd", "Round", "LastRound", "InvFirstAdd", "InvRound", "InvLastRound"}
Config == [datapath : Datapath, sel0 : RegFile, sel1 : RegFile, selIn : RegFile,
           keyDisabled : BOOLEAN, lastDisabled : BOOLEAN, rcon : Word, rotate : BOOLEAN]

ASSUME RegFileLargeEnough == ROUNDS128 \in RegFile /\ ROUNDS256 \in RegFile

\* A key has the words its size asks for, and a job has two blocks.
ASSUME JobsAreTyped ==
    \A j \in Jobs :
        /\ j.mode \in {"ECB", "CBC", "CTR", "ECB256"} /\ j.is256 \in BOOLEAN
        /\ j.key \in Seq(Word) /\ Len(j.key) >= Nk(j.is256)
        /\ j.iv \in Block /\ j.data \in Block \X Block

----------------------------------------------------------------------------
(* The accelerator. *)

\* GenericKeySchedule256: x is the key block at output 1, w that at output 0.
Schedule(x, w, rcon, rotate) ==
    LET s == XorWord(XorWord(SubWord(IF rotate THEN RotWord(x[4]) ELSE x[4]), w[1]), rcon)
        a == XorWord(s, w[2])
        b == XorWord(a, w[3])
    IN <<s, a, b, XorWord(b, w[4])>>

\* FullAESRounds, merged from six datapaths.
Round(datapath, x, k, iv) ==
    CASE datapath = "FirstAdd" -> Xor(Xor(x, k), iv)
      [] datapath = "Round" -> Xor(Mix(SubShift(x)), k)
      [] datapath = "LastRound" -> Xor(SubShift(x), k)
      [] datapath = "InvFirstAdd" -> Xor(x, k)
      [] datapath = "InvRound" -> InvMix(Xor(InvSubShift(x), k))
      [] datapath = "InvLastRound" -> Xor(Xor(InvSubShift(x), k), iv)

Idle == ~running                                    \* EndAccelerator returns
StartWith(c) == run' = c /\ running' = TRUE         \* StartAccelerator

HwRun ==
    /\ running
    /\ running' = FALSE
    /\ LET result == Xor(Round(run.datapath, state, keys[run.sel0], lastResult), lastValToAdd)
       IN /\ state' = result
          /\ lastResult' = IF run.lastDisabled THEN lastResult ELSE result
    /\ lastValToAdd' = ZeroBlock
    /\ keys' = IF run.keyDisabled THEN keys
               ELSE [keys EXCEPT ![run.selIn] =
                        Schedule(keys[run.sel1], keys[run.sel0], run.rcon, run.rotate)]
    /\ UNCHANGED <<program, cfg, run>>

----------------------------------------------------------------------------
(* The routines, as the calls they make. *)

Do(op, from, to, add) == [op |-> op, from |-> from, to |-> to, add |-> add]
InitEncryption == Do("InitAESEncryption", "none", "none", "none")
InitDecryption == Do("InitAESDecryption", "none", "none", "none")
ExpandKey == Do("ExpandKey", "none", "none", "none")
LoadIV(from) == Do("LoadIV", from, "none", "none")
Encrypt(from, to) == Do("Encrypt", from, to, "none")
EncryptCBC(from, to) == Do("EncryptCBC", from, to, "none")
EncryptAdd(from, to, add) == Do("Encrypt", from, to, add)
Decrypt(from, to) == Do("Decrypt", from, to, "none")
CopyCounter == Do("memcpy", "iv", "counter", "none")
NextCounter == Do("Swap", "counter", "counter", "none")

ECB == <<InitEncryption, ExpandKey, Encrypt("data1", "enc1"), Encrypt("data2", "enc2"),
         InitDecryption, Decrypt("enc1", "dec1"), Decrypt("enc2", "dec2")>>

CBC == <<InitEncryption, ExpandKey, LoadIV("iv"),
         EncryptCBC("data1", "enc1"), EncryptCBC("data2", "enc2"),
         InitDecryption, LoadIV("iv"), Decrypt("enc1", "dec1"),
         LoadIV("enc1"), Decrypt("enc2", "dec2")>>

CTR == <<InitEncryption, CopyCounter, ExpandKey, EncryptAdd("counter", "enc1", "data1"),
         NextCounter, EncryptAdd("counter", "enc2", "data2"),
         CopyCounter, EncryptAdd("counter", "dec1", "enc1"),
         NextCounter, EncryptAdd("counter", "dec2", "enc2")>>

\* AES_ECB256, twice: the key is expanded anew for every block.
ECB256 == <<InitEncryption, ExpandKey, Encrypt("data1", "enc1"),
            ExpandKey, Encrypt("data2", "enc2")>>

Routine(mode) == CASE mode = "ECB" -> ECB [] mode = "CBC" -> CBC [] mode = "CTR" -> CTR
                   [] mode = "ECB256" -> ECB256

Buffer == {"data1", "data2", "iv", "counter", "enc1", "enc2", "dec1", "dec2"}

----------------------------------------------------------------------------
Init ==
    /\ job \in Jobs
    /\ script = << >>
    /\ mem = [b \in Buffer |-> ZeroBlock]
    /\ pc = "idle"
    /\ i = 0
    /\ lent = FALSE
    /\ cfg = [datapath |-> "FirstAdd", sel0 |-> 0, sel1 |-> 0, selIn |-> 0,
              keyDisabled |-> FALSE, lastDisabled |-> FALSE, rcon |-> Zero, rotate |-> FALSE]
    /\ run = cfg
    /\ running = FALSE
    /\ keys = [r \in RegFile |-> ZeroBlock]
    /\ state = ZeroBlock /\ lastResult = ZeroBlock /\ lastValToAdd = ZeroBlock

\* A job is asked for.
Begin ==
    /\ pc \in {"idle", "done"}
    /\ job' \in Jobs
    /\ script' = Routine(job'.mode)
    /\ mem' = [b \in Buffer |->
                  CASE b = "data1" -> job'.data[1] [] b = "data2" -> job'.data[2]
                    [] b = "iv" -> job'.iv [] OTHER -> ZeroBlock]
    /\ pc' = "call"
    /\ UNCHANGED <<i, lent, cfg, run, running, registers>>

call == Head(script)
Calling(op) == pc = "call" /\ call.op = op

\* The call in progress is over.
Return ==
    /\ script' = Tail(script)
    /\ pc' = IF Tail(script) = << >> THEN "done" ELSE "call"
    /\ lent' = FALSE

NotCleared == lastResult                            \* slip: lastResult is kept
Cleared == ZeroBlock

\* The tables are filled; lastResult and lastValToAdd are cleared.
CallInit ==
    /\ Calling("InitAESEncryption") \/ Calling("InitAESDecryption")
    /\ lastResult' = Cleared
    /\ lastValToAdd' = ZeroBlock
    /\ cfg' = [cfg EXCEPT !.lastDisabled = TRUE]
    /\ Return
    /\ UNCHANGED <<job, mem, i, run, running, keys, state>>

CallLoadIV ==
    /\ Calling("LoadIV")
    /\ lastResult' = mem[call.from]
    /\ cfg' = [cfg EXCEPT !.lastDisabled = TRUE]
    /\ Return
    /\ UNCHANGED <<job, mem, i, run, running, keys, state, lastValToAdd>>

\* memcpy of the counter, and its increment: in the last four bytes only.
Successor(b) == [b EXCEPT ![4] = Plus1(b[4])]
CallCounter ==
    /\ Calling("memcpy") \/ Calling("Swap")
    /\ mem' = [mem EXCEPT !["counter"] =
                  IF call.op = "memcpy" THEN mem["iv"] ELSE Successor(mem["counter"])]
    /\ Return
    /\ UNCHANGED <<job, i, cfg, run, running, registers>>

----------------------------------------------------------------------------
(* ExpandKey *)

KeyBlock(n) == [m \in 1 .. 4 |-> job.key[4 * n + m]]
Expansions == IF job.is256 THEN ROUNDS256 - 1 ELSE ROUNDS128

CallExpandKey ==
    /\ Calling("ExpandKey")
    /\ keys' = IF job.is256 THEN [keys EXCEPT ![0] = KeyBlock(0), ![1] = KeyBlock(1)]
               ELSE [keys EXCEPT ![0] = KeyBlock(0)]
    /\ cfg' = [cfg EXCEPT !.keyDisabled = FALSE]
    /\ i' = 0
    /\ pc' = "schedule"
    /\ UNCHANGED <<job, script, mem, lent, run, running, state, lastResult, lastValToAdd>>

\* rcon and the rotation of 256 bit keys are used in every other run.
RconNow(n) == IF ~job.is256 THEN Rcon(n) ELSE IF n % 2 = 1 THEN Zero ELSE Rcon(n \div 2)

ScheduleConfigure ==
    /\ pc = "schedule" /\ i < Expansions
    /\ cfg' = [cfg EXCEPT
                  !.rcon = RconNow(i),
                  !.sel0 = i,
                  !.sel1 = IF job.is256 THEN i + 1 ELSE i,
                  !.selIn = IF job.is256 THEN i + 2 ELSE i + 1,
                  !.rotate = ~job.is256 \/ (i + 1) % 2 = 1]
    /\ pc' = "scheduleRun"
    /\ UNCHANGED <<job, script, mem, i, lent, run, running, registers>>

ScheduleRun ==
    /\ pc = "scheduleRun"
    /\ Idle
    /\ StartWith(cfg)
    /\ i' = i + 1
    /\ pc' = "schedule"
    /\ UNCHANGED <<job, script, mem, lent, cfg, registers>>

NotDisabled == FALSE                                \* slip
KeptDisabled == TRUE

ScheduleEnd ==
    /\ pc = "schedule" /\ i = Expansions
    /\ Idle
    /\ cfg' = [cfg EXCEPT !.keyDisabled = KeptDisabled]
    /\ Return
    /\ UNCHANGED <<job, mem, i, run, running, registers>>

----------------------------------------------------------------------------
(* Encrypt and Decrypt *)

Encrypting == call.op # "Decrypt"
Nr == Rounds(job.is256)

\* The state is written and the first addition started, with no EndAccelerator;
\* then the datapath is switched to rounds.
CallCipher ==
    /\ Calling("Encrypt") \/ Calling("EncryptCBC") \/ Calling("Decrypt")
    /\ state' = mem[call.from]
    /\ LET first == [cfg EXCEPT !.datapath = IF Encrypting THEN "FirstAdd" ELSE "InvFirstAdd",
                                !.sel0 = IF Encrypting THEN 0 ELSE Nr]
       IN /\ StartWith(first)
          /\ cfg' = [first EXCEPT !.datapath = IF Encrypting THEN "Round" ELSE "InvRound"]
    /\ i' = 1
    /\ pc' = "round"
    /\ UNCHANGED <<job, script, mem, lent, keys, lastResult, lastValToAdd>>

\* The key block of the round to come.
RoundKeyTooFar == IF Encrypting THEN i ELSE Nr - i - 1       \* slip
RoundKeyAt == IF Encrypting THEN i ELSE Nr - i
RoundConfigure ==
    /\ pc = "round" /\ i < Nr
    /\ cfg' = [cfg EXCEPT !.sel0 = RoundKeyAt]
    /\ pc' = "roundRun"
    /\ UNCHANGED <<job, script, mem, i, lent, run, running, registers>>

RoundRun ==
    /\ pc = "roundRun"
    /\ Idle
    /\ StartWith(cfg)
    /\ i' = i + 1
    /\ pc' = "round"
    /\ UNCHANGED <<job, script, mem, lent, cfg, registers>>

LastConfigure ==
    /\ pc = "round" /\ i = Nr
    /\ cfg' = [cfg EXCEPT !.datapath = IF Encrypting THEN "LastRound" ELSE "InvLastRound",
                          !.sel0 = RoundKeyAt,
                          !.lastDisabled = @ /\ call.op # "EncryptCBC"]
    /\ pc' = "add"
    /\ UNCHANGED <<job, script, mem, i, lent, run, running, registers>>

\* EndAccelerator before lastValToAdd is written; the slip forgets it.
AddAnyTime == TRUE
AddGuard == Idle

LastAdd ==
    /\ pc = "add"
    /\ AddGuard
    /\ lastValToAdd' = IF call.add = "none" THEN lastValToAdd ELSE mem[call.add]
    /\ pc' = "lastRun"
    /\ UNCHANGED <<job, script, mem, i, lent, cfg, run, running, keys, state, lastResult>>

\* lastResult is disabled again once the run has taken its configuration.
LastRun ==
    /\ pc = "lastRun"
    /\ StartWith(cfg)
    /\ cfg' = [cfg EXCEPT !.lastDisabled = @ \/ Encrypting]
    /\ pc' = "result"
    /\ UNCHANGED <<job, script, mem, i, lent, registers>>

ReadResult ==
    /\ pc = "result"
    /\ Idle
    /\ mem' = [mem EXCEPT ![call.to] = state]
    /\ Return
    /\ UNCHANGED <<job, i, cfg, run, running, registers>>

----------------------------------------------------------------------------
\* Another algorithm runs the accelerator between two calls, to the end of the
\* run.  A bound of the model: once between two calls.
ForeignRun ==
    /\ pc = "call" /\ Idle /\ ~lent
    /\ StartWith(cfg)
    /\ lent' = TRUE
    /\ pc' = "lent"
    /\ UNCHANGED <<job, script, mem, i, cfg, registers>>

ForeignEnd ==
    /\ pc = "lent" /\ Idle
    /\ pc' = "call"
    /\ UNCHANGED <<job, script, mem, i, lent, cfg, run, running, registers>>

Next ==
    \/ Begin
    \/ CallInit \/ CallLoadIV \/ CallCounter
    \/ CallExpandKey \/ ScheduleConfigure \/ ScheduleRun \/ ScheduleEnd
    \/ CallCipher \/ RoundConfigure \/ RoundRun \/ LastConfigure \/ LastAdd \/ LastRun
    \/ ReadResult
    \/ ForeignRun \/ ForeignEnd
    \/ HwRun

Spec == Init /\ [][Next]_vars

----------------------------------------------------------------------------
(* Correctness. *)

TypeOK ==
    /\ job \in Jobs
    /\ mem \in [Buffer -> Block]
    /\ pc \in {"idle", "done", "call", "schedule", "scheduleRun", "round", "roundRun", "add",
               "lastRun", "result", "lent"}
    /\ i \in RegFile /\ lent \in BOOLEAN /\ running \in BOOLEAN
    /\ cfg \in Config /\ run \in Config
    /\ keys \in [RegFile -> Block]
    /\ state \in Block /\ lastResult \in Block /\ lastValToAdd \in Block

\* The 32 bit counter of the routine CTR does not overflow.
NoCounterOverflow == job.mode = "CTR" => job.iv[4] # Max32

Keys == RoundKeys(job.key, job.is256)

\* A job that is done has encrypted as the software does, and has decrypted back
\* to its data, whatever job came before it and whatever ran in between.
ModesCorrect ==
    pc = "done" =>
        /\ job.mode # "ECB256" => <<mem["dec1"], mem["dec2"]>> = job.data
        /\ NoCounterOverflow =>
             <<mem["enc1"], mem["enc2"]>> = Encrypted(job.mode, Keys, job.is256, job.iv, job.data)

\* Once the key is expanded no run of any algorithm disturbs it, and while it is
\* being expanded the blocks before the one in work are the key schedule.
Expanded == pc # "idle" /\ \A n \in DOMAIN script : script[n].op # "ExpandKey"
ExpandedTo == (IF job.is256 THEN i + 1 ELSE i) - (IF running THEN 1 ELSE 0)
KeyScheduleKept ==
    /\ Expanded => \A r \in 0 .. Nr : keys[r] = Keys[r]
    /\ pc \in {"schedule", "scheduleRun"} => \A r \in 0 .. ExpandedTo : keys[r] = Keys[r]

\* Registers are not written by the program while a run is in progress.
NoWriteDuringRun == [][running => registers' = registers \/ ~running']_vars
============================================================================
