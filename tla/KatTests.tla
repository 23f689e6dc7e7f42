------------------------------ MODULE KatTests ------------------------------
(***************************************************************************)
(* The known-answer tests and the verdict of the firmware: main in         *)
(* iob_soc_opencryptohw_firmware.c, the three suites it runs on the FPGA   *)
(* (crypto_embedded_tests.c) and the loops that read their files and       *)
(* compare (crypto_common_tests.c).                                        *)
(*                                                                         *)
(* A file is a sequence of "TAG = value" lines.  A value is the number of  *)
(* the test vector it belongs to; the result of a computation is the       *)
(* sequence of the values it was given, or Garbage when the implementation *)
(* gets that vector wrong.  A value expected by the file matches a result  *)
(* computed from its own vector alone.                                     *)
(***************************************************************************)
EXTENDS Naturals, FiniteSets, Sequences, SequencesExt

CONSTANTS
    VECTORS,            \* bound of the model: vectors in a file
    FAULTS              \* bound: vectors each implementation may get wrong

ASSUME KatSizes == VECTORS \in Nat \ {0} /\ FAULTS \in Nat

Suite == <<"SHA", "AES", "McEliece">>           \* in the order of main
Vector == 1 .. VECTORS
NoVector == VECTORS + 1                         \* a value of no vector of the file

\* What each loop searches for, in order: first the tag whose absence ends the
\* tests, then the inputs, then the expected results.
FirstTag == [SHA |-> "LEN", AES |-> "COUNT", McEliece |-> "COUNT"]
Inputs == [SHA |-> <<"LEN", "MSG">>, AES |-> <<"KEY", "PLAINTEXT">>, McEliece |-> <<"SEED">>]
Expected == [SHA |-> <<"MD">>, AES |-> <<"CIPHERTEXT">>,
             McEliece |-> <<"PK", "PKL", "SK", "SKL">>]
Tags(s) ==
    (IF FirstTag[s] = Inputs[s][1] THEN <<>> ELSE <<FirstTag[s]>>) \o Inputs[s] \o Expected[s]

----------------------------------------------------------------------------
(* Files. *)

Line(t, n) == [tag |-> t, value |-> n]
GoodFile(s) ==
    LET lines == Len(Tags(s))
    IN [i \in 1 .. VECTORS * lines |->
           Line(Tags(s)[((i - 1) % lines) + 1], ((i - 1) \div lines) + 1)]
\* The same with a line left out, or with a result that is not the vector's.
Without(s, i) == RemoveAt(GoodFile(s), i)
WrongResult(s, i) == [GoodFile(s) EXCEPT ![i].value = NoVector]
BadFiles(s) ==
    {Without(s, i) : i \in DOMAIN GoodFile(s)} \cup
    {WrongResult(s, i) : i \in {j \in DOMAIN GoodFile(s) :
                                   GoodFile(s)[j].tag \in Range(Expected[s])}}

VARIABLES
    file,               \* the content of the file of each suite
    accelFaults, softFaults,    \* <<suite, vector>> an implementation gets wrong
    suite,              \* index of the suite that runs
    ptr,                \* the lines of its file up to ptr have been passed
    got,                \* the values found for this test so far
    tests, goodTests,   \* counts of each suite
    test_result,        \* the verdict of main so far
    log                 \* what test.log says

vars == <<file, accelFaults, softFaults, suite, ptr, got, tests, goodTests, test_result, log>>

Faults(suites) == {fs \in SUBSET (suites \X Vector) : Cardinality(fs) <= FAULTS}

Init ==
    /\ \E s \in Range(Suite) : \E content \in BadFiles(s) \cup {GoodFile(s)} :
           file = [u \in Range(Suite) |-> IF u = s THEN content ELSE GoodFile(u)]
    /\ accelFaults \in Faults(Range(Suite))
    /\ softFaults \in Faults({"SHA", "AES"})
    /\ suite = 1 /\ ptr = 0 /\ got = <<>>
    /\ tests = [s \in Range(Suite) |-> 0] /\ goodTests = tests
    /\ test_result = 0
    /\ log = "none"

Running == suite <= Len(Suite)
Now == Suite[suite]

----------------------------------------------------------------------------
(* SearchAndAdvance: the next line with the tag, whatever lies between. *)

FoundAnywhere(t) == {i \in DOMAIN file[Now] : file[Now][i].tag = t}             \* slip
Found(t) == {i \in DOMAIN file[Now] : i > ptr /\ file[Now][i].tag = t}
Searching == Running /\ Len(got) < Len(Tags(Now))
Wanted == Tags(Now)[Len(got) + 1]

Search ==
    /\ Searching /\ Found(Wanted) # {}
    /\ ptr' = Min(Found(Wanted))
    /\ got' = Append(got, file[Now][ptr'].value)
    /\ UNCHANGED <<file, accelFaults, softFaults, suite, tests, goodTests, test_result, log>>

\* What a suite returns: 1 on earlyExit, else (goodTests == tests) ? 0 : 1.
Result(earlyExit, good, all) == IF earlyExit \/ good # all THEN 1 ELSE 0

\* test_result |= what the suite returns.
Overwritten(result, old) == result                                             \* slip
Combined(result, old) == IF old = 1 THEN 1 ELSE result

Return(earlyExit, good, all) ==
    /\ test_result' = Combined(Result(earlyExit, good, all), test_result)
    /\ suite' = suite + 1
    /\ ptr' = 0 /\ got' = <<>>

\* No first tag: the file is done.
NoMoreTests ==
    /\ Searching /\ got = <<>> /\ Found(Wanted) = {}
    /\ Return(FALSE, goodTests[Now], tests[Now])
    /\ UNCHANGED <<file, accelFaults, softFaults, tests, goodTests, log>>

\* A later tag is missing.  The loops of SHA and AES set earlyExit; that of McEliece
\* prints that something is wrong with the file, and leaves.
EarlyExit ==
    /\ Searching /\ got # <<>> /\ Found(Wanted) = {}
    /\ Return(Now # "McEliece", goodTests[Now], tests[Now])
    /\ UNCHANGED <<file, accelFaults, softFaults, tests, goodTests, log>>

----------------------------------------------------------------------------
(* One test. *)

Garbage == <<>>
Computed(faults, s, in) ==
    IF \E n \in Vector : in = [i \in DOMAIN in |-> n] /\ <<s, n>> \in faults
    THEN Garbage ELSE in
FromInputs(s, values) ==
    LET skip == Len(Tags(s)) - Len(Inputs[s]) - Len(Expected[s])
    IN SubSeq(values, skip + 1, skip + Len(Inputs[s]))
FromFile(s, values) == SubSeq(values, Len(Tags(s)) - Len(Expected[s]) + 1, Len(Tags(s)))
Matches(result, expected) == result # Garbage /\ Range(result) = Range(expected)

\* SHA and AES compare the accelerator with the software, and print what the file
\* expects when they differ.  McEliece compares with the file: the first and the
\* last 1024 digits of each key.
OnlyPublicKey(s, in, expected) ==                                              \* slip
    IF s = "McEliece" THEN Matches(Computed(accelFaults, s, in), <<Head(expected)>>)
    ELSE Computed(accelFaults, s, in) = Computed(softFaults, s, in)
Good(s, in, expected) ==
    IF s = "McEliece" THEN Matches(Computed(accelFaults, s, in), expected)
    ELSE Computed(accelFaults, s, in) = Computed(softFaults, s, in)

Test ==
    /\ Running /\ Len(got) = Len(Tags(Now))
    /\ tests' = [tests EXCEPT ![Now] = @ + 1]
    /\ goodTests' = [goodTests EXCEPT
           ![Now] = IF Good(Now, FromInputs(Now, got), FromFile(Now, got)) THEN @ + 1 ELSE @]
    /\ IF Now = "McEliece"      \* the loop breaks after the first test
       THEN Return(FALSE, goodTests'[Now], tests'[Now])
       ELSE got' = <<>> /\ UNCHANGED <<suite, ptr, test_result>>
    /\ UNCHANGED <<file, accelFaults, softFaults, log>>

SendLog ==
    /\ ~Running /\ log = "none"
    /\ log' = IF test_result = 1 THEN "Test failed!" ELSE "Test passed!"
    /\ UNCHANGED <<file, accelFaults, softFaults, suite, ptr, got, tests, goodTests, test_result>>

\* uart_finish: nothing more happens.
Finished == log # "none" /\ UNCHANGED vars

Next == Search \/ NoMoreTests \/ EarlyExit \/ Test \/ SendLog \/ Finished

Spec == Init /\ [][Next]_vars

----------------------------------------------------------------------------
(* Correctness. *)

TypeOK ==
    /\ suite \in 1 .. Len(Suite) + 1
    /\ Running => ptr \in 0 .. Len(file[Now]) /\ Len(got) <= Len(Tags(Now))
    /\ \A s \in Range(Suite) : goodTests[s] <= tests[s] /\ tests[s] <= VECTORS
    /\ test_result \in {0, 1}
    /\ log \in {"none", "Test passed!", "Test failed!"}

\* With files that have all their lines, test.log says passed exactly when the
\* accelerator and the software agree on every vector of SHA and AES, and the first
\* key pair of McEliece is the one of its file: an error in one suite is not hidden
\* by another, and none is reported that is not there.
Whole(s) == Len(file[s]) = Len(GoodFile(s))
Agree(s) == \A n \in Vector : <<s, n>> \in accelFaults <=> <<s, n>> \in softFaults
FirstKeyRight ==
    /\ <<"McEliece", 1>> \notin accelFaults
    /\ \A i \in 1 .. Len(Tags("McEliece")) : file["McEliece"][i].value = 1
VerdictExact ==
    log # "none" /\ (\A s \in Range(Suite) : Whole(s)) =>
        (log = "Test passed!" <=> Agree("SHA") /\ Agree("AES") /\ FirstKeyRight)

\* A line that is lost never makes the log worse than the tests that were run: if
\* it says passed, every vector whose lines are all there, and which is before the
\* loss, was tested and agreed.
Before(s, n) == \A i \in 1 .. n * Len(Tags(s)) :
                    i \in DOMAIN file[s] /\ file[s][i] = GoodFile(s)[i]
PassedMeansTested ==
    log = "Test passed!" =>
        \A s \in {"SHA", "AES"} : \A n \in Vector :
            Before(s, n) => tests[s] >= n /\ (<<s, n>> \in accelFaults <=> <<s, n>> \in softFaults)

\* README.md says that each algorithm "is tested by comparing it to a KAT": a test
\* run that passed got the results of its files.
ComparedToKat ==
    log = "Test passed!" =>
        \A s \in Range(Suite) : \A n \in Vector :
            Before(s, n) /\ tests[s] >= n => <<s, n>> \notin accelFaults

\* crypto_tests.h says that VersatMcElieceTests returns 0 "if successful, any other
\* number if error": a run that passed has tested a key.
KeyTested == log = "Test passed!" => tests["McEliece"] > 0
============================================================================
