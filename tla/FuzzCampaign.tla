---------------------------- MODULE FuzzCampaign ----------------------------
(***************************************************************************)
(* src/fuzz/fuzzer.cpp, src/ub/ub.cpp, src/core/func.cpp, src/util/util.cpp*)
(* as one process that runs a solver (the SUT) through system() and talks  *)
(* to it by files: it writes a .cnf file, the shell it starts empties the  *)
(* .err file and runs the SUT, which may report undefined behaviour there; *)
(* when system() returns the fuzzer reads the .err file and saves the test *)
(* in fuzzed-tests if it finds a report.                                   *)
(*                                                                         *)
(* The functional phase never ends, so a user stops the fuzzer and starts  *)
(* it again: the files are what one campaign leaves to the next.  A SUT    *)
(* that is running when the fuzzer is killed goes on (an orphan) and keeps *)
(* its .err file open.  Control-C reaches both, but system() ignores it in *)
(* the fuzzer while it waits; what it does to the SUT is the outcome of    *)
(* module RunSat.                                                          *)
(*                                                                         *)
(* A test is a pair <<phase, index>>, the number in its file names.  What  *)
(* the transformations of the functional phase do is in FuncTransform; here*)
(* a transformed formula is any input.  A fault is a file, directory or    *)
(* process the system did not give; the code ignores every one of them.    *)
(*                                                                         *)
(* Bounds: MaxIterations tests of the first phase (200 in the code),       *)
(* MaxFuncTests of the endless second, MaxStops signals from the user,     *)
(* MaxFaults faults, MaxCampaigns starts of the program.                   *)
(*                                                                         *)
(* A definition named Slip... is not part of the specification: it is the  *)
(* definition after it with a slip the properties must notice.             *)
(***************************************************************************)
EXTENDS Naturals, Sequences, FiniteSets

CONSTANTS Inputs,                \* the contents of .cnf files
          Reporting,             \* inputs for which the SUT reports UB
          Hanging,               \* inputs for which the SUT does not end
          EducatedInputs,        \* the inputs of the first tests, in order
          InputFiles,            \* number of files in the input directory
          MaxIterations, MaxFuncTests, MaxStops, MaxFaults, MaxCampaigns

ASSUME InputsAssumption == /\ Reporting \subseteq Inputs
                           /\ Hanging \subseteq Inputs
                           /\ EducatedInputs \in Seq(Inputs)
ASSUME BoundsAssumption ==
         /\ InputFiles \in Nat /\ MaxIterations \in Nat /\ MaxFuncTests \in Nat
         /\ MaxStops \in Nat /\ MaxFaults \in Nat /\ MaxCampaigns \in Nat \ {0}

VARIABLES
  \* the process
  pc,                            \* its next step, or "dead"
  phase, index,                  \* the test it is at
  cnf,                           \* the formula in memory
  formulas,                      \* length of the queue of functionalTransform
  sut,                           \* the SUT it waits for, a set of at most one
  \* the file system, and what outlives the process
  cnfFiles, errFiles,            \* in ubTempFiles and func-tests
  saved,                         \* in fuzzed-tests
  dirs,                          \* the directories there are
  orphans,                       \* SUTs nobody waits for, still running
  \* counters
  campaign, stops, faults,
  orphaned, cut                  \* has a SUT been orphaned; was this one stopped

process == <<pc, phase, index, cnf, formulas, sut, cut>>
files == <<cnfFiles, errFiles, saved, dirs>>
history == <<orphans, campaign, stops, faults, orphaned>>
vars == <<process, files, history>>
-----------------------------------------------------------------------------
Tests == ({"ub"} \X (0..MaxIterations)) \cup ({"func"} \X (0..MaxFuncTests))
NoFile == "no such file"
Nothing == [t \in {} |-> 0]      \* an empty directory

Test == <<phase, index>>

\* Directory d after test t's file is written with content x.
Put(d, t, x) == [u \in DOMAIN d \cup {t} |-> IF u = t THEN x ELSE d[u]]
Removed(d, T) == [u \in DOMAIN d \ T |-> d[u]]

\* What a SUT started on the file of test t reads.
Content(t) == IF t \in DOMAIN cnfFiles THEN cnfFiles[t] ELSE NoFile

Hangs(s) == s.stuck \/ s.input \in Hanging

Report(x) == IF x \in Reporting THEN "report" ELSE "none"

Fault == faults < MaxFaults /\ faults' = faults + 1

Init == /\ pc = "start" /\ phase = "ub" /\ index = 0
        /\ cnf = NoFile /\ formulas = 0 /\ sut = {} /\ cut = FALSE
        /\ cnfFiles = Nothing /\ errFiles = Nothing /\ saved = Nothing
        /\ dirs \in SUBSET {"fuzzed-tests", "func-tests"}
        /\ orphans = {}
        /\ campaign = 1 /\ stops = 0 /\ faults = 0 /\ orphaned = FALSE
-----------------------------------------------------------------------------
(***************************************************************************)
(* main and generateUB                                                     *)
(***************************************************************************)
\* checkAndCreateFuzzedTestsDir: std::remove deletes an empty directory only,
\* mkdir fails on one that is still there.
Start ==
  /\ pc = "start"
  /\ \/ dirs' = dirs \cup {"fuzzed-tests"} /\ UNCHANGED faults
     \/ DOMAIN saved = {} /\ dirs' = dirs \ {"fuzzed-tests"} /\ Fault
  /\ phase' = "ub" /\ index' = 0
  /\ pc' = IF MaxIterations = 0 THEN "load" ELSE "make"
  /\ UNCHANGED <<cnf, formulas, sut, cut, cnfFiles, errFiles, saved,
                 orphans, campaign, stops, orphaned>>

\* Educated inputs come first; then a random one, "" included.
UbInputs == IF index < Len(EducatedInputs) THEN {EducatedInputs[index + 1]}
                                           ELSE Inputs

\* makeCnfFile, which returns the name whether or not it wrote the file.
UbMake ==
  /\ pc = "make" /\ phase = "ub"
  /\ cnf' \in UbInputs
  /\ \/ cnfFiles' = Put(cnfFiles, Test, cnf') /\ UNCHANGED faults
     \/ UNCHANGED cnfFiles /\ Fault
  /\ pc' = "run" /\ cut' = FALSE
  /\ UNCHANGED <<phase, index, formulas, sut, errFiles, saved, dirs,
                 orphans, campaign, stops, orphaned>>

\* Slip: a test that was saved keeps its temporary file.
SlipUbKeep ==
  /\ pc = "next" /\ phase = "ub"
  /\ cnfFiles' = IF Test \in DOMAIN saved THEN cnfFiles
                                          ELSE Removed(cnfFiles, {Test})
  /\ index' = index + 1
  /\ pc' = IF index + 1 < MaxIterations THEN "make" ELSE "load"
  /\ UNCHANGED <<phase, cnf, formulas, sut, cut, errFiles, saved, dirs, history>>

\* Slip: iterations are counted for saved tests only.
SlipUbAgain ==
  /\ pc = "next" /\ phase = "ub"
  /\ cnfFiles' = Removed(cnfFiles, {Test})
  /\ index' = IF Test \in DOMAIN saved THEN index + 1 ELSE index
  /\ pc' = IF index' < MaxIterations THEN "make" ELSE "load"
  /\ UNCHANGED <<phase, cnf, formulas, sut, cut, errFiles, saved, dirs, history>>

\* std::remove(inputFile); ++index; ++iterations
UbNext ==
  /\ pc = "next" /\ phase = "ub"
  /\ cnfFiles' = Removed(cnfFiles, {Test})
  /\ index' = index + 1
  /\ pc' = IF index + 1 < MaxIterations THEN "make" ELSE "load"
  /\ UNCHANGED <<phase, cnf, formulas, sut, cut, errFiles, saved, dirs, history>>
-----------------------------------------------------------------------------
(***************************************************************************)
(* functionalTransform                                                     *)
(***************************************************************************)
FuncTests == {"func"} \X Nat

\* Read the input files; createDirectory("func-tests"): rm -rf and mkdir,
\* either of which may fail.  An orphan that wrote there lost its file.
FuncLoad ==
  /\ pc = "load"
  /\ \/ /\ cnfFiles' = Removed(cnfFiles, DOMAIN cnfFiles \cap FuncTests)
        /\ errFiles' = Removed(errFiles, DOMAIN errFiles \cap FuncTests)
        /\ orphans' = {o \in orphans : o.test \notin FuncTests}
        /\ \/ dirs' = dirs \cup {"func-tests"} /\ UNCHANGED faults
           \/ dirs' = dirs \ {"func-tests"} /\ Fault
     \/ "func-tests" \in dirs /\ Fault /\ UNCHANGED <<cnfFiles, errFiles, orphans, dirs>>
  /\ formulas' = InputFiles
  /\ phase' = "func" /\ index' = 0
  /\ pc' = "make"
  /\ UNCHANGED <<cnf, sut, cut, saved, campaign, stops, orphaned>>

\* Slip: front without pop_front.
SlipFuncNoPop ==
  /\ pc = "make" /\ phase = "func" /\ index < MaxFuncTests
  /\ formulas > 0 /\ "func-tests" \in dirs
  /\ cnf' \in Inputs
  /\ cnfFiles' = Put(cnfFiles, Test, cnf')
  /\ pc' = "run" /\ cut' = FALSE
  /\ UNCHANGED <<phase, index, formulas, sut, errFiles, saved, dirs, history>>

\* pop_front, transform, write the .cnf and .txt files.
FuncMake ==
  /\ pc = "make" /\ phase = "func" /\ index < MaxFuncTests
  /\ formulas > 0 /\ "func-tests" \in dirs
  /\ cnf' \in Inputs
  /\ cnfFiles' = Put(cnfFiles, Test, cnf')
  /\ formulas' = formulas - 1
  /\ pc' = "run" /\ cut' = FALSE
  /\ UNCHANGED <<phase, index, sut, errFiles, saved, dirs, history>>

\* A file that cannot be opened, the second one after the first was written:
\* continue, with the formula gone and the index as it was.
FuncOpenFails ==
  /\ pc = "make" /\ phase = "func" /\ index < MaxFuncTests
  /\ formulas > 0
  /\ IF "func-tests" \in dirs THEN Fault ELSE UNCHANGED faults
  /\ \/ UNCHANGED <<cnf, cnfFiles>>
     \/ /\ "func-tests" \in dirs
        /\ cnf' \in Inputs
        /\ cnfFiles' = Put(cnfFiles, Test, cnf')
  /\ formulas' = formulas - 1
  /\ UNCHANGED <<pc, phase, index, sut, cut, errFiles, saved, dirs,
                 orphans, campaign, stops, orphaned>>

\* files.front() with no formula left is undefined: the program ends.
FuncEmpty ==
  /\ pc = "make" /\ phase = "func" /\ formulas = 0
  /\ pc' = "dead"
  /\ UNCHANGED <<phase, index, cnf, formulas, sut, cut, files, history>>

\* files.emplace_back(new formula); ++index
FuncNext ==
  /\ pc = "next" /\ phase = "func"
  /\ formulas' = formulas + 1
  /\ index' = index + 1
  /\ pc' = "make"
  /\ UNCHANGED <<phase, cnf, sut, cut, files, history>>
-----------------------------------------------------------------------------
(***************************************************************************)
(* runSUT, checkUb, saveInput: both phases                                 *)
(***************************************************************************)
\* Slip: 2>> for 2>, the .err file is not emptied.
SlipAppend ==
  /\ pc = "run"
  /\ errFiles' = IF Test \in DOMAIN errFiles THEN errFiles
                                             ELSE Put(errFiles, Test, "none")
  /\ sut' = {[test |-> Test, input |-> Content(Test), stuck |-> FALSE]}
  /\ pc' = "wait"
  /\ UNCHANGED <<phase, index, cnf, formulas, cut, cnfFiles, saved, dirs, history>>

\* std::system: the shell empties the .err file and starts the SUT.
RunSut ==
  /\ pc = "run"
  /\ errFiles' = Put(errFiles, Test, "none")
  /\ sut' = {[test |-> Test, input |-> Content(Test), stuck |-> FALSE]}
  /\ pc' = "wait"
  /\ UNCHANGED <<phase, index, cnf, formulas, cut, cnfFiles, saved, dirs, history>>

\* No process, or no .out file (it is opened before .err): nobody looks at
\* the value of std::system.
RunFails ==
  /\ pc = "run"
  /\ Fault
  /\ pc' = "read"
  /\ UNCHANGED <<phase, index, cnf, formulas, sut, cut, files,
                 orphans, campaign, stops, orphaned>>

\* The SUT writes its report, if any, and ends; system() returns.
SutEnds ==
  /\ pc = "wait"
  /\ \E s \in sut :
       /\ ~Hangs(s)
       /\ errFiles' = IF Report(s.input) = "report"
                        THEN Put(errFiles, Test, "report") ELSE errFiles
  /\ sut' = {}
  /\ pc' = "read"
  /\ UNCHANGED <<phase, index, cnf, formulas, cut, cnfFiles, saved, dirs, history>>

\* An orphan may write into the file it opened, which may be another test's now.
OrphanEnds ==
  /\ \E o \in orphans :
       /\ ~Hangs(o)
       /\ errFiles' \in {errFiles, IF Report(o.input) = "report"
                                  THEN Put(errFiles, o.test, "report") ELSE errFiles}
       /\ orphans' = orphans \ {o}
  /\ UNCHANGED <<process, cnfFiles, saved, dirs, campaign, stops, faults, orphaned>>

\* Slip: only the first phase looks at the errors.
SlipReadUbOnly ==
  /\ pc = "read"
  /\ pc' = IF Test \in DOMAIN errFiles /\ errFiles[Test] = "report" /\ phase = "ub"
             THEN "save" ELSE "next"
  /\ UNCHANGED <<phase, index, cnf, formulas, sut, cut, files, history>>

\* Read the .err file, "" if there is none: !output.empty() && checkUb(output)
ReadErr ==
  /\ pc = "read"
  /\ pc' = IF Test \in DOMAIN errFiles /\ errFiles[Test] = "report"
             THEN "save" ELSE "next"
  /\ UNCHANGED <<phase, index, cnf, formulas, sut, cut, files, history>>

\* saveInput; a file that cannot be opened is only reported.
SaveInput ==
  /\ pc = "save"
  /\ \/ /\ "fuzzed-tests" \in dirs
        /\ saved' = Put(saved, Test, [input |-> cnf, campaign |-> campaign])
        /\ UNCHANGED faults
     \/ "fuzzed-tests" \in dirs /\ Fault /\ UNCHANGED saved
     \/ "fuzzed-tests" \notin dirs /\ UNCHANGED <<saved, faults>>
  /\ pc' = "next"
  /\ UNCHANGED <<phase, index, cnf, formulas, sut, cut, cnfFiles, errFiles, dirs,
                 orphans, campaign, stops, orphaned>>
-----------------------------------------------------------------------------
(***************************************************************************)
(* The user                                                                *)
(***************************************************************************)
Stop == stops < MaxStops /\ stops' = stops + 1

\* kill(1) on the fuzzer, which has no handler.  Its SUT goes on.
Kill ==
  /\ pc # "dead" /\ Stop
  /\ orphans' = orphans \cup sut
  /\ orphaned' = (orphaned \/ sut # {})
  /\ sut' = {} /\ pc' = "dead"
  /\ UNCHANGED <<phase, index, cnf, formulas, cut, files, campaign, faults>>

\* Control-C without a SUT ends the fuzzer.
ControlC ==
  /\ pc \notin {"dead", "wait"} /\ Stop
  /\ pc' = "dead"
  /\ UNCHANGED <<phase, index, cnf, formulas, sut, cut, files,
                 orphans, campaign, faults, orphaned>>

\* With one, the fuzzer goes on when the SUT has ended, by way of runsat.sh and
\* with or without its report.
ControlCEnds ==
  /\ pc = "wait" /\ Stop
  /\ \E s \in sut : errFiles' \in {errFiles, Put(errFiles, Test, Report(s.input))}
  /\ sut' = {} /\ pc' = "read" /\ cut' = TRUE
  /\ UNCHANGED <<phase, index, cnf, formulas, cnfFiles, saved, dirs,
                 orphans, campaign, faults, orphaned>>

\* runsat.sh had no traps yet: it ends, system() returns and the SUT goes on.
ControlCOrphans ==
  /\ pc = "wait" /\ Stop
  /\ orphans' = orphans \cup sut /\ orphaned' = TRUE
  /\ sut' = {} /\ pc' = "read" /\ cut' = TRUE
  /\ UNCHANGED <<phase, index, cnf, formulas, files, campaign, faults>>

\* The handler of the SUT hangs in exit(), and the fuzzer with it.
ControlCSticks ==
  /\ pc = "wait" /\ Stop
  /\ sut' = {[s EXCEPT !.stuck = TRUE] : s \in sut} /\ cut' = TRUE
  /\ UNCHANGED <<pc, phase, index, cnf, formulas, files,
                 orphans, campaign, faults, orphaned>>

\* The user starts the fuzzer again.
Restart ==
  /\ pc = "dead" /\ campaign < MaxCampaigns
  /\ campaign' = campaign + 1
  /\ pc' = "start"
  /\ UNCHANGED <<phase, index, cnf, formulas, sut, cut, files,
                 orphans, stops, faults, orphaned>>
-----------------------------------------------------------------------------
Fuzzer == \/ Start \/ UbMake \/ UbNext \/ FuncLoad \/ FuncMake \/ FuncOpenFails
          \/ FuncEmpty \/ FuncNext \/ RunSut \/ RunFails \/ ReadErr \/ SaveInput

User == \/ Kill \/ ControlC \/ ControlCEnds \/ ControlCOrphans \/ ControlCSticks
        \/ Restart

Next == Fuzzer \/ SutEnds \/ OrphanEnds \/ User

Spec == Init /\ [][Next]_vars

\* The process runs, and a SUT that is able to end does.  No one need send a
\* signal or start the fuzzer again.
FairSpec == Spec /\ WF_vars(Fuzzer) /\ WF_vars(SutEnds)
-----------------------------------------------------------------------------
(***************************************************************************)
(* Properties                                                              *)
(***************************************************************************)
Contents == Inputs \cup {NoFile}
Suts == [test : Tests, input : Contents, stuck : BOOLEAN]

TypeOK ==
  /\ pc \in {"start", "make", "run", "wait", "read", "save", "next", "load", "dead"}
  /\ phase \in {"ub", "func"} /\ index \in 0..(MaxIterations + MaxFuncTests)
  /\ cnf \in Contents /\ formulas \in 0..InputFiles
  /\ sut \subseteq Suts /\ orphans \subseteq Suts
  /\ DOMAIN cnfFiles \subseteq Tests /\ \A t \in DOMAIN cnfFiles : cnfFiles[t] \in Inputs
  /\ DOMAIN errFiles \subseteq Tests
  /\ \A t \in DOMAIN errFiles : errFiles[t] \in {"none", "report"}
  /\ DOMAIN saved \subseteq Tests
  /\ \A t \in DOMAIN saved : saved[t] \in [input : Inputs, campaign : 1..MaxCampaigns]
  /\ campaign \in 1..MaxCampaigns /\ stops \in 0..MaxStops /\ faults \in 0..MaxFaults
  /\ sut # {} <=> pc = "wait"

\* README, "each of which triggers undefined behavior in the SUT": every test
\* in fuzzed-tests does.
EachTriggers == \A t \in DOMAIN saved : saved[t].input \in Reporting

\* The tests of the functional phase do, through any number of stops and
\* restarts with files left behind, as long as the system gives the fuzzer its
\* files and processes; those of the first phase do if besides no SUT has
\* outlived its fuzzer.
SavedTriggers ==
  \A t \in DOMAIN saved :
    faults = 0 /\ (t \in FuncTests \/ ~orphaned) => saved[t].input \in Reporting

\* A test on which the SUT reported undefined behaviour has been saved, as it
\* was run, before the fuzzer goes on to the next.
NothingMissed ==
  pc = "next" /\ faults = 0 /\ ~cut /\ cnf \in Reporting =>
    Test \in DOMAIN saved /\ saved[Test] = [input |-> cnf, campaign |-> campaign]

\* Saved tests that trigger nothing.
WrongTests == {t \in DOMAIN saved : saved[t].input \notin Reporting}

\* A fault, or a stop with all it leaves behind (an orphan and its .err file, old
\* .cnf files), leads to at most one such test, in this campaign or in a later one.
WrongTestsBounded == Cardinality(WrongTests) <= faults + stops

\* fuzzer.cpp, "checks if the directory exists, remove it if necessary, and then
\* recreate it": a campaign that has started finds no test of an earlier one.
FreshTests ==
  pc \notin {"start", "dead"} => \A t \in DOMAIN saved : saved[t].campaign = campaign

\* Beside the .cnf file in use, ubTempFiles holds at most one that each earlier
\* campaign left behind when it was stopped.
TempFilesRemoved ==
  Cardinality(DOMAIN cnfFiles \ (FuncTests \cup {Test})) < campaign

\* The first phase ends unless the fuzzer is stopped or the SUT hangs: nothing
\* else keeps the fuzzer from its functional phase.
UbPhaseEnds ==
  phase = "ub" /\ pc # "dead" ~> \/ phase = "func" \/ pc = "dead"
                                 \/ \E s \in sut : Hangs(s)
=============================================================================
