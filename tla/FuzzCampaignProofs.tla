------------------------- MODULE FuzzCampaignProofs -------------------------
(***************************************************************************)
(* Proofs about the fuzzing campaign, for any inputs and any number of     *)
(* tests, signals, faults and restarts.                                    *)
(***************************************************************************)
EXTENDS FuzzCampaign, Integers, FiniteSetTheorems, TLAPS

\* The steps at which the fuzzer has made a test and not finished with it.
Active == {"run", "wait", "read", "save", "next"}

-----------------------------------------------------------------------------
(***************************************************************************)
(* Types                                                                   *)
(***************************************************************************)
\* Where the process is, and how far: a test is made only below the bound of
\* its phase, and the formula of a functional test is out of the queue.
ControlInv ==
  /\ pc \in {"start", "make", "run", "wait", "read", "save", "next", "load", "dead"}
  /\ phase \in {"ub", "func"} /\ index \in Nat
  /\ cnf \in Contents /\ formulas \in 0..InputFiles
  /\ campaign \in 1..MaxCampaigns /\ stops \in 0..MaxStops /\ faults \in 0..MaxFaults
  /\ pc \in Active => cnf \in Inputs
  /\ phase = "ub" => /\ index <= MaxIterations
                     /\ pc \in Active \cup {"make"} => index < MaxIterations
  /\ phase = "func" => /\ index <= MaxFuncTests
                       /\ pc \in Active => index < MaxFuncTests /\ formulas < InputFiles
  /\ pc = "load" => phase = "ub"

\* The SUT that is waited for runs the test the process is at.
SutInv ==
  /\ sut \subseteq Suts /\ orphans \subseteq Suts
  /\ sut # {} <=> pc = "wait"
  /\ \A s \in sut : s.test = Test

IsDir(d, V) == DOMAIN d \subseteq Tests /\ \A t \in DOMAIN d : d[t] \in V

FileInv == /\ IsDir(cnfFiles, Inputs)
           /\ IsDir(errFiles, {"none", "report"})
           /\ IsDir(saved, [input : Inputs, campaign : 1..MaxCampaigns])

TypeInv == ControlInv /\ SutInv /\ FileInv

LEMMA ConstFacts ==
  /\ InputFiles \in Nat /\ MaxIterations \in Nat /\ MaxFuncTests \in Nat
  /\ MaxStops \in Nat /\ MaxFaults \in Nat /\ MaxCampaigns \in Nat \ {0}
  /\ Reporting \subseteq Inputs /\ EducatedInputs \in Seq(Inputs)
BY BoundsAssumption, InputsAssumption

LEMMA TestFacts ==
  ASSUME ControlInv
  PROVE  Test \in Tests /\ Test[1] = phase /\ Test[2] = index
BY ConstFacts DEF ControlInv, Test, Tests

LEMMA PutFacts ==
  ASSUME NEW d, NEW t, NEW x
  PROVE  /\ DOMAIN Put(d, t, x) = DOMAIN d \cup {t} /\ Put(d, t, x)[t] = x
         /\ \A u \in DOMAIN d : u # t => Put(d, t, x)[u] = d[u]
BY DEF Put

LEMMA PutType ==
  ASSUME NEW V, NEW d, NEW t \in Tests, NEW x \in V, IsDir(d, V)
  PROVE  IsDir(Put(d, t, x), V)
BY DEF Put, IsDir

LEMMA RemovedFacts ==
  ASSUME NEW d, NEW U
  PROVE  /\ DOMAIN Removed(d, U) = DOMAIN d \ U
         /\ \A u \in DOMAIN d \ U : Removed(d, U)[u] = d[u]
BY DEF Removed

LEMMA RemovedType ==
  ASSUME NEW V, NEW d, NEW U, IsDir(d, V)
  PROVE  IsDir(Removed(d, U), V)
BY DEF Removed, IsDir

LEMMA ControlStep == TypeInv /\ [Next]_vars => ControlInv'
<1> SUFFICES ASSUME TypeInv, [Next]_vars PROVE ControlInv'
  OBVIOUS
<1> USE ConstFacts DEF TypeInv, ControlInv, Active
<1>1. CASE Start
  BY <1>1 DEF Start, Fault
<1>2. CASE UbMake
  <2>1. cnf' \in Inputs
    BY <1>2 DEF UbMake, UbInputs
  <2>2. QED
    BY <1>2, <2>1 DEF UbMake, Fault, Contents
<1>3. CASE UbNext
  BY <1>3 DEF UbNext, history
<1>4. CASE FuncLoad
  BY <1>4 DEF FuncLoad, Fault
<1>5. CASE FuncMake
  BY <1>5 DEF FuncMake, history, Contents
<1>6. CASE FuncOpenFails
  BY <1>6 DEF FuncOpenFails, Fault, Contents
<1>7. CASE FuncEmpty
  BY <1>7 DEF FuncEmpty, history
<1>8. CASE FuncNext
  BY <1>8 DEF FuncNext, history
<1>9. CASE RunSut
  BY <1>9 DEF RunSut, history
<1>10. CASE RunFails
  BY <1>10 DEF RunFails, Fault
<1>11. CASE ReadErr
  BY <1>11 DEF ReadErr, history
<1>12. CASE SaveInput
  BY <1>12 DEF SaveInput, Fault
<1>13. CASE SutEnds
  BY <1>13 DEF SutEnds, history
<1>14. CASE OrphanEnds
  BY <1>14 DEF OrphanEnds, process
<1>15. CASE Kill
  BY <1>15 DEF Kill, Stop
<1>16. CASE ControlC
  BY <1>16 DEF ControlC, Stop
<1>17. CASE ControlCEnds
  BY <1>17 DEF ControlCEnds, Stop
<1>18. CASE ControlCOrphans
  BY <1>18 DEF ControlCOrphans, Stop
<1>19. CASE ControlCSticks
  BY <1>19 DEF ControlCSticks, Stop
<1>20. CASE Restart
  BY <1>20 DEF Restart
<1>21. CASE UNCHANGED vars
  BY <1>21 DEF vars, process, history
<1>22. QED
  BY <1>1, <1>2, <1>3, <1>4, <1>5, <1>6, <1>7, <1>8, <1>9, <1>10, <1>11, <1>12,
     <1>13, <1>14, <1>15, <1>16, <1>17, <1>18, <1>19, <1>20, <1>21
     DEF Next, Fuzzer, User

LEMMA SutStep == TypeInv /\ [Next]_vars => SutInv'
<1> SUFFICES ASSUME TypeInv, [Next]_vars PROVE SutInv'
  OBVIOUS
<1>0. Test \in Tests
  BY TestFacts DEF TypeInv
<1> USE DEF TypeInv, SutInv
<1>1. CASE RunSut
  <2>1. Content(Test) \in Contents
    BY DEF FileInv, IsDir, Content, Contents
  <2>2. QED
    BY <1>0, <1>1, <2>1 DEF RunSut, Suts, history, Test
<1>2. CASE ControlCSticks
  <2>1. \A s \in sut : [s EXCEPT !.stuck = TRUE] \in Suts
                       /\ [s EXCEPT !.stuck = TRUE].test = s.test
    BY DEF Suts
  <2>2. QED
    BY <1>2, <2>1 DEF ControlCSticks, Test
<1>3. CASE \/ Start \/ UbMake \/ UbNext \/ FuncLoad \/ FuncMake \/ FuncOpenFails
           \/ FuncEmpty \/ FuncNext
  BY <1>3 DEF Start, UbMake, UbNext, FuncLoad, FuncMake, FuncOpenFails, FuncEmpty,
              FuncNext, history
<1>4. CASE RunFails \/ ReadErr \/ SaveInput \/ SutEnds \/ OrphanEnds
  BY <1>4 DEF RunFails, ReadErr, SaveInput, SutEnds, OrphanEnds, history, process, Test
<1>5. CASE Kill \/ ControlC \/ ControlCEnds \/ ControlCOrphans \/ Restart
  BY <1>5 DEF Kill, ControlC, ControlCEnds, ControlCOrphans, Restart, Test
<1>6. CASE UNCHANGED vars
  BY <1>6 DEF vars, process, history, Test
<1>7. QED
  BY <1>1, <1>2, <1>3, <1>4, <1>5, <1>6 DEF Next, Fuzzer, User

LEMMA FileStep == TypeInv /\ [Next]_vars => FileInv'
<1> SUFFICES ASSUME TypeInv, [Next]_vars PROVE FileInv'
  OBVIOUS
<1>0. Test \in Tests
  BY TestFacts DEF TypeInv
<1> DEFINE Errs == {"none", "report"}
           Records == [input : Inputs, campaign : 1..MaxCampaigns]
<1>1. IsDir(cnfFiles, Inputs) /\ IsDir(errFiles, Errs) /\ IsDir(saved, Records)
  BY DEF TypeInv, FileInv
<1>2. ASSUME NEW x \in Inputs, cnfFiles' \in {cnfFiles, Put(cnfFiles, Test, x)},
             UNCHANGED <<errFiles, saved>>
      PROVE  FileInv'
  <2>1. IsDir(Put(cnfFiles, Test, x), Inputs)
    BY <1>0, <1>1, PutType
  <2>2. IsDir(cnfFiles', Inputs)
    BY <1>1, <1>2, <2>1
  <2>3. QED
    BY <1>1, <1>2, <2>2 DEF FileInv, IsDir
<1>3. ASSUME NEW U, NEW W, cnfFiles' = Removed(cnfFiles, U),
             errFiles' \in {errFiles, Removed(errFiles, W)}, UNCHANGED saved
      PROVE  FileInv'
  <2>1. IsDir(Removed(cnfFiles, U), Inputs) /\ IsDir(Removed(errFiles, W), Errs)
    BY <1>1, RemovedType
  <2>2. IsDir(cnfFiles', Inputs) /\ IsDir(errFiles', Errs)
    BY <1>1, <1>3, <2>1
  <2>3. QED
    BY <1>1, <1>3, <2>2 DEF FileInv, IsDir
<1>4. ASSUME NEW t \in Tests, NEW x \in Errs,
             errFiles' \in {errFiles, Put(errFiles, t, x)}, UNCHANGED <<cnfFiles, saved>>
      PROVE  FileInv'
  <2>1. IsDir(Put(errFiles, t, x), Errs)
    BY <1>1, PutType
  <2>2. IsDir(errFiles', Errs)
    BY <1>1, <1>4, <2>1
  <2>3. QED
    BY <1>1, <1>4, <2>2 DEF FileInv, IsDir
<1>5. CASE UbMake
  <2>1. cnf' \in Inputs
    BY <1>5, ConstFacts DEF UbMake, UbInputs, TypeInv, ControlInv
  <2>2. QED
    BY <1>2, <1>5, <2>1 DEF UbMake
<1>6. CASE FuncMake \/ FuncOpenFails
  <2>1. CASE UNCHANGED <<cnfFiles, errFiles, saved>>
    BY <1>1, <2>1 DEF FileInv, IsDir
  <2>2. CASE cnf' \in Inputs /\ cnfFiles' = Put(cnfFiles, Test, cnf')
    BY <1>2, <1>6, <2>2 DEF FuncMake, FuncOpenFails
  <2>3. QED
    BY <1>6, <2>1, <2>2 DEF FuncMake, FuncOpenFails
<1>7. CASE UbNext
  BY <1>3, <1>7 DEF UbNext
<1>8. CASE FuncLoad
  <2>1. CASE UNCHANGED <<cnfFiles, errFiles, saved>>
    BY <1>1, <2>1 DEF FileInv, IsDir
  <2>2. CASE /\ cnfFiles' = Removed(cnfFiles, DOMAIN cnfFiles \cap FuncTests)
             /\ errFiles' = Removed(errFiles, DOMAIN errFiles \cap FuncTests)
             /\ UNCHANGED saved
    BY <1>3, <2>2
  <2>3. QED
    BY <1>8, <2>1, <2>2 DEF FuncLoad
<1>9. CASE RunSut
  BY <1>0, <1>4, <1>9 DEF RunSut
<1>10. CASE SutEnds
  BY <1>0, <1>4, <1>10 DEF SutEnds
<1>11. CASE OrphanEnds
  <2>1. PICK o \in orphans : errFiles' \in {errFiles, Put(errFiles, o.test, "report")}
    BY <1>11 DEF OrphanEnds
  <2>2. o.test \in Tests
    BY DEF TypeInv, SutInv, Suts
  <2>3. QED
    BY <1>4, <1>11, <2>1, <2>2 DEF OrphanEnds
<1>12. CASE ControlCEnds
  <2>1. PICK s \in sut : errFiles' \in {errFiles, Put(errFiles, Test, Report(s.input))}
    BY <1>12 DEF ControlCEnds
  <2>2. Report(s.input) \in {"none", "report"}
    BY DEF Report
  <2>3. UNCHANGED <<cnfFiles, saved>>
    BY <1>12 DEF ControlCEnds
  <2>4. QED
    BY <1>0, <1>4, <2>1, <2>2, <2>3
<1>13. CASE SaveInput
  <2>1. CASE UNCHANGED saved
    BY <1>1, <1>13, <2>1 DEF SaveInput, FileInv, IsDir
  <2>2. CASE saved' = Put(saved, Test, [input |-> cnf, campaign |-> campaign])
    <3>1. [input |-> cnf, campaign |-> campaign] \in Records
      BY <1>13 DEF SaveInput, TypeInv, ControlInv, Active
    <3>2. UNCHANGED <<cnfFiles, errFiles>>
      BY <1>13 DEF SaveInput
    <3> HIDE DEF Records
    <3>3. IsDir(saved', Records)
      BY <1>0, <1>1, <2>2, <3>1, PutType
    <3>4. QED
      BY <1>1, <3>2, <3>3 DEF FileInv, IsDir, Records
  <2>3. QED
    BY <1>13, <2>1, <2>2 DEF SaveInput
<1>14. CASE UNCHANGED <<cnfFiles, errFiles, saved>>
  BY <1>1, <1>14 DEF FileInv, IsDir
<1>15. CASE \/ Start \/ FuncEmpty \/ FuncNext \/ RunFails \/ ReadErr \/ Kill \/ ControlC
            \/ ControlCOrphans \/ ControlCSticks \/ Restart \/ UNCHANGED vars
  BY <1>14, <1>15 DEF Start, FuncEmpty, FuncNext, RunFails, ReadErr, Kill, ControlC,
                      ControlCOrphans, ControlCSticks, Restart, vars, files
<1>16. QED
  BY <1>5, <1>6, <1>7, <1>8, <1>9, <1>10, <1>11, <1>12, <1>13, <1>15
     DEF Next, Fuzzer, User

LEMMA InitTypeInv == Init => TypeInv
BY ConstFacts DEF Init, TypeInv, ControlInv, SutInv, FileInv, IsDir, Contents, Active,
                  Nothing

LEMMA Typing == Spec => []TypeInv
<1>1. TypeInv /\ [Next]_vars => TypeInv'
  BY ControlStep, SutStep, FileStep DEF TypeInv
<1>2. QED
  BY InitTypeInv, <1>1, PTL DEF Spec

\* The type invariant, for every value of the bounds.
THEOREM TypeCorrect == Spec => []TypeOK
<1>1. TypeInv => TypeOK
  BY ConstFacts DEF TypeInv, ControlInv, SutInv, FileInv, IsDir, TypeOK
<1>2. QED
  BY <1>1, Typing, PTL
-----------------------------------------------------------------------------
(***************************************************************************)
(* What is in the files, as long as there was no fault                     *)
(***************************************************************************)
\* The SUT reads the formula the fuzzer has in memory.
RunInv ==
  faults = 0 =>
    /\ pc \notin {"start", "dead"} => "fuzzed-tests" \in dirs
    /\ pc \in Active => Test \in DOMAIN cnfFiles /\ cnfFiles[Test] = cnf
    /\ \A s \in sut : s.input = cnf

\* SUTs nobody waits for are of earlier functional tests, or of this one once
\* the fuzzer has stopped waiting for it.
OrphanInv ==
  /\ ~orphaned => orphans = {}
  /\ faults = 0 /\ phase = "func" /\ pc \notin {"start", "dead"} =>
       \A o \in orphans :
         o.test[1] = "func" =>
           \/ o.test[2] < index
           \/ o.test[2] = index /\ pc \in {"read", "save", "next"} /\ o.input = cnf

\* No other SUT can have written into the .err file the fuzzer reads.
Undisturbed == faults = 0 /\ (phase = "func" \/ ~orphaned)

Reported == Test \in DOMAIN errFiles /\ errFiles[Test] = "report"

\* A report is in the .err file of a test if its SUT gave one.
ReportInv ==
  /\ Undisturbed => /\ pc \in {"wait", "read"} /\ Reported => cnf \in Reporting
                    /\ pc = "save" => cnf \in Reporting
  /\ faults = 0 /\ ~cut /\ cnf \in Reporting /\ pc = "read" => Reported

LEMMA RunStep == TypeInv /\ RunInv /\ [Next]_vars => RunInv'
<1> SUFFICES ASSUME TypeInv, RunInv, [Next]_vars PROVE RunInv'
  OBVIOUS
<1> USE ConstFacts DEF TypeInv, ControlInv, SutInv, RunInv, Active, Test
<1>1. CASE Start
  BY <1>1 DEF Start, Fault
<1>2. CASE UbMake
  BY <1>2, PutFacts DEF UbMake, Fault, Put
<1>3. CASE UbNext
  BY <1>3 DEF UbNext, history
<1>4. CASE FuncLoad
  BY <1>4 DEF FuncLoad, Fault
<1>5. CASE FuncMake
  BY <1>5 DEF FuncMake, history, Put
<1>6. CASE FuncOpenFails
  BY <1>6 DEF FuncOpenFails, Fault
<1>7. CASE FuncEmpty
  BY <1>7 DEF FuncEmpty, history, files
<1>8. CASE FuncNext
  BY <1>8 DEF FuncNext, history, files
<1>9. CASE RunSut
  BY <1>9 DEF RunSut, history, Content
<1>10. CASE RunFails
  BY <1>10 DEF RunFails, Fault, files
<1>11. CASE ReadErr
  BY <1>11 DEF ReadErr, history, files
<1>12. CASE SaveInput
  BY <1>12 DEF SaveInput, Fault
<1>13. CASE SutEnds
  BY <1>13 DEF SutEnds, history
<1>14. CASE OrphanEnds
  BY <1>14 DEF OrphanEnds, process
<1>15. CASE Kill
  BY <1>15 DEF Kill, Stop, files
<1>16. CASE ControlC
  BY <1>16 DEF ControlC, Stop, files
<1>17. CASE ControlCEnds
  BY <1>17 DEF ControlCEnds, Stop
<1>18. CASE ControlCOrphans
  BY <1>18 DEF ControlCOrphans, Stop, files
<1>19. CASE ControlCSticks
  <2>1. \A s \in sut : [s EXCEPT !.stuck = TRUE].input = s.input
    BY DEF Suts
  <2>2. QED
    BY <1>19, <2>1 DEF ControlCSticks, Stop, files
<1>20. CASE Restart
  BY <1>20 DEF Restart, files
<1>21. CASE UNCHANGED vars
  BY <1>21 DEF vars, process, history, files
<1>22. QED
  BY <1>1, <1>2, <1>3, <1>4, <1>5, <1>6, <1>7, <1>8, <1>9, <1>10, <1>11, <1>12,
     <1>13, <1>14, <1>15, <1>16, <1>17, <1>18, <1>19, <1>20, <1>21
     DEF Next, Fuzzer, User

LEMMA OrphanStep == TypeInv /\ RunInv /\ OrphanInv /\ [Next]_vars => OrphanInv'
<1> SUFFICES ASSUME TypeInv, RunInv, OrphanInv, [Next]_vars PROVE OrphanInv'
  OBVIOUS
<1>0. /\ \A o \in orphans : o.test \in Tests
      /\ \A s \in sut : s.test = Test
      /\ \A t \in Tests : t[1] \in {"ub", "func"} /\ t[2] \in Nat
      /\ \A t \in Tests : t[1] = "func" => t \in FuncTests
      /\ faults \in Nat /\ index \in Nat /\ Test[1] = phase /\ Test[2] = index
  BY ConstFacts, TestFacts DEF TypeInv, ControlInv, SutInv, Suts, Tests, FuncTests
<1> USE <1>0 DEF OrphanInv
<1>1. CASE Start
  BY <1>1 DEF Start, Fault
<1>2. CASE UbMake
  BY <1>2 DEF UbMake, Fault
<1>3. CASE UbNext
  BY <1>3 DEF UbNext, history
<1>4. CASE FuncLoad
  BY <1>4 DEF FuncLoad, Fault
<1>5. CASE FuncMake
  BY <1>5 DEF FuncMake, history
<1>6. CASE FuncOpenFails
  BY <1>6 DEF FuncOpenFails, Fault
<1>7. CASE FuncEmpty
  BY <1>7 DEF FuncEmpty, history, files
<1>8. CASE FuncNext
  BY <1>8 DEF FuncNext, history, files
<1>9. CASE RunSut
  BY <1>9 DEF RunSut, history
<1>10. CASE RunFails
  BY <1>10 DEF RunFails, Fault, files
<1>11. CASE ReadErr
  BY <1>11 DEF ReadErr, history, files
<1>12. CASE SaveInput
  BY <1>12 DEF SaveInput, Fault
<1>13. CASE SutEnds
  BY <1>13 DEF SutEnds, history
<1>14. CASE OrphanEnds
  BY <1>14 DEF OrphanEnds, process
<1>15. CASE Kill
  BY <1>15 DEF Kill, Stop, files
<1>16. CASE ControlC
  BY <1>16 DEF ControlC, Stop, files
<1>17. CASE ControlCEnds
  BY <1>17 DEF ControlCEnds, Stop
<1>18. CASE ControlCOrphans
  BY <1>18 DEF ControlCOrphans, Stop, files, RunInv
<1>19. CASE ControlCSticks
  BY <1>19 DEF ControlCSticks, Stop, files
<1>20. CASE Restart
  BY <1>20 DEF Restart, files
<1>21. CASE UNCHANGED vars
  BY <1>21 DEF vars, process, history, files
<1>22. QED
  BY <1>1, <1>2, <1>3, <1>4, <1>5, <1>6, <1>7, <1>8, <1>9, <1>10, <1>11, <1>12,
     <1>13, <1>14, <1>15, <1>16, <1>17, <1>18, <1>19, <1>20, <1>21
     DEF Next, Fuzzer, User

LEMMA ReportStep == TypeInv /\ RunInv /\ OrphanInv /\ ReportInv /\ [Next]_vars => ReportInv'
<1> SUFFICES ASSUME TypeInv, RunInv, OrphanInv, ReportInv, [Next]_vars PROVE ReportInv'
  OBVIOUS
<1>0. /\ faults \in Nat /\ index \in Nat
      /\ \A s \in sut : Report(s.input) = "report" <=> s.input \in Reporting
  BY ConstFacts DEF TypeInv, ControlInv, Report
<1> USE <1>0 DEF ReportInv, Undisturbed, Reported, Test
<1>1. CASE Start
  BY <1>1 DEF Start, Fault
<1>2. CASE UbMake
  BY <1>2 DEF UbMake, Fault
<1>3. CASE UbNext
  BY <1>3 DEF UbNext, history
<1>4. CASE FuncLoad
  BY <1>4 DEF FuncLoad, Fault
<1>5. CASE FuncMake
  BY <1>5 DEF FuncMake, history
<1>6. CASE FuncOpenFails
  BY <1>6 DEF FuncOpenFails, Fault
<1>7. CASE FuncEmpty
  BY <1>7 DEF FuncEmpty, history, files
<1>8. CASE FuncNext
  BY <1>8 DEF FuncNext, history, files
<1>9. CASE RunSut
  BY <1>9 DEF RunSut, history, Put
<1>10. CASE RunFails
  BY <1>10 DEF RunFails, Fault, files
<1>11. CASE ReadErr
  BY <1>11, ConstFacts DEF ReadErr, history, files
<1>12. CASE SaveInput
  BY <1>12 DEF SaveInput, Fault
<1>13. CASE SutEnds
  <2>1. PICK s \in sut :
          errFiles' = IF Report(s.input) = "report" THEN Put(errFiles, Test, "report")
                                                    ELSE errFiles
    BY <1>13 DEF SutEnds
  <2>2. faults = 0 => s.input = cnf
    BY DEF RunInv
  <2>3. QED
    BY <1>13, <2>1, <2>2 DEF SutEnds, history, Put
<1>14. CASE OrphanEnds
  <2>1. PICK o \in orphans :
          errFiles' \in {errFiles, IF Report(o.input) = "report"
                                   THEN Put(errFiles, o.test, "report") ELSE errFiles}
    BY <1>14 DEF OrphanEnds
  <2>2. Reported => Reported'
    BY <1>14, <2>1 DEF OrphanEnds, process, Put
  <2>3. o.test # Test => (Reported' => Reported)
    BY <1>14, <2>1 DEF OrphanEnds, process, Put
  <2>4. o.test = Test /\ Undisturbed /\ pc \in {"wait", "read"} /\ Reported' /\ ~Reported
          => cnf \in Reporting
    <3> SUFFICES ASSUME o.test = Test, Undisturbed, pc \in {"wait", "read"},
                        Reported', ~Reported
                 PROVE  cnf \in Reporting
      OBVIOUS
    <3>1. phase = "func" /\ o.input = cnf
      BY ConstFacts DEF OrphanInv, TypeInv, ControlInv
    <3>2. errFiles' # errFiles
      BY <1>14 DEF OrphanEnds, process
    <3>3. QED
      BY <2>1, <3>1, <3>2 DEF Report
  <2>5. QED
    BY <1>14, <2>2, <2>3, <2>4 DEF OrphanEnds, process
<1>15. CASE Kill
  BY <1>15 DEF Kill, Stop, files
<1>16. CASE ControlC
  BY <1>16 DEF ControlC, Stop, files
<1>17. CASE ControlCEnds
  <2>1. PICK s \in sut : errFiles' \in {errFiles, Put(errFiles, Test, Report(s.input))}
    BY <1>17 DEF ControlCEnds
  <2>2. faults = 0 => s.input = cnf
    BY DEF RunInv
  <2>3. QED
    BY <1>17, <2>1, <2>2 DEF ControlCEnds, Stop, Put
<1>18. CASE ControlCOrphans
  BY <1>18 DEF ControlCOrphans, Stop, files
<1>19. CASE ControlCSticks
  BY <1>19 DEF ControlCSticks, Stop, files
<1>20. CASE Restart
  BY <1>20 DEF Restart, files
<1>21. CASE UNCHANGED vars
  BY <1>21 DEF vars, process, history, files
<1>22. QED
  BY <1>1, <1>2, <1>3, <1>4, <1>5, <1>6, <1>7, <1>8, <1>9, <1>10, <1>11, <1>12,
     <1>13, <1>14, <1>15, <1>16, <1>17, <1>18, <1>19, <1>20, <1>21
     DEF Next, Fuzzer, User

\* What is kept in fuzzed-tests.
SavedInv == SavedTriggers /\ NothingMissed

LEMMA SavedStep ==
  TypeInv /\ RunInv /\ ReportInv /\ SavedInv /\ [Next]_vars => SavedInv'
<1> SUFFICES ASSUME TypeInv, RunInv, ReportInv, SavedInv, [Next]_vars PROVE SavedInv'
  OBVIOUS
<1>0. faults \in Nat
  BY ConstFacts DEF TypeInv, ControlInv
<1> USE <1>0 DEF SavedInv, SavedTriggers, NothingMissed, Test
<1>1. CASE Start
  BY <1>1 DEF Start, Fault
<1>2. CASE UbMake
  BY <1>2 DEF UbMake, Fault
<1>3. CASE UbNext
  BY <1>3 DEF UbNext, history
<1>4. CASE FuncLoad
  BY <1>4 DEF FuncLoad, Fault
<1>5. CASE FuncMake
  BY <1>5 DEF FuncMake, history
<1>6. CASE FuncOpenFails
  BY <1>6 DEF FuncOpenFails, Fault
<1>7. CASE FuncEmpty
  BY <1>7 DEF FuncEmpty, history, files
<1>8. CASE FuncNext
  BY <1>8 DEF FuncNext, history, files
<1>9. CASE RunSut
  BY <1>9 DEF RunSut, history
<1>10. CASE RunFails
  BY <1>10 DEF RunFails, Fault, files
<1>11. CASE ReadErr
  BY <1>11 DEF ReadErr, history, files, ReportInv, Reported
<1>12. CASE SaveInput
  <2>1. CASE UNCHANGED saved /\ (Fault \/ ("fuzzed-tests" \notin dirs /\ UNCHANGED faults))
    BY <1>12, <2>1 DEF SaveInput, RunInv, Fault
  <2>2. CASE saved' = Put(saved, Test, [input |-> cnf, campaign |-> campaign])
    <3>1. /\ DOMAIN saved' = DOMAIN saved \cup {Test}
          /\ saved'[Test] = [input |-> cnf, campaign |-> campaign]
          /\ \A t \in DOMAIN saved : t # Test => saved'[t] = saved[t]
      BY <2>2 DEF Put
    <3>2. faults' \in {faults, faults + 1} /\ pc = "save" /\ pc' = "next"
          /\ UNCHANGED <<phase, index, cnf, cut, campaign, orphaned>>
      BY <1>12 DEF SaveInput, Fault
    <3>3. faults' = 0 /\ (Test \in FuncTests \/ ~orphaned') => cnf \in Reporting
      BY <3>2 DEF ReportInv, Undisturbed, FuncTests, TypeInv, ControlInv
    <3>4. SavedTriggers'
      BY <3>1, <3>2, <3>3
    <3>5. NothingMissed'
      BY <3>1, <3>2
    <3>6. QED
      BY <3>4, <3>5
  <2>3. \/ UNCHANGED saved /\ (Fault \/ ("fuzzed-tests" \notin dirs /\ UNCHANGED faults))
        \/ saved' = Put(saved, Test, [input |-> cnf, campaign |-> campaign])
    BY <1>12 DEF SaveInput, Fault
  <2>4. QED
    BY <2>1, <2>2, <2>3
<1>13. CASE SutEnds
  BY <1>13 DEF SutEnds, history
<1>14. CASE OrphanEnds
  BY <1>14 DEF OrphanEnds, process
<1>15. CASE Kill
  BY <1>15 DEF Kill, Stop, files
<1>16. CASE ControlC
  BY <1>16 DEF ControlC, Stop, files
<1>17. CASE ControlCEnds
  BY <1>17 DEF ControlCEnds, Stop
<1>18. CASE ControlCOrphans
  BY <1>18 DEF ControlCOrphans, Stop, files
<1>19. CASE ControlCSticks
  BY <1>19 DEF ControlCSticks, Stop, files
<1>20. CASE Restart
  BY <1>20 DEF Restart, files
<1>21. CASE UNCHANGED vars
  BY <1>21 DEF vars, process, history, files
<1>22. QED
  BY <1>1, <1>2, <1>3, <1>4, <1>5, <1>6, <1>7, <1>8, <1>9, <1>10, <1>11, <1>12,
     <1>13, <1>14, <1>15, <1>16, <1>17, <1>18, <1>19, <1>20, <1>21
     DEF Next, Fuzzer, User

LEMMA FilesInvariance == Spec => [](RunInv /\ OrphanInv /\ ReportInv /\ SavedInv)
<1>1. Init => RunInv /\ OrphanInv /\ ReportInv /\ SavedInv
  BY DEF Init, RunInv, OrphanInv, ReportInv, SavedInv, SavedTriggers, NothingMissed,
         Active, Nothing
<1>2. QED
  BY <1>1, RunStep, OrphanStep, ReportStep, SavedStep, Typing, PTL DEF Spec

\* Every test in fuzzed-tests triggers undefined behaviour, unless the system
\* failed the fuzzer or (in the first phase) a SUT outlived it.
THEOREM SavedTrigger == Spec => []SavedTriggers
BY FilesInvariance, PTL DEF SavedInv

\* No report is lost between the .err file and fuzzed-tests.
THEOREM NoneMissed == Spec => []NothingMissed
BY FilesInvariance, PTL DEF SavedInv
-----------------------------------------------------------------------------
(***************************************************************************)
(* The damage of faults and stops                                          *)
(***************************************************************************)
\* The test at hand may be saved although it triggers nothing: its file has
\* another content, or its .err file a report of another run.
AtRisk ==
  \/ pc = "run" /\ Content(Test) # cnf
  \/ pc = "wait" /\ \E s \in sut : s.input # cnf
  \/ pc \in {"wait", "read"} /\ Reported /\ cnf \notin Reporting
  \/ pc = "save" /\ cnf \notin Reporting

Risk == IF AtRisk THEN 1 ELSE 0

\* What damage there is and may be yet: a wrong test, an orphan that may write
\* its report, a test at risk.  Each was paid for by a fault or a stop.
DamageInv ==
  /\ IsFiniteSet(orphans)
  /\ \E s : sut \subseteq {s}
  /\ Cardinality(WrongTests) + Cardinality(orphans) + Risk <= faults + stops

LEMMA WrongTestsFinite ==
  ASSUME TypeInv
  PROVE  IsFiniteSet(WrongTests) /\ Cardinality(WrongTests) \in Nat
<1>1. IsFiniteSet(0..MaxIterations) /\ IsFiniteSet(0..MaxFuncTests)
  <2>1. 0 \in Int /\ MaxIterations \in Int /\ MaxFuncTests \in Int
    BY ConstFacts
  <2>2. QED
    BY <2>1, FS_Interval
<1>2. IsFiniteSet({"ub"}) /\ IsFiniteSet({"func"})
  BY FS_Singleton
<1>3. IsFiniteSet({"ub"} \X (0..MaxIterations))
  BY <1>1, <1>2, FS_Product
<1>4. IsFiniteSet({"func"} \X (0..MaxFuncTests))
  BY <1>1, <1>2, FS_Product
<1>5. IsFiniteSet(Tests)
  BY <1>3, <1>4, FS_Union DEF Tests
<1>6. WrongTests \subseteq Tests
  BY DEF WrongTests, TypeInv, FileInv, IsDir
<1>7. QED
  BY <1>5, <1>6, FS_Subset, FS_CardinalityType

LEMMA DamageStep == TypeInv /\ DamageInv /\ [Next]_vars => DamageInv'
<1> SUFFICES ASSUME TypeInv, DamageInv, [Next]_vars PROVE DamageInv'
  OBVIOUS
<1> DEFINE W == Cardinality(WrongTests)
           O == Cardinality(orphans)
           paid == faults + stops
<1>0. /\ IsFiniteSet(orphans) /\ O \in Nat /\ IsFiniteSet(WrongTests) /\ W \in Nat
      /\ faults \in Nat /\ stops \in Nat /\ W + O + Risk <= paid
      /\ Risk \in {0, 1} /\ Risk' \in {0, 1} /\ Risk \in Nat /\ Risk' \in Nat
  BY WrongTestsFinite, FS_CardinalityType, ConstFacts
     DEF DamageInv, Risk, TypeInv, ControlInv
<1>00. ASSUME AtRisk' => AtRisk PROVE Risk' <= Risk
  BY <1>00 DEF Risk
<1>1. \E s : sut' \subseteq {s}
  <2>1. PICK s : sut \subseteq {s}
    BY DEF DamageInv
  <2>2. CASE RunSut
    BY <2>2 DEF RunSut
  <2>3. CASE ControlCSticks
    <3>1. sut' \subseteq {[s EXCEPT !.stuck = TRUE]}
      BY <2>1, <2>3 DEF ControlCSticks
    <3>2. QED
      BY <3>1
  <2>4. CASE \/ Start \/ UbMake \/ UbNext \/ FuncLoad \/ FuncMake \/ FuncOpenFails
             \/ FuncEmpty \/ FuncNext \/ RunFails \/ ReadErr \/ SaveInput \/ SutEnds
             \/ OrphanEnds \/ Kill \/ ControlC \/ ControlCEnds \/ ControlCOrphans
             \/ Restart \/ UNCHANGED vars
    <3>1. sut' \in {sut, {}}
      BY <2>4 DEF Start, UbMake, UbNext, FuncLoad, FuncMake, FuncOpenFails, FuncEmpty,
         FuncNext, RunFails, ReadErr, SaveInput, SutEnds, OrphanEnds, Kill, ControlC,
         ControlCEnds, ControlCOrphans, Restart, vars, process
    <3>2. QED
      BY <2>1, <3>1
  <2>5. QED
    BY <2>2, <2>3, <2>4 DEF Next, Fuzzer, User
\* The five ways in which the damage can change.
<1>2. ASSUME UNCHANGED saved, orphans' \subseteq orphans,
             \/ AtRisk' => AtRisk /\ paid' >= paid
             \/ paid' = paid + 1,
             paid' \in Nat, paid' >= paid
      PROVE  DamageInv'
  <2>1. WrongTests' = WrongTests
    BY <1>2 DEF WrongTests
  <2>2. IsFiniteSet(orphans') /\ Cardinality(orphans') <= O /\ Cardinality(orphans') \in Nat
    BY <1>0, <1>2, FS_Subset, FS_CardinalityType
  <2> HIDE DEF W, O, paid
  <2>3. W + Cardinality(orphans') + Risk' <= paid'
    <3>0. paid \in Nat /\ W \in Nat /\ O \in Nat /\ W + O + Risk <= paid
      BY <1>0 DEF paid
    <3>1. CASE paid' = paid + 1
      BY <1>0, <2>2, <3>0, <3>1
    <3>2. CASE (AtRisk' => AtRisk) /\ paid' >= paid
      <4>1. Risk' <= Risk
        BY <1>00, <3>2
      <4>2. paid' \in Nat /\ paid' >= paid
        BY <1>2
      <4>3. QED
        BY <1>0, <2>2, <3>0, <4>1, <4>2
    <3>3. QED
      BY <1>2, <3>1, <3>2
  <2>4. QED
    BY <1>1, <2>1, <2>2, <2>3 DEF DamageInv, W, paid
<1>3. ASSUME UNCHANGED saved, orphans' = orphans \cup sut, AtRisk' => AtRisk,
             paid' = paid + 1
      PROVE  DamageInv'
  <2>1. WrongTests' = WrongTests
    BY <1>3 DEF WrongTests
  <2>2. PICK s : sut \subseteq {s}
    BY DEF DamageInv
  <2>3. orphans' \in {orphans, orphans \cup {s}}
    BY <1>3, <2>2
  <2>4. /\ IsFiniteSet(orphans') /\ Cardinality(orphans') <= O + 1
        /\ Cardinality(orphans') \in Nat
    <3>1. CASE orphans' = orphans
      BY <1>0, <3>1
    <3>2. CASE orphans' = orphans \cup {s}
      <4>1. /\ IsFiniteSet(orphans')
            /\ Cardinality(orphans') = IF s \in orphans THEN O ELSE O + 1
        BY <1>0, <3>2, FS_AddElement
      <4>2. QED
        BY <1>0, <4>1
    <3>3. QED
      BY <2>3, <3>1, <3>2
  <2> HIDE DEF W, O, paid
  <2>5. W + Cardinality(orphans') + Risk' <= paid'
    <3>0. /\ paid \in Nat /\ W \in Nat /\ O \in Nat /\ W + O + Risk <= paid
          /\ paid' = paid + 1 /\ Risk \in Nat /\ Risk' \in Nat
      BY <1>0, <1>3 DEF paid
    <3>1. Risk' <= Risk
      BY <1>00, <1>3
    <3>2. QED
      BY <2>4, <3>0, <3>1
  <2>6. QED
    BY <1>1, <2>1, <2>4, <2>5 DEF DamageInv, W, paid
<1>4. CASE OrphanEnds
  <2>1. PICK o \in orphans : orphans' = orphans \ {o}
    BY <1>4 DEF OrphanEnds
  <2>2. IsFiniteSet(orphans') /\ Cardinality(orphans') = O - 1
    BY <1>0, <2>1, FS_RemoveElement
  <2>3. WrongTests' = WrongTests /\ UNCHANGED <<faults, stops>>
    BY <1>4 DEF OrphanEnds, WrongTests
  <2>4. W + Cardinality(orphans') + Risk' <= faults' + stops'
    <3> HIDE DEF W, O
    <3>1. /\ W \in Nat /\ O \in Nat /\ faults + stops \in Nat
          /\ W + O + Risk <= faults + stops /\ Risk >= 0 /\ Risk' <= 1
          /\ Risk \in Nat /\ Risk' \in Nat
      BY <1>0
    <3>2. Cardinality(orphans') = O - 1 /\ faults' + stops' = faults + stops
      BY <2>2, <2>3
    <3>3. QED
      BY <3>1, <3>2
  <2>5. QED
    BY <1>1, <2>2, <2>3, <2>4 DEF DamageInv, W
<1>5. CASE SaveInput
  <2>1. /\ pc = "save" /\ pc' = "next" /\ UNCHANGED <<orphans, stops>>
        /\ faults' \in {faults, faults + 1}
        /\ \/ UNCHANGED saved
           \/ saved' = Put(saved, Test, [input |-> cnf, campaign |-> campaign])
    BY <1>5 DEF SaveInput, Fault
  <2>2. ~AtRisk' /\ Risk' = 0
    BY <2>1 DEF AtRisk, Risk
  <2>3. WrongTests' \subseteq (IF AtRisk THEN WrongTests \cup {Test} ELSE WrongTests)
    <3>1. CASE UNCHANGED saved
      BY <3>1 DEF WrongTests
    <3>2. CASE saved' = Put(saved, Test, [input |-> cnf, campaign |-> campaign])
      <4>1. /\ DOMAIN saved' = DOMAIN saved \cup {Test}
            /\ saved'[Test].input = cnf
            /\ \A t \in DOMAIN saved : t # Test => saved'[t] = saved[t]
        BY <3>2 DEF Put
      <4>2. cnf \notin Reporting <=> AtRisk
        BY <2>1 DEF AtRisk
      <4>3. QED
        BY <4>1, <4>2 DEF WrongTests
    <3>3. QED
      BY <2>1, <3>1, <3>2
  <2>4. /\ IsFiniteSet(WrongTests \cup {Test})
        /\ Cardinality(WrongTests \cup {Test}) <= W + 1
    <3>1. Cardinality(WrongTests \cup {Test}) \in {W, W + 1}
      BY <1>0, FS_AddElement
    <3>2. QED
      BY <1>0, <3>1, FS_AddElement
  <2>5. Cardinality(WrongTests') <= W + Risk /\ Cardinality(WrongTests') \in Nat
    <3>1. CASE AtRisk
      <4>1. /\ Cardinality(WrongTests') <= Cardinality(WrongTests \cup {Test})
            /\ Cardinality(WrongTests') \in Nat
            /\ Cardinality(WrongTests \cup {Test}) \in Nat
        BY <2>3, <2>4, <3>1, FS_Subset, FS_CardinalityType
      <4> HIDE DEF W
      <4>2. QED
        BY <1>0, <2>4, <3>1, <4>1 DEF Risk
    <3>2. CASE ~AtRisk
      BY <1>0, <2>3, <3>2, FS_Subset, FS_CardinalityType DEF Risk
    <3>3. QED
      BY <3>1, <3>2
  <2>6. IsFiniteSet(orphans') /\ Cardinality(orphans') = O
    BY <1>0, <2>1
  <2> HIDE DEF W, O
  <2>7. Cardinality(WrongTests') + Cardinality(orphans') + Risk' <= faults' + stops'
    BY <1>0, <2>1, <2>2, <2>5, <2>6
  <2>8. QED
    BY <1>1, <2>6, <2>7 DEF DamageInv
<1> USE <1>0 DEF Test
<1>6. CASE Start
  BY <1>2, <1>6 DEF Start, Fault, AtRisk
<1>7. CASE UbMake
  <2>1. CASE cnfFiles' = Put(cnfFiles, Test, cnf')
    <3>1. ~AtRisk'
      BY <1>7, <2>1 DEF UbMake, AtRisk, Content, Put
    <3>2. QED
      BY <1>2, <1>7, <3>1 DEF UbMake, Fault
  <2>2. CASE Fault
    BY <1>2, <1>7, <2>2 DEF UbMake, Fault
  <2>3. QED
    BY <1>7, <2>1, <2>2 DEF UbMake
<1>8. CASE UbNext
  BY <1>2, <1>8 DEF UbNext, history, AtRisk
<1>9. CASE FuncLoad
  BY <1>2, <1>9 DEF FuncLoad, Fault, AtRisk
<1>10. CASE FuncMake
  <2>1. ~AtRisk'
    BY <1>10 DEF FuncMake, AtRisk, Content, Put
  <2>2. QED
    BY <1>2, <1>10, <2>1 DEF FuncMake, history
<1>11. CASE FuncOpenFails
  BY <1>2, <1>11 DEF FuncOpenFails, Fault, AtRisk
<1>12. CASE FuncEmpty
  BY <1>2, <1>12 DEF FuncEmpty, history, files, AtRisk
<1>13. CASE FuncNext
  BY <1>2, <1>13 DEF FuncNext, history, files, AtRisk
<1>14. CASE RunSut
  <2>1. AtRisk' => AtRisk
    BY <1>14 DEF RunSut, AtRisk, Reported, Put
  <2>2. QED
    BY <1>2, <1>14, <2>1 DEF RunSut, history
<1>15. CASE RunFails
  BY <1>2, <1>15 DEF RunFails, Fault, files
<1>16. CASE ReadErr
  <2>1. AtRisk' => AtRisk
    BY <1>16 DEF ReadErr, AtRisk, Reported
  <2>2. QED
    BY <1>2, <1>16, <2>1 DEF ReadErr, history, files
<1>17. CASE SutEnds
  <2>1. PICK s \in sut :
          errFiles' = IF Report(s.input) = "report" THEN Put(errFiles, Test, "report")
                                                    ELSE errFiles
    BY <1>17 DEF SutEnds
  <2>2. AtRisk' => AtRisk
    BY <1>17, <2>1 DEF SutEnds, AtRisk, Reported, Report, Put
  <2>3. QED
    BY <1>2, <1>17, <2>2 DEF SutEnds, history
<1>18. CASE Kill
  BY <1>3, <1>18 DEF Kill, Stop, files, AtRisk
<1>19. CASE ControlC
  BY <1>2, <1>19 DEF ControlC, Stop, files
<1>20. CASE ControlCEnds
  BY <1>2, <1>20 DEF ControlCEnds, Stop
<1>21. CASE ControlCOrphans
  <2>1. AtRisk' => AtRisk
    BY <1>21 DEF ControlCOrphans, AtRisk, Reported, files
  <2>2. QED
    BY <1>3, <1>21, <2>1 DEF ControlCOrphans, Stop, files
<1>22. CASE ControlCSticks
  BY <1>2, <1>22 DEF ControlCSticks, Stop, files
<1>23. CASE Restart
  BY <1>2, <1>23 DEF Restart, files, AtRisk
<1>24. CASE UNCHANGED vars
  BY <1>2, <1>24 DEF vars, process, history, files, AtRisk, Content, Reported
<1>25. QED
  BY <1>4, <1>5, <1>6, <1>7, <1>8, <1>9, <1>10, <1>11, <1>12, <1>13, <1>14, <1>15,
     <1>16, <1>17, <1>18, <1>19, <1>20, <1>21, <1>22, <1>23, <1>24
     DEF Next, Fuzzer, User

\* A fault or a stop leads to at most one saved test that triggers nothing, for
\* any inputs and any number of campaigns.
THEOREM DamageBounded == Spec => []WrongTestsBounded
<1>1. Init => DamageInv
  <2> SUFFICES ASSUME Init PROVE DamageInv
    OBVIOUS
  <2>1. /\ WrongTests = {} /\ orphans = {} /\ ~AtRisk /\ sut = {}
        /\ faults = 0 /\ stops = 0
    BY DEF Init, WrongTests, Nothing, AtRisk
  <2>2. QED
    BY <2>1, FS_EmptySet DEF DamageInv, Risk
<1>2. TypeInv /\ DamageInv => WrongTestsBounded
  <2> SUFFICES ASSUME TypeInv, DamageInv PROVE WrongTestsBounded
    OBVIOUS
  <2>1. /\ Cardinality(WrongTests) \in Nat /\ Cardinality(orphans) \in Nat
        /\ Risk \in {0, 1} /\ faults \in Nat /\ stops \in Nat
    BY WrongTestsFinite, FS_CardinalityType, ConstFacts
       DEF DamageInv, Risk, TypeInv, ControlInv
  <2>2. QED
    BY <2>1 DEF DamageInv, WrongTestsBounded
<1>3. QED
  BY <1>1, <1>2, DamageStep, Typing, PTL DEF Spec
-----------------------------------------------------------------------------
(***************************************************************************)
(* The temporary files                                                     *)
(***************************************************************************)
\* The .cnf files in ubTempFiles, and those of them that are left over.
UbFiles == DOMAIN cnfFiles \ FuncTests
LeftOver == UbFiles \ {Test}

\* Between the start of a campaign and its tests, and after them, no file is in
\* use: there it is all of ubTempFiles that is bounded.
TempInv == /\ Cardinality(LeftOver) < campaign
           /\ pc \in {"start", "load"} => Cardinality(UbFiles) < campaign

LEMMA UbFilesFinite ==
  ASSUME TypeInv
  PROVE  /\ IsFiniteSet(UbFiles) /\ Cardinality(UbFiles) \in Nat
         /\ IsFiniteSet(LeftOver) /\ Cardinality(LeftOver) \in Nat
         /\ Cardinality(UbFiles) <= Cardinality(LeftOver) + 1
<1>1. IsFiniteSet({"ub"} \X (0..MaxIterations))
  <2>1. 0 \in Int /\ MaxIterations \in Int
    BY ConstFacts
  <2>2. IsFiniteSet(0..MaxIterations)
    BY <2>1, FS_Interval
  <2>3. IsFiniteSet({"ub"})
    BY FS_Singleton
  <2>4. QED
    BY <2>2, <2>3, FS_Product
<1>2. UbFiles \subseteq {"ub"} \X (0..MaxIterations)
  BY ConstFacts DEF UbFiles, TypeInv, FileInv, IsDir, Tests, FuncTests
<1>3. IsFiniteSet(UbFiles)
  BY <1>1, <1>2, FS_Subset
<1>4. IsFiniteSet(LeftOver)
      /\ Cardinality(LeftOver) = IF Test \in UbFiles THEN Cardinality(UbFiles) - 1
                                                     ELSE Cardinality(UbFiles)
  BY <1>3, FS_RemoveElement DEF LeftOver
<1>5. Cardinality(UbFiles) \in Nat /\ Cardinality(LeftOver) \in Nat
  BY <1>3, <1>4, FS_CardinalityType
<1>6. QED
  BY <1>3, <1>4, <1>5

LEMMA TempStep == TypeInv /\ TempInv /\ [Next]_vars => TempInv'
<1> SUFFICES ASSUME TypeInv, TempInv, [Next]_vars PROVE TempInv'
  OBVIOUS
<1>0. /\ campaign \in Nat /\ IsFiniteSet(UbFiles) /\ IsFiniteSet(LeftOver)
      /\ Cardinality(UbFiles) \in Nat /\ Cardinality(LeftOver) \in Nat
      /\ Cardinality(UbFiles) <= Cardinality(LeftOver) + 1
      /\ phase = "func" => Test \in FuncTests
  BY UbFilesFinite, ConstFacts DEF TypeInv, ControlInv, Test, FuncTests
<1>1. ASSUME LeftOver' = LeftOver, campaign' = campaign, pc' \notin {"start", "load"}
      PROVE  TempInv'
  BY <1>1 DEF TempInv
<1>2. ASSUME UbFiles' \subseteq UbFiles, Cardinality(UbFiles) < campaign'
      PROVE  TempInv'
  <2>1. LeftOver' \subseteq UbFiles
    BY <1>2 DEF LeftOver
  <2>2. Cardinality(LeftOver') <= Cardinality(UbFiles)
        /\ Cardinality(UbFiles') <= Cardinality(UbFiles)
        /\ Cardinality(LeftOver') \in Nat /\ Cardinality(UbFiles') \in Nat
    BY <1>0, <1>2, <2>1, FS_Subset, FS_CardinalityType
  <2>3. campaign' \in Nat
    BY <1>0, ControlStep, ConstFacts DEF ControlInv
  <2>4. QED
    BY <1>0, <1>2, <2>2, <2>3 DEF TempInv
<1>3. CASE UbMake \/ FuncMake \/ FuncOpenFails
  <2>1. UNCHANGED <<phase, index, campaign>> /\ pc' \notin {"start", "load"}
    BY <1>3 DEF UbMake, FuncMake, FuncOpenFails, history
  <2>2. DOMAIN cnfFiles' \in {DOMAIN cnfFiles, DOMAIN cnfFiles \cup {Test}}
    BY <1>3 DEF UbMake, FuncMake, FuncOpenFails, Put
  <2>3. LeftOver' = LeftOver
    BY <2>1, <2>2 DEF LeftOver, UbFiles, Test
  <2>4. QED
    BY <1>1, <2>1, <2>3
<1>4. CASE UbNext
  <2>1. DOMAIN cnfFiles' = DOMAIN cnfFiles \ {Test} /\ campaign' = campaign
    BY <1>4 DEF UbNext, Removed, history
  <2>2. UbFiles' = LeftOver /\ LeftOver' \subseteq LeftOver
    BY <2>1 DEF UbFiles, LeftOver
  <2>3. Cardinality(LeftOver') <= Cardinality(LeftOver) /\ Cardinality(LeftOver') \in Nat
    BY <1>0, <2>2, FS_Subset, FS_CardinalityType
  <2>4. QED
    BY <1>0, <2>1, <2>2, <2>3 DEF TempInv
<1>5. CASE FuncLoad
  <2>1. UbFiles' \subseteq UbFiles /\ campaign' = campaign /\ pc = "load"
    BY <1>5 DEF FuncLoad, Removed, UbFiles
  <2>2. QED
    BY <1>2, <2>1 DEF TempInv
<1>6. CASE Start
  BY <1>2, <1>6 DEF Start, UbFiles, TempInv
<1>7. CASE Restart
  <2>1. UbFiles' = UbFiles /\ campaign' = campaign + 1
    BY <1>7 DEF Restart, files, UbFiles
  <2>2. Cardinality(UbFiles) < campaign'
    BY <1>0, <2>1 DEF TempInv
  <2>3. QED
    BY <1>2, <2>1, <2>2
<1>8. CASE FuncNext
  <2>1. LeftOver' = LeftOver
    <3>1. Test \in FuncTests /\ Test' \in FuncTests
      BY <1>0, <1>8 DEF FuncNext, Test, FuncTests, TypeInv, ControlInv
    <3>2. QED
      BY <1>8, <3>1 DEF FuncNext, files, LeftOver, UbFiles
  <2>2. QED
    BY <1>1, <1>8, <2>1 DEF FuncNext, history
<1>9. CASE \/ FuncEmpty \/ RunSut \/ RunFails \/ ReadErr \/ SaveInput \/ SutEnds \/ Kill
           \/ ControlC \/ ControlCEnds \/ ControlCOrphans \/ ControlCSticks
  <2>1. /\ UNCHANGED <<phase, index, campaign, cnfFiles>>
        /\ pc' \notin {"start", "load"}
    BY <1>9 DEF FuncEmpty, RunSut, RunFails, ReadErr, SaveInput, SutEnds, Kill, ControlC,
       ControlCEnds, ControlCOrphans, ControlCSticks, files, history, TypeInv, ControlInv
  <2>2. LeftOver' = LeftOver
    BY <2>1 DEF LeftOver, UbFiles, Test
  <2>3. QED
    BY <1>1, <2>1, <2>2
<1>10. CASE OrphanEnds \/ UNCHANGED vars
  BY <1>10 DEF OrphanEnds, vars, process, files, history, TempInv, LeftOver, UbFiles, Test
<1>11. QED
  BY <1>3, <1>4, <1>5, <1>6, <1>7, <1>8, <1>9, <1>10 DEF Next, Fuzzer, User

\* Beside the file in use, ubTempFiles holds at most one file for each earlier
\* campaign, however each of them was stopped.
THEOREM TempFilesBounded == Spec => []TempFilesRemoved
<1>1. Init => TempInv
  <2> SUFFICES ASSUME Init PROVE TempInv
    OBVIOUS
  <2>1. UbFiles = {} /\ LeftOver = {} /\ campaign = 1
    BY DEF Init, UbFiles, LeftOver, Nothing
  <2>2. QED
    BY <2>1, FS_EmptySet DEF TempInv
<1>2. TempInv => TempFilesRemoved
  <2>1. LeftOver = DOMAIN cnfFiles \ (FuncTests \cup {Test})
    BY DEF LeftOver, UbFiles
  <2>2. QED
    BY <2>1 DEF TempInv, TempFilesRemoved
<1>3. QED
  BY <1>1, <1>2, TempStep, Typing, PTL DEF Spec
=============================================================================
