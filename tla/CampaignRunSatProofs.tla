------------------------ MODULE CampaignRunSatProofs ------------------------
(***************************************************************************)
(* The composition of the fuzzer with the script and the solver implements *)
(* FuzzCampaign, for any inputs, files, campaigns and signals.             *)
(***************************************************************************)
EXTENDS CampaignRunSat, TLAPS

\* There is a SUT while the fuzzer waits; the script ends by itself only after
\* the solver (WaitInv of RunSatProofs), and has not started one before it does.
RunInv ==
  /\ pc = "wait" <=> sut # {}
  /\ wpc = "start" => sat = "none"
  /\ reaped => sat \in {"exited", "killed"}
  /\ wpc = "done" => reaped
  /\ orphaned \in BOOLEAN

\* What the fuzzer sees of the run is as before.
LEMMA SeenSame ==
  ASSUME UNCHANGED campaigns, Gone' <=> Gone PROVE UNCHANGED Campaign!vars
BY DEF campaigns, process, files, history, Campaign!vars, Campaign!process,
       Campaign!files, Campaign!history

LEMMA InitRunInv == InitRun => RunInv /\ Campaign!Init
<1> SUFFICES ASSUME InitRun PROVE RunInv /\ Campaign!Init
  OBVIOUS
<1>1. Init /\ Script!Init
  BY DEF InitRun
<1>2. RunInv
  BY <1>1 DEF RunInv, Init, Script!Init
<1>3. Campaign!Init
  BY <1>1 DEF Init, Campaign!Init, NoFile, Campaign!NoFile, Nothing, Campaign!Nothing
<1> QED
  BY <1>2, <1>3

\* The invariant is kept by every step.
LEMMA RunInvStep == RunInv /\ [NextRun]_<<campaigns, script>> => RunInv'
<1> SUFFICES ASSUME RunInv, [NextRun]_<<campaigns, script>> PROVE RunInv'
  OBVIOUS
<1> USE DEF RunInv
<1>1. CASE FuzzerStep
  <2>1. UNCHANGED <<wpc, sat, reaped>>
    BY <1>1 DEF FuzzerStep, script
  <2>2. pc' = "wait" <=> sut' # {}
    BY <1>1 DEF FuzzerStep, Start, UbMake, UbNext, FuncLoad, FuncMake,
       FuncOpenFails, FuncEmpty, FuncNext, RunFails, ReadErr, SaveInput,
       OrphanEnds, ControlC, Restart, process, files, history
  <2>3. UNCHANGED orphaned
    BY <1>1 DEF FuzzerStep, Start, UbMake, UbNext, FuncLoad, FuncMake,
       FuncOpenFails, FuncEmpty, FuncNext, RunFails, ReadErr, SaveInput,
       OrphanEnds, ControlC, Restart, history
  <2> QED
    BY <2>1, <2>2, <2>3
<1>2. CASE CallScript
  BY <1>2 DEF CallScript, RunSut, history
<1>3. CASE ScriptStep
  BY <1>3 DEF ScriptStep, campaigns, process, history, Script!Spawn, Script!TrapInt,
     Script!TrapTerm, Script!TestChild, Script!Reap, Script!WaitReturns,
     Script!Handler, Script!InstallHandlers, Script!Library, Script!ControlC,
     Script!SendSignal, Script!SatGone, Script!WrapperGone
<1>4. CASE ScriptKilled
  BY <1>4 DEF ScriptKilled, Script!KilledBySignal
<1>5. CASE SolverEnds
  BY <1>5 DEF SolverEnds, Script!FinishSearch, process, history
<1>6. CASE SolverSignalled
  <2>1. /\ UNCHANGED <<pc, wpc, reaped>> /\ pc = "wait"
        /\ sat # "none" /\ (sat' = sat \/ sat \notin {"exited", "killed"})
    BY <1>6 DEF SolverSignalled, Script!Deliver, Script!SatGone
  <2>2. sut' # {} /\ UNCHANGED orphaned
    BY <1>6 DEF SolverSignalled
  <2> QED
    BY <2>1, <2>2
<1>7. CASE SystemReturns
  BY <1>7 DEF SystemReturns, script
<1>8. CASE KillFuzzer
  BY <1>8 DEF KillFuzzer, script
<1>9. CASE UNCHANGED <<campaigns, script>>
  BY <1>9 DEF campaigns, process, history, script
<1> QED
  BY <1>1, <1>2, <1>3, <1>4, <1>5, <1>6, <1>7, <1>8, <1>9 DEF NextRun

\* Every step of the composition is a step of FuzzCampaign, or changes nothing
\* in it.
LEMMA RefinementStep ==
  RunInv /\ [NextRun]_<<campaigns, script>> => [Campaign!Next]_(Campaign!vars)
<1> SUFFICES ASSUME RunInv, [NextRun]_<<campaigns, script>>
             PROVE  Campaign!Next \/ UNCHANGED Campaign!vars
  OBVIOUS
<1>1. CASE FuzzerStep
  <2>1. /\ UNCHANGED Gone
        /\ pc = "wait" => pc' = "wait" /\ UNCHANGED sut
        /\ pc # "wait" => pc' # "wait"
    BY <1>1 DEF FuzzerStep, Start, UbMake, UbNext, FuncLoad, FuncMake,
       FuncOpenFails, FuncEmpty, FuncNext, RunFails, ReadErr, SaveInput,
       OrphanEnds, ControlC, Restart, process, script, Gone
  <2>2. Start => Campaign!Start
    BY <2>1 DEF Start, Campaign!Start, Fault, Campaign!Fault
  <2>3. UbMake => Campaign!UbMake
    BY <2>1 DEF UbMake, Campaign!UbMake, Fault, Campaign!Fault, Test,
       Campaign!Test, Put, Campaign!Put, UbInputs, Campaign!UbInputs
  <2>4. UbNext => Campaign!UbNext
    BY <2>1 DEF UbNext, Campaign!UbNext, Removed, Campaign!Removed, Test,
       Campaign!Test, history, Campaign!history
  <2>5. FuncLoad => Campaign!FuncLoad
    BY <2>1 DEF FuncLoad, Campaign!FuncLoad, Removed, Campaign!Removed, FuncTests,
       Campaign!FuncTests, Fault, Campaign!Fault
  <2>6. FuncMake => Campaign!FuncMake
    BY <2>1 DEF FuncMake, Campaign!FuncMake, Test, Campaign!Test, Put,
       Campaign!Put, history, Campaign!history
  <2>7. FuncOpenFails => Campaign!FuncOpenFails
    BY <2>1 DEF FuncOpenFails, Campaign!FuncOpenFails, Fault, Campaign!Fault,
       Test, Campaign!Test, Put, Campaign!Put
  <2>8. FuncEmpty => Campaign!FuncEmpty
    BY <2>1 DEF FuncEmpty, Campaign!FuncEmpty, files, Campaign!files, history,
       Campaign!history
  <2>9. FuncNext => Campaign!FuncNext
    BY <2>1 DEF FuncNext, Campaign!FuncNext, files, Campaign!files, history,
       Campaign!history
  <2>10. RunFails => Campaign!RunFails
    BY <2>1 DEF RunFails, Campaign!RunFails, Fault, Campaign!Fault, files,
       Campaign!files
  <2>11. ReadErr => Campaign!ReadErr
    BY <2>1 DEF ReadErr, Campaign!ReadErr, Test, Campaign!Test, files,
       Campaign!files, history, Campaign!history
  <2>12. SaveInput => Campaign!SaveInput
    BY <2>1 DEF SaveInput, Campaign!SaveInput, Test, Campaign!Test, Put,
       Campaign!Put, Fault, Campaign!Fault
  <2>13. OrphanEnds => Campaign!OrphanEnds
    BY <2>1 DEF OrphanEnds, Campaign!OrphanEnds, Report, Campaign!Report, Put,
       Campaign!Put, Hangs, Campaign!Hangs, process, Campaign!process
  <2>14. ControlC => Campaign!ControlC
    BY <2>1 DEF ControlC, Campaign!ControlC, Stop, Campaign!Stop, files,
       Campaign!files
  <2>15. Restart => Campaign!Restart
    BY <2>1 DEF Restart, Campaign!Restart, files, Campaign!files
  <2> QED
    BY <1>1, <2>2, <2>3, <2>4, <2>5, <2>6, <2>7, <2>8, <2>9, <2>10, <2>11, <2>12, <2>13, <2>14, <2>15
       DEF FuzzerStep, Campaign!Next, Campaign!Fuzzer, Campaign!User
<1>2. CASE CallScript
  <2>1. pc = "run" /\ pc' = "wait" /\ ~Gone' /\ sut = {}
    BY <1>2 DEF CallScript, RunSut, Gone, RunInv, Script!SatGone
  <2>2. Campaign!RunSut
    BY <1>2, <2>1 DEF CallScript, RunSut, Campaign!RunSut, Test, Campaign!Test,
       Put, Campaign!Put, Content, Campaign!Content, NoFile, Campaign!NoFile,
       history, Campaign!history
  <2> QED
    BY <2>2 DEF Campaign!Next, Campaign!Fuzzer
<1>3. CASE ScriptStep
  <2>1. Gone' <=> Gone
    BY <1>3 DEF ScriptStep, Script!Spawn, Script!TrapInt,
       Script!TrapTerm, Script!TestChild, Script!Reap, Script!WaitReturns,
       Script!Handler, Script!InstallHandlers, Script!Library, Script!ControlC,
       Script!SendSignal, Script!SatGone, Script!WrapperGone, Gone, RunInv
  <2> QED
    BY <1>3, <2>1, SeenSame DEF ScriptStep
<1>4. CASE ScriptKilled
  <2>1. CASE sat = "none"
    <3>1. ~Gone /\ Gone' /\ \E s \in sut : TRUE
      BY <1>4, <2>1 DEF ScriptKilled, Script!KilledBySignal, Script!WrapperGone,
         Script!SatGone, Gone, RunInv
    <3>2. Campaign!ControlCEnds
      BY <1>4, <2>1, <3>1 DEF ScriptKilled, Campaign!ControlCEnds, Stop, Campaign!Stop,
         files
    <3> QED
      BY <3>2 DEF Campaign!Next, Campaign!User
  <2>2. CASE sat # "none"
    <3>1. Gone' <=> Gone
      BY <1>4, <2>2 DEF ScriptKilled, Script!KilledBySignal, Gone
    <3>2. UNCHANGED campaigns
      BY <1>4, <2>2 DEF ScriptKilled, campaigns, process, history, files
    <3> QED
      BY <3>1, <3>2, SeenSame
  <2> QED
    BY <2>1, <2>2
<1>5. CASE SolverEnds
  <2>1. pc = "wait" /\ pc' = "wait" /\ ~Gone /\ Gone'
    BY <1>5 DEF SolverEnds, Script!FinishSearch, Gone, process, Script!SatGone
  <2>2. Campaign!SutEnds
    BY <1>5, <2>1 DEF SolverEnds, Campaign!SutEnds, Test, Campaign!Test, Put,
       Campaign!Put, Report, Campaign!Report, Hangs, Campaign!Hangs, process,
       history, Campaign!history
  <2> QED
    BY <2>2 DEF Campaign!Next
<1>6. CASE SolverSignalled
  <2>1. CASE sat' = sat
    <3>1. UNCHANGED campaigns
      BY <1>6, <2>1 DEF SolverSignalled, campaigns, process, files, history
    <3>2. Gone' <=> Gone
      BY <1>6, <2>1 DEF SolverSignalled, Script!Deliver, Gone
    <3> QED
      BY <3>1, <3>2, SeenSame
  <2>2. CASE sat' # sat
    <3>1. /\ pc = "wait" /\ pc' = "wait" /\ ~Gone
          /\ sat' \in {"stuck", "exited", "killed"}
      BY <1>6, <2>2 DEF SolverSignalled, Script!Deliver, Gone, Script!SatGone
    <3>2. CASE sat' = "stuck"
      <4>1. ~Gone'
        BY <3>2 DEF Gone, Script!SatGone
      <4>2. Campaign!ControlCSticks
        BY <1>6, <2>2, <3>1, <3>2, <4>1 DEF SolverSignalled, Campaign!ControlCSticks,
           Stop, Campaign!Stop, files, Campaign!files
      <4> QED
        BY <4>2 DEF Campaign!Next, Campaign!User
    <3>3. CASE sat' # "stuck"
      <4>1. Gone'
        BY <3>1, <3>3 DEF Gone, Script!SatGone
      <4>2. Campaign!ControlCEnds
        BY <1>6, <2>2, <3>1, <3>3, <4>1 DEF SolverSignalled, Campaign!ControlCEnds,
           Stop, Campaign!Stop, Test, Campaign!Test, Put, Campaign!Put, Report,
           Campaign!Report
      <4> QED
        BY <4>2 DEF Campaign!Next, Campaign!User
    <3> QED
      BY <3>2, <3>3
  <2> QED
    BY <2>1, <2>2
<1>7. CASE SystemReturns
  <2>1. CASE Gone
    <3>1. UNCHANGED Campaign!vars
      BY <1>7, <2>1 DEF SystemReturns, Campaign!vars, Campaign!process,
         Campaign!files, Campaign!history, files
    <3> QED
      BY <3>1
  <2>2. CASE ~Gone
    <3>1. wpc = "killed"
      BY <1>7, <2>2 DEF SystemReturns, Script!WrapperGone, Gone, Script!SatGone, RunInv
    <3>2. Campaign!ControlCOrphans
      BY <1>7, <2>2, <3>1 DEF SystemReturns, Campaign!ControlCOrphans, Stop,
         Campaign!Stop, files, Campaign!files
    <3> QED
      BY <3>2 DEF Campaign!Next, Campaign!User
  <2> QED
    BY <2>1, <2>2
<1>8. CASE KillFuzzer
  <2>1. Campaign!Kill
    <3>1. CASE pc = "wait" /\ ~Gone
      BY <1>8, <3>1 DEF KillFuzzer, Campaign!Kill, Stop, Campaign!Stop, files,
         Campaign!files, RunInv
    <3>2. CASE ~(pc = "wait" /\ ~Gone)
      BY <1>8, <3>2 DEF KillFuzzer, Campaign!Kill, Stop, Campaign!Stop, files,
         Campaign!files, RunInv
    <3> QED
      BY <3>1, <3>2
  <2> QED
    BY <2>1 DEF Campaign!Next, Campaign!User
<1>9. CASE UNCHANGED <<campaigns, script>>
  <2>1. Gone' <=> Gone
    BY <1>9 DEF script, Gone
  <2> QED
    BY <1>9, <2>1, SeenSame
<1> QED
  BY <1>1, <1>2, <1>3, <1>4, <1>5, <1>6, <1>7, <1>8, <1>9 DEF NextRun
-----------------------------------------------------------------------------
\* The fuzzer with the script and the solver behaves as FuzzCampaign says.
THEOREM Refinement == SpecRun => CampaignKept
<1>1. SpecRun => []RunInv
  BY InitRunInv, RunInvStep, PTL DEF SpecRun
<1> QED
  BY <1>1, InitRunInv, RefinementStep, PTL DEF SpecRun, CampaignKept, Campaign!Spec
=============================================================================
