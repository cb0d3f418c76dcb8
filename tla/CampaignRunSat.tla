--------------------------- MODULE CampaignRunSat ---------------------------
(***************************************************************************)
(* The fuzzer of FuzzCampaign with the script and the solver of RunSat:    *)
(* while the fuzzer is in system(), the SUT is runsat.sh and its child.    *)
(*                                                                         *)
(* Both read Control-C from the terminal; kill(1) is sent to the fuzzer    *)
(* only.  system() returns when the script has ended, by itself or killed  *)
(* by a signal it has no trap for; the shell system() starts is taken for  *)
(* the script, by which it is replaced.  When the fuzzer has been killed   *)
(* the script matters no more, and a solver that goes on is an orphan.     *)
(*                                                                         *)
(* Bound: MaxSignals is the number of Control-C during one run of the SUT. *)
(* Those that have an effect are counted in stops too.                     *)
(***************************************************************************)
EXTENDS FuzzCampaign

CONSTANT MaxSignals

VARIABLES wpc, traps, wpend, sat, spend, reaped, sent

Script == INSTANCE RunSat

campaigns == <<process, files, history>>
script == <<wpc, traps, wpend, sat, spend, reaped, sent>>

InitRun == Init /\ Script!Init

\* The solver of this run has ended, or will never be started.
Gone == sat \in Script!SatGone \/ (sat = "none" /\ wpc = "killed")
-----------------------------------------------------------------------------
\* All but running the SUT.
FuzzerStep ==
  /\ \/ Start \/ UbMake \/ UbNext \/ FuncLoad \/ FuncMake \/ FuncOpenFails
     \/ FuncEmpty \/ FuncNext \/ RunFails \/ ReadErr \/ SaveInput
     \/ OrphanEnds \/ ControlC \/ Restart
  /\ UNCHANGED script

\* std::system
CallScript ==
  /\ RunSut
  /\ wpc' = "start" /\ traps' = {} /\ wpend' = {}
  /\ sat' = "none" /\ spend' = {} /\ reaped' = FALSE /\ sent' = 0

\* The steps of the script and of the solver that the fuzzer sees nothing of.
ScriptStep ==
  /\ pc = "wait"
  /\ \/ Script!Spawn \/ Script!TrapInt \/ Script!TrapTerm \/ Script!TestChild
     \/ Script!Reap \/ Script!WaitReturns \/ Script!Handler
     \/ Script!InstallHandlers \/ Script!Library \/ Script!ControlC
  /\ UNCHANGED campaigns

\* Before it has started the solver, its death is the end of the run.
ScriptKilled ==
  /\ pc = "wait" /\ Script!KilledBySignal
  /\ IF sat = "none" THEN Stop /\ cut' = TRUE ELSE UNCHANGED <<stops, cut>>
  /\ UNCHANGED <<pc, phase, index, cnf, formulas, sut, files,
                 orphans, campaign, faults, orphaned>>

\* The solver ends by itself, with its report written.
SolverEnds ==
  /\ pc = "wait" /\ Script!FinishSearch
  /\ \E s \in sut : /\ ~Hangs(s)
                    /\ errFiles' = IF Report(s.input) = "report"
                                     THEN Put(errFiles, Test, "report") ELSE errFiles
  /\ UNCHANGED <<process, cnfFiles, saved, dirs, history>>

\* A signal ends the solver, makes it hang, or does nothing.
SolverSignalled ==
  /\ pc = "wait" /\ Script!Deliver
  /\ IF sat' = sat THEN UNCHANGED <<sut, errFiles, stops, cut>>
     ELSE /\ Stop /\ cut' = TRUE
          /\ IF sat' = "stuck"
             THEN /\ sut' = {[s EXCEPT !.stuck = TRUE] : s \in sut}
                  /\ UNCHANGED errFiles
             ELSE /\ \E s \in sut : \/ errFiles' = errFiles
                                    \/ /\ sat # "starting"
                                       /\ errFiles' = Put(errFiles, Test, Report(s.input))
                  /\ UNCHANGED sut
  /\ UNCHANGED <<pc, phase, index, cnf, formulas, cnfFiles, saved, dirs,
                 orphans, campaign, faults, orphaned>>

\* The script has ended.
SystemReturns ==
  /\ pc = "wait" /\ wpc \in Script!WrapperGone
  /\ pc' = "read" /\ sut' = {}
  /\ IF Gone THEN UNCHANGED <<orphans, orphaned, stops, cut>>
     ELSE /\ orphans' = orphans \cup sut /\ orphaned' = TRUE
          /\ IF wpc = "killed" THEN Stop /\ cut' = TRUE
                               ELSE UNCHANGED <<stops, cut>>
  /\ UNCHANGED <<phase, index, cnf, formulas, files, campaign, faults, script>>

\* kill(1) on the fuzzer; the script goes on, unseen.
KillFuzzer ==
  /\ pc # "dead" /\ Stop
  /\ IF pc = "wait" /\ ~Gone
       THEN orphans' = orphans \cup sut /\ orphaned' = TRUE
       ELSE UNCHANGED <<orphans, orphaned>>
  /\ sut' = {} /\ pc' = "dead"
  /\ UNCHANGED <<phase, index, cnf, formulas, cut, files, campaign, faults, script>>

NextRun == \/ FuzzerStep \/ CallScript \/ ScriptStep \/ ScriptKilled \/ SolverEnds
           \/ SolverSignalled \/ SystemReturns \/ KillFuzzer

SpecRun == InitRun /\ [][NextRun]_<<campaigns, script>>
-----------------------------------------------------------------------------
(***************************************************************************)
(* The script does for the fuzzer what FuzzCampaign says of a SUT.         *)
(***************************************************************************)
\* For the fuzzer the run is over when the solver is gone: nothing the script
\* does then changes a file.
Campaign == INSTANCE FuzzCampaign
              WITH pc <- IF pc = "wait" /\ Gone THEN "read" ELSE pc,
                   sut <- IF pc = "wait" /\ Gone THEN {} ELSE sut

\* The fuzzer never goes on while the solver is at work, unless Control-C came
\* before the script had its traps; and what a signal may do to the files,
\* FuzzCampaign knows.
CampaignKept == Campaign!Spec
=============================================================================
