---------------------------- MODULE RunSatProofs ----------------------------
(***************************************************************************)
(* The script never outlives its promise to wait, for any number of        *)
(* signals: the proofs of TypeOK and of DoneAfterSolver.                   *)
(***************************************************************************)
EXTENDS RunSat, TLAPS

\* What the loop relies on: kill -0 fails only after the child was reaped, and
\* a process that was reaped had ended.  Nothing starts a second solver.
WaitInv == /\ wpc = "start" => sat = "none"
           /\ reaped => sat \in SatGone
           /\ wpc = "done" => reaped

IInv == TypeOK /\ WaitInv

\* The shell has not started anything.
LEMMA InitInv == Init => IInv
<1> SUFFICES ASSUME Init PROVE IInv
  OBVIOUS
<1>1. TypeOK
  <2>1. sent \in 0..MaxSignals
    BY MaxSignalsAssumption DEF Init
  <2>2. wpc \in Commands \cup WrapperGone
    BY DEF Init, Commands
  <2>3. sat \in {"none"} \cup SatAlive \cup SatGone
    BY DEF Init
  <2>4. traps \subseteq Signals /\ wpend \subseteq Signals /\ spend \subseteq Signals
    BY DEF Init
  <2>5. reaped \in BOOLEAN
    BY DEF Init
  <2> QED
    BY <2>1, <2>2, <2>3, <2>4, <2>5 DEF TypeOK
<1>2. WaitInv
  BY Zenon DEF Init, WaitInv
<1> QED
  BY <1>1, <1>2 DEF IInv

\* Every step of the shell, the solver and the user keeps the types.
LEMMA TypeStep == TypeOK /\ [Next]_vars => TypeOK'
<1> SUFFICES ASSUME TypeOK, [Next]_vars PROVE TypeOK'
  OBVIOUS
<1> USE DEF TypeOK, Commands, WrapperGone, Signals, SatAlive, SatGone
<1>1. CASE Shell
  <2>1. CASE Spawn
    BY <2>1 DEF Spawn
  <2>2. CASE TrapInt
    BY <2>2 DEF TrapInt
  <2>3. CASE TrapTerm
    BY <2>3 DEF TrapTerm
  <2>4. CASE TestChild
    BY <2>4 DEF TestChild
  <2>5. CASE Reap
    BY <2>5 DEF Reap
  <2>6. CASE WaitReturns
    BY <2>6 DEF WaitReturns
  <2>7. CASE Handler
    BY <2>7 DEF Handler
  <2>8. CASE KilledBySignal
    BY <2>8 DEF KilledBySignal
  <2> QED
    BY <1>1, <2>1, <2>2, <2>3, <2>4, <2>5, <2>6, <2>7, <2>8 DEF Shell
<1>2. CASE InstallHandlers
  BY <1>2 DEF InstallHandlers
<1>3. CASE Library
  BY <1>3 DEF Library
<1>4. CASE FinishSearch
  BY <1>4 DEF FinishSearch
<1>5. CASE Deliver
  BY <1>5 DEF Deliver
<1>6. CASE Kill
  BY <1>6, MaxSignalsAssumption DEF Kill, SendSignal
<1>7. CASE ControlC
  BY <1>7, MaxSignalsAssumption DEF ControlC, SendSignal
<1>8. CASE UNCHANGED vars
  BY <1>8 DEF vars
<1> QED
  BY <1>1, <1>2, <1>3, <1>4, <1>5, <1>6, <1>7, <1>8 DEF Next

\* The solver that has ended stays ended, and only TestChild ends the script.
LEMMA WaitStep == IInv /\ [Next]_vars => WaitInv'
<1> SUFFICES ASSUME IInv, [Next]_vars PROVE WaitInv'
  OBVIOUS
<1> USE DEF IInv, TypeOK, WaitInv, Commands, WrapperGone, Signals, SatAlive,
            SatGone
<1>1. CASE Shell
  BY <1>1 DEF Shell, Spawn, TrapInt, TrapTerm, TestChild, Reap, WaitReturns,
              Handler, KilledBySignal
<1>2. CASE InstallHandlers
  BY <1>2 DEF InstallHandlers
<1>3. CASE Library
  BY <1>3 DEF Library
<1>4. CASE FinishSearch
  BY <1>4 DEF FinishSearch
<1>5. CASE Deliver
  BY <1>5 DEF Deliver
<1>6. CASE Kill
  BY <1>6 DEF Kill, SendSignal
<1>7. CASE ControlC
  BY <1>7 DEF ControlC, SendSignal
<1>8. CASE UNCHANGED vars
  BY <1>8 DEF vars
<1> QED
  BY <1>1, <1>2, <1>3, <1>4, <1>5, <1>6, <1>7, <1>8 DEF Next
-----------------------------------------------------------------------------
\* The inductive invariant holds of the script with any number of signals.
THEOREM Invariance == Spec => []IInv
<1>1. IInv /\ [Next]_vars => IInv'
  BY TypeStep, WaitStep DEF IInv
<1> QED
  BY <1>1, InitInv, PTL DEF Spec

\* The shell, the solver and the user keep to their states, and the user sends
\* no more signals than the model lets it.
THEOREM TypeCorrect == Spec => []TypeOK
<1>1. IInv => TypeOK
  BY DEF IInv
<1> QED
  BY <1>1, Invariance, PTL

\* The script ends, if not killed, only after the solver it started.
THEOREM ScriptOutlivesSolver == Spec => []DoneAfterSolver
<1>1. IInv => DoneAfterSolver
  BY DEF IInv, WaitInv, DoneAfterSolver
<1> QED
  BY <1>1, Invariance, PTL
=============================================================================
