------------------------------- MODULE RunSat -------------------------------
(***************************************************************************)
(* solvers/solver3/runsat.sh (the same file in every solver directory) and *)
(* the solver process it starts: a shell that forwards SIGTERM and SIGINT  *)
(* to its child and ends only after it.                                    *)
(*                                                                         *)
(* wpc is the command the shell is at.  A signal for a shell that has no   *)
(* trap for it kills the shell; with a trap the handler runs after the     *)
(* current command, and at once if that command is wait, which then        *)
(* returns although the child has not ended.  The shell learns of the end  *)
(* of its child (reaps it) at any time; kill -0 succeeds until then.       *)
(*                                                                         *)
(* The solver installs termination_handler first thing in main; until then *)
(* SIGTERM kills it and SIGINT, which the shell ignores in a command       *)
(* started with &, is ignored.  The handler calls exit(), which is not     *)
(* async-signal-safe: when it interrupts malloc or printf the process may  *)
(* end or hang on a lock.  Reuse of process numbers is not modelled.       *)
(*                                                                         *)
(* A definition named Slip... is not part of the specification: it is the  *)
(* definition after it with a slip the properties must notice.             *)
(***************************************************************************)
EXTENDS Naturals, FiniteSets

CONSTANT MaxSignals              \* bound: signals sent in a behaviour

ASSUME MaxSignalsAssumption == MaxSignals \in Nat

VARIABLES wpc,                   \* the shell: its next command, or its end
          traps,                 \* the signals with a trap
          wpend,                 \* signals pending for the shell
          sat,                   \* the solver process
          spend,                 \* signals pending for the solver
          reaped,                \* has the shell collected its status?
          sent                   \* signals sent so far

vars == <<wpc, traps, wpend, sat, spend, reaped, sent>>

Signals == {"INT", "TERM"}
Commands == {"start", "trapINT", "trapTERM", "kill0", "wait"}
WrapperGone == {"done", "killed"}

SatAlive == {"starting", "search", "library", "stuck"}
\* exited: exit() was called, so the coverage data is written.
SatGone == {"exited", "killed"}

TypeOK == /\ wpc \in Commands \cup WrapperGone
          /\ traps \subseteq Signals /\ wpend \subseteq Signals
          /\ sat \in {"none"} \cup SatAlive \cup SatGone
          /\ spend \subseteq Signals
          /\ reaped \in BOOLEAN
          /\ sent \in 0..MaxSignals

Init == /\ wpc = "start"
        /\ traps = {} /\ wpend = {}
        /\ sat = "none" /\ spend = {} /\ reaped = FALSE
        /\ sent = 0
-----------------------------------------------------------------------------
(***************************************************************************)
(* The shell                                                               *)
(***************************************************************************)
\* "${SCRIPT_DIR}/sat" "$1" &   PID=$!
Spawn == /\ wpc = "start"
         /\ wpc' = "trapINT"
         /\ sat' = "starting"
         /\ UNCHANGED <<traps, wpend, spend, reaped, sent>>

\* trap handler SIGINT
TrapInt == /\ wpc = "trapINT"
           /\ traps' = traps \cup {"INT"}
           /\ wpc' = "trapTERM"
           /\ UNCHANGED <<wpend, sat, spend, reaped, sent>>

\* trap handler SIGTERM
TrapTerm == /\ wpc = "trapTERM"
            /\ traps' = traps \cup {"TERM"}
            /\ wpc' = "kill0"
            /\ UNCHANGED <<wpend, sat, spend, reaped, sent>>

\* Slip: the loop does not test whether the child is there.
SlipTestForever == /\ wpc = "kill0"
                   /\ wpc' = "wait"
                   /\ UNCHANGED <<traps, wpend, sat, spend, reaped, sent>>

\* while kill -0 $PID
TestChild == /\ wpc = "kill0"
             /\ wpc' = IF reaped THEN "done" ELSE "wait"
             /\ UNCHANGED <<traps, wpend, sat, spend, reaped, sent>>

\* The shell collects the status of its child.
Reap == /\ wpc \notin WrapperGone
        /\ sat \in SatGone /\ ~reaped
        /\ reaped' = TRUE
        /\ UNCHANGED <<wpc, traps, wpend, sat, spend, sent>>

\* wait $PID returns because the child has ended.
WaitReturns == /\ wpc = "wait" /\ reaped
               /\ wpc' = "kill0"
               /\ UNCHANGED <<traps, wpend, sat, spend, reaped, sent>>

\* Slip: the handler sends a signal the solver cannot handle.
SlipHandlerKills ==
  /\ wpc \notin WrapperGone
  /\ \E s \in wpend \cap traps : wpend' = wpend \ {s}
  /\ spend' = IF reaped THEN spend ELSE spend \cup {"KILL"}
  /\ wpc' = IF wpc = "wait" THEN "kill0" ELSE wpc
  /\ UNCHANGED <<traps, sat, reaped, sent>>

\* Slip: the handler forwards nothing.
SlipHandlerSilent ==
  /\ wpc \notin WrapperGone
  /\ \E s \in wpend \cap traps : wpend' = wpend \ {s}
  /\ spend' = spend
  /\ wpc' = IF wpc = "wait" THEN "kill0" ELSE wpc
  /\ UNCHANGED <<traps, sat, reaped, sent>>

\* Slip: one wait and no loop: the script goes on after the handler.
SlipNoLoop ==
  /\ wpc \notin WrapperGone
  /\ \E s \in wpend \cap traps : wpend' = wpend \ {s}
  /\ spend' = IF reaped THEN spend ELSE spend \cup {"TERM"}
  /\ wpc' = IF wpc = "wait" THEN "done" ELSE wpc
  /\ UNCHANGED <<traps, sat, reaped, sent>>

\* handler() { kill -s SIGTERM $PID }, which fails on a collected child; it
\* makes wait return.
Handler == /\ wpc \notin WrapperGone
           /\ \E s \in wpend \cap traps : wpend' = wpend \ {s}
           /\ spend' = IF reaped THEN spend ELSE spend \cup {"TERM"}
           /\ wpc' = IF wpc = "wait" THEN "kill0" ELSE wpc
           /\ UNCHANGED <<traps, sat, reaped, sent>>

\* A signal without a trap ends the shell and leaves the child running.
KilledBySignal == /\ wpc \notin WrapperGone
                  /\ wpend \ traps # {}
                  /\ wpc' = "killed"
                  /\ UNCHANGED <<traps, wpend, sat, spend, reaped, sent>>

Shell == \/ Spawn \/ TrapInt \/ TrapTerm \/ TestChild \/ Reap
         \/ WaitReturns \/ Handler \/ KilledBySignal
-----------------------------------------------------------------------------
(***************************************************************************)
(* The solver                                                              *)
(***************************************************************************)
\* sigaction(SIGTERM, ...), sigaction(SIGINT, ...)
InstallHandlers == /\ sat = "starting"
                   /\ sat' = "search"
                   /\ UNCHANGED <<wpc, traps, wpend, spend, reaped, sent>>

\* Enter or leave malloc, printf, fgets.
Library == /\ \/ sat = "search" /\ sat' = "library"
              \/ sat = "library" /\ sat' = "search"
           /\ UNCHANGED <<wpc, traps, wpend, spend, reaped, sent>>

\* The search may never end: nothing forces this step.
FinishSearch == /\ sat = "search"
                /\ sat' = "exited"
                /\ UNCHANGED <<wpc, traps, wpend, spend, reaped, sent>>

\* The kernel delivers a signal.
Deliver ==
  /\ \E s \in spend :
       /\ spend' = spend \ {s}
       /\ \/ sat = "starting" /\ s = "TERM" /\ sat' = "killed"
          \/ sat = "starting" /\ s = "INT" /\ UNCHANGED sat
          \/ sat = "search" /\ sat' = "exited"
          \/ sat = "library" /\ sat' \in {"exited", "stuck"}
          \/ sat \in SatGone \cup {"stuck"} /\ UNCHANGED sat
  /\ UNCHANGED <<wpc, traps, wpend, reaped, sent>>
-----------------------------------------------------------------------------
(***************************************************************************)
(* Whoever runs the script                                                 *)
(***************************************************************************)
SendSignal(s) == /\ wpc \notin WrapperGone
                 /\ sent < MaxSignals
                 /\ sent' = sent + 1
                 /\ wpend' = wpend \cup {s}

\* kill(1) on the script.
Kill == /\ \E s \in Signals : SendSignal(s)
        /\ UNCHANGED <<wpc, traps, sat, spend, reaped>>

\* Control-C: SIGINT for the whole foreground group.
ControlC == /\ SendSignal("INT")
            /\ spend' = IF sat \in SatAlive THEN spend \cup {"INT"} ELSE spend
            /\ UNCHANGED <<wpc, traps, sat, reaped>>

Next == \/ Shell \/ InstallHandlers \/ Library \/ FinishSearch \/ Deliver
        \/ Kill \/ ControlC

Spec == Init /\ [][Next]_vars

\* The shell runs its commands and pending traps, the kernel delivers signals,
\* and a new process gets to its first lines.
FairSpec == /\ Spec
            /\ WF_vars(Shell) /\ WF_vars(Reap) /\ WF_vars(Handler)
            /\ WF_vars(Deliver) /\ WF_vars(InstallHandlers)
-----------------------------------------------------------------------------
(***************************************************************************)
(* Properties                                                              *)
(***************************************************************************)
\* Comment of the script: wait may return early because of a trap, "so we need
\* to wait in a loop": the script never reports the end of a solver that is
\* still running, however many signals interrupt it.
DoneAfterSolver == wpc = "done" => sat \in SatGone

\* Once both traps are set, a signal to the script stops the solver, even one
\* whose search never ends, unless exit() in its handler hangs.
SignalStopsSolver ==
  (wpend # {} /\ traps = Signals /\ wpc \notin WrapperGone)
    ~> sat \in SatGone \cup {"stuck"}

\* The end of the solver is followed by the end of the script.
ScriptEnds == sat \in SatGone ~> wpc \in WrapperGone
=============================================================================
