----------------------------- MODULE SatSolver -----------------------------
(***************************************************************************)
(* What a solver under test promises the fuzzer: it reads a formula and    *)
(* says UNSAT only if the formula has no model; it says SAT only if it has *)
(* one, and the literals it then prints are the beginning of a model.  A   *)
(* solver may keep the part about one answer only: the one in Trusted.     *)
(* It may exit at any time without having said anything (SIGTERM, an       *)
(* invalid input), and an answer is never taken back.                      *)
(*                                                                         *)
(* solvers/README.md and the head comments of the solvers state only the   *)
(* interface; the promise is what main of solvers/solver3/sat.c prints.    *)
(***************************************************************************)
EXTENDS Cnf

CONSTANTS Inputs,                \* the formulas the solver may be given
          Trusted                \* the answers that can be relied on

VARIABLES F,                     \* the formula in the file
          said,                  \* the first line printed, "none" before
          out,                   \* the literals printed after SAT
          status                 \* "running", "finished" or "signalled"

vars == <<F, said, out, status>>

\* One printed literal is a variable times a byte.
Printable == -(128 * N)..(127 * N)

\* The printed literals o agree with tau.
AgreesWith(o, tau) == \A v \in DOMAIN o : LitTrue(tau, v) <=> o[v] > 0

IsModelPrefix(o, f) ==
  \E tau \in Assignments : Satisfies(tau, f) /\ AgreesWith(o, tau)

Init == /\ F \in Inputs
        /\ said = "none"
        /\ out = <<>>
        /\ status = "running"

SayUnsat == /\ status = "running" /\ said = "none"
            /\ "UNSAT" \in Trusted => ~Satisfiable(F)
            /\ said' = "UNSAT"
            /\ UNCHANGED <<F, out, status>>

SaySat == /\ status = "running" /\ said = "none"
          /\ "SAT" \in Trusted => Satisfiable(F)
          /\ said' = "SAT"
          /\ UNCHANGED <<F, out, status>>

PrintLit == /\ status = "running" /\ said = "SAT"
            /\ Len(out) < N
            /\ \E x \in Printable : out' = Append(out, x)
            /\ "SAT" \in Trusted => IsModelPrefix(out', F)
            /\ UNCHANGED <<F, said, status>>

\* exit(EXIT_SUCCESS) at the end of main: the answer is complete.
Finish == /\ status = "running"
          /\ \/ said = "UNSAT"
             \/ said = "SAT" /\ Len(out) = N
          /\ status' = "finished"
          /\ UNCHANGED <<F, said, out>>

\* exit(0) in the handler of SIGTERM and SIGINT: the answer may be cut.
Stop == /\ status = "running"
        /\ status' = "signalled"
        /\ UNCHANGED <<F, said, out>>

Next == SayUnsat \/ SaySat \/ PrintLit \/ Finish \/ Stop

Spec == Init /\ [][Next]_vars
=============================================================================
