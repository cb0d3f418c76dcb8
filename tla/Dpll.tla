-------------------------------- MODULE Dpll --------------------------------
(***************************************************************************)
(* solvers/solver3/sat.c: a recursive DPLL search.                         *)
(*                                                                         *)
(* A struct model of the program is a bundle of pointers, so passing it by *)
(* value shares the arrays.  Here the arrays live in heap, a model is its  *)
(* index there, and malloc appends (nothing is ever freed).  One activation*)
(* of DPLL is a record of stack; the function's "static model m" is the    *)
(* variable m, shared by all activations: copy(phi, m, true) points it to  *)
(* new arrays, copy(phi, m, false) overwrites the arrays it points to now, *)
(* which a deeper activation allocated.                                    *)
(*                                                                         *)
(* What is abstracted.  A clause is the set of the positions of the line's *)
(* literals that assign has not removed (clauses[i] with its count); the   *)
(* order of clauses[i], sorted by variable, only decides choose_literal.   *)
(* lit_to_clauses is the same in every model and derived from F.  A tagged *)
(* clause is in tagged and its literals are never looked at again, so they *)
(* are left as they were.  The bytes of assignments that malloc returns    *)
(* are any values of Junk: nothing initialises them.                       *)
(*                                                                         *)
(* Bound: clauses of at most six literals.  copy(phi, m, false) may write  *)
(* a clause into a buffer allocated for a shorter one; up to six ints fit  *)
(* in the smallest block the C library's malloc hands out.                 *)
(*                                                                         *)
(* A definition named Slip... is not part of the specification: it is the  *)
(* definition after it with a slip the properties must notice.             *)
(***************************************************************************)
EXTENDS Cnf, FiniteSets

CONSTANTS Inputs,                \* the formulas the solver may be given
          Junk                   \* what an uninitialised byte may hold

ASSUME InputsAssumption == Inputs \subseteq Formulas
ASSUME JunkAssumption == Junk \subseteq -128..127

VARIABLES F,                     \* the formula read from the file
          heap,                  \* the arrays of the models, in malloc order
          m,                     \* the static model of DPLL, 0 before its use
          latest,                \* latest_assignment
          stack,                 \* the activations of DPLL, the last one runs
          pc,                    \* where the program is
          ret,                   \* the value of the last return of DPLL
          said,                  \* the first line printed, "none" before
          out,                   \* the literals printed after SAT
          status                 \* "running", "finished" or "signalled"

vars == <<F, heap, m, latest, stack, pc, ret, said, out, status>>
-----------------------------------------------------------------------------
\* The state of a model over the formula f.
Model(f) == [asg : [Vars -> -128..127],
             live : [DOMAIN f -> SUBSET Nat],
             tagged : SUBSET DOMAIN f]

Frame == [phi : Nat, branch : {0, 1, 2}, lit : Int]

Sign(l) == IF l > 0 THEN 1 ELSE -1

\* The positions of the clause that hold the variable of l.
PosOf(l, clause) == {p \in DOMAIN clause : Abs(clause[p]) = Abs(l)}

Occurs(l, clause) == \E p \in DOMAIN clause : clause[p] = l

\* assign(l, sign of l, M): the literal l becomes true.
Assign(f, l, M) ==
  [asg |-> [M.asg EXCEPT ![Abs(l)] = Sign(l)],
   live |-> [c \in DOMAIN f |-> IF c \in M.tagged \/ Occurs(l, f[c])
                                  THEN M.live[c]
                                  ELSE M.live[c] \ PosOf(l, f[c])],
   tagged |-> M.tagged \cup {c \in DOMAIN f : Occurs(l, f[c])}]

Untagged(f, M) == DOMAIN f \ M.tagged

consistent(f, M) == Untagged(f, M) = {}

contains_empty(f, M) == \E c \in Untagged(f, M) : M.live[c] = {}

\* Slip: no test of IS_TAGGED in find_unit_literal.
SlipUnitTagged(f, M) == {c \in DOMAIN f : Cardinality(M.live[c]) = 1}

UnitClauses(f, M) == {c \in Untagged(f, M) : Cardinality(M.live[c]) = 1}

\* l is what find_unit_literal returns: the literal of the first unit clause.
IsUnitLiteral(f, l, M) ==
  \E c \in UnitClauses(f, M) : /\ \A d \in UnitClauses(f, M) : c <= d
                               /\ \E p \in M.live[c] : l = f[c][p]

\* Slip: find_pure_literal does not look whether the variable has a value.
SlipPureAssigned(f, M) ==
  {l \in Lits : /\ \E c \in Untagged(f, M) : Occurs(l, f[c])
                /\ \A c \in Untagged(f, M) : ~Occurs(-l, f[c])}

\* The literals whose variable has no value and, in the clauses left, no
\* occurrence of the other sign.
PureLiterals(f, M) ==
  {l \in Lits : /\ M.asg[Abs(l)] = 0
                /\ \E c \in Untagged(f, M) : Occurs(l, f[c])
                /\ \A c \in Untagged(f, M) : ~Occurs(-l, f[c])}

\* l is what find_pure_literal returns: the one of the smallest variable.
IsPureLiteral(f, l, M) ==
  /\ l \in PureLiterals(f, M)
  /\ \A k \in PureLiterals(f, M) : Abs(l) <= Abs(k)

\* l is what choose_literal returns: the smallest variable left in the first
\* clause left.
IsChosen(f, l, M) ==
  \E c \in Untagged(f, M) :
    /\ \A d \in Untagged(f, M) : c <= d
    /\ \E p \in M.live[c] : l = Abs(f[c][p])
    /\ \A p \in M.live[c] : l <= Abs(f[c][p])
-----------------------------------------------------------------------------
Depth == Len(stack)
Top == stack[Depth]
Phi == heap[Top.phi]

\* An activation that has just begun, and one in its first or second call.
NewFrame(i) == [phi |-> i, branch |-> 0, lit |-> 0]
Waiting(i, b, l) == [phi |-> i, branch |-> b, lit |-> l]

\* main: parse the file and enter DPLL with the first model.
Init ==
  /\ F \in Inputs
  /\ \E junk \in [Vars -> Junk] :
       heap = <<[asg |-> junk,
                 live |-> [c \in DOMAIN F |-> DOMAIN F[c]],
                 tagged |-> {}]>>
  /\ m = 0
  /\ latest = 1
  /\ stack = <<NewFrame(1)>>
  /\ pc = "bcp"
  /\ ret = FALSE
  /\ said = "none"
  /\ out = <<>>
  /\ status = "running"

Running == status = "running"

SetPhi(l) == heap' = [heap EXCEPT ![Top.phi] = Assign(F, l, Phi)]

\* while ((unit_literal = find_unit_literal(phi))) assign(...)
Bcp == /\ Running /\ pc = "bcp"
       /\ \E l \in Lits : IsUnitLiteral(F, l, Phi) /\ SetPhi(l)
       /\ UNCHANGED <<F, m, latest, stack, pc, ret, said, out, status>>

BcpDone == /\ Running /\ pc = "bcp"
           /\ UnitClauses(F, Phi) = {}
           /\ pc' = "plp"
           /\ UNCHANGED <<F, heap, m, latest, stack, ret, said, out, status>>

\* while ((pure_literal = find_pure_literal(phi))) assign(...)
Plp == /\ Running /\ pc = "plp"
       /\ \E l \in Lits : IsPureLiteral(F, l, Phi) /\ SetPhi(l)
       /\ UNCHANGED <<F, m, latest, stack, pc, ret, said, out, status>>

PlpDone == /\ Running /\ pc = "plp"
           /\ PureLiterals(F, Phi) = {}
           /\ pc' = "check"
           /\ UNCHANGED <<F, heap, m, latest, stack, ret, said, out, status>>

\* if (consistent(phi)) return true;  if (contains_empty(phi)) return false;
Check == /\ Running /\ pc = "check"
         /\ consistent(F, Phi) \/ contains_empty(F, Phi)
         /\ ret' = consistent(F, Phi)
         /\ pc' = "return"
         /\ UNCHANGED <<F, heap, m, latest, stack, said, out, status>>

\* Slip: the static model is allocated once and its arrays used again.
SlipBranchOnce ==
  /\ Running /\ pc = "check"
  /\ ~consistent(F, Phi) /\ ~contains_empty(F, Phi)
  /\ m' = IF m = 0 THEN Len(heap) + 1 ELSE m
  /\ \E l \in Vars :
       /\ IsChosen(F, l, Phi)
       /\ heap' = IF m = 0 THEN Append(heap, Assign(F, l, Phi))
                           ELSE [heap EXCEPT ![m] = Assign(F, l, Phi)]
       /\ stack' = Append([stack EXCEPT ![Depth] = Waiting(Top.phi, 1, l)],
                          NewFrame(m'))
  /\ latest' = m'
  /\ pc' = "bcp"
  /\ UNCHANGED <<F, ret, said, out, status>>

\* Slip: copy copies the pointers of phi.
SlipBranchShallow ==
  /\ Running /\ pc = "check"
  /\ ~consistent(F, Phi) /\ ~contains_empty(F, Phi)
  /\ \E l \in Vars :
       /\ IsChosen(F, l, Phi)
       /\ SetPhi(l)
       /\ stack' = Append([stack EXCEPT ![Depth] = Waiting(Top.phi, 1, l)],
                          NewFrame(Top.phi))
  /\ m' = Top.phi
  /\ latest' = Top.phi
  /\ pc' = "bcp"
  /\ UNCHANGED <<F, ret, said, out, status>>

\* m = copy(phi, m, true); DPLL(assign(l, 1, m))
BranchTrue ==
  /\ Running /\ pc = "check"
  /\ ~consistent(F, Phi) /\ ~contains_empty(F, Phi)
  /\ \E l \in Vars :
       /\ IsChosen(F, l, Phi)
       /\ heap' = Append(heap, Assign(F, l, Phi))
       /\ m' = Len(heap) + 1
       /\ stack' = Append([stack EXCEPT ![Depth] = Waiting(Top.phi, 1, l)],
                          NewFrame(Len(heap) + 1))
       /\ latest' = Len(heap) + 1
  /\ pc' = "bcp"
  /\ UNCHANGED <<F, ret, said, out, status>>

\* The activation that called the one returning now.
Caller == stack[Depth - 1]

\* Slip: the second branch goes on from what the first one left in m.
SlipBranchFalseNoCopy ==
  /\ Running /\ pc = "return" /\ ~ret
  /\ Depth > 1 /\ Caller.branch = 1
  /\ heap' = [heap EXCEPT ![m] = Assign(F, -Caller.lit, heap[m])]
  /\ stack' = [stack EXCEPT ![Depth - 1] = Waiting(Caller.phi, 2, Caller.lit),
                            ![Depth] = NewFrame(m)]
  /\ latest' = m
  /\ pc' = "bcp"
  /\ UNCHANGED <<F, m, ret, said, out, status>>

\* Slip: latest_assignment is only set when the arrays are new.
SlipBranchFalseLatest ==
  /\ Running /\ pc = "return" /\ ~ret
  /\ Depth > 1 /\ Caller.branch = 1
  /\ heap' = [heap EXCEPT ![m] = Assign(F, -Caller.lit, heap[Caller.phi])]
  /\ stack' = [stack EXCEPT ![Depth - 1] = Waiting(Caller.phi, 2, Caller.lit),
                            ![Depth] = NewFrame(m)]
  /\ latest' = Caller.phi
  /\ pc' = "bcp"
  /\ UNCHANGED <<F, m, ret, said, out, status>>

\* The first call was false: DPLL(assign(l, -1, copy(phi, m, false)))
BranchFalse ==
  /\ Running /\ pc = "return" /\ ~ret
  /\ Depth > 1 /\ Caller.branch = 1
  /\ heap' = [heap EXCEPT ![m] = Assign(F, -Caller.lit, heap[Caller.phi])]
  /\ stack' = [stack EXCEPT ![Depth - 1] = Waiting(Caller.phi, 2, Caller.lit),
                            ![Depth] = NewFrame(m)]
  /\ latest' = m
  /\ pc' = "bcp"
  /\ UNCHANGED <<F, m, ret, said, out, status>>

\* The caller returns what the callee returned.
Return == /\ Running /\ pc = "return"
          /\ Depth > 1 /\ (ret \/ Caller.branch = 2)
          /\ stack' = SubSeq(stack, 1, Depth - 1)
          /\ UNCHANGED <<F, heap, m, latest, pc, ret, said, out, status>>

\* main: printf("SAT\n") or printf("UNSAT\n")
SayAnswer == /\ Running /\ pc = "return" /\ Depth = 1
             /\ said' = IF ret THEN "SAT" ELSE "UNSAT"
             /\ pc' = "print"
             /\ UNCHANGED <<F, heap, m, latest, stack, ret, out, status>>

\* (i + 1) * ass, with the byte ass of latest_assignment or 1 for 0.
Printed(v) == LET ass == heap[latest].asg[v]
              IN v * (IF ass = 0 THEN 1 ELSE ass)

PrintLit == /\ Running /\ pc = "print" /\ said = "SAT"
            /\ Len(out) < N
            /\ out' = Append(out, Printed(Len(out) + 1))
            /\ UNCHANGED <<F, heap, m, latest, stack, pc, ret, said, status>>

\* exit(EXIT_SUCCESS)
Finish == /\ Running /\ pc = "print"
          /\ said = "UNSAT" \/ Len(out) = N
          /\ status' = "finished"
          /\ UNCHANGED <<F, heap, m, latest, stack, pc, ret, said, out>>

\* SIGTERM or SIGINT arrives: exit(0) in the handler.
termination_handler ==
  /\ Running
  /\ status' = "signalled"
  /\ UNCHANGED <<F, heap, m, latest, stack, pc, ret, said, out>>

Step == \/ Bcp \/ BcpDone \/ Plp \/ PlpDone \/ Check \/ BranchTrue
        \/ BranchFalse \/ Return \/ SayAnswer \/ PrintLit \/ Finish

Next == Step \/ termination_handler

Spec == Init /\ [][Next]_vars

\* The only thread of the process keeps running; no signal need arrive.
FairSpec == Spec /\ WF_vars(Step)
-----------------------------------------------------------------------------
(***************************************************************************)
(* Properties                                                              *)
(***************************************************************************)
TypeOK ==
  /\ F \in Formulas
  /\ heap \in Seq(Model(F)) /\ Len(heap) > 0
  /\ m \in 0..Len(heap)
  /\ latest \in 1..Len(heap)
  /\ stack \in Seq(Frame) /\ Len(stack) > 0
  /\ \A i \in 1..Len(stack) : stack[i].phi \in 1..Len(heap)
  /\ pc \in {"bcp", "plp", "check", "return", "print"}
  /\ ret \in BOOLEAN
  /\ said \in {"none", "SAT", "UNSAT"}
  /\ out \in Seq(Int)
  /\ status \in {"running", "finished", "signalled"}

\* The solver is sound for SAT whatever malloc left in the arrays: when DPLL
\* has returned true, the bytes that main is about to print satisfy every
\* clause, those the search never assigned included.
SatSound == said = "SAT" => Satisfies(heap[latest].asg, F)

\* The solver is sound for UNSAT: it has not lost a part of the search space,
\* although all activations share the static model m.
UnsatSound == said = "UNSAT" => ~Satisfiable(F)

\* copy(phi, m, false) overwrites arrays that the static m points to: never
\* those of an activation that has not returned, which would lose its second
\* branch or restart it from somebody else's state.
StaticModelFree ==
  /\ \A i, j \in 1..Depth : i # j => stack[i].phi # stack[j].phi
  /\ pc = "return" /\ ~ret => \A i \in 1..(Depth - 1) : stack[i].phi # m

\* A caller that still has its second branch to take finds its own model as it
\* left it: every literal of a clause left is unassigned on its path, and
\* the chosen literal is still there.
PendingModelIntact ==
  \A i \in 1..(Depth - 1) :
    stack[i].branch = 1 => IsChosen(F, stack[i].lit, heap[stack[i].phi])

\* Every run ends.
Terminates == <>(status # "running")
-----------------------------------------------------------------------------
(***************************************************************************)
(* The inductive invariant behind SatSound, UnsatSound and StaticModelFree *)
(***************************************************************************)
\* tau satisfies what is left of M.
Models(f, tau, M) ==
  \A c \in Untagged(f, M) : HasTrue(tau, f[c], M.live[c])

ResidualSat(f, M) == \E tau \in Assignments : Models(f, tau, M)

\* No clause left still holds the variable of l: nothing will assign it.
Settled(f, l, M) ==
  \A c \in Untagged(f, M) : \A p \in M.live[c] : Abs(f[c][p]) # Abs(l)

\* A tagged clause has a true literal whose variable is not assigned again.
GoodModel(f, M) ==
  /\ \A c \in DOMAIN f : M.live[c] \subseteq DOMAIN f[c]
  /\ \A c \in M.tagged : \E p \in DOMAIN f[c] :
       LitTrue(M.asg, f[c][p]) /\ Settled(f, f[c][p], M)

AllGood == \A k \in 1..Len(heap) : GoodModel(F, heap[k])

\* The activations wait in the order of their models, the static m is the
\* newest one.
StackOrdered ==
  /\ Depth > 1 => m = Len(heap)
  /\ \A i, j \in 1..Depth : i < j => stack[i].phi < stack[j].phi
  /\ \A i \in 1..(Depth - 1) : stack[i].branch # 0 /\ stack[i].lit \in Vars
  /\ pc = "print" => Depth = 1

Searching == pc \in {"bcp", "plp", "check"}

AnswerInv ==
  /\ Searching => latest = Top.phi
  /\ ret => ~Searching /\ consistent(F, heap[latest])
  /\ said = "none" <=> pc # "print"
  /\ said = "SAT" <=> pc = "print" /\ ret

PendingSat(i) ==
  /\ stack[i].branch = 1
  /\ ResidualSat(F, Assign(F, -stack[i].lit, heap[stack[i].phi]))

\* While F may be satisfiable, a model is in the part still to search.
NothingLost ==
  Satisfiable(F) => \/ Searching /\ ResidualSat(F, Phi)
                    \/ ret
                    \/ \E i \in 1..(Depth - 1) : PendingSat(i)

\* The printed literals come from the bytes of the answer.
OutInv == /\ said # "SAT" => out = <<>>
          /\ \A v \in DOMAIN out : v \in Vars /\ out[v] = Printed(v)

IInv == /\ TypeOK
        /\ StackOrdered
        /\ PendingModelIntact
        /\ AllGood
        /\ AnswerInv
        /\ NothingLost
        /\ OutInv
-----------------------------------------------------------------------------
\* The promise of a solver, kept by this one.
Promise == INSTANCE SatSolver WITH Trusted <- {"SAT", "UNSAT"}
PromiseKept == Promise!Spec
=============================================================================
