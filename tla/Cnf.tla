-------------------------------- MODULE Cnf --------------------------------
(***************************************************************************)
(* Formulas in conjunctive normal form as the fuzzer writes them and the   *)
(* solvers under test read them: a literal is a non-zero integer, a clause *)
(* is the sequence of literals of one line, a formula the sequence of its  *)
(* clauses.  Literals may repeat in a clause, a clause may be empty.       *)
(*                                                                         *)
(* An assignment maps every variable to an integer: the solvers keep one   *)
(* byte for each, so only its sign means anything and 0 stands for         *)
(* "unassigned".                                                           *)
(***************************************************************************)
EXTENDS Integers, Sequences, FiniteSets

CONSTANT N                       \* nbvars of the header "p cnf N C"

ASSUME NAssumption == N \in Nat \ {0}

Vars == 1..N
Lits == {l \in -N..N : l # 0}

Abs(x) == IF x < 0 THEN -x ELSE x

\* The variables of the program are the bytes of an assignment.
LitTrue(tau, l) == IF l > 0 THEN tau[l] > 0 ELSE tau[-l] < 0

\* The literals of clause c that stand at one of the positions ps are the
\* ones that may still satisfy it.
HasTrue(tau, c, ps) == \E p \in ps : LitTrue(tau, c[p])

Satisfies(tau, f) == \A c \in DOMAIN f : HasTrue(tau, f[c], DOMAIN f[c])

Assignments == [Vars -> {-1, 1}]

Satisfiable(f) == \E tau \in Assignments : Satisfies(tau, f)

Formulas == Seq(Seq(Lits))

\* The elements of s at the positions ps, in order: what a clause is when others
\* have been taken out.
At(s, ps) ==
  [k \in 1..Cardinality(ps) |->
     s[CHOOSE i \in ps : Cardinality({j \in ps : j <= i}) = k]]

\* All clauses of at most k literals, and all formulas of at most n clauses
\* of the set cs: finite input sets for model checking.
SeqsUpTo(S, k) == UNION {[1..i -> S] : i \in 0..k}
=============================================================================
