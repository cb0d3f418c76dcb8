------------------------------- MODULE MCDpll -------------------------------
(***************************************************************************)
(* Inputs for the model checking of Dpll.                                  *)
(***************************************************************************)
EXTENDS Dpll, FiniteSetsExt

\* An uninitialised byte: what printing makes of it only depends on its sign
\* and on whether it is 1, -1 or something else.
MCJunk == {-66, 0}

\* The clauses over all variables, in the order of the tables of truth.
FullClauses == {c \in [Vars -> Lits] : \A v \in Vars : Abs(c[v]) = v}

\* The clauses of S in some order.
AsSeq(S) == FoldSet(LAMBDA c, s : Append(s, c), <<>>, S)

\* Every set of full clauses.  With all of them the formula is unsatisfiable
\* and the search goes as deep as there are variables.
MCFullInputs == {AsSeq(S) : S \in SUBSET FullClauses}

\* Every formula of at most two clauses of at most two literals over two of the
\* variables, and every set of three: repeated literals, tautologies and empty
\* clauses included.
SmallClauses == SeqsUpTo({-2, -1, 1, 2}, 2)
MCSmallInputs == SeqsUpTo(SmallClauses, 2) \cup
                 {AsSeq({a, b, c}) : a, b, c \in SmallClauses}

MCInputs == MCSmallInputs \cup MCFullInputs
=============================================================================
