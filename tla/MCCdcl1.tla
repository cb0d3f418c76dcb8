------------------------------ MODULE MCCdcl1 ------------------------------
(***************************************************************************)
(* Formulas for the model checking of Cdcl1.                               *)
(***************************************************************************)
EXTENDS Cdcl1, FiniteSetsExt

\* The clauses over the first three variables, each in the order of its
\* variables, and the clauses of a set in some order.
FullClauses == {c \in [1..3 -> -3..3] : \A v \in 1..3 : Abs(c[v]) = v}
AsSeq(S) == FoldSet(LAMBDA c, s : Append(s, c), <<>>, S)

\* Every set of full clauses, alone and before a clause of one literal.
MCFullInputs == {AsSeq(S) : S \in SUBSET FullClauses}
MCUnitInputs == {Append(AsSeq(S), <<l>>) : S \in SUBSET FullClauses, l \in {-3, 2}}

\* At most two clauses of at most two literals over two variables.
MCSmallInputs == SeqsUpTo(SeqsUpTo({-2, -1, 1, 2}, 2), 2)

\* Two clauses that share variables 2 and 3, and two more of three literals.
Increasing(c) == \A i, j \in DOMAIN c : i < j => Abs(c[i]) < Abs(c[j])
OtherClauses == {c \in [1..3 -> Lits] : Increasing(c)}
MCLearnInputs == {<<<<1, 3, -2>>, <<-3, 4, -2>>>> \o AsSeq({c, d}) : c, d \in OtherClauses}

\* Clauses in which literals repeat.
Repeating == [1..3 -> {-1, 1, 2}]
MCRepeatInputs == {<<c, d, <<-1, 2, -2>>>> : c, d \in Repeating}

\* A formula in which conflicts take two resolutions and backtracking stops at
\* the second level, and what is left of it without one or two clauses.
Long == <<<<-2, 3, -4>>, <<-4, -3, -1>>, <<3, 2>>, <<2, -1, 4>>, <<-4, -3, 2>>,
          <<-1, -2, 3>>, <<4, 1, -3>>, <<1, -3, -2>>, <<-1, 2, 4>>, <<-3, -1, 4>>,
          <<-1, -2, -4>>, <<-1, 4, 3>>, <<1, 2, 3>>>>
LeaveOut(i, s) == SubSeq(s, 1, i - 1) \o SubSeq(s, i + 1, Len(s))
MCLongInputs == {Long} \cup {LeaveOut(i, Long) : i \in 1..13}
                \cup {LeaveOut(j, LeaveOut(i, Long)) : i \in 1..13, j \in 1..12}

MCInputs == MCFullInputs \cup MCUnitInputs \cup MCSmallInputs
            \cup MCLearnInputs \cup MCRepeatInputs \cup MCLongInputs

\* It has a model, and the solver says UNSAT.
MCWrongUnsat ==
  {<<<<-3, 2, 1>>, <<2, 1, 3>>, <<-2, -3>>, <<-3, -2, -1>>, <<2, -1, 3>>, <<-2>>>>}

\* The solver does not end.
MCEndless ==
  {<<<<-3, 2, -1>>, <<-2, 3>>, <<1>>, <<-2>>, <<-1, -3, 2>>, <<3>>, <<3, 1, -2>>>>}
=============================================================================
