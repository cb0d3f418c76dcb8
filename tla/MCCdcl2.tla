------------------------------ MODULE MCCdcl2 ------------------------------
(***************************************************************************)
(* Formulas for the model checking of Cdcl2, over the variables 1..4.      *)
(***************************************************************************)
EXTENDS Cdcl2, FiniteSetsExt

\* For the parser: at most three clauses of at most two of the literals -4, 1
\* and 4, empty, unit, repeated and tautological clauses included.  The last
\* variable is the one that must occur.
MCParserInputs == SeqsUpTo(SeqsUpTo({-4, 1, 4}, 2), 3)

\* For the search: any set of clauses with all of the variables 1, 2 and 3.
FullClauses == {c \in [1..3 -> Lits] : \A v \in 1..3 : Abs(c[v]) = v}
AsSeq(S) == FoldSet(LAMBDA c, s : Append(s, c), <<>>, S)
MCFullInputs == {Append(AsSeq(S), <<4, -4>>) : S \in SUBSET FullClauses}

\* For learning: two clauses that meet at level 2, and any two others.
Increasing(c) == \A i, j \in DOMAIN c : i < j => Abs(c[i]) < Abs(c[j])
OtherClauses == {c \in [1..2 -> Lits] \cup [1..3 -> Lits] : Increasing(c)}
MCLearnInputs == {<<<<1, 3, -2>>, <<-3, 4, -2>>, c, d>> : c, d \in OtherClauses}

\* For the learnt clauses that VECTORswitchPlace damages: a conflict at level 3
\* whose clause is of the levels 1 and 2, and another one at level 2.
MCSwitchInputs == {<<c, <<-3, -2, 4>>, <<3, -2, 4>>, d>> : c, d \in OtherClauses}

MCInputs == MCParserInputs \cup MCFullInputs \cup MCLearnInputs \cup MCSwitchInputs
=============================================================================
