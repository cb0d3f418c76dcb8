-------------------------- MODULE MCFuncTransform --------------------------
(***************************************************************************)
(* Input directories for the model checking of FuncTransform.              *)
(***************************************************************************)
EXTENDS FuncTransform

File(first, v, c, lines) == [first |-> first, vars |-> v, count |-> c,
                             lines |-> lines]

\* Files whose first line is the two numbers, which are the only ones the code
\* can read, and no DIMACS files.  Satisfiable, unsatisfiable, with an empty clause.
Unsat2 == <<<<1, 0>>, <<-1, 0>>>>
MCNumbers ==
  {<<File("numbers", 2, 2, <<<<1, -2, 0>>, <<2, 0>>>>)>>,
   <<File("numbers", 2, 2, Unsat2)>>,
   <<File("numbers", 2, 1, <<<<0>>>>)>>,
   <<File("numbers", 2, 0, <<>>)>>}

MCTwoFiles ==
  {<<File("text", 1, 0, <<>>), File("numbers", 1, 0, <<>>)>>,
   <<File("numbers", 1, 1, <<<<1, 0>>>>), File("numbers", 1, 0, <<>>)>>,
   <<File("numbers", 1, 1, <<<<1, 0>>>>), File("numbers", 1, 1, <<<<-1, 0>>>>)>>}

\* Well-formed DIMACS files: one clause on a line; a comment first, so that the
\* problem line, of which the first and last token are kept, is one of the
\* others; a blank line at the end.
Problem == <<Word, 2>>
MCDimacs ==
  {<<File("text", 2, 2, Unsat2)>>,
   <<File("text", 2, 1, <<<<1, -2, 0>>>>)>>,
   <<File("text", 1, 1, <<Problem, <<1, 0>>>>)>>,
   <<File("text", 1, 1, <<<<1, 0>>, <<>>>>)>>}

MCFiles == MCNumbers \cup MCDimacs \cup MCTwoFiles

\* Negative; too few; for a file of two lines right, for one of one line too many.
MCGarbage == {-1, 0, 2}
=============================================================================
