--------------------------- MODULE FuncTransform ---------------------------
(***************************************************************************)
(* src/core/func.cpp: the functional phase of the fuzzer.  Every input     *)
(* file is parsed into a queue of formulas; the loop takes the first one,  *)
(* transforms it, writes the new formula and the label of the              *)
(* transformation, runs the solver on it and queues the new formula.       *)
(*                                                                         *)
(* A line is the sequence of its tokens: literals, 0 and Word, which       *)
(* stands for every token that is no number ("c", "p", "cnf").  Running    *)
(* the solver and saving its input leave the queue alone and are left out  *)
(* here (FuzzCampaign has them).                                           *)
(*                                                                         *)
(* Undefined behaviour.  An operation on an empty deque or on iterators    *)
(* that cross ends the program ("undefined"); a uniform distribution over  *)
(* 1..numOfVars with numOfVars < 1 returns any integer of UbTokens.        *)
(*                                                                         *)
(* Bounds: MaxLines lines in a formula, MaxWidth literals in an added      *)
(* clause (10 in the code), MaxFailures files that cannot be opened.       *)
(*                                                                         *)
(* A definition named Slip... is not part of the specification: it is the  *)
(* definition after it with a slip the properties must notice.             *)
(***************************************************************************)
EXTENDS Integers, Sequences, Functions

CONSTANTS N,                     \* variables of the formulas
          InputSets,             \* the possible contents of the input directory
          Garbage,               \* what an uninitialised int may hold
          MaxLines, MaxWidth, MaxFailures

ASSUME NAssumption == N \in Nat \ {0}
ASSUME GarbageAssumption == Garbage \subseteq Int
ASSUME BoundsAssumption ==
         MaxLines \in Nat /\ MaxWidth \in Nat \ {0} /\ MaxFailures \in Nat

VARIABLES queue,                 \* files: the formulas, first to last
          test,                  \* the last test written, NoTest at first
          status,                \* "running" or "undefined"
          failures,              \* tests that could not be written
          input,                 \* the input files (never changed)
          header                 \* what was read of each header (never changed)

vars == <<queue, test, status, failures, input, header>>
-----------------------------------------------------------------------------
(***************************************************************************)
(* Formulas as text                                                        *)
(***************************************************************************)
Lits == {l \in -N..N : l # 0}
Word == N + 1
Tokens == Lits \cup {0, Word}
UbTokens == Lits \cup {0}
Names == UNION {DOMAIN files : files \in InputSets}

\* A file of the input directory: what its first line begins with, the numbers
\* it declares, and the other lines.  A DIMACS file begins with a problem line,
\* "p cnf 2 2", or with a comment: both are no "numbers".
Files == [first : {"numbers", "text"}, vars : 0..N, count : Nat,
          lines : Seq(Seq(Tokens))]

ASSUME InputSetsAssumption == InputSets \subseteq Seq(Files)

IsComment(line) == line # <<>> /\ line[1] = Word

Places(lines) ==
  UNION {{<<i, j>> : j \in DOMAIN lines[i]} :
           i \in {k \in DOMAIN lines : ~IsComment(lines[k])}}

Token(lines, a) == lines[a[1]][a[2]]

Before(a, b) == a[1] < b[1] \/ (a[1] = b[1] /\ a[2] < b[2])

Zeros(lines) == {z \in Places(lines) : Token(lines, z) = 0}

\* DIMACS: the literals between one 0 and the next, wherever lines end.
ClauseEndingAt(lines, z) ==
  {Token(lines, a) : a \in {b \in Places(lines) :
     Before(b, z) /\ \A y \in Zeros(lines) : Before(y, b) \/ ~Before(y, z)}}

ClausesOf(lines) == {ClauseEndingAt(lines, z) : z \in Zeros(lines)}

Sat(lines) == \E T \in SUBSET (1..N) :
                \A c \in ClausesOf(lines) :
                  \E l \in c : IF l > 0 THEN l \in T ELSE -l \notin T
-----------------------------------------------------------------------------
(***************************************************************************)
(* Transformations                                                         *)
(***************************************************************************)
Shuffles(s) == {[i \in DOMAIN s |-> s[p[i]]] : p \in Bijection(DOMAIN s, DOMAIN s)}

swapClauses(lines) == Shuffles(lines)

\* Slip: the 0 at the end is shuffled with the literals.
SlipSwapZero(line) == Shuffles(line)

\* All tokens of the line but the last, shuffled, and a 0.
SwappedLine(line) ==
  {Append(s, 0) : s \in Shuffles(SubSeq(line, 1, Len(line) - 1))}

swapLiterals(lines) ==
  {new \in [DOMAIN lines -> UNION {SwappedLine(lines[i]) : i \in DOMAIN lines}] :
     \A i \in DOMAIN lines : new[i] \in SwappedLine(lines[i])}

\* One added clause: every literal is positive.
NewClauses(numOfVars) ==
  {Append(s, 0) : s \in UNION {[1..w -> IF numOfVars < 1 THEN UbTokens
                                                         ELSE 1..numOfVars] :
                                 w \in 1..MaxWidth}}

addClauses(lines, numOfVars, n) ==
  {lines \o added : added \in [1..n -> NewClauses(numOfVars)]}

deleteClauses(lines, n) == SubSeq(lines, 1, Len(lines) - n)

SAT_SAT__UNSAT_UNSAT == [sat |-> "SAT", unsat |-> "UNSAT"]
SAT_UNKNOWN__UNSAT_UNSAT == [sat |-> "UNKNOWN", unsat |-> "UNSAT"]
SAT_SAT__UNSAT_UNKOWN == [sat |-> "SAT", unsat |-> "UNKNOWN"]
Original == [sat |-> "Original", unsat |-> "Original"]

Result(lines, count, label) == [lines |-> lines, count |-> count, label |-> label]

\* What transform may return for the queued formula f.
transform(f) ==
  {Result(new, f.count, SAT_SAT__UNSAT_UNSAT) : new \in swapClauses(f.lines)}
  \cup (IF <<>> \in Range(f.lines) THEN {}
        ELSE {Result(new, f.count, SAT_SAT__UNSAT_UNSAT) :
                new \in swapLiterals(f.lines)})
  \cup (UNION {{Result(new, f.count + n, SAT_UNKNOWN__UNSAT_UNSAT) :
                  new \in addClauses(f.lines, f.vars, n)} :
               n \in {k \in 0..f.count : Len(f.lines) + k <= MaxLines}})
  \cup {Result(deleteClauses(f.lines, n), f.count - n, SAT_SAT__UNSAT_UNKOWN) :
          n \in {k \in 0..f.count : k <= Len(f.lines)}}
  \cup {Result(f.lines, f.count, Original)}

\* transform of f may run into undefined behaviour: swapLiterals on a line
\* without tokens, deleteClauses of more clauses than there are, or a
\* distribution over 0..numOfClauses with numOfClauses negative.
MayBeUndefined(f) == \/ <<>> \in Range(f.lines)
                     \/ f.count > Len(f.lines)
                     \/ f.count < 0
-----------------------------------------------------------------------------
(***************************************************************************)
(* functionalTransform                                                     *)
(***************************************************************************)
\* ss >> numOfVars >> numOfClauses on the first line of the file.  On a line
\* that begins with a word, so of every DIMACS file, the first extraction fails
\* and stores 0, and the second leaves numOfClauses uninitialised.
Extracted(file) ==
  IF file.first = "numbers"
    THEN {[vars |-> file.vars, count |-> file.count]}
    ELSE {[vars |-> 0, count |-> g] : g \in Garbage}

Queued(lines, count, numOfVars, name) ==
  [lines |-> lines, count |-> count, vars |-> numOfVars, name |-> name]

NoTest == [new |-> <<>>, old |-> <<>>, label |-> Original, name |-> 0]

Init ==
  /\ input \in InputSets
  /\ header \in [DOMAIN input -> UNION {Extracted(input[i]) : i \in DOMAIN input}]
  /\ \A i \in DOMAIN input : header[i] \in Extracted(input[i])
  /\ queue = [i \in DOMAIN input |->
                Queued(input[i].lines, header[i].count, header[i].vars, i)]
  /\ test = NoTest
  /\ status = "running"
  /\ failures = 0

\* Slip: the number of the test is queued for the name of the file.
SlipTurnIndex ==
  /\ status = "running" /\ queue # <<>>
  /\ LET f == Head(queue) IN
       \E r \in transform(f) :
         /\ test' = [new |-> r.lines, old |-> f.lines, label |-> r.label,
                     name |-> f.name]
         /\ queue' = Append(Tail(queue), Queued(r.lines, r.count, f.vars, 0))
  /\ UNCHANGED <<status, failures, input, header>>

\* Slip: the new formula is queued with the old clause count.
SlipTurnCount ==
  /\ status = "running" /\ queue # <<>>
  /\ LET f == Head(queue) IN
       \E r \in transform(f) :
         /\ test' = [new |-> r.lines, old |-> f.lines, label |-> r.label,
                     name |-> f.name]
         /\ queue' = Append(Tail(queue), Queued(r.lines, f.count, f.vars, f.name))
  /\ UNCHANGED <<status, failures, input, header>>

\* Slip: a formula that was not changed is not queued again.
SlipTurnDrop ==
  /\ status = "running" /\ queue # <<>>
  /\ LET f == Head(queue) IN
       \E r \in transform(f) :
         /\ test' = [new |-> r.lines, old |-> f.lines, label |-> r.label,
                     name |-> f.name]
         /\ queue' = IF r.label = Original THEN Tail(queue)
                   ELSE Append(Tail(queue), Queued(r.lines, r.count, f.vars, f.name))
  /\ UNCHANGED <<status, failures, input, header>>

\* Slip: push_front for push_back.
SlipTurnFront ==
  /\ status = "running" /\ queue # <<>>
  /\ LET f == Head(queue) IN
       \E r \in transform(f) :
         /\ test' = [new |-> r.lines, old |-> f.lines, label |-> r.label,
                     name |-> f.name]
         /\ queue' = <<Queued(r.lines, r.count, f.vars, f.name)>> \o Tail(queue)
  /\ UNCHANGED <<status, failures, input, header>>

\* One turn of the loop.
Turn == /\ status = "running" /\ queue # <<>>
        /\ LET f == Head(queue) IN
             \E r \in transform(f) :
               /\ test' = [new |-> r.lines, old |-> f.lines, label |-> r.label,
                           name |-> f.name]
               /\ queue' = Append(Tail(queue),
                                  Queued(r.lines, r.count, f.vars, f.name))
        /\ UNCHANGED <<status, failures, input, header>>

\* The .cnf or the .txt file cannot be opened: continue, after pop_front.
OpenFails == /\ status = "running" /\ queue # <<>>
             /\ failures < MaxFailures
             /\ failures' = failures + 1
             /\ queue' = Tail(queue)
             /\ UNCHANGED <<test, status, input, header>>

\* files.front() of an empty deque, or undefined behaviour in transform.
Undefined == /\ status = "running"
             /\ queue # <<>> => MayBeUndefined(Head(queue))
             /\ status' = "undefined"
             /\ UNCHANGED <<queue, test, failures, input, header>>

Next == Turn \/ OpenFails \/ Undefined

Spec == Init /\ [][Next]_vars

\* The loop goes on while it can.
FairSpec == Spec /\ WF_vars(Turn)
-----------------------------------------------------------------------------
(***************************************************************************)
(* Properties                                                              *)
(***************************************************************************)
Lines == Seq(Seq(Tokens))

TypeOK ==
  /\ \A i \in DOMAIN queue : queue[i].lines \in Lines /\ queue[i].count \in Int
                               /\ queue[i].vars \in Int
                               /\ queue[i].name \in DOMAIN input
  /\ test.new \in Lines /\ test.old \in Lines
  /\ status \in {"running", "undefined"}
  /\ failures \in 0..MaxFailures

\* Every line is one clause: literals, and one 0 at its end.
OneClausePerLine(lines) ==
  \A i \in DOMAIN lines :
    LET w == Len(lines[i]) IN
      w > 0 /\ \A j \in 1..w : IF j = w THEN lines[i][j] = 0 ELSE lines[i][j] \in Lits

LabelTrue ==
  /\ test.label.sat = "SAT" /\ Sat(test.old) => Sat(test.new)
  /\ test.label.unsat = "UNSAT" /\ ~Sat(test.old) => ~Sat(test.new)

\* The label in the .txt file tells the truth about the test beside it, after
\* any chain of transformations, for a formula with one clause on a line.
LabelSound == OneClausePerLine(test.old) => LabelTrue

\* How many lines more than there are the number claims that was read of a header.
Miscount(i) == header[i].count - Len(input[i].lines)

\* The clause count that is queued and written follows the lines through any
\* chain of added and deleted clauses, whatever was read for it: the wrong count
\* of a DIMACS file, which nobody set, stays wrong by the same number.
CountKeepsError ==
  \A i \in DOMAIN queue :
    queue[i].count - Len(queue[i].lines) = Miscount(queue[i].name)

\* When the loop becomes undefined can be told from what was loaded: for the
\* file whose turn it is, the number read was negative or more than its lines,
\* or a line was blank; and front() is called on an empty deque only after as
\* many opens have failed as there were files.  Chains of transformations and
\* failures add no other cause.
UndefinedCause ==
  status = "undefined" =>
    IF queue = <<>> THEN failures = Len(input)
    ELSE LET i == Head(queue).name IN
           \/ header[i].count < 0
           \/ Miscount(i) > 0
           \/ <<>> \in Range(input[i].lines)

\* Round robin: every input file is transformed again and again until it is
\* lost, the loop feeds no formula at the expense of another.
RoundRobin ==
  \A i \in Names : []<>(\/ i \notin {queue[k].name : k \in DOMAIN queue}
                        \/ status = "undefined"
                        \/ test.name = i)
=============================================================================
