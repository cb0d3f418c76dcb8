------------------------ MODULE FuncTransformProofs ------------------------
(***************************************************************************)
(* Proofs about the functional phase, for every set of input files, DIMACS *)
(* or not: what the transformations do to the text of a formula, the label *)
(* that is written beside it, and the numbers that are queued with it.     *)
(***************************************************************************)
EXTENDS FuncTransform, SequenceTheorems, TLAPS

LEMMA ConstFacts == /\ N \in Nat \ {0} /\ MaxWidth \in Nat \ {0}
                    /\ MaxLines \in Nat /\ MaxFailures \in Nat
BY NAssumption, BoundsAssumption

-----------------------------------------------------------------------------
(***************************************************************************)
(* Shuffling                                                               *)
(***************************************************************************)
\* A shuffled sequence has the length and the elements it had.
LEMMA ShuffleFacts ==
  ASSUME NEW S, NEW s \in Seq(S), NEW t \in Shuffles(s)
  PROVE  t \in Seq(S) /\ Len(t) = Len(s) /\ Range(t) = Range(s)
<1>1. PICK q \in Bijection(DOMAIN s, DOMAIN s) : t = [i \in DOMAIN s |-> s[q[i]]]
  BY DEF Shuffles
<1>2. /\ q \in [DOMAIN s -> DOMAIN s]
      /\ \A j \in DOMAIN s : \E i \in DOMAIN s : q[i] = j
  BY <1>1 DEF Bijection, Injection, Surjection
<1>3. DOMAIN s = 1..Len(s) /\ Len(s) \in Nat /\ \A i \in 1..Len(s) : s[i] \in S
  OBVIOUS
<1>4. t \in [1..Len(s) -> S]
  BY <1>1, <1>2, <1>3
<1>5. t \in Seq(S) /\ Len(t) = Len(s)
  BY <1>3, <1>4
<1>6. Range(t) = Range(s)
  <2>1. DOMAIN t = DOMAIN s /\ \A i \in DOMAIN s : t[i] = s[q[i]]
    BY <1>1
  <2>2. ASSUME NEW x \in Range(t) PROVE x \in Range(s)
    BY <1>2, <2>1 DEF Range
  <2>3. ASSUME NEW x \in Range(s) PROVE x \in Range(t)
    <3>1. PICK j \in DOMAIN s : x = s[j]
      BY DEF Range
    <3>2. PICK i \in DOMAIN s : q[i] = j
      BY <1>2
    <3>3. QED
      BY <2>1, <3>1, <3>2 DEF Range
  <2>4. QED
    BY <2>2, <2>3
<1>7. QED
  BY <1>5, <1>6

\* The first m elements of a sequence.
LEMMA PrefixFacts ==
  ASSUME NEW T, NEW s \in Seq(T), NEW m \in 0..Len(s)
  PROVE  /\ SubSeq(s, 1, m) \in Seq(T) /\ Len(SubSeq(s, 1, m)) = m
         /\ \A i \in 1..m : SubSeq(s, 1, m)[i] = s[i]
<1>1. /\ m \in Int /\ 1 \in Int /\ m >= 0
      /\ \A i \in 1..m : s[i] \in T
  OBVIOUS
<1>2. /\ SubSeq(s, 1, m) \in Seq(T)
      /\ Len(SubSeq(s, 1, m)) = IF 1 <= m THEN m - 1 + 1 ELSE 0
      /\ \A i \in 1..(m - 1 + 1) : SubSeq(s, 1, m)[i] = s[1 + i - 1]
  BY <1>1, SubSeqProperties
<1> DEFINE u == SubSeq(s, 1, m)
<1> HIDE DEF u
<1>3. Len(u) = m
  BY <1>1, <1>2 DEF u
<1>4. \A i \in 1..m : u[i] = s[i]
  <2>1. \A i \in 1..(m - 1 + 1) : u[i] = s[1 + i - 1]
    BY <1>2 DEF u
  <2>2. QED
    BY <1>1, <2>1
<1>5. QED
  BY <1>2, <1>3, <1>4 DEF u

\* A line with its literals shuffled ends in 0; if it did before, it has the
\* literals it had.
LEMMA SwappedLineFacts ==
  ASSUME NEW T, 0 \in T, NEW line \in Seq(T), line # <<>>,
         NEW new \in SwappedLine(line)
  PROVE  /\ new \in Seq(T) /\ Len(new) = Len(line) /\ new[Len(new)] = 0
         /\ {new[j] : j \in 1..(Len(new) - 1)} = {line[j] : j \in 1..(Len(line) - 1)}
<1> DEFINE lits == SubSeq(line, 1, Len(line) - 1)
<1>1. PICK s \in Shuffles(lits) : new = Append(s, 0)
  BY DEF SwappedLine
<1>2. /\ lits \in Seq(T) /\ Len(lits) = Len(line) - 1 /\ Len(line) \in Nat \ {0}
      /\ \A j \in 1..(Len(line) - 1) : lits[j] = line[j]
  <2>1. Len(line) \in Nat \ {0} /\ Len(line) - 1 \in 0..Len(line)
    BY EmptySeq
  <2>2. QED
    BY <2>1, PrefixFacts
<1>3. s \in Seq(T) /\ Len(s) = Len(lits) /\ Range(s) = Range(lits)
  BY <1>2, ShuffleFacts
<1>4. /\ new \in Seq(T) /\ Len(new) = Len(s) + 1 /\ new[Len(new)] = 0
      /\ \A j \in 1..Len(s) : new[j] = s[j]
  BY <1>1, <1>3
<1>5. /\ Range(s) = {s[j] : j \in 1..Len(s)}
      /\ Range(lits) = {lits[j] : j \in 1..Len(lits)}
  BY <1>2, <1>3, RangeEquality
<1> HIDE DEF lits
<1>6. {new[j] : j \in 1..(Len(new) - 1)} = Range(s)
  <2>1. Len(s) \in Nat
    BY <1>3
  <2>2. 1..(Len(new) - 1) = 1..Len(s)
    BY <2>1, <1>4
  <2>3. QED
    BY <1>4, <1>5, <2>2
<1>7. {line[j] : j \in 1..(Len(line) - 1)} = Range(lits)
  BY <1>2, <1>5
<1>8. Len(new) = Len(line)
  BY <1>2, <1>3, <1>4
<1>9. QED
  BY <1>3, <1>4, <1>6, <1>7, <1>8
-----------------------------------------------------------------------------
(***************************************************************************)
(* The transformations                                                     *)
(***************************************************************************)
LEMMA TransformCases ==
  ASSUME NEW f, NEW r \in transform(f)
  PROVE  \/ \E new \in swapClauses(f.lines) :
              r = Result(new, f.count, SAT_SAT__UNSAT_UNSAT)
         \/ /\ <<>> \notin Range(f.lines)
            /\ \E new \in swapLiterals(f.lines) :
                 r = Result(new, f.count, SAT_SAT__UNSAT_UNSAT)
         \/ \E n \in 0..f.count : \E new \in addClauses(f.lines, f.vars, n) :
              r = Result(new, f.count + n, SAT_UNKNOWN__UNSAT_UNSAT)
         \/ \E n \in 0..f.count :
              /\ n <= Len(f.lines)
              /\ r = Result(deleteClauses(f.lines, n), f.count - n,
                            SAT_SAT__UNSAT_UNKOWN)
         \/ r = Result(f.lines, f.count, Original)
<1> DEFINE A == {Result(new, f.count, SAT_SAT__UNSAT_UNSAT) : new \in swapClauses(f.lines)}
           B == IF <<>> \in Range(f.lines) THEN {}
                ELSE {Result(new, f.count, SAT_SAT__UNSAT_UNSAT) :
                        new \in swapLiterals(f.lines)}
           C(n) == {Result(new, f.count + n, SAT_UNKNOWN__UNSAT_UNSAT) :
                      new \in addClauses(f.lines, f.vars, n)}
           CN == {k \in 0..f.count : Len(f.lines) + k <= MaxLines}
           D(n) == Result(deleteClauses(f.lines, n), f.count - n, SAT_SAT__UNSAT_UNKOWN)
           DN == {k \in 0..f.count : k <= Len(f.lines)}
           CS == UNION {C(n) : n \in CN}
           DS == {D(n) : n \in DN}
           O == Result(f.lines, f.count, Original)
<1>1. r \in A \cup B \cup CS \cup DS \cup {O}
  BY DEF transform
<1>2. CASE r \in A
  BY <1>2
<1>3. CASE r \in B
  BY <1>3
<1>4. CASE r \in CS
  <2>1. PICK n \in CN : r \in C(n)
    BY <1>4
  <2>2. n \in 0..f.count /\ \E new \in addClauses(f.lines, f.vars, n) :
          r = Result(new, f.count + n, SAT_UNKNOWN__UNSAT_UNSAT)
    BY <2>1
  <2>3. QED
    BY <2>2
<1>5. CASE r \in DS
  <2>1. PICK n \in DN : r = D(n)
    BY <1>5
  <2>2. QED
    BY <2>1
<1>6. CASE r = O
  BY <1>6
<1>7. QED
  <2> HIDE DEF A, B, CS, DS, O
  <2>1. r \in A \/ r \in B \/ r \in CS \/ r \in DS \/ r = O
    BY <1>1
  <2>2. QED
    BY <2>1, <1>2, <1>3, <1>4, <1>5, <1>6

LEMMA SwapLiteralsFacts ==
  ASSUME NEW T, 0 \in T, NEW lines \in Seq(Seq(T)), <<>> \notin Range(lines),
         NEW new \in swapLiterals(lines)
  PROVE  /\ new \in Seq(Seq(T)) /\ Len(new) = Len(lines)
         /\ \A i \in 1..Len(lines) :
              /\ lines[i] \in Seq(T) /\ lines[i] # <<>>
              /\ new[i] \in SwappedLine(lines[i])
<1>1. /\ DOMAIN new = 1..Len(lines) /\ Len(lines) \in Nat
      /\ new = [i \in 1..Len(lines) |-> new[i]]
      /\ \A i \in 1..Len(lines) : new[i] \in SwappedLine(lines[i])
  BY DEF swapLiterals
<1>2. \A i \in 1..Len(lines) : lines[i] \in Seq(T) /\ lines[i] # <<>>
  BY DEF Range
<1>3. \A i \in 1..Len(lines) : new[i] \in Seq(T)
  BY <1>1, <1>2, SwappedLineFacts
<1>4. new \in [1..Len(lines) -> Seq(T)]
  BY <1>1, <1>3
<1>5. new \in Seq(Seq(T)) /\ Len(new) = Len(lines)
  BY <1>1, <1>4
<1>6. QED
  BY <1>1, <1>2, <1>5

LEMMA AddClausesFacts ==
  ASSUME NEW T, NEW lines \in Seq(Seq(T)), NEW v, NewClauses(v) \subseteq Seq(T),
         NEW n \in Nat, NEW new \in addClauses(lines, v, n)
  PROVE  /\ new \in Seq(Seq(T)) /\ Len(new) = Len(lines) + n
         /\ \A i \in 1..Len(lines) : new[i] = lines[i]
         /\ \A i \in 1..Len(new) : i > Len(lines) => new[i] \in NewClauses(v)
<1>1. PICK added \in [1..n -> NewClauses(v)] : new = lines \o added
  BY DEF addClauses
<1>2. added \in Seq(Seq(T)) /\ Len(added) = n
  OBVIOUS
<1>3. /\ new \in Seq(Seq(T)) /\ Len(new) = Len(lines) + n
      /\ \A i \in 1..Len(new) :
           new[i] = IF i <= Len(lines) THEN lines[i] ELSE added[i - Len(lines)]
  <2> DEFINE A == added
  <2>1. A \in Seq(Seq(T)) /\ Len(A) = n /\ new = lines \o A
    BY <1>1, <1>2
  <2> HIDE DEF A
  <2> DEFINE r == lines \o A
  <2>2. /\ r \in Seq(Seq(T)) /\ Len(r) = Len(lines) + Len(A)
        /\ \A i \in 1..(Len(lines) + Len(A)) :
             r[i] = IF i <= Len(lines) THEN lines[i] ELSE A[i - Len(lines)]
    BY <2>1, ConcatProperties, Zenon
  <2>3. new = r
    BY <2>1
  <2> HIDE DEF r
  <2>4. QED
    BY <2>1, <2>2, <2>3, Zenon DEF A
<1>4. ASSUME NEW i \in 1..Len(new), i > Len(lines) PROVE new[i] \in NewClauses(v)
  <2>1. i - Len(lines) \in 1..n
    BY <1>3, <1>4
  <2>2. new[i] = added[i - Len(lines)]
    BY <1>3, <1>4
  <2>3. QED
    BY <2>1, <2>2
<1>5. QED
  BY <1>3, <1>4

LEMMA NewClauseNonEmpty ==
  ASSUME NEW v, NEW c \in NewClauses(v)
  PROVE  c # <<>>
<1>1. PICK w \in 1..MaxWidth :
        \E s \in [1..w -> IF v < 1 THEN UbTokens ELSE 1..v] : c = Append(s, 0)
  BY DEF NewClauses
<1>2. PICK s \in [1..w -> IF v < 1 THEN UbTokens ELSE 1..v] : c = Append(s, 0)
  BY <1>1
<1> DEFINE T == (IF v < 1 THEN UbTokens ELSE 1..v) \cup {0}
<1>3. s \in [1..w -> T] /\ w \in Nat
  BY <1>1, <1>2, ConstFacts
<1> HIDE DEF T
<1>4. s \in Seq(T)
  BY <1>3
<1>5. 0 \in T
  BY DEF T
<1>6. QED
  BY <1>2, <1>4, <1>5, AppendProperties

\* The text a transformation returns has the tokens of the old one and of the
\* added clauses; the count is changed as the lines are; no line becomes blank.
LEMMA TransformText ==
  ASSUME NEW T, 0 \in T, NEW f, f.lines \in Seq(Seq(T)), f.count \in Int,
         NewClauses(f.vars) \subseteq Seq(T), NEW r \in transform(f)
  PROVE  /\ r.lines \in Seq(Seq(T)) /\ r.count \in Int
         /\ r.count - Len(r.lines) = f.count - Len(f.lines)
         /\ r.count < 0 => f.count < 0
         /\ <<>> \in Range(r.lines) => <<>> \in Range(f.lines)
<1> DEFINE old == f.lines
<1> USE DEF Result
<1>0. old \in Seq(Seq(T)) /\ Len(old) \in Nat /\ DOMAIN old = 1..Len(old)
  OBVIOUS
<1>1. CASE \E new \in swapClauses(old) : r = Result(new, f.count, SAT_SAT__UNSAT_UNSAT)
  <2>1. PICK new \in Shuffles(old) : r.lines = new /\ r.count = f.count
    BY <1>1 DEF swapClauses
  <2>2. new \in Seq(Seq(T)) /\ Len(new) = Len(old) /\ Range(new) = Range(old)
    BY <1>0, <2>1, ShuffleFacts
  <2>3. QED
    BY <2>1, <2>2
<1>2. CASE /\ <<>> \notin Range(old)
           /\ \E new \in swapLiterals(old) : r = Result(new, f.count, SAT_SAT__UNSAT_UNSAT)
  <2>1. PICK new \in swapLiterals(old) : r.lines = new /\ r.count = f.count
    BY <1>2
  <2>2. /\ new \in Seq(Seq(T)) /\ Len(new) = Len(old)
        /\ \A i \in 1..Len(old) : /\ old[i] \in Seq(T) /\ old[i] # <<>>
                                  /\ new[i] \in SwappedLine(old[i])
    BY <1>0, <1>2, <2>1, SwapLiteralsFacts
  <2>3. ASSUME NEW i \in 1..Len(old) PROVE new[i] # <<>>
    <3>1. Len(new[i]) = Len(old[i])
      BY <2>2, SwappedLineFacts
    <3>2. Len(old[i]) > 0
      BY <2>2
    <3>3. QED
      BY <3>1, <3>2
  <2>4. <<>> \notin Range(new)
    BY <2>2, <2>3 DEF Range
  <2>5. QED
    BY <2>1, <2>2, <2>4
<1>3. CASE \E n \in 0..f.count : \E new \in addClauses(old, f.vars, n) :
             r = Result(new, f.count + n, SAT_UNKNOWN__UNSAT_UNSAT)
  <2>1. PICK n \in 0..f.count : \E new \in addClauses(old, f.vars, n) :
          r = Result(new, f.count + n, SAT_UNKNOWN__UNSAT_UNSAT)
    BY <1>3
  <2>2. PICK new \in addClauses(old, f.vars, n) : r.lines = new /\ r.count = f.count + n
    BY <2>1
  <2>3. n \in Nat
    BY <2>1
  <2>4. /\ new \in Seq(Seq(T)) /\ Len(new) = Len(old) + n
        /\ \A i \in 1..Len(old) : new[i] = old[i]
        /\ \A i \in 1..Len(new) : i > Len(old) => new[i] \in NewClauses(f.vars)
    <3> HIDE DEF old
    <3>1. QED
      BY <1>0, <2>3, AddClausesFacts
  <2>5. ASSUME <<>> \notin Range(old), NEW i \in 1..Len(new) PROVE new[i] # <<>>
    <3>1. CASE i <= Len(old)
      <4>1. i \in DOMAIN old /\ new[i] = old[i]
        BY <1>0, <2>4, <3>1
      <4>2. QED
        BY <2>5, <4>1 DEF Range
    <3>2. CASE i > Len(old)
      BY <2>4, <3>2, NewClauseNonEmpty
    <3>3. QED
      BY <1>0, <3>1, <3>2
  <2>6. <<>> \notin Range(old) => <<>> \notin Range(new)
    BY <2>4, <2>5 DEF Range
  <2>7. QED
    BY <1>0, <2>2, <2>3, <2>4, <2>6
<1>4. CASE \E n \in 0..f.count :
             /\ n <= Len(old)
             /\ r = Result(deleteClauses(old, n), f.count - n, SAT_SAT__UNSAT_UNKOWN)
  <2>1. PICK n \in 0..f.count : /\ n <= Len(old)
                                /\ r.lines = SubSeq(old, 1, Len(old) - n)
                                /\ r.count = f.count - n
    BY <1>4 DEF deleteClauses
  <2> DEFINE new == SubSeq(old, 1, Len(old) - n)
  <2>2. /\ new \in Seq(Seq(T)) /\ Len(new) = Len(old) - n
        /\ \A i \in 1..Len(new) : new[i] = old[i] /\ i \in 1..Len(old)
    <3>1. Len(old) - n \in 0..Len(old)
      BY <1>0, <2>1
    <3>2. /\ new \in Seq(Seq(T)) /\ Len(new) = Len(old) - n
          /\ \A i \in 1..(Len(old) - n) : new[i] = old[i]
      BY <1>0, <3>1, PrefixFacts
    <3>3. \A i \in 1..(Len(old) - n) : i \in 1..Len(old)
      BY <1>0, <3>1
    <3> HIDE DEF new, old
    <3>4. QED
      BY <3>2, <3>3
  <2>3. <<>> \notin Range(old) => <<>> \notin Range(new)
    BY <1>0, <2>2 DEF Range
  <2>4. QED
    BY <1>0, <2>1, <2>2, <2>3
<1>5. CASE r = Result(old, f.count, Original)
  BY <1>5
<1>6. QED
  BY <1>1, <1>2, <1>3, <1>4, <1>5, TransformCases

\* The tokens of an added clause.
LEMMA NewClauseTokens ==
  ASSUME NEW v \in 0..N
  PROVE  NewClauses(v) \subseteq Seq(Tokens)
<1>1. \A T : \A c \in NewClauses(v) :
        0 \in T /\ (IF v < 1 THEN UbTokens ELSE 1..v) \subseteq T => c \in Seq(T)
  <2> SUFFICES ASSUME NEW T, NEW c \in NewClauses(v), 0 \in T,
                      (IF v < 1 THEN UbTokens ELSE 1..v) \subseteq T
               PROVE  c \in Seq(T)
    OBVIOUS
  <2> DEFINE U == IF v < 1 THEN UbTokens ELSE 1..v
  <2>1. PICK w \in 1..MaxWidth : \E s \in [1..w -> U] : c = Append(s, 0)
    BY DEF NewClauses
  <2>2. PICK s \in [1..w -> U] : c = Append(s, 0)
    BY <2>1
  <2>3. U \subseteq T
    OBVIOUS
  <2> HIDE DEF U
  <2>4. s \in [1..w -> T] /\ w \in Nat
    BY <2>1, <2>2, <2>3, ConstFacts
  <2>5. s \in Seq(T)
    BY <2>4
  <2>6. QED
    BY <2>2, <2>5, AppendProperties
<1>2. 0 \in Tokens /\ (IF v < 1 THEN UbTokens ELSE 1..v) \subseteq Tokens
  BY ConstFacts DEF Tokens, UbTokens, Lits
<1>3. QED
  BY <1>1, <1>2

-----------------------------------------------------------------------------
(***************************************************************************)
(* The inductive invariant                                                 *)
(***************************************************************************)
\* What the transformations keep of a formula, whatever was loaded for it: by
\* how many lines its count is wrong, that it is not negative, and that every
\* line has a token.
Kept(f) ==
  /\ f.count - Len(f.lines) = Miscount(f.name)
  /\ f.count < 0 => header[f.name].count < 0
  /\ <<>> \in Range(f.lines) => <<>> \in Range(input[f.name].lines)

FormulaSet ==
  {f \in [lines : Lines, count : Int, vars : 0..N, name : DOMAIN input] : Kept(f)}

IInv ==
  /\ input \in InputSets
  /\ header \in [DOMAIN input -> [vars : 0..N, count : Int]]
  /\ queue \in Seq(FormulaSet)
  /\ failures \in 0..MaxFailures
  /\ Len(queue) + failures = Len(input)
  /\ test.new \in Lines /\ test.old \in Lines
  /\ status \in {"running", "undefined"}
  /\ UndefinedCause

LEMMA InputFacts ==
  ASSUME input \in InputSets
  PROVE  /\ input \in Seq(Files) /\ Len(input) \in Nat /\ DOMAIN input = 1..Len(input)
         /\ \A i \in DOMAIN input : /\ input[i].lines \in Lines
                                    /\ Extracted(input[i]) \subseteq
                                         [vars : 0..N, count : Int]
<1>1. input \in Seq(Files) /\ \A i \in DOMAIN input : input[i] \in Files
  BY InputSetsAssumption
<1>2. ASSUME NEW file \in Files
      PROVE  /\ file.lines \in Lines
             /\ Extracted(file) \subseteq [vars : 0..N, count : Int]
  <2>1. /\ file.lines \in Seq(Seq(Tokens)) /\ file.vars \in 0..N /\ file.count \in Int
        /\ 0 \in 0..N
    BY ConstFacts DEF Files
  <2>2. QED
    BY <2>1, GarbageAssumption DEF Extracted, Lines
<1>3. QED
  BY <1>1, <1>2

LEMMA InitIInv == Init => IInv
<1> SUFFICES ASSUME Init PROVE IInv
  OBVIOUS
<1>1. /\ input \in InputSets /\ test = NoTest /\ status = "running" /\ failures = 0
      /\ header \in [DOMAIN input -> UNION {Extracted(input[i]) : i \in DOMAIN input}]
      /\ \A i \in DOMAIN input : header[i] \in Extracted(input[i])
      /\ queue = [i \in DOMAIN input |->
                    Queued(input[i].lines, header[i].count, header[i].vars, i)]
  BY DEF Init
<1>2. \A i \in DOMAIN input : /\ header[i] \in [vars : 0..N, count : Int]
                              /\ input[i].lines \in Lines
  BY <1>1, InputFacts
<1>3. header \in [DOMAIN input -> [vars : 0..N, count : Int]]
  BY <1>1, <1>2
<1>4. ASSUME NEW i \in DOMAIN input
      PROVE  Queued(input[i].lines, header[i].count, header[i].vars, i) \in FormulaSet
  <2> DEFINE f == Queued(input[i].lines, header[i].count, header[i].vars, i)
  <2>1. /\ f.lines = input[i].lines /\ f.count = header[i].count
        /\ f.vars = header[i].vars /\ f.name = i
        /\ f \in [lines : Lines, count : Int, vars : 0..N, name : DOMAIN input]
    BY <1>2 DEF Queued
  <2> HIDE DEF f
  <2>2. Kept(f)
    BY <2>1 DEF Kept, Miscount
  <2>3. f \in FormulaSet
    BY <2>1, <2>2 DEF FormulaSet
  <2>4. QED
    BY <2>3 DEF f
<1>5. queue \in Seq(FormulaSet) /\ Len(queue) = Len(input) /\ Len(input) \in Nat
  BY <1>1, <1>4, InputFacts
<1>6. test.new \in Lines /\ test.old \in Lines
  BY <1>1 DEF NoTest, Lines
<1>7. QED
  BY <1>1, <1>3, <1>5, <1>6, ConstFacts DEF IInv, UndefinedCause

\* A transformed formula is queued with its count as wrong as it was.
LEMMA TransformKept ==
  ASSUME NEW f \in FormulaSet, NEW r \in transform(f)
  PROVE  /\ r.lines \in Lines
         /\ Queued(r.lines, r.count, f.vars, f.name) \in FormulaSet
<1>1. /\ f.lines \in Seq(Seq(Tokens)) /\ f.count \in Int /\ f.vars \in 0..N
      /\ f.name \in DOMAIN input /\ Kept(f)
  BY DEF FormulaSet, Lines
<1>2. 0 \in Tokens /\ NewClauses(f.vars) \subseteq Seq(Tokens)
  BY <1>1, NewClauseTokens DEF Tokens
<1>3. /\ r.lines \in Seq(Seq(Tokens)) /\ r.count \in Int
      /\ r.count - Len(r.lines) = f.count - Len(f.lines)
      /\ r.count < 0 => f.count < 0
      /\ <<>> \in Range(r.lines) => <<>> \in Range(f.lines)
  BY <1>1, <1>2, TransformText
<1> DEFINE q == Queued(r.lines, r.count, f.vars, f.name)
<1>4. /\ q.lines = r.lines /\ q.count = r.count /\ q.name = f.name
      /\ q \in [lines : Lines, count : Int, vars : 0..N, name : DOMAIN input]
  BY <1>1, <1>3 DEF Queued, Lines
<1> HIDE DEF q
<1>5. Kept(q)
  BY <1>1, <1>3, <1>4 DEF Kept
<1>6. q \in FormulaSet
  BY <1>4, <1>5 DEF FormulaSet
<1>7. QED
  BY <1>3, <1>6 DEF q, Lines

\* The formula at the front tells why its turn may be undefined.
LEMMA CauseOfUndefined ==
  ASSUME NEW f \in FormulaSet, MayBeUndefined(f)
  PROVE  \/ header[f.name].count < 0
         \/ Miscount(f.name) > 0
         \/ <<>> \in Range(input[f.name].lines)
<1>1. f.count \in Int /\ Len(f.lines) \in Nat /\ Kept(f)
  BY DEF FormulaSet, Lines
<1>2. QED
  BY <1>1 DEF Kept, MayBeUndefined

LEMMA SameFormulaSet ==
  ASSUME input' = input, header' = header
  PROVE  FormulaSet' = FormulaSet
BY DEF FormulaSet, Kept, Miscount

LEMMA StepIInv == IInv /\ [Next]_vars => IInv'
<1> SUFFICES ASSUME IInv, [Next]_vars PROVE IInv'
  OBVIOUS
<1>0. /\ input \in InputSets /\ queue \in Seq(FormulaSet)
      /\ header \in [DOMAIN input -> [vars : 0..N, count : Int]]
      /\ failures \in 0..MaxFailures /\ Len(queue) + failures = Len(input)
      /\ Len(queue) \in Nat /\ Len(input) \in Nat
      /\ test.new \in Lines /\ test.old \in Lines
      /\ status \in {"running", "undefined"}
  BY InputFacts DEF IInv
<1>1. CASE Turn
  <2>1. /\ queue # <<>> /\ status = "running" /\ status' = status
        /\ failures' = failures /\ input' = input /\ header' = header
    BY <1>1 DEF Turn
  <2> DEFINE f == Head(queue)
  <2>2. PICK r \in transform(f) :
          /\ test' = [new |-> r.lines, old |-> f.lines, label |-> r.label,
                      name |-> f.name]
          /\ queue' = Append(Tail(queue), Queued(r.lines, r.count, f.vars, f.name))
    BY <1>1 DEF Turn
  <2>3. f \in FormulaSet /\ Tail(queue) \in Seq(FormulaSet)
        /\ Len(Tail(queue)) = Len(queue) - 1
    BY <1>0, <2>1, HeadTailProperties
  <2>4. /\ r.lines \in Lines /\ f.lines \in Lines
        /\ Queued(r.lines, r.count, f.vars, f.name) \in FormulaSet
    BY <2>3, TransformKept DEF FormulaSet
  <2>5. queue' \in Seq(FormulaSet) /\ Len(queue') = Len(queue)
    BY <1>0, <2>2, <2>3, <2>4, AppendProperties
  <2>6. test'.new \in Lines /\ test'.old \in Lines
    BY <2>2, <2>4
  <2>7. QED
    BY <1>0, <2>1, <2>5, <2>6, SameFormulaSet DEF IInv, UndefinedCause
<1>2. CASE OpenFails
  <2>1. /\ queue # <<>> /\ status = "running" /\ failures < MaxFailures
        /\ failures' = failures + 1 /\ queue' = Tail(queue)
        /\ test' = test /\ status' = status /\ input' = input /\ header' = header
    BY <1>2 DEF OpenFails
  <2>2. Tail(queue) \in Seq(FormulaSet) /\ Len(Tail(queue)) = Len(queue) - 1
    BY <1>0, <2>1, HeadTailProperties
  <2>3. failures + 1 \in 0..MaxFailures
        /\ Len(Tail(queue)) + (failures + 1) = Len(input)
    BY <1>0, <2>1, <2>2, ConstFacts
  <2>4. QED
    BY <1>0, <2>1, <2>2, <2>3, SameFormulaSet DEF IInv, UndefinedCause
<1>3. CASE Undefined
  <2>1. /\ queue # <<>> => MayBeUndefined(Head(queue))
        /\ status' = "undefined" /\ queue' = queue /\ test' = test
        /\ failures' = failures /\ input' = input /\ header' = header
    BY <1>3 DEF Undefined
  <2>2. queue = <<>> => failures = Len(input)
    BY <1>0
  <2>3. queue # <<>> => \/ header[Head(queue).name].count < 0
                        \/ Miscount(Head(queue).name) > 0
                        \/ <<>> \in Range(input[Head(queue).name].lines)
    BY <1>0, <2>1, HeadTailProperties, CauseOfUndefined
  <2>4. UndefinedCause'
    BY <2>1, <2>2, <2>3 DEF UndefinedCause, Miscount
  <2>5. QED
    BY <1>0, <2>1, <2>4, SameFormulaSet DEF IInv
<1>4. CASE UNCHANGED vars
  BY <1>4, SameFormulaSet DEF vars, IInv, UndefinedCause, Miscount
<1>5. QED
  BY <1>1, <1>2, <1>3, <1>4 DEF Next

THEOREM Invariance == Spec => []IInv
BY InitIInv, StepIInv, PTL DEF Spec

\* The type invariant, for every set of input files.
THEOREM TypeCorrect == Spec => []TypeOK
<1>1. IInv => TypeOK
  <2> SUFFICES ASSUME IInv PROVE TypeOK
    OBVIOUS
  <2>1. ASSUME NEW i \in DOMAIN queue
        PROVE  /\ queue[i].lines \in Lines /\ queue[i].count \in Int
               /\ queue[i].vars \in Int /\ queue[i].name \in DOMAIN input
    <3>1. queue[i] \in FormulaSet
      BY DEF IInv
    <3>2. QED
      BY <3>1, ConstFacts DEF FormulaSet
  <2>2. QED
    BY <2>1 DEF IInv, TypeOK
<1>2. QED
  BY <1>1, Invariance, PTL

\* The queued count is wrong by as much as what was read of the header, after
\* any chain of added and deleted clauses, for DIMACS files as for any others.
THEOREM CountErrorKept == Spec => []CountKeepsError
<1>1. IInv => CountKeepsError
  <2> SUFFICES ASSUME IInv, NEW i \in DOMAIN queue
               PROVE  queue[i].count - Len(queue[i].lines) = Miscount(queue[i].name)
    BY DEF CountKeepsError
  <2>1. queue[i] \in FormulaSet
    BY DEF IInv
  <2>2. QED
    BY <2>1 DEF FormulaSet, Kept
<1>2. QED
  BY <1>1, Invariance, PTL

\* The loop is undefined only for what was loaded of the file whose turn it is,
\* or after an open has failed for every file.
THEOREM UndefinedExplained == Spec => []UndefinedCause
<1>1. IInv => UndefinedCause
  BY DEF IInv
<1>2. QED
  BY <1>1, Invariance, PTL
-----------------------------------------------------------------------------
(***************************************************************************)
(* The label                                                               *)
(***************************************************************************)
IsClauseLine(line) ==
  LET w == Len(line) IN
    w > 0 /\ \A j \in 1..w : IF j = w THEN line[j] = 0 ELSE line[j] \in Lits

LitSet(line) == {line[j] : j \in 1..(Len(line) - 1)}

LEMMA ClauseLineFacts ==
  ASSUME NEW line \in Seq(Tokens), IsClauseLine(line)
  PROVE  /\ Len(line) \in Nat \ {0} /\ DOMAIN line = 1..Len(line)
         /\ line[Len(line)] = 0
         /\ \A j \in 1..(Len(line) - 1) : line[j] # 0
         /\ ~IsComment(line)
<1>1. Len(line) \in Nat \ {0} /\ DOMAIN line = 1..Len(line)
  BY DEF IsClauseLine
<1> DEFINE w == Len(line)
<1>0. \A j \in 1..w : IF j = w THEN line[j] = 0 ELSE line[j] \in Lits
  BY DEF IsClauseLine
<1> HIDE DEF w
<1>2. line[Len(line)] = 0
  <2>0. w \in Nat \ {0}
    BY <1>1 DEF w
  <2>1. line[w] = 0
    BY <1>0, <2>0
  <2>2. QED
    BY <2>1 DEF w
<1>3. ASSUME NEW j \in 1..(Len(line) - 1) PROVE line[j] \in Lits
  <2>0. w \in Nat \ {0} /\ j \in 1..(w - 1)
    BY <1>1 DEF w
  <2>1. j \in 1..w /\ j # w
    BY <2>0
  <2>2. QED
    BY <1>0, <2>1
<1>4. line[1] # Word
  <2>1. 1 = Len(line) \/ 1 \in 1..(Len(line) - 1)
    BY <1>1
  <2>2. QED
    BY <1>2, <1>3, <2>1, ConstFacts DEF Word, Lits
<1>5. QED
  BY <1>1, <1>2, <1>3, <1>4 DEF IsComment, Lits

LEMMA PlacesFacts ==
  ASSUME NEW lines, NEW i, NEW j
  PROVE  <<i, j>> \in Places(lines)
           <=> i \in DOMAIN lines /\ ~IsComment(lines[i]) /\ j \in DOMAIN lines[i]
<1> DEFINE K == {k \in DOMAIN lines : ~IsComment(lines[k])}
           P(k) == {<<k, l>> : l \in DOMAIN lines[k]}
<1>1. Places(lines) = UNION {P(k) : k \in K}
  BY DEF Places
<1>2. <<i, j>> \in UNION {P(k) : k \in K} <=> \E k \in K : <<i, j>> \in P(k)
  OBVIOUS
<1>3. \A k : <<i, j>> \in P(k) <=> k = i /\ j \in DOMAIN lines[i]
  OBVIOUS
<1>4. (\E k \in K : <<i, j>> \in P(k)) <=> i \in K /\ j \in DOMAIN lines[i]
  <2> HIDE DEF K, P
  <2>1. QED
    BY <1>3
<1>5. QED
  BY <1>1, <1>2, <1>4

LEMMA PlaceIsPair ==
  ASSUME NEW lines, NEW a \in Places(lines)
  PROVE  a = <<a[1], a[2]>>
BY DEF Places

\* A line that is a clause is read as one, whatever the lines after the first n.
LEMMA ClauseOfLine ==
  ASSUME NEW lines \in Lines, NEW n \in 0..Len(lines),
         \A k \in 1..n : IsClauseLine(lines[k]), NEW i \in 1..n
  PROVE  /\ <<i, Len(lines[i])>> \in Zeros(lines)
         /\ ClauseEndingAt(lines, <<i, Len(lines[i])>>) = LitSet(lines[i])
<1> DEFINE z == <<i, Len(lines[i])>>
<1>1. /\ DOMAIN lines = 1..Len(lines) /\ Len(lines) \in Nat
      /\ \A k \in 1..Len(lines) : /\ lines[k] \in Seq(Tokens) /\ Len(lines[k]) \in Nat
                                 /\ DOMAIN lines[k] = 1..Len(lines[k])
  BY DEF Lines
<1>2. \A k \in 1..n : /\ k \in DOMAIN lines /\ k \in Int
                      /\ Len(lines[k]) \in Nat \ {0}
                      /\ DOMAIN lines[k] = 1..Len(lines[k])
                      /\ lines[k][Len(lines[k])] = 0
                      /\ \A j \in 1..(Len(lines[k]) - 1) : lines[k][j] # 0
                      /\ ~IsComment(lines[k])
  BY <1>1, ClauseLineFacts
<1>3. \A k \in 1..n : <<k, Len(lines[k])>> \in Zeros(lines)
  BY <1>2, PlacesFacts DEF Zeros, Token
<1>4. ASSUME NEW j \in 1..(Len(lines[i]) - 1)
      PROVE  lines[i][j] \in ClauseEndingAt(lines, z)
  <2> DEFINE a == <<i, j>>
  <2>1. a \in Places(lines) /\ Token(lines, a) = lines[i][j] /\ Before(a, z)
    BY <1>2, PlacesFacts DEF Token, Before
  <2>2. ASSUME NEW y \in Zeros(lines), Before(y, z) PROVE Before(y, a)
    <3>1. /\ y = <<y[1], y[2]>> /\ y \in Places(lines) /\ lines[y[1]][y[2]] = 0
      BY PlaceIsPair DEF Zeros, Token
    <3>2. y[1] \in DOMAIN lines /\ y[2] \in DOMAIN lines[y[1]]
      BY <3>1, PlacesFacts
    <3>3. CASE y[1] < i
      BY <3>3 DEF Before
    <3>4. CASE y[1] = i /\ y[2] < Len(lines[i])
      <4>1. y[2] \in 1..(Len(lines[i]) - 1)
        BY <1>2, <3>2, <3>4
      <4>2. QED
        BY <1>2, <3>1, <3>4, <4>1
    <3>5. QED
      BY <2>2, <3>3, <3>4 DEF Before
  <2>3. QED
    BY <2>1, <2>2 DEF ClauseEndingAt
<1>5. ASSUME NEW x \in ClauseEndingAt(lines, z) PROVE x \in LitSet(lines[i])
  <2>1. PICK a \in Places(lines) :
          /\ x = Token(lines, a) /\ Before(a, z)
          /\ \A y \in Zeros(lines) : Before(y, a) \/ ~Before(y, z)
    BY <1>5 DEF ClauseEndingAt
  <2>2. /\ a = <<a[1], a[2]>> /\ a[1] \in DOMAIN lines /\ a[2] \in DOMAIN lines[a[1]]
        /\ a[1] \in Int /\ a[2] \in Int
    BY <1>1, PlaceIsPair, PlacesFacts
  <2>3. CASE a[1] < i
    <3> DEFINE y == <<a[1], Len(lines[a[1]])>>
    <3>1. a[1] \in 1..n
      BY <1>1, <2>2, <2>3
    <3>2. y \in Zeros(lines) /\ Before(y, z) /\ ~Before(y, a)
      BY <1>2, <1>3, <2>2, <2>3, <3>1 DEF Before
    <3>3. QED
      BY <2>1, <3>2
  <2>4. CASE a[1] = i /\ a[2] < Len(lines[i])
    <3>1. a[2] \in 1..(Len(lines[i]) - 1) /\ x = lines[i][a[2]]
      BY <1>2, <2>1, <2>2, <2>4 DEF Token
    <3>2. QED
      BY <3>1 DEF LitSet
  <2>5. QED
    BY <2>1, <2>3, <2>4 DEF Before
<1>6. QED
  BY <1>3, <1>4, <1>5 DEF LitSet

\* A formula with one clause on a line has the clauses of its lines.
LEMMA ClausesOfLines ==
  ASSUME NEW lines \in Lines, OneClausePerLine(lines)
  PROVE  ClausesOf(lines) = {LitSet(lines[i]) : i \in 1..Len(lines)}
<1>1. /\ DOMAIN lines = 1..Len(lines) /\ Len(lines) \in Nat /\ Len(lines) \in 0..Len(lines)
      /\ \A i \in 1..Len(lines) : IsClauseLine(lines[i]) /\ lines[i] \in Seq(Tokens)
  BY DEF Lines, OneClausePerLine, IsClauseLine
<1>2. \A i \in 1..Len(lines) :
        /\ <<i, Len(lines[i])>> \in Zeros(lines)
        /\ ClauseEndingAt(lines, <<i, Len(lines[i])>>) = LitSet(lines[i])
  BY <1>1, ClauseOfLine
<1>3. ASSUME NEW z \in Zeros(lines)
      PROVE  \E i \in 1..Len(lines) : z = <<i, Len(lines[i])>>
  <2>1. /\ z = <<z[1], z[2]>> /\ z \in Places(lines) /\ lines[z[1]][z[2]] = 0
    BY PlaceIsPair DEF Zeros, Token
  <2>2. z[1] \in 1..Len(lines) /\ z[2] \in DOMAIN lines[z[1]]
    BY <1>1, <2>1, PlacesFacts
  <2> DEFINE line == lines[z[1]]
  <2>3. /\ Len(line) \in Nat \ {0} /\ DOMAIN line = 1..Len(line)
        /\ \A j \in 1..(Len(line) - 1) : line[j] # 0
    BY <1>1, <2>2, ClauseLineFacts
  <2>4. z[2] = Len(line)
    BY <2>1, <2>2, <2>3
  <2>5. QED
    BY <2>1, <2>2, <2>4
<1>4. ASSUME NEW c \in ClausesOf(lines)
      PROVE  c \in {LitSet(lines[i]) : i \in 1..Len(lines)}
  BY <1>2, <1>3 DEF ClausesOf
<1>5. ASSUME NEW i \in 1..Len(lines) PROVE LitSet(lines[i]) \in ClausesOf(lines)
  BY <1>2 DEF ClausesOf
<1>6. QED
  BY <1>4, <1>5

\* What satisfies a formula satisfies each part of it.
LEMMA FewerClauses ==
  ASSUME NEW a, NEW b, ClausesOf(a) \subseteq ClausesOf(b), Sat(b)
  PROVE  Sat(a)
BY DEF Sat

LEMMA ShuffledClauses ==
  ASSUME NEW old \in Lines, OneClausePerLine(old), NEW new \in swapClauses(old)
  PROVE  ClausesOf(new) = ClausesOf(old)
<1>1. new \in Lines /\ Range(new) = Range(old)
  BY ShuffleFacts DEF swapClauses, Lines
<1>2. OneClausePerLine(new)
  <2>1. ASSUME NEW i \in DOMAIN new PROVE \E k \in DOMAIN old : new[i] = old[k]
    BY <1>1 DEF Range
  <2>2. QED
    BY <2>1 DEF OneClausePerLine
<1>3. \A lines \in Lines : {LitSet(lines[i]) : i \in 1..Len(lines)}
                             = {LitSet(line) : line \in Range(lines)}
  BY RangeEquality DEF Lines
<1>4. QED
  BY <1>1, <1>2, <1>3, ClausesOfLines

LEMMA SwappedClauses ==
  ASSUME NEW old \in Lines, OneClausePerLine(old), <<>> \notin Range(old),
         NEW new \in swapLiterals(old)
  PROVE  ClausesOf(new) = ClausesOf(old)
<1>0. 0 \in Tokens /\ old \in Seq(Seq(Tokens))
  BY DEF Tokens, Lines
<1>1. /\ new \in Lines /\ Len(new) = Len(old) /\ Len(old) \in Nat
      /\ DOMAIN new = 1..Len(new) /\ DOMAIN old = 1..Len(old)
      /\ \A i \in 1..Len(old) : /\ old[i] \in Seq(Tokens) /\ old[i] # <<>>
                               /\ new[i] \in SwappedLine(old[i])
  BY <1>0, SwapLiteralsFacts DEF Lines
<1>2. ASSUME NEW i \in 1..Len(old)
      PROVE  /\ new[i] \in Seq(Tokens) /\ Len(new[i]) = Len(old[i])
             /\ new[i][Len(new[i])] = 0 /\ LitSet(new[i]) = LitSet(old[i])
  <2>1. /\ new[i] \in Seq(Tokens) /\ Len(new[i]) = Len(old[i])
        /\ new[i][Len(new[i])] = 0
        /\ {new[i][j] : j \in 1..(Len(new[i]) - 1)}
             = {old[i][j] : j \in 1..(Len(old[i]) - 1)}
    <3> DEFINE a == old[i]
               b == new[i]
    <3>1. a \in Seq(Tokens) /\ a # <<>> /\ b \in SwappedLine(a)
      BY <1>1
    <3> HIDE DEF a, b
    <3>2. /\ b \in Seq(Tokens) /\ Len(b) = Len(a) /\ b[Len(b)] = 0
          /\ {b[j] : j \in 1..(Len(b) - 1)} = {a[j] : j \in 1..(Len(a) - 1)}
      BY <1>0, <3>1, SwappedLineFacts
    <3>3. QED
      BY <3>2 DEF a, b
  <2>2. QED
    BY <2>1 DEF LitSet
<1>3. OneClausePerLine(new)
  <2>1. ASSUME NEW i \in 1..Len(old) PROVE IsClauseLine(new[i])
    <3>1. Len(new[i]) \in Nat \ {0} /\ Len(new[i]) = Len(old[i])
      BY <1>1, <1>2
    <3>2. ASSUME NEW j \in 1..Len(new[i]), j # Len(new[i]) PROVE new[i][j] \in Lits
      <4>1. j \in 1..(Len(new[i]) - 1)
        BY <3>1, <3>2
      <4>2. PICK k \in 1..(Len(old[i]) - 1) : new[i][j] = old[i][k]
        BY <1>2, <4>1 DEF LitSet
      <4>3. k \in 1..Len(old[i]) /\ k # Len(old[i])
        BY <3>1
      <4>4. QED
        BY <1>1, <4>2, <4>3 DEF OneClausePerLine
    <3>3. QED
      BY <1>2, <3>1, <3>2 DEF IsClauseLine
  <2>2. QED
    BY <1>1, <2>1 DEF OneClausePerLine, IsClauseLine
<1>4. {LitSet(new[i]) : i \in 1..Len(new)} = {LitSet(old[i]) : i \in 1..Len(old)}
  BY <1>1, <1>2
<1>5. QED
  BY <1>1, <1>3, <1>4, ClausesOfLines

\* Whatever is added behind them, the clauses stay.
LEMMA AddedClauses ==
  ASSUME NEW old \in Lines, OneClausePerLine(old), NEW v \in 0..N, NEW n \in Nat,
         NEW new \in addClauses(old, v, n)
  PROVE  ClausesOf(old) \subseteq ClausesOf(new)
<1>0. old \in Seq(Seq(Tokens)) /\ NewClauses(v) \subseteq Seq(Tokens)
  BY NewClauseTokens DEF Lines
<1>1. /\ new \in Lines /\ Len(new) = Len(old) + n
      /\ \A i \in 1..Len(old) : new[i] = old[i]
  <2>1. /\ new \in Seq(Seq(Tokens)) /\ Len(new) = Len(old) + n
        /\ \A i \in 1..Len(old) : new[i] = old[i]
        /\ \A i \in 1..Len(new) : i > Len(old) => new[i] \in NewClauses(v)
    BY <1>0, AddClausesFacts
  <2>2. QED
    BY <2>1 DEF Lines
<1>2. /\ DOMAIN old = 1..Len(old) /\ Len(old) \in 0..Len(new)
      /\ \A i \in 1..Len(old) : IsClauseLine(new[i])
  <2>1. DOMAIN old = 1..Len(old) /\ Len(old) \in Nat
    BY DEF Lines
  <2>2. QED
    BY <1>1, <2>1 DEF OneClausePerLine, IsClauseLine
<1>3. \A i \in 1..Len(old) : LitSet(old[i]) \in ClausesOf(new)
  BY <1>1, <1>2, ClauseOfLine DEF ClausesOf
<1>4. QED
  BY <1>3, ClausesOfLines

LEMMA DeletedClauses ==
  ASSUME NEW old \in Lines, OneClausePerLine(old), NEW n \in 0..Len(old)
  PROVE  ClausesOf(deleteClauses(old, n)) \subseteq ClausesOf(old)
<1> DEFINE new == deleteClauses(old, n)
           m == Len(old) - n
<1>1. /\ Len(old) \in Nat /\ DOMAIN old = 1..Len(old) /\ old \in Seq(Seq(Tokens))
      /\ m \in 0..Len(old)
  BY DEF Lines
<1>2. /\ new \in Lines /\ Len(new) = m
      /\ \A i \in 1..m : new[i] = old[i] /\ i \in 1..Len(old)
  <2> DEFINE k == m
  <2> HIDE DEF k
  <2>1. k \in 0..Len(old) /\ new = SubSeq(old, 1, k)
    BY <1>1 DEF deleteClauses, k
  <2>2. /\ new \in Seq(Seq(Tokens)) /\ Len(new) = k
        /\ \A i \in 1..k : new[i] = old[i]
    BY <1>1, <2>1, PrefixFacts
  <2> HIDE DEF new
  <2>3. \A i \in 1..k : i \in 1..Len(old)
    BY <1>1, <2>1
  <2>4. QED
    BY <2>2, <2>3 DEF Lines, k
<1> HIDE DEF new, m
<1>3. OneClausePerLine(new)
  <2>1. DOMAIN new = 1..m
    BY <1>2 DEF Lines
  <2>2. QED
    BY <1>1, <1>2, <2>1 DEF OneClausePerLine
<1>4. QED
  <2>1. ClausesOf(new) = {LitSet(new[i]) : i \in 1..m}
    BY <1>2, <1>3, ClausesOfLines
  <2>2. ClausesOf(new) \subseteq ClausesOf(old)
    BY <1>2, <2>1, ClausesOfLines
  <2>3. QED
    BY <2>2 DEF new

\* What the label promises of the test, the transformation keeps.
LEMMA TransformLabel ==
  ASSUME NEW f, f.lines \in Lines, f.count \in Int, f.vars \in 0..N,
         OneClausePerLine(f.lines), NEW r \in transform(f)
  PROVE  /\ r.label.sat = "SAT" /\ Sat(f.lines) => Sat(r.lines)
         /\ r.label.unsat = "UNSAT" /\ ~Sat(f.lines) => ~Sat(r.lines)
<1> DEFINE old == f.lines
<1> USE DEF Result
<1>1. CASE \E new \in swapClauses(old) : r = Result(new, f.count, SAT_SAT__UNSAT_UNSAT)
  <2>1. PICK new \in swapClauses(old) : r.lines = new
    BY <1>1
  <2>2. ClausesOf(r.lines) = ClausesOf(old)
    BY <2>1, ShuffledClauses
  <2>3. Sat(r.lines) = Sat(old)
    BY <2>2 DEF Sat
  <2>4. QED
    BY <2>3
<1>2. CASE /\ <<>> \notin Range(old)
           /\ \E new \in swapLiterals(old) : r = Result(new, f.count, SAT_SAT__UNSAT_UNSAT)
  <2>1. PICK new \in swapLiterals(old) : r.lines = new
    BY <1>2
  <2>2. ClausesOf(r.lines) = ClausesOf(old)
    BY <1>2, <2>1, SwappedClauses
  <2>3. Sat(r.lines) = Sat(old)
    BY <2>2 DEF Sat
  <2>4. QED
    BY <2>3
<1>3. CASE \E n \in 0..f.count : \E new \in addClauses(old, f.vars, n) :
             r = Result(new, f.count + n, SAT_UNKNOWN__UNSAT_UNSAT)
  <2>1. PICK n \in 0..f.count : \E new \in addClauses(old, f.vars, n) :
          r = Result(new, f.count + n, SAT_UNKNOWN__UNSAT_UNSAT)
    BY <1>3
  <2>2. PICK new \in addClauses(old, f.vars, n) :
          r = Result(new, f.count + n, SAT_UNKNOWN__UNSAT_UNSAT)
    BY <2>1
  <2>3. r.lines = new /\ r.label.sat # "SAT" /\ n \in Nat
    BY <2>1, <2>2 DEF SAT_UNKNOWN__UNSAT_UNSAT
  <2>4. ClausesOf(old) \subseteq ClausesOf(r.lines)
    BY <2>2, <2>3, AddedClauses
  <2>5. Sat(r.lines) => Sat(old)
    BY <2>4, FewerClauses
  <2>6. QED
    BY <2>3, <2>5
<1>4. CASE \E n \in 0..f.count :
             /\ n <= Len(old)
             /\ r = Result(deleteClauses(old, n), f.count - n, SAT_SAT__UNSAT_UNKOWN)
  <2>1. PICK n \in 0..f.count :
          /\ n <= Len(old)
          /\ r = Result(deleteClauses(old, n), f.count - n, SAT_SAT__UNSAT_UNKOWN)
    BY <1>4
  <2>2. /\ r.lines = deleteClauses(old, n) /\ r.label.unsat # "UNSAT"
        /\ n \in 0..Len(old)
    BY <2>1 DEF SAT_SAT__UNSAT_UNKOWN, Lines
  <2>3. ClausesOf(r.lines) \subseteq ClausesOf(old)
    BY <2>2, DeletedClauses
  <2>4. Sat(old) => Sat(r.lines)
    BY <2>3, FewerClauses
  <2>5. QED
    BY <2>2, <2>4
<1>5. CASE r = Result(old, f.count, Original)
  BY <1>5
<1>6. QED
  BY <1>1, <1>2, <1>3, <1>4, <1>5, TransformCases

\* The label in the .txt file is true of the test beside it, for every input
\* directory, after any chain of transformations.
THEOREM LabelsTrue == Spec => []LabelSound
<1>1. Init => LabelSound
  BY DEF Init, LabelSound, LabelTrue, NoTest, Original
<1>2. IInv /\ LabelSound /\ [Next]_vars => LabelSound'
  <2> SUFFICES ASSUME IInv, LabelSound, [Next]_vars PROVE LabelSound'
    OBVIOUS
  <2>1. CASE Turn
    <3> DEFINE f == Head(queue)
    <3>1. PICK r \in transform(f) :
            test' = [new |-> r.lines, old |-> f.lines, label |-> r.label,
                     name |-> f.name]
      BY <2>1 DEF Turn
    <3>2. f \in FormulaSet
      BY <2>1, HeadTailProperties DEF Turn, IInv
    <3>3. f.lines \in Lines /\ f.count \in Int /\ f.vars \in 0..N
      BY <3>2 DEF FormulaSet
    <3>4. test'.new = r.lines /\ test'.old = f.lines /\ test'.label = r.label
      BY <3>1
    <3> HIDE DEF f
    <3>5. QED
      BY <3>3, <3>4, TransformLabel DEF LabelSound, LabelTrue
  <2>2. CASE test' = test
    BY <2>2 DEF LabelSound, LabelTrue
  <2>3. QED
    BY <2>1, <2>2 DEF Next, OpenFails, Undefined, vars
<1>3. QED
  BY <1>1, <1>2, Invariance, PTL DEF Spec
=============================================================================
