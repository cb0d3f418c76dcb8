------------------------------- MODULE Cdcl2 -------------------------------
(***************************************************************************)
(* solvers/solver2: conflict-driven clause learning with two watched       *)
(* literals.                                                               *)
(*                                                                         *)
(* A struct var is its literal; a struct clause is its index in clauses    *)
(* (nothing is freed); a vector or a queue is a sequence.  watchers[l]     *)
(* lists the clauses to visit when l becomes true.  trail_lim[k] is the    *)
(* length of the trail when level k began.  The functions that loop        *)
(* (propagate, analyze, makeOutput) take one step for each turn, the others*)
(* are one step each.                                                      *)
(*                                                                         *)
(* The parser reads the literals of F, which is well formed and has the    *)
(* number of clauses its header says; the vector cnf and the activities,   *)
(* which nothing reads, are left out.                                      *)
(*                                                                         *)
(* A definition named Slip... is not part of the specification: it is the  *)
(* definition after it with a slip the properties must notice.             *)
(***************************************************************************)
EXTENDS Cnf, FiniteSets

CONSTANT Inputs                  \* the formulas the solver may be given

ASSUME Inputs2Assumption == Inputs \subseteq Formulas

VARIABLES F,                     \* the formula in the file
          pos,                   \* the clause makeOutput reads next
          clauses,               \* the clauses allocated
          watchers, assignments, level, reason, trail, trail_lim,
          propagationQ,
          pc,                    \* where the program is
          cur, todo,             \* propagate: propagatingVar, clauses to visit
          conflict,              \* the conflicting clause, or a reason
          p, seen, count, learnt, backtrackLevel,     \* analyze
          said                   \* the line printed, "none" before

assigned == <<assignments, level, reason, trail, propagationQ>>
analysis == <<p, seen, count, learnt, backtrackLevel>>
vars == <<F, pos, clauses, watchers, assigned, trail_lim, pc, cur, todo,
          conflict, analysis, said>>
-----------------------------------------------------------------------------
unassigned == 2
NULL == 0

\* The value of a literal: 1, 0 or unassigned.
value(l) == CASE assignments[Abs(l)] = unassigned -> unassigned
              [] l > 0 -> assignments[Abs(l)]
              [] OTHER -> 1 - assignments[Abs(l)]

currentDecisionLevel == Len(trail_lim)

\* Position i of c holds the first occurrence of its literal (of its variable).
First(c, i) == \A j \in 1..(i - 1) : c[j] # c[i]
FirstVar(c, i) == \A j \in 1..(i - 1) : Abs(c[j]) # Abs(c[i])

\* A literal becomes true at the current level; false if it was false.
enqueue(l, from) ==
  IF value(l) # unassigned THEN UNCHANGED assigned
  ELSE /\ assignments' = [assignments EXCEPT ![Abs(l)] = IF l > 0 THEN 1 ELSE 0]
       /\ level' = [level EXCEPT ![Abs(l)] = currentDecisionLevel]
       /\ reason' = [reason EXCEPT ![Abs(l)] = from]
       /\ trail' = Append(trail, l)
       /\ propagationQ' = Append(propagationQ, l)

\* addToWatchersOf: the clause is to be visited when the literals ls are true.
Watch(w, ls, c) ==
  [l \in Lits |-> IF l \in ls THEN Append(w[l], c) ELSE w[l]]

\* Undo the assignments of trail[k + 1] and after.
UndoTo(k) ==
  LET undone == {Abs(trail[i]) : i \in (k + 1)..Len(trail)}
  IN /\ assignments' = [v \in Vars |-> IF v \in undone THEN unassigned
                                                       ELSE assignments[v]]
     /\ level' = [v \in Vars |-> IF v \in undone THEN -1 ELSE level[v]]
     /\ reason' = [v \in Vars |-> IF v \in undone THEN NULL ELSE reason[v]]
     /\ trail' = SubSeq(trail, 1, k)
-----------------------------------------------------------------------------
(***************************************************************************)
(* initialize: the parser                                                  *)
(***************************************************************************)
Init ==
  /\ F \in Inputs
  /\ pos = 1
  /\ clauses = <<>>
  /\ watchers = [l \in Lits |-> <<>>]
  /\ assignments = [v \in Vars |-> unassigned]
  /\ level = [v \in Vars |-> -1]
  /\ reason = [v \in Vars |-> NULL]
  /\ trail = <<>> /\ trail_lim = <<>> /\ propagationQ = <<>>
  /\ pc = "parse"
  /\ cur = NULL /\ todo = <<>> /\ conflict = NULL
  /\ p = NULL /\ seen = {} /\ count = 0 /\ learnt = <<>> /\ backtrackLevel = 0
  /\ said = "none"

\* The positions CLAUSEclean deletes: of consecutive false literals the first,
\* the third and so on, for i goes on to the literal after the next.
Deleted(c) ==
  {i \in DOMAIN c :
     \E s \in 1..i : /\ \A j \in s..i : value(c[j]) = 0
                     /\ s = 1 \/ value(c[s - 1]) # 0
                     /\ (i - s) % 2 = 0}

\* CLAUSEclean returns true: it has seen a true literal.
Satisfied(c) == \E i \in DOMAIN c : value(c[i]) = 1 /\ (i - 1) \notin Deleted(c)

CLAUSEclean(c) == At(c, DOMAIN c \ Deleted(c))

CLAUSEremoveDuplicates(c) == At(c, {i \in DOMAIN c : First(c, i)})

Shortened(c) == CLAUSEremoveDuplicates(CLAUSEclean(c))

Parsing == pc = "parse" /\ pos <= Len(F)

ParseSatisfied ==
  /\ Parsing /\ Satisfied(F[pos])
  /\ pos' = pos + 1
  /\ UNCHANGED <<F, clauses, watchers, assigned, trail_lim, pc, cur, todo,
                 conflict, analysis, said>>

\* main prints UNSAT when initialize returns NULL.
ParseEmpty ==
  /\ Parsing /\ ~Satisfied(F[pos])
  /\ Shortened(F[pos]) = <<>>
  /\ pc' = "exit" /\ said' = "UNSAT"
  /\ UNCHANGED <<F, pos, clauses, watchers, assigned, trail_lim, cur, todo,
                 conflict, analysis>>

\* CLAUSEnew ignores what enqueue returns.
ParseUnit ==
  /\ Parsing /\ ~Satisfied(F[pos])
  /\ Len(Shortened(F[pos])) = 1
  /\ enqueue(Shortened(F[pos])[1], NULL)
  /\ pos' = pos + 1
  /\ UNCHANGED <<F, clauses, watchers, trail_lim, pc, cur, todo, conflict,
                 analysis, said>>

ParseClause ==
  /\ Parsing /\ ~Satisfied(F[pos])
  /\ LET c == Shortened(F[pos]) IN
       /\ Len(c) >= 2
       /\ clauses' = Append(clauses, c)
       /\ watchers' = Watch(watchers, {-c[1], -c[2]}, Len(clauses) + 1)
  /\ pos' = pos + 1
  /\ UNCHANGED <<F, assigned, trail_lim, pc, cur, todo, conflict, analysis,
                 said>>

\* maxLitEncountered != numberOfLiterals: the file is badly formatted.
Encountered == UNION {{Abs(F[c][i]) : i \in DOMAIN F[c]} : c \in DOMAIN F}

ParseDone ==
  /\ pc = "parse" /\ pos > Len(F)
  /\ pc' = IF N \in Encountered THEN "propagate" ELSE "exit"
  /\ UNCHANGED <<F, pos, clauses, watchers, assigned, trail_lim, cur, todo,
                 conflict, analysis, said>>
-----------------------------------------------------------------------------
(***************************************************************************)
(* propagate                                                               *)
(***************************************************************************)
Dequeue ==
  /\ pc = "propagate" /\ propagationQ # <<>>
  /\ cur' = Head(propagationQ)
  /\ propagationQ' = Tail(propagationQ)
  /\ todo' = watchers[cur']
  /\ watchers' = [watchers EXCEPT ![cur'] = <<>>]
  /\ pc' = "visit"
  /\ UNCHANGED <<F, pos, clauses, assignments, level, reason, trail, trail_lim,
                 conflict, analysis, said>>

\* CLAUSEpropagate puts -cur at position 2.
Turned(c) == IF c[1] = -cur THEN [c EXCEPT ![1] = c[2], ![2] = -cur] ELSE c

\* Slip: any literal will do.
SlipWatchAny(c) == 3..Len(c)

\* Slip: an index too far.
SlipWatchLater(c) == {i \in 4..Len(c) : value(c[i]) # 0}

\* The positions of the literals that could be watched.
Watchable(c) == {i \in 3..Len(c) : value(c[i]) # 0}

Visiting == pc = "visit" /\ todo # <<>>
Visited == Turned(clauses[Head(todo)])

\* Already satisfied: still watched by cur.
VisitSatisfied ==
  /\ Visiting /\ value(Visited[1]) = 1
  /\ clauses' = [clauses EXCEPT ![Head(todo)] = Visited]
  /\ watchers' = Watch(watchers, {cur}, Head(todo))
  /\ todo' = Tail(todo)
  /\ UNCHANGED <<F, pos, assigned, trail_lim, pc, cur, conflict, analysis, said>>

\* Another literal is watched, the first that is not false.
VisitMove ==
  /\ Visiting /\ value(Visited[1]) # 1
  /\ \E i \in Watchable(Visited) :
       /\ \A j \in Watchable(Visited) : i <= j
       /\ clauses' = [clauses EXCEPT
                        ![Head(todo)] = [Visited EXCEPT ![2] = Visited[i],
                                                        ![i] = -cur]]
       /\ watchers' = Watch(watchers, {-Visited[i]}, Head(todo))
  /\ todo' = Tail(todo)
  /\ UNCHANGED <<F, pos, assigned, trail_lim, pc, cur, conflict, analysis, said>>

\* The clause is unit: its first literal becomes true.
VisitUnit ==
  /\ Visiting /\ value(Visited[1]) = unassigned /\ Watchable(Visited) = {}
  /\ clauses' = [clauses EXCEPT ![Head(todo)] = Visited]
  /\ watchers' = Watch(watchers, {cur}, Head(todo))
  /\ enqueue(Visited[1], Head(todo))
  /\ todo' = Tail(todo)
  /\ UNCHANGED <<F, pos, trail_lim, pc, cur, conflict, analysis, said>>

\* Slip: the clauses not visited yet are not watched again.
SlipConflictDrops ==
  /\ Visiting /\ value(Visited[1]) = 0 /\ Watchable(Visited) = {}
  /\ clauses' = [clauses EXCEPT ![Head(todo)] = Visited]
  /\ watchers' = Watch(watchers, {cur}, Head(todo))
  /\ propagationQ' = <<>>
  /\ conflict' = Head(todo)
  /\ todo' = <<>>
  /\ pc' = "conflict"
  /\ UNCHANGED <<F, pos, assignments, level, reason, trail, trail_lim, cur,
                 analysis, said>>

\* Slip: the queue is not emptied.
SlipConflictKeeps ==
  /\ Visiting /\ value(Visited[1]) = 0 /\ Watchable(Visited) = {}
  /\ clauses' = [clauses EXCEPT ![Head(todo)] = Visited]
  /\ watchers' = [watchers EXCEPT ![cur] = @ \o todo]
  /\ conflict' = Head(todo)
  /\ todo' = <<>>
  /\ pc' = "conflict"
  /\ UNCHANGED <<F, pos, assigned, trail_lim, cur, analysis, said>>

\* All literals are false.  The clauses not visited yet are watched again.
VisitConflict ==
  /\ Visiting /\ value(Visited[1]) = 0 /\ Watchable(Visited) = {}
  /\ clauses' = [clauses EXCEPT ![Head(todo)] = Visited]
  /\ watchers' = [watchers EXCEPT ![cur] = @ \o todo]
  /\ propagationQ' = <<>>
  /\ conflict' = Head(todo)
  /\ todo' = <<>>
  /\ pc' = "conflict"
  /\ UNCHANGED <<F, pos, assignments, level, reason, trail, trail_lim, cur,
                 analysis, said>>

VisitDone ==
  /\ pc = "visit" /\ todo = <<>>
  /\ pc' = "propagate"
  /\ UNCHANGED <<F, pos, clauses, watchers, assigned, trail_lim, cur, todo,
                 conflict, analysis, said>>

PropagateDone ==
  /\ pc = "propagate" /\ propagationQ = <<>>
  /\ pc' = "decide"
  /\ UNCHANGED <<F, pos, clauses, watchers, assigned, trail_lim, cur, todo,
                 conflict, analysis, said>>
-----------------------------------------------------------------------------
(***************************************************************************)
(* solve                                                                   *)
(***************************************************************************)
\* selectVar looks at the variables before the last one.
Selectable == {v \in Vars : v < N /\ assignments[v] = unassigned}

\* Slip: the 0 of selectVar is decided too.
SlipDecideZero ==
  /\ pc = "decide"
  /\ \E v \in IF Selectable = {} THEN {0} ELSE Selectable :
       /\ \A u \in Selectable : v <= u
       /\ trail_lim' = Append(trail_lim, Len(trail))
       /\ assignments' = [assignments EXCEPT ![v] = 1]
       /\ level' = [level EXCEPT ![v] = currentDecisionLevel + 1]
       /\ trail' = Append(trail, v)
       /\ propagationQ' = Append(propagationQ, v)
  /\ pc' = "propagate"
  /\ UNCHANGED <<F, pos, clauses, watchers, reason, cur, todo, conflict,
                 analysis, said>>

\* decide: a new level, the variable is true.
decide ==
  /\ pc = "decide"
  /\ \E v \in Selectable :
       /\ \A u \in Selectable : v <= u
       /\ trail_lim' = Append(trail_lim, Len(trail))
       /\ assignments' = [assignments EXCEPT ![v] = 1]
       /\ level' = [level EXCEPT ![v] = currentDecisionLevel + 1]
       /\ trail' = Append(trail, v)
       /\ propagationQ' = Append(propagationQ, v)
  /\ pc' = "propagate"
  /\ UNCHANGED <<F, pos, clauses, watchers, reason, cur, todo, conflict,
                 analysis, said>>

\* All variables have values, or there is nothing to decide.
SayAnswer ==
  /\ pc = "decide" /\ Selectable = {}
  /\ said' = IF \A v \in Vars : assignments[v] # unassigned THEN "SAT"
                                                            ELSE "UNSAT"
  /\ pc' = "exit"
  /\ UNCHANGED <<F, pos, clauses, watchers, assigned, trail_lim, cur, todo,
                 conflict, analysis>>

\* A conflict at level 0.
SayUnsat ==
  /\ pc = "conflict" /\ currentDecisionLevel = 0
  /\ said' = "UNSAT"
  /\ pc' = "exit"
  /\ UNCHANGED <<F, pos, clauses, watchers, assigned, trail_lim, cur, todo,
                 conflict, analysis>>

StartAnalysis ==
  /\ pc = "conflict" /\ currentDecisionLevel > 0
  /\ p' = NULL /\ seen' = {} /\ count' = 0 /\ backtrackLevel' = 0
  /\ learnt' = <<NULL>>
  /\ pc' = "analyze"
  /\ UNCHANGED <<F, pos, clauses, watchers, assigned, trail_lim, cur, todo,
                 conflict, said>>
-----------------------------------------------------------------------------
(***************************************************************************)
(* analyze                                                                 *)
(***************************************************************************)
Limit == trail_lim[currentDecisionLevel]

\* CLAUSEreasonFor, as literals of the clause: all, or all but the first.
ReasonFor == IF p = NULL THEN clauses[conflict] ELSE Tail(clauses[conflict])

\* The positions of the variables found for the first time.
Fresh == {i \in DOMAIN ReasonFor : /\ Abs(ReasonFor[i]) \notin seen
                                   /\ FirstVar(ReasonFor, i)}
LevelAt(i) == level[Abs(ReasonFor[i])]
Here == {i \in Fresh : LevelAt(i) = currentDecisionLevel}
\* Slip: a literal of level 1 does not count.
SlipBelowTwo == {i \in Fresh \ Here : LevelAt(i) > 1}

Below == {i \in Fresh \ Here : LevelAt(i) > 0}

Seen == seen \cup {Abs(ReasonFor[i]) : i \in Fresh}

\* Where the trail ends after "select next p".
SeenOnTrail == {k \in (Limit + 1)..Len(trail) : Abs(trail[k]) \in Seen}

\* Slip: undoOne before the reason is read.
SlipReasonUndone(l) == NULL

ReasonOf(l) == reason[Abs(l)]

Highest(S, x) == IF S = {} THEN x ELSE CHOOSE y \in S : \A z \in S : y >= z

\* One turn of the main learning cycle.
Analyze ==
  /\ pc = "analyze" /\ conflict # NULL
  /\ seen' = Seen
  /\ learnt' = learnt \o At(ReasonFor, Below)
  /\ backtrackLevel' = Highest({backtrackLevel} \cup {LevelAt(i) : i \in Below}, 0)
  /\ count' = count + Cardinality(Here) - 1
  /\ LET k == Highest(SeenOnTrail, Limit + 1)
     IN /\ p' = IF SeenOnTrail # {} THEN trail[k]
                ELSE IF Limit > 0 THEN trail[Limit] ELSE NULL
        /\ conflict' = IF k <= Len(trail) THEN ReasonOf(trail[k]) ELSE conflict
        /\ UndoTo(k - 1)
        /\ pc' = IF count' > 0 /\ k - 1 > Limit THEN "analyze" ELSE "backtrack"
  /\ UNCHANGED <<F, pos, clauses, watchers, propagationQ, trail_lim, cur, todo,
                 said>>

\* Slip: an if where the while is.
SlipCancelOne(k) ==
  /\ IF currentDecisionLevel > k THEN UndoTo(trail_lim[currentDecisionLevel])
                                 ELSE UNCHANGED <<assignments, level, reason, trail>>
  /\ trail_lim' = SubSeq(trail_lim, 1, k)

\* Slip: >= where the > is.
SlipCancelThrough(k) ==
  LET below == IF k > 0 THEN k - 1 ELSE 0
  IN /\ UndoTo(trail_lim[below + 1])
     /\ trail_lim' = SubSeq(trail_lim, 1, below)

\* The levels above k are cancelled.
CancelTo(k) ==
  /\ IF currentDecisionLevel > k THEN UndoTo(trail_lim[k + 1])
                                 ELSE UNCHANGED <<assignments, level, reason, trail>>
  /\ trail_lim' = SubSeq(trail_lim, 1, k)

\* VECTORset(learntClauseLits, 0, neg(p)); cancelUntil(backtrackLevel)
cancelUntil ==
  /\ pc = "backtrack" /\ p # NULL
  /\ learnt' = [learnt EXCEPT ![1] = -p]
  /\ CancelTo(backtrackLevel)
  /\ pc' = "learn"
  /\ UNCHANGED <<F, pos, clauses, watchers, propagationQ, cur, todo, conflict,
                 p, seen, count, backtrackLevel, said>>

\* Slip: a unit clause is not enqueued.
SlipLearnNothing ==
  /\ pc = "learn" /\ Len(learnt) = 1
  /\ pc' = "propagate"
  /\ UNCHANGED <<F, pos, clauses, watchers, assigned, trail_lim, cur, todo,
                 conflict, analysis, said>>

\* learn, CLAUSEnew: a unit clause.
LearnUnit ==
  /\ pc = "learn" /\ Len(learnt) = 1
  /\ enqueue(learnt[1], NULL)
  /\ pc' = "propagate"
  /\ UNCHANGED <<F, pos, clauses, watchers, trail_lim, cur, todo, conflict,
                 analysis, said>>

\* The position of the first literal of the highest level, from 1 up.
MaxLevelIndex(c) ==
  LET top == Highest({level[Abs(c[i])] : i \in DOMAIN c}, 0)
  IN IF top <= 0 THEN 1
     ELSE CHOOSE i \in DOMAIN c : /\ level[Abs(c[i])] = top
                                  /\ \A j \in 1..(i - 1) : level[Abs(c[j])] # top

\* VECTORswitchPlace writes twice to the second place.
VECTORswitchPlace(c, a, b) == [c EXCEPT ![b] = c[a]]

\* The clause is watched and its first literal becomes true.
LearnClause ==
  /\ pc = "learn" /\ Len(learnt) > 1
  /\ LET c == VECTORswitchPlace(learnt, 2, MaxLevelIndex(learnt)) IN
       /\ clauses' = Append(clauses, c)
       /\ watchers' = Watch(watchers, {-c[1], -c[2]}, Len(clauses) + 1)
       /\ enqueue(c[1], Len(clauses) + 1)
  /\ pc' = "propagate"
  /\ UNCHANGED <<F, pos, trail_lim, cur, todo, conflict, analysis, said>>

Ended == {"exit", "stopped"}

\* SIGTERM or SIGINT: exit(0).
termination_handler ==
  /\ pc \notin Ended
  /\ pc' = "stopped"
  /\ UNCHANGED <<F, pos, clauses, watchers, assigned, trail_lim, cur, todo,
                 conflict, analysis, said>>
-----------------------------------------------------------------------------
Parse == ParseSatisfied \/ ParseEmpty \/ ParseUnit \/ ParseClause \/ ParseDone
Propagate == \/ Dequeue \/ VisitSatisfied \/ VisitMove \/ VisitUnit
             \/ VisitConflict \/ VisitDone \/ PropagateDone
Solve == \/ decide \/ SayAnswer \/ SayUnsat \/ StartAnalysis \/ Analyze
         \/ cancelUntil \/ LearnUnit \/ LearnClause

Step == Parse \/ Propagate \/ Solve

Next == Step \/ termination_handler

Spec == Init /\ [][Next]_vars

\* The only thread of the process keeps running.  This is WF_vars(Step) with
\* ENABLED Step, which TLC is slow to evaluate, replaced by pc \notin Ended; that
\* they agree is the invariant NeverStuck.  The parser is left out there: a clause
\* is satisfied, or shortened to no, one or more literals.
FairSpec == Spec /\ ([]<>(pc \in Ended) \/ []<><<Step>>_vars)
-----------------------------------------------------------------------------
(***************************************************************************)
(* Properties                                                              *)
(***************************************************************************)
ClauseIds == 1..Len(clauses)

TypeOK ==
  /\ F \in Formulas /\ pos \in 1..(Len(F) + 1)
  /\ clauses \in Seq(Seq(Lits))
  /\ watchers \in [Lits -> Seq(ClauseIds)]
  /\ assignments \in [Vars -> 0..unassigned]
  /\ level \in [Vars -> -1..N] /\ reason \in [Vars -> 0..Len(clauses)]
  /\ trail \in Seq(Lits) /\ trail_lim \in Seq(0..N) /\ propagationQ \in Seq(Lits)
  /\ pc \in {"parse", "propagate", "visit", "decide", "conflict", "analyze",
             "backtrack", "learn"} \cup Ended
  /\ cur \in Lits \cup {NULL} /\ todo \in Seq(ClauseIds)
  /\ conflict \in 0..Len(clauses)
  /\ p \in Lits \cup {NULL} /\ seen \subseteq Vars /\ count \in Int
  /\ learnt \in Seq(Lits \cup {NULL}) /\ backtrackLevel \in 0..N
  /\ said \in {"none", "SAT", "UNSAT"}

\* The trail, the assignments and the levels agree: every variable with a value
\* is on the trail once, and the levels never fall along it.
TrailInv ==
  /\ \A v \in Vars : (assignments[v] # unassigned)
                       <=> \E k \in DOMAIN trail : Abs(trail[k]) = v
  /\ \A k \in DOMAIN trail :
       /\ value(trail[k]) = 1 /\ FirstVar(trail, k)
       /\ level[Abs(trail[k])] = Cardinality({d \in DOMAIN trail_lim : trail_lim[d] < k})

\* What is still to be propagated is the end of the trail, in its order, and was
\* assigned at the current level: a backjump leaves nothing in the queue that it
\* has undone, and no literal is in the queue twice.
QueueIsTail ==
  LET done == Len(trail) - Len(propagationQ) IN
    /\ done >= 0
    /\ \A i \in 1..Len(propagationQ) :
         /\ propagationQ[i] = trail[done + i]
         /\ level[Abs(propagationQ[i])] = currentDecisionLevel

\* A reason explains its literal: in the clause it stands first, and the others
\* were false before it, as analyze assumes.
ReasonInv ==
  \A k \in DOMAIN trail :
    LET c == reason[Abs(trail[k])] IN
      c # NULL => /\ clauses[c][1] = trail[k]
                  /\ \A i \in 2..Len(clauses[c]) :
                       \E j \in 1..(k - 1) : trail[j] = -clauses[c][i]

Times(s, x) == Cardinality({i \in DOMAIN s : s[i] = x})

\* Between two visits every clause is watched by its first two literals, and by
\* nothing else, whatever was moved, skipped by a conflict or learnt.
WatchInv ==
  pc \notin {"visit", "stopped"} =>
    \A l \in Lits : \A c \in ClauseIds :
      Times(watchers[l], c) = Cardinality({i \in 1..2 : clauses[c][i] = -l})

\* A literal stands twice in c.  The parser removes such literals; a learnt clause
\* has one when VECTORswitchPlace has overwritten a literal.
Repeats(c) == \E i, j \in DOMAIN c : i # j /\ c[i] = c[j]

\* Propagation misses nothing: when a variable is about to be decided, every
\* clause is true or has two literals without a value, but for those that
\* VECTORswitchPlace has damaged: their second literal need not be the one of
\* the highest level, and after a backjump they are unit without notice.
PropagationComplete ==
  pc = "decide" =>
    \A c \in ClauseIds :
      \/ Repeats(clauses[c])
      \/ \E i \in DOMAIN clauses[c] : value(clauses[c][i]) = 1
      \/ Cardinality({i \in DOMAIN clauses[c] : value(clauses[c][i]) = unassigned}) >= 2

Implied(c) == \A tau \in Assignments :
                Satisfies(tau, F) => HasTrue(tau, c, DOMAIN c)

\* What analyze hands to learn follows from the formula, if the clauses it was
\* derived from do.
AnalysisSound ==
  pc = "learn" /\ (\A c \in ClauseIds : Implied(clauses[c])) => Implied(learnt)

\* It is asserting: after cancelUntil all of its literals are false but the
\* first, which has no value.
LearntAsserts ==
  pc = "learn" => /\ value(learnt[1]) = unassigned
                  /\ \A i \in 2..Len(learnt) : value(learnt[i]) = 0

\* All clauses the search works with follow from the formula.
ClausesImplied == \A c \in ClauseIds : Implied(clauses[c])

\* The search always has a next step: analyze has a clause to expand at every
\* turn and a literal to learn at the end, never NULL, and no case is missing.
NeverStuck ==
  /\ pc \in {"propagate", "visit"} => ENABLED Propagate
  /\ pc \in {"decide", "conflict", "analyze", "backtrack", "learn"} => ENABLED Solve

\* The solver ends.
Terminates == <>(pc \in Ended)

\* README, "Determine whether the formula is satisfiable".
AnswerRight == /\ said = "SAT" => Satisfiable(F)
               /\ said = "UNSAT" => ~Satisfiable(F)
=============================================================================
