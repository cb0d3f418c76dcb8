------------------------------- MODULE Cdcl1 -------------------------------
(***************************************************************************)
(* solvers/solver1: conflict-driven clause learning with two watched       *)
(* literals, the literals to decide on in a tree sorted by score.          *)
(*                                                                         *)
(* The tree is that of LitTable.  A clause is the record of its literals   *)
(* and of nliterals, which merge may let differ; an original clause is     *)
(* also its index in F.  decision_level is the length of                   *)
(* assignment_trackers, which holds the lists of the levels in use.        *)
(* Functions that loop take one step for each turn, the others are one     *)
(* step each.                                                              *)
(*                                                                         *)
(* The parser reads the literals of F, which is well formed.  The clauses  *)
(* learnt are counted and not kept: nothing reads them.  Memory is not     *)
(* modelled, but for the null pointers of the tree and of remove_literal.  *)
(*                                                                         *)
(* Bounds: MAX_QUEUE_SIZE and NLEARNT_CLAUSES are small.  Scores, doubles  *)
(* in the code, are multiples of 1/Unit, halves rounded to even, so they   *)
(* underflow early.  The list of a variable keeps the two newest entries   *)
(* of a clause: an older one can only push what the second pushed.         *)
(* MaxTable: no conflict is analysed with more entries in the tree.        *)
(*                                                                         *)
(* A definition named Slip... is not part of the specification: it is the  *)
(* definition after it with a slip the properties must notice.             *)
(***************************************************************************)
EXTENDS Cnf, RingQueue, LitTable

CONSTANTS Inputs,                \* the formulas the solver may be given
          NLEARNT_CLAUSES, Unit, MaxTable,
          Word                   \* the size of an unsigned int, 2^32

ASSUME Inputs1Assumption == Inputs \subseteq Formulas
ASSUME Bounds1Assumption == /\ NLEARNT_CLAUSES \in Nat \ {0}
                            /\ Unit \in Nat \ {0} /\ Word \in Nat \ {0}
                            /\ N < Word \div 2       \* nvars is an int

VARIABLES F,                     \* the formula in the file
          pc, pos,               \* where the program is, the index of a loop
          value, level, antecedent,   \* assignments
          nassigned, assignment_trackers,
          score, table,          \* by literal; unassigned_lits
          watched,               \* watched_clauses: the two positions
          w_clauses,             \* the lists of the variables
          queue, cur,            \* bcp: the literal with its antecedent
          walk,                  \* bcp: lits_clauses
          assigned_literals,     \* BcpOutput, the last one first
          clause, visited,       \* learn_clause
          this, iB, resolvent,   \* merge: the index of the next literal of clause
          bt_level, conflict_at_top,
          size, n_add,           \* l_clauses
          said,                  \* the line printed, "none" before
          out,                   \* the numbers printed after SAT
          status

assigned == <<value, level, antecedent, nassigned, assignment_trackers>>
heap == <<table, score>>
watching == <<watched, w_clauses>>
bcp == <<queue, cur, walk, assigned_literals>>
merging == <<this, iB, resolvent>>
conflict == <<clause, visited, merging, bt_level, conflict_at_top, size, n_add>>
output == <<out, said>>
vars == <<F, pc, pos, assigned, heap, watching, bcp, conflict, output, status>>
-----------------------------------------------------------------------------
UNASSIGNED == -1
INITIAL_BT_LEVEL == 1

\* The null pointer to a clause, and the clause of a null pointer followed.
NoClause == [lits |-> <<>>, n |-> 0]
BrokenClause == [lits |-> <<>>, n |-> -1]

Original(c) == [lits |-> F[c], n |-> Len(F[c])]

decision_level == Len(assignment_trackers)

Var(l) == Abs(l)
IsUnassigned(l) == value[Var(l)] = UNASSIGNED
IsTrue(l) == value[Var(l)] = (IF l > 0 THEN 1 ELSE 0)
IsFalse(l) == value[Var(l)] = (IF l > 0 THEN 0 ELSE 1)

\* Half of a score, rounded to even.
Half(s) == IF s % 4 = 3 THEN (s + 1) \div 2 ELSE s \div 2

Insert(t, l, s) == IF t = Broken THEN t ELSE insert_literal(t, l, s)

\* A crash is the end: the table can only be broken by an insertion.
CrashIf(broken) == status' = IF broken THEN "crashed" ELSE status
-----------------------------------------------------------------------------
(***************************************************************************)
(* init_formula_from_file                                                  *)
(***************************************************************************)
Positions(f) == UNION {{c} \X DOMAIN f[c] : c \in DOMAIN f}
Occurrences(f, l) == Cardinality({x \in Positions(f) : f[x[1]][x[2]] = l})

Init ==
  /\ F \in Inputs
  /\ pc = "table" /\ pos = 1
  /\ value = [v \in Vars |-> UNASSIGNED]
  /\ level = [v \in Vars |-> 0]
  /\ antecedent = [v \in Vars |-> NoClause]
  /\ nassigned = 0 /\ assignment_trackers = <<<<>>>>
  /\ score = [l \in Lits |-> Occurrences(F, l) * Unit]
  /\ table = NULL
  /\ watched = [c \in DOMAIN F |-> <<0, 0>>]
  /\ w_clauses = [v \in Vars |-> <<>>]
  /\ queue = InitQueue([lit |-> 0, antecedent |-> NoClause])
  /\ cur = [lit |-> 0, antecedent |-> NoClause]
  /\ walk = <<>> /\ assigned_literals = <<>>
  /\ clause = NoClause /\ visited = {} /\ bt_level = 0
  /\ this = NoClause /\ iB = 1 /\ resolvent = 0
  /\ conflict_at_top = FALSE /\ size = 0 /\ n_add = 0
  /\ said = "none" /\ out = <<>>
  /\ status = "running"

Running == status = "running"

\* init_unassigned_table: the literal, then its negation.
InitTable ==
  /\ Running /\ pc = "table"
  /\ table' = Insert(Insert(table, pos, score[pos]), -pos, score[-pos])
  /\ CrashIf(table' = Broken)
  /\ pos' = IF pos = N THEN 1 ELSE pos + 1
  /\ pc' = IF pos = N THEN "watch" ELSE "table"
  /\ UNCHANGED <<F, assigned, score, watching, bcp, conflict, output>>

\* The second entry of clause c in a list, and the list without one.
Second(s, c) == {i \in DOMAIN s : s[i] = c /\ \E j \in 1..(i - 1) : s[j] = c}
Without(s, i) == [j \in 1..(Len(s) - 1) |-> IF j < i THEN s[j] ELSE s[j + 1]]

\* add_w_clause, once and for every position in ps.
Prepend(s, c) ==
  <<c>> \o (IF Second(s, c) = {} THEN s
            ELSE Without(s, CHOOSE i \in Second(s, c) : TRUE))

PrependEach(s, c, ps) ==
  IF ps = {} THEN s
  ELSE IF \E p, q \in ps : p # q THEN Prepend(Prepend(s, c), c)
  ELSE Prepend(s, c)

\* The two positions init_watched_clause watches.
FirstWatched(c) == IF Len(F[c]) = 1 THEN <<1, 1>> ELSE <<1, 2>>

\* init_formula_from_clauses
InitWatched ==
  /\ Running /\ pc = "watch" /\ pos <= Len(F) /\ F[pos] # <<>>
  /\ watched' = [watched EXCEPT ![pos] = FirstWatched(pos)]
  /\ w_clauses' = [v \in Vars |->
       PrependEach(w_clauses[v], pos,
                   {k \in 1..2 : Var(F[pos][FirstWatched(pos)[k]]) = v})]
  /\ pos' = pos + 1
  /\ UNCHANGED <<F, pc, assigned, heap, bcp, conflict, output, status>>

\* An empty clause has the lower half of a pointer for a position: get finds
\* no literal there, which add_w_clause refuses, or follows a null pointer.
InitEmptyClause ==
  /\ Running /\ pc = "watch" /\ pos <= Len(F) /\ F[pos] = <<>>
  /\ status' \in {"error", "crashed"}
  /\ UNCHANGED <<F, pc, pos, assigned, heap, watching, bcp, conflict, output>>

InitDone ==
  /\ Running /\ pc = "watch" /\ pos > Len(F)
  /\ pc' = "plp" /\ pos' = 1
  /\ UNCHANGED <<F, assigned, heap, watching, bcp, conflict, output, status>>
-----------------------------------------------------------------------------
(***************************************************************************)
(* plp, decide                                                             *)
(***************************************************************************)
\* assign: the literal becomes true at the current level.
assign(l, from) ==
  /\ value' = [value EXCEPT ![Var(l)] = IF l > 0 THEN 1 ELSE 0]
  /\ level' = [level EXCEPT ![Var(l)] = decision_level]
  /\ antecedent' = [antecedent EXCEPT ![Var(l)] = from]
  /\ nassigned' = nassigned + 1
  /\ assignment_trackers' =
       [assignment_trackers EXCEPT ![decision_level] = <<Var(l)>> \o @]
  /\ table' = delete_literal(delete_literal(table, l, score[l]), -l, score[-l])

OccursIn(l) == \E c \in DOMAIN F : \E p \in DOMAIN F[c] : F[c][p] = l
SlipPure(l) == OccursIn(l)

Pure(l) == OccursIn(l) /\ ~OccursIn(-l)

\* One variable of the last loop of plp; assign refuses an assigned one.
PlpAssign ==
  /\ Running /\ pc = "plp" /\ pos <= N
  /\ \E l \in {pos, -pos} : Pure(l) /\ IF IsUnassigned(l)
                                       THEN assign(l, NoClause) /\ UNCHANGED status
                                       ELSE status' = "error" /\ UNCHANGED <<assigned, table>>
  /\ pos' = pos + 1
  /\ UNCHANGED <<F, pc, score, watching, bcp, conflict, output>>

PlpSkip ==
  /\ Running /\ pc = "plp" /\ pos <= N
  /\ ~Pure(pos) /\ ~Pure(-pos)
  /\ pos' = pos + 1
  /\ UNCHANGED <<F, pc, assigned, heap, watching, bcp, conflict, output, status>>

\* Called before the search, or after a conflict at the first level.
PlpDone ==
  /\ Running /\ pc = "plp" /\ pos > N
  /\ pc' = IF conflict_at_top THEN "start" ELSE "decide"
  /\ UNCHANGED <<F, pos, assigned, heap, watching, bcp, conflict, output, status>>

Undecided == nassigned # N /\ table # NULL

\* The highest literal of the table leaves it; it is decided if unassigned.
decide ==
  /\ Running /\ pc = "decide" /\ Undecided
  /\ \E l \in Lits :
       /\ l = extract_max(table).node.literal
       /\ cur' = IF IsUnassigned(l) THEN [lit |-> l, antecedent |-> NoClause] ELSE cur
       /\ pc' = IF IsUnassigned(l) THEN "start" ELSE "decide"
  /\ table' = extract_max(table).rest
  /\ conflict_at_top' = FALSE
  /\ UNCHANGED <<F, pos, assigned, score, watching, queue, walk,
                 assigned_literals, clause, visited, merging, bt_level, size, n_add,
                 output, status>>

SaySat ==
  /\ Running /\ pc = "decide" /\ ~Undecided
  /\ said' = "SAT" /\ pc' = "report"
  /\ UNCHANGED <<F, pos, assigned, heap, watching, bcp, conflict, out, status>>
-----------------------------------------------------------------------------
(***************************************************************************)
(* bcp                                                                     *)
(***************************************************************************)
BcpStart ==
  /\ Running /\ pc = "start"
  /\ queue' = push(queue, cur)
  /\ assigned_literals' = <<>>
  /\ pc' = "bcp"
  /\ UNCHANGED <<F, pos, assigned, heap, watching, cur, walk, conflict, output, status>>

SlipBcpAssign ==
  /\ Running /\ pc = "bcp" /\ ~is_q_empty(queue)
  /\ cur' = Front(queue)
  /\ queue' = pop(queue)
  /\ assign(cur'.lit, cur'.antecedent)
  /\ assigned_literals' = <<cur'.lit>> \o assigned_literals
  /\ walk' = w_clauses[Var(cur'.lit)]
  /\ pc' = "visit"
  /\ UNCHANGED <<F, pos, score, watching, conflict, output, status>>

BcpAssign ==
  /\ Running /\ pc = "bcp" /\ ~is_q_empty(queue)
  /\ IsUnassigned(Front(queue).lit)
  /\ cur' = Front(queue)
  /\ queue' = pop(queue)
  /\ assign(cur'.lit, cur'.antecedent)
  /\ assigned_literals' = <<cur'.lit>> \o assigned_literals
  /\ walk' = w_clauses[Var(cur'.lit)]
  /\ pc' = "visit"
  /\ UNCHANGED <<F, pos, score, watching, conflict, output, status>>

BcpSkip ==
  /\ Running /\ pc = "bcp" /\ ~is_q_empty(queue)
  /\ ~IsUnassigned(Front(queue).lit)
  /\ queue' = pop(queue)
  /\ UNCHANGED <<F, pc, pos, assigned, heap, watching, cur, walk,
                 assigned_literals, conflict, output, status>>

\* No conflict: the next level begins.
BcpDone ==
  /\ Running /\ pc = "bcp" /\ is_q_empty(queue)
  /\ queue' = reset(queue)
  /\ assignment_trackers' = Append(assignment_trackers, <<>>)
  /\ pc' = "decide"
  /\ UNCHANGED <<F, pos, value, level, antecedent, nassigned, heap, watching,
                 cur, walk, assigned_literals, conflict, output, status>>

WatchedLit(c, k) == F[c][watched[c][k]]

SlipHit(c) == WatchedLit(c, 1) = -cur.lit

\* check_watched_clauses: a watched literal has become false.
Hit(c) == \E k \in 1..2 : WatchedLit(c, k) = -cur.lit

\* The watched literal to replace.
NewIndex(c) == IF Var(WatchedLit(c, 1)) = Var(cur.lit) THEN 1 ELSE 2

\* The positions the loop over the literals inspects before it ends, or breaks
\* at a true literal.
Inspected(c) == {p \in DOMAIN F[c] : \A q \in 1..p : ~IsTrue(F[c][q])}

ClauseTrue(c) == \E p \in DOMAIN F[c] : IsTrue(F[c][p])
ClauseFalse(c) == \A p \in DOMAIN F[c] : IsFalse(F[c][p])

\* Among them those that are listed, and watched for the moment.
NewWatches(c) == {p \in Inspected(c) : /\ IsUnassigned(F[c][p])
                                       /\ \A k \in 1..2 : F[c][p] # WatchedLit(c, k)}

\* The last of the new watches stays.
Rewatch(c) ==
  LET ps == NewWatches(c) IN
  /\ IF ps = {} THEN watched' = watched
     ELSE \E p \in ps : /\ \A q \in ps : q <= p
                        /\ watched' = [watched EXCEPT ![c][NewIndex(c)] = p]
  /\ w_clauses' = [v \in Vars |->
       PrependEach(w_clauses[v], c, {p \in ps : Var(F[c][p]) = v})]

Visiting == Running /\ pc = "visit" /\ walk # <<>>

VisitOther ==
  /\ Visiting /\ ~Hit(Head(walk))
  /\ walk' = Tail(walk)
  /\ UNCHANGED <<F, pc, pos, assigned, heap, watching, queue, cur,
                 assigned_literals, conflict, output, status>>

\* A true literal, or another literal to watch.
VisitMove ==
  /\ Visiting
  /\ LET c == Head(walk) IN
       /\ Hit(c) /\ (ClauseTrue(c) \/ NewWatches(c) # {})
       /\ Rewatch(c)
  /\ walk' = Tail(walk)
  /\ UNCHANGED <<F, pc, pos, assigned, heap, queue, cur, assigned_literals,
                 conflict, output, status>>

\* The other watched literal has to become true.
VisitUnit ==
  /\ Visiting
  /\ LET c == Head(walk) IN
       /\ Hit(c) /\ ~ClauseTrue(c) /\ ~ClauseFalse(c) /\ NewWatches(c) = {}
       /\ queue' = push(queue, [lit |-> WatchedLit(c, 3 - NewIndex(c)),
                                antecedent |-> Original(c)])
  /\ walk' = Tail(walk)
  /\ UNCHANGED <<F, pc, pos, assigned, heap, watching, cur, assigned_literals,
                 conflict, output, status>>

ConflictOn(c) == Visiting /\ c = Head(walk) /\ Hit(c) /\ ClauseFalse(c)

\* The conflict is analysed, unless it follows one at the first level.
VisitConflict ==
  /\ \E c \in DOMAIN F : ConflictOn(c) /\ clause' = Original(c)
  /\ ~conflict_at_top
  /\ Len(Entries(table)) <= MaxTable
  /\ queue' = reset(queue)
  /\ visited' = {} /\ pos' = 1
  /\ pc' = "learn"
  /\ UNCHANGED <<F, assigned, heap, watching, cur, walk, assigned_literals,
                 merging, bt_level, conflict_at_top, size, n_add, output, status>>

SayUnsat ==
  /\ \E c \in DOMAIN F : ConflictOn(c)
  /\ conflict_at_top
  /\ queue' = reset(queue)
  /\ said' = "UNSAT" /\ pc' = "report"
  /\ UNCHANGED <<F, pos, assigned, heap, watching, cur, walk,
                 assigned_literals, conflict, out, status>>

VisitDone ==
  /\ Running /\ pc = "visit" /\ walk = <<>>
  /\ pc' = "bcp"
  /\ UNCHANGED <<F, pos, assigned, heap, watching, bcp, conflict, output, status>>
-----------------------------------------------------------------------------
(***************************************************************************)
(* analyze_conflict                                                        *)
(***************************************************************************)
\* The positions of the literals of the current level.
Here(lits) == {i \in DOMAIN lits : level[Var(lits[i])] = decision_level}

\* get_implied_lit: the places in assigned_literals of the variables of the
\* clause that belong to the current level; none if at most one literal does.
Implied(lits) ==
  IF Cardinality(Here(lits)) <= 1 THEN {}
  ELSE {k \in DOMAIN assigned_literals :
          \E i \in Here(lits) : Var(lits[i]) = Var(assigned_literals[k])}

\* The most recent one: the first.
IsMostRecent(k) == k \in Implied(clause.lits) /\ \A j \in Implied(clause.lits) : k <= j

\* add: on a clause whose nliterals is 0 the list is replaced.
Added(c, l) ==
  IF c.n = 0 THEN [lits |-> <<l>>, n |-> 1]
  ELSE IF c.lits = <<>> THEN BrokenClause
  ELSE [lits |-> Append(c.lits, l), n |-> c.n + 1]

Opposites(a, l) == {i \in DOMAIN a.lits : a.lits[i] = -l}

\* remove_literal and nliterals-- for each literal of a opposite to l, found in
\* the list or not.
Resolved(a, c, l) ==
  IF c.lits = <<>> THEN BrokenClause
  ELSE [lits |-> At(c.lits, {i \in DOMAIN c.lits : c.lits[i] # -l}),
        n |-> c.n - Cardinality(Opposites(a, l))]

\* The literal l resolves a on the variable v.
OnV(a, l, v) == Var(l) = v /\ Opposites(a, l) # {}
Clashes(a, b, v) == \E i \in DOMAIN b.lits : OnV(a, b.lits[i], v)

\* The loop of learn_clause goes on: for the variable of the literal at k.
Resolvable(k) ==
  /\ pos <= Len(assigned_literals) /\ IsMostRecent(k)
  /\ LET v == Var(assigned_literals[k]) IN
       v \notin visited => antecedent[v] # NoClause /\ Clashes(antecedent[v], clause, v)

\* One turn: merge is called for the antecedent and the clause; the second time
\* for a variable nothing is done.
learn_clause ==
  /\ Running /\ pc = "learn"
  /\ \E k \in DOMAIN assigned_literals :
       /\ Resolvable(k)
       /\ LET v == Var(assigned_literals[k]) IN
            IF v \in visited
            THEN pos' = pos + 1 /\ UNCHANGED <<pc, visited, merging>>
            ELSE /\ visited' = visited \cup {v}
                 /\ resolvent' = v /\ this' = antecedent[v] /\ iB' = 1
                 /\ pc' = "merge" /\ pos' = pos
  /\ UNCHANGED <<F, assigned, heap, watching, bcp, clause, bt_level,
                 conflict_at_top, size, n_add, output, status>>

SlipMerged(a, c, l) ==
  IF OnV(a, l, resolvent) THEN Resolved(a, c, l)
  ELSE IF iB = Len(clause.lits) \/ \E p \in DOMAIN a.lits : a.lits[p] = l THEN c
  ELSE Added(c, l)

\* What becomes of c, a copy of a, for the literal l of the other clause.
Merged(a, c, l) ==
  IF OnV(a, l, resolvent) THEN Resolved(a, c, l)
  ELSE IF \E p \in DOMAIN a.lits : a.lits[p] = l THEN c
  ELSE Added(c, l)

merge ==
  /\ Running /\ pc = "merge" /\ iB <= Len(clause.lits)
  /\ this' = Merged(antecedent[resolvent], this, clause.lits[iB])
  /\ CrashIf(this' = BrokenClause)
  /\ iB' = iB + 1
  /\ UNCHANGED <<F, pc, pos, assigned, heap, watching, bcp, clause, visited,
                 resolvent, bt_level, conflict_at_top, size, n_add, output>>

MergeDone ==
  /\ Running /\ pc = "merge" /\ iB > Len(clause.lits)
  /\ clause' = this
  /\ this' = NoClause /\ iB' = 1 /\ resolvent' = 0
  /\ pos' = pos + 1
  /\ pc' = "learn"
  /\ UNCHANGED <<F, assigned, heap, watching, bcp, visited, bt_level,
                 conflict_at_top, size, n_add, output, status>>

\* k is the highest of the other levels, from 1 up.
IsBacktrackLevel(k) ==
  LET others == {level[Var(clause.lits[i])] :
                   i \in DOMAIN clause.lits \ Here(clause.lits)}
  IN /\ k \in others \cup {INITIAL_BT_LEVEL} /\ k >= INITIAL_BT_LEVEL
     /\ \A j \in others : j <= k

\* l is the last literal of the current level, 0 if there is none.
IsBacktrackLit(l) ==
  IF Here(clause.lits) = {} THEN l = 0
  ELSE \E i \in Here(clause.lits) : /\ l = clause.lits[i]
                                    /\ \A j \in Here(clause.lits) : j <= i

get_backtracking_level ==
  /\ Running /\ pc = "learn"
  /\ \A k \in DOMAIN assigned_literals : ~Resolvable(k)
  /\ \E k \in 1..decision_level, l \in Lits \cup {0} :
       /\ IF clause.n = 1 THEN k = INITIAL_BT_LEVEL /\ l = clause.lits[1]
                          ELSE IsBacktrackLevel(k) /\ IsBacktrackLit(l)
       /\ bt_level' = k
       /\ cur' = [lit |-> l, antecedent |-> clause]
  /\ pc' = "backtrack"
  /\ UNCHANGED <<F, pos, assigned, heap, watching, queue, walk,
                 assigned_literals, clause, visited, merging, conflict_at_top,
                 size, n_add, output, status>>

SlipKept == bt_level

\* backtrack to the first level leaves none.
Kept == IF bt_level = INITIAL_BT_LEVEL THEN 0 ELSE bt_level

TopList == assignment_trackers[decision_level]

SlipReturned(t, l) == t

\* revoke_assignment: the literals go back with their scores, unless zero.
Returned(t, l) == IF score[l] > 0 THEN Insert(t, l, score[l]) ELSE t

\* cancel: the variable assigned last at the current level.
cancel ==
  /\ Running /\ pc = "backtrack" /\ decision_level > Kept /\ TopList # <<>>
  /\ LET v == Head(TopList)
         l == IF value[v] = 1 THEN v ELSE -v
     IN /\ value' = [value EXCEPT ![v] = UNASSIGNED]
        /\ level' = [level EXCEPT ![v] = -1]
        /\ antecedent' = [antecedent EXCEPT ![v] = NoClause]
        /\ table' = Returned(Returned(table, l), -l)
  /\ nassigned' = nassigned - 1
  /\ assignment_trackers' = [assignment_trackers EXCEPT ![decision_level] = Tail(@)]
  /\ CrashIf(table' = Broken)
  /\ UNCHANGED <<F, pc, pos, score, watching, bcp, conflict, output>>

CancelLevel ==
  /\ Running /\ pc = "backtrack" /\ decision_level > Kept /\ TopList = <<>>
  /\ decision_level > 1
  /\ assignment_trackers' = SubSeq(assignment_trackers, 1, decision_level - 1)
  /\ UNCHANGED <<F, pc, pos, value, level, antecedent, nassigned, heap,
                 watching, bcp, conflict, output, status>>

Cancelled ==
  /\ Running /\ pc = "backtrack"
  /\ decision_level <= Kept \/ (decision_level = 1 /\ TopList = <<>>)

\* add_learnt_clause: while there is room the scores stay as they are.
add_learnt_clause ==
  /\ Cancelled
  /\ IF size < NLEARNT_CLAUSES
     THEN size' = size + 1 /\ n_add' = n_add + 1 /\ pc' = "learnt"
     ELSE size' = size /\ n_add' = (n_add % NLEARNT_CLAUSES) + 1 /\ pc' = "scores"
  /\ pos' = 1
  /\ UNCHANGED <<F, assigned, heap, watching, bcp, clause, visited, merging,
                 bt_level, conflict_at_top, output, status>>

\* update_scores, one literal: it goes back with its score of before.
update_scores ==
  /\ Running /\ pc = "scores" /\ pos <= Len(clause.lits)
  /\ LET l == clause.lits[pos] IN
       /\ score' = [score EXCEPT ![l] = @ + Unit]
       /\ table' = Insert(delete_literal(table, l, score[l]), l, score[l])
  /\ CrashIf(table' = Broken)
  /\ pos' = pos + 1
  /\ UNCHANGED <<F, pc, assigned, watching, bcp, conflict, output>>

UpdateDone ==
  /\ Running /\ pc = "scores" /\ pos > Len(clause.lits)
  /\ pc' = "decay" /\ pos' = 1
  /\ UNCHANGED <<F, assigned, heap, watching, bcp, conflict, output, status>>

\* One variable, assigned or not.
decaying_sum ==
  /\ Running /\ pc = "decay"
  /\ score' = [score EXCEPT ![pos] = Half(@), ![-pos] = Half(@)]
  /\ LET t == delete_literal(delete_literal(table, pos, score[pos]), -pos, score[-pos])
     IN table' = Insert(Insert(t, pos, score'[pos]), -pos, score'[-pos])
  /\ CrashIf(table' = Broken)
  /\ pos' = pos + 1
  /\ pc' = IF pos = N THEN "learnt" ELSE "decay"
  /\ UNCHANGED <<F, assigned, watching, bcp, conflict, output>>

\* solve, after analyze_conflict: at the first level plp is called again.  For
\* an invalid literal the output of bcp is freed twice.
LearntDone ==
  /\ Running /\ pc = "learnt"
  /\ CrashIf(cur.lit = 0)
  /\ conflict_at_top' = (conflict_at_top \/ decision_level = INITIAL_BT_LEVEL)
  /\ pc' = IF decision_level = INITIAL_BT_LEVEL THEN "plp" ELSE "start"
  /\ pos' = 1
  /\ UNCHANGED <<F, assigned, heap, watching, bcp, clause, visited, merging,
                 bt_level, size, n_add, output>>
-----------------------------------------------------------------------------
(***************************************************************************)
(* report, main                                                            *)
(***************************************************************************)
\* ltoa prints an int with "%u".
ltoa(l) == l % Word

PrintLit ==
  /\ Running /\ pc = "report" /\ said = "SAT" /\ Len(out) < N
  /\ LET v == Len(out) + 1
     IN out' = Append(out, ltoa(IF value[v] = 1 THEN v ELSE -v))
  /\ UNCHANGED <<F, pc, pos, assigned, heap, watching, bcp, conflict, said, status>>

Finish ==
  /\ Running /\ pc = "report"
  /\ said = "UNSAT" \/ Len(out) = N
  /\ status' = "finished"
  /\ UNCHANGED <<F, pc, pos, assigned, heap, watching, bcp, conflict, output>>

\* SIGTERM or SIGINT: exit(0).
termination_handler ==
  /\ Running
  /\ status' = "signalled"
  /\ UNCHANGED <<F, pc, pos, assigned, heap, watching, bcp, conflict, output>>

Begin == InitTable \/ InitWatched \/ InitEmptyClause \/ InitDone
Search == PlpAssign \/ PlpSkip \/ PlpDone \/ decide \/ SaySat
Propagate == \/ BcpStart \/ BcpAssign \/ BcpSkip \/ BcpDone \/ VisitOther
             \/ VisitMove \/ VisitUnit \/ VisitConflict \/ SayUnsat \/ VisitDone
Analyze == \/ learn_clause \/ merge \/ MergeDone
           \/ get_backtracking_level \/ cancel \/ CancelLevel
           \/ add_learnt_clause \/ update_scores \/ UpdateDone \/ decaying_sum
           \/ LearntDone

Step == Begin \/ Search \/ Propagate \/ Analyze \/ PrintLit \/ Finish

Next == Step \/ termination_handler

Spec == Init /\ [][Next]_vars

\* The only thread of the process keeps running.
FairSpec == Spec /\ WF_vars(Step)
-----------------------------------------------------------------------------
(***************************************************************************)
(* Properties                                                              *)
(***************************************************************************)
Clause == [lits : Seq(Lits), n : Int]
Assignment1 == [lit : Lits \cup {0}, antecedent : Clause]

\* What the proofs need of the types: nothing of clauses, scores and the table.
TypeInv ==
  /\ F \in Formulas
  /\ pc \in {"table", "watch", "plp", "decide", "start", "bcp", "visit", "learn",
             "merge", "backtrack", "scores", "decay", "learnt", "report"}
  /\ pos \in Nat \ {0}
  /\ value \in [Vars -> {UNASSIGNED, 0, 1}] /\ level \in [Vars -> Int]
  /\ assignment_trackers \in Seq(Seq(Vars)) /\ decision_level > 0
  /\ watched \in [DOMAIN F -> [1..2 -> Nat]]
  /\ w_clauses \in [Vars -> Seq(DOMAIN F)] /\ walk \in Seq(DOMAIN F)
  /\ IsRing(queue) /\ \A k \in DOMAIN Contents(queue) : Contents(queue)[k].lit \in Lits
  /\ cur.lit \in Lits \cup {0} /\ bt_level \in Nat
  /\ conflict_at_top \in BOOLEAN
  /\ said \in {"none", "SAT", "UNSAT"}
  /\ status \in {"running", "finished", "signalled", "error", "crashed"}

\* nassigned counts the variables that have a value.
CountInv == nassigned = Cardinality({v \in Vars : value[v] # UNASSIGNED})

TypeOK ==
  /\ TypeInv
  /\ antecedent \in [Vars -> Clause] /\ score \in [Lits -> Nat]
  /\ CountInv
  /\ \A k \in DOMAIN Contents(queue) : Contents(queue)[k] \in Assignment1
  /\ cur \in Assignment1 /\ assigned_literals \in Seq(Lits)
  /\ clause \in Clause /\ visited \subseteq Vars
  /\ this \in Clause /\ iB \in Nat \ {0} /\ resolvent \in Vars \cup {0}
  /\ size \in 0..NLEARNT_CLAUSES /\ n_add \in 0..NLEARNT_CLAUSES
  /\ out \in Seq(0..(Word - 1))

\* The lists of the levels and the assignments agree: a variable has a value iff
\* it is in the list of its level, and there once.
LevelInv ==
  /\ \A k \in 1..decision_level : \A i \in DOMAIN assignment_trackers[k] :
       LET v == assignment_trackers[k][i]
       IN /\ value[v] # UNASSIGNED /\ level[v] = k
          /\ \A j \in DOMAIN assignment_trackers[k] :
               j # i => assignment_trackers[k][j] # v
  /\ \A v \in Vars : value[v] # UNASSIGNED =>
       /\ level[v] \in 1..decision_level
       /\ \E i \in DOMAIN assignment_trackers[level[v]] :
            assignment_trackers[level[v]][i] = v

\* The clauses that are watched already.
ClauseIds == CASE pc = "table" -> {}
               [] pc = "watch" -> 1..(pos - 1)
               [] OTHER -> DOMAIN F

Listed(c) ==
  \A k \in 1..2 :
    /\ watched[c][k] \in DOMAIN F[c]
    /\ \E i \in DOMAIN w_clauses[Var(WatchedLit(c, k))] :
         w_clauses[Var(WatchedLit(c, k))][i] = c

\* A watched literal is not false, or a literal is true that will not lose its
\* value before a watched one does.
Justified(c) ==
  \/ \E k \in 1..2 : ~IsFalse(WatchedLit(c, k))
  \/ \E p \in DOMAIN F[c], k \in 1..2 :
       IsTrue(F[c][p]) /\ level[Var(F[c][p])] <= level[Var(WatchedLit(c, k))]

\* bcp will still visit the clause.
Pending(c) == /\ pc = "visit" /\ Hit(c)
              /\ \E i \in DOMAIN walk : walk[i] = c

\* A watched literal will lose its value by backtracking.
Cancelling == pc \in {"learn", "merge"} \/ (pc = "backtrack" /\ decision_level > Kept)
Doomed(c) == /\ Cancelling
             /\ \E k \in 1..2 : level[Var(WatchedLit(c, k))] = decision_level
                                /\ IsFalse(WatchedLit(c, k))

\* No clause can become false unnoticed, although a clause stays in the lists of
\* literals it no longer watches, bcp gives up in the middle of a list, the queue
\* drops what it has no room for, and backtracking looks at no clause.
WatchInv ==
  \A c \in ClauseIds : /\ Listed(c)
                       /\ said # "UNSAT" => (Justified(c) \/ Pending(c) \/ Doomed(c))

\* The literal bcp starts from or visits the clauses of.  With LevelInv and
\* WatchInv the inductive invariant.
CursorInv ==
  /\ pc \in {"table", "watch"} =>
       ~conflict_at_top /\ \A v \in Vars : value[v] = UNASSIGNED
  /\ said = "none" <=> pc # "report"
  /\ Running /\ (pc = "start" \/ (pc = "plp" /\ conflict_at_top)) => cur.lit \in Lits
  /\ pc = "visit" => /\ cur.lit \in Lits /\ IsTrue(cur.lit)
                     /\ level[Var(cur.lit)] = decision_level

IInv == TypeInv /\ CountInv /\ CursorInv /\ LevelInv /\ WatchInv

\* The literals of a variable to decide are in the table when it is its turn,
\* and the table is sorted, whatever went in, out and around before.
TableInv ==
  LET es == Entries(table) IN
  /\ pc = "decide" =>
       \A v \in Vars : value[v] = UNASSIGNED /\ (OccursIn(v) \/ OccursIn(-v))
                         => \E i \in DOMAIN es : Var(es[i].literal) = v
  /\ \A i, j \in DOMAIN es : i < j => es[i].score <= es[j].score

\* No clause has a literal twice.  For one that has, merge counts wrong: it drops
\* literals when the count comes to 0, and what it learns need not follow from
\* the formula, or has no literal of the level of the conflict.
RepeatFree == \A c \in DOMAIN F : \A p, q \in DOMAIN F[c] : F[c][p] = F[c][q] => p = q

Follows(lits) == \A tau \in Assignments :
                   Satisfies(tau, F) => HasTrue(tau, lits, DOMAIN lits)

\* The literal had to be true, if it was not decided.
Compelled(l) ==
  LET a == antecedent[Var(l)] IN
  a # NoClause => /\ Follows(a.lits)
                  /\ \A i \in DOMAIN a.lits : a.lits[i] = l \/ IsFalse(a.lits[i])

\* What is learnt follows from the formula at every turn, if the literal bcp began
\* with had to be true.  After backtracking it need not: the clause learnt may have
\* several literals without a value.
LearntImplied ==
  pc = "learn" /\ RepeatFree /\ Compelled(assigned_literals[Len(assigned_literals)])
    => Follows(clause.lits)

\* After a conflict there is a literal to assign, and it has no value; the
\* program only gives up on an empty clause.
LearntAssignable ==
  /\ pc = "learnt" /\ RepeatFree => cur.lit # 0 /\ IsUnassigned(cur.lit)
  /\ status = "error" => \E c \in DOMAIN F : F[c] = <<>>

\* README, "Determine whether the formula is satisfiable".
SatRight == said = "SAT" => Satisfiable(F)
UnsatRight == said = "UNSAT" => ~Satisfiable(F)
AnswerRight == SatRight /\ UnsatRight

\* The solver ends.
Terminates == <>(status # "running")
-----------------------------------------------------------------------------
(***************************************************************************)
(* The promise of a solver: this one keeps the half about SAT.             *)
(***************************************************************************)
\* A reader that takes the numbers printed for ints.
Signed(x) == IF x < Word \div 2 THEN x ELSE x - Word

Promise == INSTANCE SatSolver
             WITH Trusted <- {"SAT"},
                  out <- [v \in DOMAIN out |-> Signed(out[v])],
                  status <- IF status \in {"error", "crashed"} THEN "signalled" ELSE status
PromiseKept == Promise!Spec
=============================================================================
