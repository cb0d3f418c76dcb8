# A verification model of SAT-fuzzer

This directory models the program in the repository with TLA+ modules, checks
small instances with TLC and proves theorems about the modules with TLAPS.
Paths below are relative to the root of the repository.

## The system

`fuzz-sat` searches for undefined behaviour in SAT solvers.  It writes formulas
to files, has a shell run a solver on each of them, and reads what the
sanitizers in the solver wrote to standard error.  Three solvers are part of the
repository as systems under test (SUTs), each with the wrapper `runsat.sh`.

    main (fuzzer.cpp)
      |-- generateUB (ub.cpp)             200 tests in ubTempFiles/
      |-- functionalTransform (func.cpp)  tests without end in func-tests/
            both: runSUT, checkUb, saveInput (util.cpp)
                     | std::system, .cnf and .err files
                  runsat.sh  -- SIGTERM -->  sat (solver1, solver2, solver3)

| Component | State | Operations | What is hard | What makes it correct |
|---|---|---|---|---|
| campaign: `src/fuzz`, `src/ub`, loop of `src/core`, `src/util` | phase, index, queue; files in `ubTempFiles`, `func-tests`, `fuzzed-tests` | make a file, run the SUT, read its errors, save, next | a user stops and restarts it at any step; a SUT outlives it; files of an earlier campaign; a hanging SUT; failed calls nobody looks at | what is saved triggers a report, what was reported is saved, stops and faults do bounded damage, temporary files go, the first phase ends |
| transformations: `src/core/func.cpp` | queue of (clauses, count, variables, name) | parse, transform, label, queue again | the count is carried along a chain of transformations; iterator arithmetic; uninitialised header numbers; `continue` loses a formula | labels are true, the count follows the lines, round robin, undefined behaviour has no cause but what was read and lost |
| input generators: `src/ub/ub.cpp` | - | educated inputs, `createInput`, `createGarbage` | text only | the fuzzer reaches them in order |
| eviction: `util.cpp:146` | `errorCounts` | `evictFilesIfNeeded` | never called | - |
| wrapper: `solvers/*/runsat.sh` | traps, child | spawn, trap, wait loop, handler | signals between any two commands; `wait` interrupted by a trap | ends after the solver, passes signals on |
| solver3: `sat.c` | models on the heap, static `m`, `latest_assignment`, recursion | DPLL, assign, copy | one static model for all activations; uninitialised bytes | SAT and UNSAT are right, models are printed |
| solver2: `sat.c`, `clause.c`, `vector.c`, `queue.c`, `parser.c` | clauses, watchers, trail, levels, reasons, queue | propagate, decide, analyze, learn, backjump | clauses are reordered while they are watched and are reasons; conflicts interrupt visits | watch, trail, queue and reason invariants, complete propagation, sound and asserting clauses, termination |
| solver1: `solver.c`, `conflict.c`, `decision.c`, `formula.c`, `clause.c`, `watched_clause.c` | values, levels and antecedents; lists of the levels; watch lists; ring queue; AVL tree of the literals to decide, sorted by score; scores; count of learnt clauses; `conflict_at_top` | plp, decide, bcp, learn, backtrack, store the clause and age the scores | watch lists with stale and repeated entries that change while they are walked; a queue at its limit; a tree whose removals and rotations disagree; learnt clauses that are stored and never read; a first level that is not one | levels, lists and values agree; no clause becomes false unnoticed; the tree has every literal still to decide; SAT is right |

The components meet in three places: the files and `std::system` between the
campaign and a SUT, the signals and the process status between `runsat.sh` and
the solver, and the queue between parsing, transforming and testing.  There are
no threads (the ones in `fuzzer.cpp` are commented out).  `PROJECT.json` lists
all components with what is left out, and the hazards line by line.

## Modules

    Cnf <-- SatSolver          formulas; what a solver promises
     ^        ^
     |        | implements
     +-- Dpll <-- DpllProofs   solver3        (TLC: MCDpll)
     +-- Cdcl2 <-- Cdcl2Proofs solver2        (TLC: MCCdcl2)
     +-- Cdcl1 <-- Cdcl1Proofs solver1        (TLC: MCCdcl1)
          |            |
      RingQueue    CnfProofs   lemmas that both CDCL proofs use
    RunSat <-- RunSatProofs    the wrapper and its child
     ^
     |                         the campaign with the wrapper and the solver
    CampaignRunSat <-- CampaignRunSatProofs           (TLC: MCCampaignRunSat)
     |
     | extends, implements
    FuzzCampaign <-- FuzzCampaignProofs    the campaign and its files
                                                      (TLC: MCFuzzCampaign)
    FuncTransform <-- FuncTransformProofs  transformations and their queue
                                                      (TLC: MCFuncTransform)

A definition whose name begins with `Slip` is not part of a specification.  It
is the definition after it with the kind of mistake the properties exist for (a
copy left out, an index one too far, an order swapped).  When the definition is
replaced by its slip, TLC finds the property violated that `PROJECT.json` names
with it; this is done for every property of every passing run.

**Cnf, SatSolver.**  `SatSolver` is the abstract solver: `SaySat` only for a
satisfiable formula, `SayUnsat` only for another, literals printed one at a time
so that what is printed is at any time the beginning of a model, and a signal
that may end it anywhere.  `Trusted` is the set of answers that have to be
right: both for solver3, `{"SAT"}` for solver1, whose UNSAT is not (`cdcl1_answer`).

**Dpll** (`solvers/solver3/sat.c`).  `struct model` is passed by value but is a
bundle of pointers, so `heap` holds the arrays and a model is an index into it;
`malloc` appends.  `stack` is the recursion of `DPLL`, and the `static model m`
is one variable.  `Bcp`, `Plp`: one turn of the two loops.  `Check`: the two
early returns.  `BranchTrue`: `copy(phi, m, true)` and the first call.
`BranchFalse`: the copy into the arrays `m` points to when the first call has
returned, and the second call.  `Return`, `SayAnswer`, `PrintLit`, `Finish`:
the rest of `DPLL` and `main`; `termination_handler`: `exit(0)` anywhere.  Bytes
of `assignments` start as any value of `Junk`.  A clause is the set of positions
not removed yet; the sort order matters to `choose_literal` only, and
`IsChosen` says what it yields.  Clauses have at most six literals, because a
longer one may be copied into a smaller buffer, and buffers have no size here.

**RunSat** (`solvers/*/runsat.sh`).  One action for each command of the script,
`Handler` for the trap, which runs after the current command and makes `wait`
return, `KilledBySignal` where there is no trap yet, `Reap` for the shell
collecting its child.  The solver is a small machine: before its `sigaction`
calls, searching, or inside the C library, where `exit()` in the handler may
hang.  Both ways a user sends signals are there, to the script alone and to
the foreground group.

**FuncTransform** (`src/core/func.cpp`).  A line is a sequence of tokens, as the
code keeps it.  `transform` is the set of its possible results, `Turn` one turn of
the loop, `OpenFails` the `continue`, `Undefined` a behaviour the language does
not define (front of an empty deque, crossing iterators).  `Extracted` is what
`ss >> numOfVars >> numOfClauses` leaves in the two variables: of a DIMACS file, whose first line
is `p cnf V C` or a comment, 0 and any member of `Garbage`.  `header` keeps what was read of
each file; no action reads it.  The meaning of a
formula (`ClausesOf`, `Sat`) follows DIMACS, where a clause ends at a 0 and not
at the end of a line.  Seventeen values select a transformation and four of them
have one, so all results but `Original` are equally listed; the probabilities are
left out.

**FuzzCampaign** (`src/fuzz`, `src/ub`, `src/core`, `src/util`).  The program as a
sequence of steps between which a user may stop it: `Start`, `UbMake`, `RunSut`,
`SutEnds`, `ReadErr`, `SaveInput`, `UbNext`, then `FuncLoad`, `FuncMake` and so
on.  The files are what survives.  A SUT that is running when the fuzzer is
killed becomes an orphan and keeps its `.err` file open (`OrphanEnds`).
`std::system` ignores Control-C in the fuzzer but not in the SUT, which ends
(`ControlCEnds`), goes on without its script (`ControlCOrphans`) or hangs
(`ControlCSticks`).  A fault is a file, directory or process the system refuses.

**CampaignRunSat** composes FuzzCampaign with RunSat.  While the fuzzer is in
`std::system`, the SUT is the script and the solver, step by step (`ScriptStep`,
`ScriptKilled`, `SolverEnds`, `SolverSignalled`); `SystemReturns` when the script has
ended.  The other actions are those of FuzzCampaign.  The composition implements
FuzzCampaign (`CampaignKept`): for the fuzzer the run is over when the solver is
gone, since nothing the script does then changes a file.  The shell that `std::system`
starts is taken for the script.

**Cdcl2** (`solvers/solver2`).  One action for one turn of the loops of
`makeOutput`, `propagate` and `analyze`, one for each of `decide`, `cancelUntil`
and `learn`.  A clause is a sequence whose first two literals are watched;
`CLAUSEpropagate` swaps literals (`Turned`, `VisitMove`), and this order is kept
exactly, since watches and reasons depend on it.  `Deleted` is what
`CLAUSEclean` deletes with an index that skips; `VECTORswitchPlace` is what
that function does, not what its name says.

**Cdcl1** (`solvers/solver1`), with **RingQueue** (the ring of `solver.c`) and
**LitTable** (`decision.c`).  One action for one turn of each loop of
`init_formula_from_file`, `plp`, `bcp`, `check_watched_clauses`, `learn_clause`, `merge`,
`backtrack` and the scoring of `add_learnt_clause`.

* `decision_level` is the length of `assignment_trackers`, the lists of what was
  assigned at each level.  `value`, `level` and `antecedent` are the array
  `assignments`.
* A clause is a record of its literals and of `nliterals`: `merge` lowers the
  number for each opposite literal, found in the list or not, so the two may
  differ, and `add` replaces the list of a clause whose number is 0.  A turn of `learn_clause` starts
  `merge` on a copy of the antecedent (`this`), which then takes one literal of the
  other clause at a time (`Merged`); `MergeDone` is its return.  When no literal clashes,
  `merge` returns NULL and what it built is freed, so the guard `Clashes` leaves that call out.
  A turn for a variable resolved on before only counts; the literal survives its resolution when the
  antecedent holds it with both signs, and no formula of the runs gets there.
* `watched` and `w_clauses` are the two watched positions and the lists the
  variables have.  A clause is put into the list of every literal it meets while
  it looks for a new watch (`VisitMove`), and is taken out of none.
* The tree is a value of `LitTable`: the code's tree with its stored heights and its
  rotations, null pointers included (`Broken`).  What the code does by recursion is a
  recursive function on `Trees[h]`, the trees of a stored height up to `h`.
* `conflict_at_top` and the `-1` of `get_backtracking_level` are the code's; the
  first level is level 1, and backtracking to it cancels it as well (`Kept`).

What is abstracted, each named at its definition.  The ring has `MAX_QUEUE_SIZE` 3
instead of 20000 places and `NLEARNT_CLAUSES` is 2 instead of 100, so both limits are
met.  A score, a double, is a multiple of 1/8 (`Unit` 8) with halves rounded to even, so
it underflows after a few conflicts instead of a thousand.  A list keeps the two
newest entries of a clause: an older one is visited with the same watches and can only
push once more what the second one pushed.  `MaxTable` 30 stops before a conflict with a larger
tree, which in the runs has duplicates only.  `Word` is 256 where an int has
32 bits: `ltoa` prints a negative literal with `%u`, and the reader must take
the number for an int (`Signed`).  Learnt clauses are counted and not kept, since
nothing in the program reads them.

The translation was compared with the program on 600 random formulas over 3 to 5
variables, repeated literals included, with the solver compiled for two learnt
clauses and no smaller ring: answer, literals printed, and the tree with its scores and
heights and the watch lists at the end are the same in the model and in the program.  The formulas of
`cdcl1_answer` and `cdcl1_ends` do to the program as it is what the runs say.

## Runs

| Run | Question | Bounds and why they are enough | Distinct states |
|---|---|---|---|
| `dpll_all` | answers, sharing of `m`, the inductive invariant, refinement, the end | 3 variables; every formula of up to two clauses, and set of three, with up to 2 literals over two of them: empty, unit, repeated and tautological clauses; every set of full clauses: three nested activations, first and second branches at each; a junk byte that is 0 or not | 335,108 |
| `runsat` | wrapper and child under signals | 4 signals: one more than the places where one may wait (script, solver, handler) | |
| `func_files` | labels, counts, order, undefined behaviour | DIMACS files, whose number of clauses is garbage (negative, 0 and 2, hence too small, right and too large), one with a blank line and one with the problem line behind a comment, and files that begin with two numbers; 2 variables, up to 3 lines, one or two files, 1 file lost; lines are added to 3 and deleted to 0 in any order, so chains of any length are covered | 51,565 |
| `campaign_files` | saving, losing, restarting, the damage of stops and faults | 2 tests a phase (one educated, one random), 3 campaigns, 2 stops, 1 fault: an orphan may meet two later campaigns | 567,773 |
| `campaign_fresh` (violation) | comments of `fuzzer.cpp:15` and `17` | 2 campaigns | |
| `campaign_triggers` (violation) | `README.md:82` | 2 campaigns | |
| `campaign_script` | FuzzCampaign is what the fuzzer sees of the script and the solver | one test a phase, 2 campaigns, 2 Control-C during one run, 2 stops with an effect, 1 fault; an input on which the SUT reports and one on which it hangs | 827,544 |
| `cdcl2` | invariants and end of the CDCL search | 4 variables, four families of formulas: short ones for the parser, every set of full clauses on 3 variables for search and learning at all levels, clauses that meet at level 2 for backjumps, clauses out of which `VECTORswitchPlace` makes damaged ones; the fourth variable is the last, which is never decided | 336,132 |
| `cdcl2_answer` (violation) | `README.md:27` for solver2 | the parser family | |
| `cdcl1` | invariants of solver1, and its promise about SAT | 4 variables, six families of formulas: see below | 283,001 |
| `cdcl1_answer` (violation) | `README.md:27` for solver1 | one formula of six clauses that is satisfiable | |
| `cdcl1_ends` (violation) | the same, for the end of solver1 | one formula of seven clauses, under fairness | |

`CHECK_DEADLOCK FALSE` is in every configuration because each system may stop:
a solver exits, the script ends, the fuzzer meets undefined behaviour or is
stopped and, with the bound on campaigns, not started again.

The families of `cdcl1` (`MCCdcl1`) are every set of full clauses over three variables,
the same with a unit clause behind it, all short formulas over two variables with
empty and tautological clauses, pairs of clauses that share two variables with two
more, clauses with repeated literals, and a formula of thirteen clauses with one or
two left out.  The states reached include a full ring that drops what is pushed,
decision levels of 4 and more, backtracking to level 2 and above, two and more
resolutions for one conflict, learnt clauses of three literals, the overwriting of learnt
clauses with the ageing of scores, and `conflict_at_top` for a formula that
is satisfiable.

What the passing runs show, beyond types:

* `SatSound`, `UnsatSound`: solver3 answers correctly whatever the
  uninitialised bytes are.  A junk byte that is not 0 makes
  `find_pure_literal` skip a variable; that costs branches and no answer.
* `StaticModelFree`, `PendingModelIntact`: the shared static model is never a
  model that somebody will read again.  This is not obvious from the code: the
  second branch of an activation overwrites arrays allocated by the deepest
  activation of its first branch.
* `PromiseKept`: Dpll implements SatSolver, printing included: of an
  uninitialised byte only the sign matters.
* `DoneAfterSolver`, `SignalStopsSolver`, `ScriptEnds`: see the comments of
  `RunSat.tla`.  `SignalStopsSolver` needs both traps set and admits the hang in
  `exit()`; without either the property is false.
* `LabelSound`: labels are true for formulas with one clause on a line.
* `CountKeepsError`, `UndefinedCause`: the header of a DIMACS file is never read, so the count is
  wrong from the start.  The transformations carry it along faithfully: it stays wrong by the
  same number, and the loop becomes undefined for a formula only if what was loaded for its file is to
  blame, never because of the chain of transformations, or when every file is lost.
* `RoundRobin`: no file is starved; a file that could not be opened once is lost, and excused.
* `SavedTriggers`, `NothingMissed`, `TempFilesRemoved`, `UbPhaseEnds`: the campaign, with their
  exceptions (an orphan, a fault, Control-C during this test, a SUT that hangs) stated in the property.
* `WrongTestsBounded`: what the exceptions can do.  A stop or a fault, whenever it comes and whatever
  files and orphans it leaves for later campaigns, leads to at most one saved test that triggers nothing.
* `CampaignKept`: the fuzzer never goes on while the solver is at work, unless
  Control-C came before the script had its traps.
* `TrailInv`, `QueueIsTail`, `ReasonInv`, `WatchInv`, `PropagationComplete`, `AnalysisSound`,
  `LearntAsserts`, `NeverStuck`, `Terminates`: solver2's data structures and search.
  `AnalysisSound` is conditional: what `analyze` returns follows from the formula
  if the clauses it was derived from do, and `VECTORswitchPlace` may have broken
  one of those.  So is `PropagationComplete`, for clauses without a repeated literal
  (`Repeats`): a damaged clause may hold one literal twice, in both watches, and then
  become false while nobody looks.  `(3 -4)(-3 -2 4)(3 -2 4)(-1 -3 -4)` is such a formula.  `AnswerRight` fails for another reason already in the parser
  family (the last variable).
* `LevelInv`, `WatchInv` of Cdcl1: the bookkeeping of levels survives backtracking,
  level 1 included, and no clause becomes false unnoticed, although bcp gives up in
  the middle of a list, throws the queue away and drops what the ring has no room for.
  A clause whose unit literal was dropped stays `Justified` or is found by a later visit.
* `TableInv`: whenever the solver decides, each variable without a value that
  occurs in the formula has a literal in the tree, and the tree is sorted, although
  literals may stay after their removal and be there twice.
* `LearntImplied`, `LearntAssignable`: what `analyze` learns follows from the formula,
  and there is always a literal to assign afterwards, without a value.  Both speak of
  formulas without repeated literals (`RepeatFree`), because with them `merge` goes wrong
  (see below), and `LearntImplied` also needs the literal of the conflict to be
  `Compelled`: after backtracking to a level above 1 the code assigns a literal whose clause may have
  others without a value, and a reason that is none may be resolved with.
  The wrong UNSAT of `cdcl1_answer` comes with a learnt clause that follows.
* `PromiseKept` of Cdcl1: the numbers printed after SAT are a model for who reads them as ints.

### Fairness

* Dpll, Cdcl1, Cdcl2: `WF_vars(Step)`.  The process has one thread and the scheduler
  runs it; no fairness for signals, which need not come.  In Cdcl2 it is written
  with what `ENABLED Step` comes to, because TLC evaluates that much faster.
* RunSat: weak fairness of the shell's commands, its traps, its `waitpid`, the
  kernel's delivery of signals, and the first lines of the solver.  None for
  `FinishSearch`: the search may go on for ever.
* FuncTransform: `WF_vars(Turn)`, the loop `while (true)`.  Losing files and
  undefined behaviour are never forced.
* FuzzCampaign: weak fairness of the fuzzer's own steps and of `SutEnds`, which is
  not enabled for a SUT that hangs.  None for the user or for orphans.

## Proofs

The eight modules `DpllProofs`, `RunSatProofs`, `CampaignRunSatProofs`, `FuncTransformProofs`,
`FuzzCampaignProofs`, `CnfProofs`, `Cdcl1Proofs` and `Cdcl2Proofs` hold for every
value of the constants: any number of variables, any set of formulas, any junk bytes,
any number of signals, campaigns, stops and faults, any size of the ring.  They assume what
the modules state as assumptions, each of which TLC evaluates in a run: the formulas are formulas
(`InputsAssumption`, `Inputs1Assumption`, `Inputs2Assumption`), the bounds are natural numbers and what has
to be there is not empty (`NAssumption`, `MaxSignalsAssumption`, `QueueAssumption`,
`BoundsAssumption`, `Bounds1Assumption`), junk bytes are bytes, garbage is an integer.  Nothing is assumed of the
contents of the files the fuzzer is given.

*Soundness of solver3.*  `SatSound` and `UnsatSound` are not inductive, since they
speak of the answer only.  `IInv` of `Dpll` is, and run `dpll_all` checks it, `TypeOK` with it:

* `AllGood`: in every model of the heap a tagged clause is satisfied by the
  bytes, a literal was removed only if it is false, and a variable that has lost
  its literals keeps its value.  So the bytes agree with what has been removed.
* `StackOrdered`: the models on the stack have growing heap indices and `m` is
  not below the top one, so it is none of the waiting ones.  This is the whole
  secret of the static model: only the deepest callee's arrays are reused.
* `NothingLost`: while the search goes on, if `F` has a model, then the model on
  top, or an activation waiting with its second branch to go, still admits one.
  `AssignKeepsModels`, `UnitForced`, `PureKeepsModels` and `BranchesCover` say
  why each step keeps this: an assigned literal keeps the models in which it is
  true, a unit literal is true in all, a pure one may be made true in any, and a
  branching literal is true or false.
* `AnswerInv`, `OutInv`: what has been returned and printed so far.

One lemma takes each conjunct through each action (`TypeStep`, `OrderStep`,
`PendingStep`, `GoodStep`, `AnswerStep`, `LostStep`, `OutStep`); `Invariance` puts
them together.  From it follow `TypeCorrect`, `SatSoundness`, `UnsatSoundness`,
`StaticModelSafe`, `PendingModelsIntact` and, with `PrintedIsModel` (a printed
number has the sign of its byte), `Refinement`: every step of Dpll is a step of
SatSolver or leaves its variables alone.

*The wrapper.*  `ScriptOutlivesSolver` is `DoneAfterSolver` for any number of
signals; the strengthening says that `kill -0` fails only after the child was
reaped and a reaped child had ended.  `TypeCorrect` is `TypeOK`.

*The transformations.*  `IInv` of `FuncTransformProofs` holds for any input files, whatever was read for
their headers.  It says of each queued formula (`Kept`) that its count is wrong by what was read wrong
(`Miscount`) and that a blank line in it comes from its file, and of the queue that it has as many formulas as
files not lost.  Each transformation keeps that, which gives `TypeCorrect`,
`CountErrorKept` and `UndefinedExplained`: a count that is negative or too large for the lines of a formula was so when
its file was loaded.  `LabelsTrue` is about what the labels promise.  For lines that are clauses the reader's clauses
are the lines (`ClausesOfLines`), so that swapping clauses or literals keeps the set of clauses, and adding
or deleting lines enlarges or shrinks it (`TransformLabel`).

*The campaign.*  `TypeCorrect` of `FuzzCampaignProofs` is inductive by itself.
`DamageBounded` is `WrongTestsBounded`, and needs `DamageInv`: the wrong tests, the orphans that may still write a report
and the test at risk of being saved for somebody else's report (`AtRisk`) together are no more than the stops and
faults so far.  An orphan whose report is read turns into a test at risk, and that into a wrong test; a stop
turns the test at risk into an orphan.  `SavedTrigger` and `NoneMissed` need three
invariants: the SUT reads the formula in memory (`RunInv`), an orphan of the functional phase
belongs to an earlier test or to this one once nobody waits for it (`OrphanInv`), and
so nobody else writes the `.err` file that is read (`ReportInv`).  `TempFilesBounded` needs `TempInv`, which
counts the files left over: each campaign leaves at most the one it was stopped with.

*The campaign with the wrapper.*  `Refinement` of `CampaignRunSatProofs` is
`CampaignKept` for any inputs, bounds and signals.  Its invariant `RunInv` carries what
RunSatProofs knows of the wait loop into the composition: a script that ended by
itself has reaped its child, so that a solver still alive when `std::system` returns can only be
one whose script a signal killed, which is `ControlCOrphans`.  `RefinementStep` has one step for each action.

*What both CDCL proofs use.*  `CnfProofs` has the least and the greatest number of a set
(`Least`, `Greatest`), and what taking elements out of a clause leaves: `AtPositions` and
`AtLength` say that `At(s, ps)` has the elements at `ps` and as many of them, because the
positions are numbered one to one (`OneToOne`, `Numbered`).

*Recursion.*  The induction theorems of the library take operators, which the prover cannot
instantiate, so `CnfProofs` has its own over sets and functions.  `NatInduct`: a set with 0 and the successors
of its members has every natural number, since a least one outside could be neither.  `Recursion`: a function
given by its values below exists; its beginnings (`Recurs`) exist by `NatInduct`, agree where both are defined, and
together are the function.  `RecursionIn` gives its range (`StaysIn`).  The functions of `LitTable` are
defined with CHOOSE, as all recursive functions are, and each satisfies its equation by one of these.

*The ring.*  The first lemmas of `Cdcl1Proofs` say that the array with its three
counters behaves as a queue of at most `MAX_QUEUE_SIZE` items: `RingPush`
appends, `RingPushFull` loses what is pushed, `RingPop` takes the first, `RingReset`
empties, and each keeps `IsRing`.

*solver1.*  `IInv` of `Cdcl1` is `TypeInv`, `CountInv`, `CursorInv`, `LevelInv` and
`WatchInv`.  It needs no property of the tree, of scores or of what is learnt.

* `LevelInv` is inductive with the types: assigning puts a variable without a value
  in front of the last list, `cancel` takes the first one off (`AssignLevel`,
  `CancelKeepsLevel`).
* `WatchInv` is the heart.  For each clause a watched literal is not false or
  a true literal outlives the watched ones (`Justified`), or bcp is still to visit it
  (`Pending`), or a false watch is about to be undone (`Doomed`).  An assignment
  turns `Justified` into `Pending`, since a clause is in the lists of both its watches
  (`WatchAssign`, `PendingRest`); a visit turns it back, whatever way it ends
  (`WatchMove`, `WatchVisit`); a conflict makes the clause visited, and with it those still
  waiting, `Doomed`, because a literal of the current level is false in each; and
  backtracking, which always goes below the level of the conflict (`BacktrackBelow`), leaves
  none of them (`WatchCancel`, `NoneDoomed`).  A dropped push disturbs nothing of this:
  the clause keeps a watch that is not false.
* `CountInv` lets the solver know that every variable has a value (`CountStep`, by
  the cardinality theorems).

From them `LevelsAgree`, `NoneMissed` and, with `TableInv`, `SatTrusted`:
SAT is only answered for a satisfiable formula, since with all variables assigned and no
clause pending a `Justified` clause has a true literal (`ValuedIsModel`).  `Refinement`
is `PromiseKept`: the values do not change while they are printed, and a
negative literal printed with `%u` and read as an int is itself (`SignedLtoa`), for which
`Bounds1Assumption` says that the number of variables is an int.

What solver1 learns needs more than `IInv`.  `IInv3` adds, for every formula:

* `MoreTypes`, the types of clauses, scores and counters, from which follows `TypeCorrect`.
* `CountedInv`: if no clause of the formula has a literal twice, then every reason, the
  clause being learnt and the one being merged are `Good`: they count their literals right and
  have none twice.  `MergeInv` is the loop invariant of `merge`: before the literal at `iB`,
  `this` has the literals of the antecedent and those read so far, without the resolved
  variable once it was read (`HalfMerged`, `MergedGood`).
* `BcpInv`: all that bcp has assigned since it began is true and of the last level, and but for
  the first literal each is `Left` over from a clause of the formula, its antecedent: the others are
  false, one of them at this level.  So is what waits in the queue (`QueueInv`); its literal may
  become false before its turn, and is then skipped.
* `LearnInv`: the clause being learnt has a literal of the last level and not the one bcp began
  with, and if that one is `Compelled` the clause follows from the formula and is false (`Derived`).  A
  conflict has these properties (`ConflictDerived`); a resolvent keeps them, since `learn_clause` only
  goes on while two literals are of the last level (`AnotherHere`, `ResolventDerived`).
* `BackInv`: the literal to assign after a conflict is of a level that backtracking takes off, and plp
  finds no variable with a value, since it is called again at the first level only (`NoneAssigned`).

From them `LearntRight` and `Assignable`: `LearntImplied` and `LearntAssignable` for formulas of any size.

*The tree of solver1.*  For each operation of `decision.c` a lemma says what it does to the entries (`Els`)
and their order (`Ordered`), for every tree whatever its balance, since the stored heights need not be heights:

* `InsertFacts` (`Inserted`): the entry is added, the order kept, or a rotation finds no child and the program crashes.
* `ExtractFacts` (`Taken`): an entry of the greatest score is taken out and nothing else is lost.
* `DeleteFacts` (`Deleted`): entries of other literals stay, the order is kept, and no rotation fails, since a
  child that is heavier than its sibling is there.  That the literal itself leaves is not stated,
  because among equal scores it may stay.

`TreeKept` follows for every run of the program: `TreeInv`, the table is a tree in order or the program has crashed
on it.  `TableInv` needs `CoverInv`: a variable of the formula without a value has a literal in the tree
unless it is about to get a value (`Taking`: decide or analysis has taken it out, bcp has not come to it) or a loop is
going to put it in (`Due`).  The case that makes it hard is a variable that loses its value when both its scores
have been halved to zero: `revoke_assignment` then returns neither literal.  `ScoreInv` says why
none is missing when decide looks: scores fall only when the learnt clauses are full, and from then on every
conflict ends with `decaying_sum`, which puts in both literals of every variable, whatever their scores.  With it
`TableRight` is `TableInv` without any hypothesis on the scores, underflow included.

*solver2.*  The invariants need each other.  `Core` of `Cdcl2Proofs` is their inductive conjunction, for
any formula, tautologies and clauses that the parser shortens included:

* `Trail`: the trail has the assigned variables once each, grouped by level, and each
  level begins with its decision.
* `Reasons`: the first literal of a reason is the one it made true, the others
  became false earlier.  `VisitMove` and `VisitUnit` reorder clauses, but never one that
  is a reason, because its first literal is true.
* `QueueInv`: what waits to be propagated was assigned at the current level, and nothing waits after a conflict.
* `WatchAll`: each literal's list and the clauses still to visit have a clause exactly as often as its
  first two literals say (`Watches`); this is `WatchInv` in the middle of a visit.
* `AnalysisInv`: `count` is the number of marked literals of the last level that are
  still ahead on the trail (`SeenHere`), and what was learnt so far is false and of lower levels.

From it `TypeCorrect`, `TrailRight`, `ReasonsRight`, `WatchesRight` and `LearntAsserting`.
`QueueRight` is `QueueIsTail`, inductive on top of it: `enqueue` and `decide` append to the trail and the queue
alike (`EndsWithPushed`), `Dequeue` takes from the front (`EndsWithTail`), and the steps that shorten the trail find
the queue empty (`EndsWithStep`).
`PropagatesAll` is `PropagationComplete`, with `FalseWatchInv`: a watched literal that is false is
excused by the other watch, which has been true as long, or by work still to be done
(`Excused`).  A visit that ends in a conflict leaves excuses only for the level that
`cancelUntil` takes off, and the watch of a learnt clause is of the level that goes last, but for the
clauses that `VECTORswitchPlace` damages; these are the ones with a repeated literal.
`AnalysisRight` is `AnalysisSound`, with `SoundInv`: at each turn every model of the formula has a
literal learnt so far, or makes a literal false that is still to be expanded (`Resolvent`), and a
variable seen on a lower level is in the clause (`SeenKept`).  It holds as long as the clauses
do follow (`ClausesImplied`), and the literals of level 0 are then true in every model (`ForcedTrue`).

`NoNullReason` is what `NeverStuck` says of `analyze` without `ENABLED`: of the literals of a level
only the first on the trail has no reason (`OneDecision`; `learn` enqueues without one at level 0
only), and a turn that goes on has stopped at a later one (`TurnFinds`).  `SearchGoesOn` says the same of
the whole program: in every state that is not the end the guard of some action holds (`GoesOn`), so that neither the parser
nor the search nor the report stops in the middle.

Only model-checked: termination and all other liveness, and `NeverStuck` of Cdcl2 as it is stated, since
TLAPS 1.4.5 has no `ENABLED`; `SearchGoesOn` is what can be proved of it, that a guard holds.

## Disagreements of code and text

`PROJECT.json` quotes the lines; each has a run that shows it.

1. A new campaign keeps the tests of earlier ones, which the comments say are removed (`campaign_fresh`).
2. Saved tests need not trigger anything after a restart (`campaign_triggers`).
3. solver2 answers UNSAT when only its last variable is left (`cdcl2_answer`).
4. solver1 answers UNSAT for satisfiable formulas: after backtracking to the first level
   it takes a literal that follows from nothing for a consequence (`cdcl1_answer`).
5. solver1 need not end: what it learns is not propagated, so that it may come
   back to the same decisions for ever (`cdcl1_ends`).

Others were met and have no run of their own.  The comment of `func.cpp:179` says "Extract variables
and clauses", but no DIMACS file begins with two numbers: every test has `p cnf 0` and a number never
set as its header (`Extracted`; the runs and theorems about FuncTransform are about such files).  `README.md:90` says that the
SUT is terminated after a timeout; `runSUT` (`util.cpp:115`) waits for ever.  Labels are false for clauses that
extend over lines, which `func.cpp:33` takes apart (`LabelTrue` in `FuncTransform.tla` states it).  solver3 prints uninitialised bytes
where the comment of `sat.c:129` says 1.  `VECTORswitchPlace` of solver2 makes
learnt clauses that do not follow from the formula (`ClausesImplied` in `Cdcl2.tla`
states it), and `CLAUSEclean` skips a literal, so that a conflict between unit
clauses may be lost by the parser.  In solver1 a repeated literal is
resolved away one occurrence at a time while the count of the clause is lowered for each, and when it comes to 0
the rest of the clause is replaced: `(2 -1)(1 1 3)(-3 -2 4)(-3 -2 -4)(-3 -2 4)` learns `(3)`, which does not
follow, and `(2 -1)(1 1 3 4)(-4 -3)(-4 -3 -2)(-4 -3 -2)` leaves no literal to assign, after
which the compiled program frees the output of bcp twice.  Also in solver1 the tree may crash: with eight variables and a
hundred learnt clauses a rotation of the compiled program follows a null pointer.  No formula of the
runs gets there; the model has the case (`Broken`).

## Not modelled

Characters and numbers in the readers, wording of reports, the regular
expressions, buffer sizes and memory limits, file eviction (never called), four
transformations that nothing calls, functions of solver1 without a caller (`diff`,
`remove_w_clause`, `remove_watched`, `get_all_clauses`, `init_formula_from_strings`), what is
freed or leaked in solver1 (but for the double free after an invalid literal, which is a
crash in the model), debug output, unit tests and the build.

## Plan

1. Done: all modules above, and proofs about each component: the safety properties of
   Dpll, RunSat, CampaignRunSat, FuncTransform and FuzzCampaign, those of Cdcl1, and those of Cdcl2 but
   for the `ENABLED` of `NeverStuck`.
2. Left: how much heavier one side of the tree can get than the other, which would say when a
   rotation of `insert_literal` fails; the readers character by character.
