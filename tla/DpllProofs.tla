----------------------------- MODULE DpllProofs -----------------------------
(***************************************************************************)
(* Proofs about Dpll, for every number of variables, every set of input    *)
(* formulas and every content of uninitialised memory.                     *)
(***************************************************************************)
EXTENDS Dpll, FiniteSetTheorems, SequenceTheorems, TLAPS

-----------------------------------------------------------------------------
(***************************************************************************)
(* Literals and clauses                                                    *)
(***************************************************************************)
\* The literal at a position of a clause of a formula is a literal.
LEMMA LiteralAt ==
  ASSUME NEW f \in Formulas, NEW c \in DOMAIN f, NEW p \in DOMAIN f[c]
  PROVE  f[c][p] \in Lits
  BY DEF Formulas

\* Abs of a literal is its variable.
LEMMA AbsLit ==
  ASSUME NEW l \in Lits
  PROVE  Abs(l) \in Vars /\ -l \in Lits /\ Abs(-l) = Abs(l)
  BY NAssumption DEF Lits, Vars, Abs

\* Two literals of one variable are equal or opposite.
LEMMA SameVar ==
  ASSUME NEW k \in Lits, NEW l \in Lits, Abs(k) = Abs(l), k # l
  PROVE  k = -l
  BY NAssumption DEF Lits, Abs

\* No assignment makes a literal and its negation true.
LEMMA NotBoth ==
  ASSUME NEW tau \in [Vars -> Int], NEW l \in Lits,
         LitTrue(tau, l), LitTrue(tau, -l)
  PROVE  FALSE
  BY NAssumption DEF Lits, Vars, LitTrue

\* An assignment of the two truth values decides every literal.
LEMMA Decides ==
  ASSUME NEW tau \in Assignments, NEW l \in Lits
  PROVE  LitTrue(tau, l) \/ LitTrue(tau, -l)
  BY NAssumption DEF Lits, Vars, LitTrue, Assignments
-----------------------------------------------------------------------------
(***************************************************************************)
(* assign                                                                  *)
(***************************************************************************)
\* assign maps a model to a model.
LEMMA AssignType ==
  ASSUME NEW f \in Formulas, NEW M \in Model(f), NEW l \in Lits
  PROVE  Assign(f, l, M) \in Model(f)
<1> DEFINE A == Assign(f, l, M)
<1>1. Sign(l) \in -128..127
  BY DEF Sign
<1>2. A.asg \in [Vars -> -128..127]
  BY <1>1, AbsLit DEF Assign, Model
<1>3. A.live \in [DOMAIN f -> SUBSET Nat]
  BY DEF Assign, Model
<1>4. A.tagged \in SUBSET DOMAIN f
  BY DEF Assign, Model
<1>5. QED
  BY <1>2, <1>3, <1>4 DEF Assign, Model

\* A model of what is left that makes l true is one of what assign leaves.
LEMMA AssignKeepsModels ==
  ASSUME NEW f \in Formulas, NEW M \in Model(f), NEW l \in Lits,
         NEW tau \in Assignments,
         \A c \in DOMAIN f : M.live[c] \subseteq DOMAIN f[c],
         LitTrue(tau, l), Models(f, tau, M)
  PROVE  Models(f, tau, Assign(f, l, M))
<1> SUFFICES ASSUME NEW c \in Untagged(f, Assign(f, l, M))
             PROVE  HasTrue(tau, f[c], Assign(f, l, M).live[c])
  BY DEF Models
<1>1. c \in Untagged(f, M) /\ c \in DOMAIN f /\ ~Occurs(l, f[c])
  BY DEF Untagged, Assign
<1>2. Assign(f, l, M).live[c] = M.live[c] \ PosOf(l, f[c])
  BY <1>1 DEF Untagged, Assign
<1>3. PICK p \in M.live[c] : LitTrue(tau, f[c][p])
  BY <1>1 DEF Models, HasTrue
<1>4. p \in DOMAIN f[c] /\ f[c][p] \in Lits /\ f[c][p] # l
  BY <1>1, LiteralAt DEF Occurs
<1>5. Abs(f[c][p]) # Abs(l)
  <2> SUFFICES ASSUME Abs(f[c][p]) = Abs(l) PROVE FALSE
    OBVIOUS
  <2>1. f[c][p] = -l
    BY <1>4, SameVar
  <2>2. tau \in [Vars -> Int]
    BY DEF Assignments
  <2>3. QED
    BY <2>1, <2>2, <1>3, NotBoth
<1>6. QED
  BY <1>2, <1>3, <1>4, <1>5 DEF HasTrue, PosOf

\* A pure literal can be made true without looking at the models.
LEMMA PureKeepsModels ==
  ASSUME NEW f \in Formulas, NEW M \in Model(f), NEW l \in PureLiterals(f, M),
         NEW tau \in Assignments,
         \A c \in DOMAIN f : M.live[c] \subseteq DOMAIN f[c],
         Models(f, tau, M)
  PROVE  Models(f, tau, Assign(f, l, M))
<1> SUFFICES ASSUME NEW c \in Untagged(f, Assign(f, l, M))
             PROVE  HasTrue(tau, f[c], Assign(f, l, M).live[c])
  BY DEF Models
<1>1. c \in Untagged(f, M) /\ c \in DOMAIN f /\ ~Occurs(l, f[c])
  BY DEF Untagged, Assign
<1>2. l \in Lits /\ ~Occurs(-l, f[c])
  BY <1>1 DEF PureLiterals
<1>3. PosOf(l, f[c]) = {}
  <2> SUFFICES ASSUME NEW p \in DOMAIN f[c], Abs(f[c][p]) = Abs(l)
               PROVE  FALSE
    BY DEF PosOf
  <2>1. f[c][p] \in Lits
    BY <1>1, LiteralAt
  <2>2. f[c][p] = l \/ f[c][p] = -l
    BY <1>2, <2>1, SameVar
  <2>3. QED
    BY <1>1, <1>2, <2>2 DEF Occurs
<1>4. Assign(f, l, M).live[c] = M.live[c]
  BY <1>1, <1>3 DEF Untagged, Assign
<1>5. QED
  BY <1>1, <1>4 DEF Models

\* A unit clause has exactly one literal left.
LEMMA UnitHasOne ==
  ASSUME NEW f \in Formulas, NEW M \in Model(f), NEW c \in UnitClauses(f, M),
         M.live[c] \subseteq DOMAIN f[c]
  PROVE  \E p \in DOMAIN f[c] : M.live[c] = {p}
<1>1. c \in DOMAIN f /\ Cardinality(M.live[c]) = 1
  BY DEF UnitClauses, Untagged
<1>2. f[c] \in Seq(Lits)
  BY <1>1 DEF Formulas
<1>3. DOMAIN f[c] = 1..Len(f[c]) /\ Len(f[c]) \in Nat
  BY <1>2
<1>4. IsFiniteSet(1..Len(f[c]))
  BY <1>3, FS_Interval
<1>5. IsFiniteSet(M.live[c])
  BY <1>3, <1>4, FS_Subset
<1>6. PICK p : M.live[c] = {p}
  BY <1>1, <1>5, FS_Singleton
<1>7. QED
  BY <1>6

\* A model that satisfies what is left makes every unit literal true.
LEMMA UnitForced ==
  ASSUME NEW f \in Formulas, NEW M \in Model(f), NEW l,
         NEW tau \in Assignments,
         \A c \in DOMAIN f : M.live[c] \subseteq DOMAIN f[c],
         IsUnitLiteral(f, l, M), Models(f, tau, M)
  PROVE  LitTrue(tau, l)
<1>1. PICK c \in UnitClauses(f, M) : \E p \in M.live[c] : l = f[c][p]
  BY DEF IsUnitLiteral
<1>2. c \in Untagged(f, M) /\ c \in DOMAIN f
  BY <1>1 DEF UnitClauses, Untagged
<1>3. PICK p \in DOMAIN f[c] : M.live[c] = {p}
  BY <1>1, <1>2, UnitHasOne
<1>4. HasTrue(tau, f[c], M.live[c])
  BY <1>2 DEF Models
<1>5. QED
  BY <1>1, <1>3, <1>4 DEF HasTrue

\* assign only touches a variable no tagged clause needs, so the tagged
\* clauses stay true; and it makes true the clauses that it tags.
LEMMA AssignGood ==
  ASSUME NEW f \in Formulas, NEW M \in Model(f), NEW l \in Lits,
         GoodModel(f, M),
         \/ M.asg[Abs(l)] = 0
         \/ \E c \in Untagged(f, M) : \E p \in M.live[c] :
              Abs(f[c][p]) = Abs(l)
  PROVE  GoodModel(f, Assign(f, l, M))
<1> DEFINE A == Assign(f, l, M)
<1>1. /\ A.asg = [M.asg EXCEPT ![Abs(l)] = Sign(l)]
      /\ A.tagged = M.tagged \cup {c \in DOMAIN f : Occurs(l, f[c])}
      /\ \A c \in DOMAIN f : A.live[c] \subseteq M.live[c]
      /\ \A c \in Untagged(f, A) : /\ c \in Untagged(f, M)
                                   /\ A.live[c] = M.live[c] \ PosOf(l, f[c])
  BY DEF Assign, Untagged
<1>2. \A c \in DOMAIN f : A.live[c] \subseteq DOMAIN f[c]
  BY <1>1 DEF GoodModel
<1>3. Abs(l) \in Vars /\ M.asg \in [Vars -> -128..127] /\ M.tagged \subseteq DOMAIN f
  BY AbsLit DEF Model
<1>4. LitTrue(A.asg, l)
  BY <1>1, <1>3, NAssumption DEF LitTrue, Sign, Abs, Lits
<1>5. Settled(f, l, A)
  <2> SUFFICES ASSUME NEW c \in Untagged(f, A), NEW p \in A.live[c],
                      Abs(f[c][p]) = Abs(l)
               PROVE  FALSE
    BY DEF Settled
  <2>1. c \in DOMAIN f /\ p \in DOMAIN f[c]
    BY <1>2 DEF Untagged
  <2>2. QED
    BY <1>1, <2>1 DEF PosOf
<1>6. ASSUME NEW k \in Lits, Settled(f, k, M)
      PROVE  Settled(f, k, A)
  BY <1>1, <1>6 DEF Settled, Untagged
<1>7. ASSUME NEW k \in Lits, LitTrue(M.asg, k), Settled(f, k, M)
      PROVE  LitTrue(A.asg, k)
  <2>1. Abs(k) # Abs(l)
    <3>1. CASE M.asg[Abs(l)] = 0
      <4> SUFFICES ASSUME Abs(k) = Abs(l) PROVE FALSE
        OBVIOUS
      <4>1. M.asg[Abs(k)] = 0
        BY <3>1
      <4>2. QED
        BY <4>1, <1>7, NAssumption DEF LitTrue, Abs, Lits
    <3>2. CASE \E c \in Untagged(f, M) : \E p \in M.live[c] :
                 Abs(f[c][p]) = Abs(l)
      BY <3>2, <1>7 DEF Settled
    <3>3. QED
      BY <3>1, <3>2
  <2>2. A.asg[Abs(k)] = M.asg[Abs(k)]
    BY <1>1, <1>3, <2>1, AbsLit
  <2>3. QED
    BY <1>7, <2>2 DEF LitTrue, Abs, Lits
<1>8. ASSUME NEW c \in A.tagged
      PROVE  \E p \in DOMAIN f[c] :
               LitTrue(A.asg, f[c][p]) /\ Settled(f, f[c][p], A)
  <2>1. CASE c \in M.tagged
    <3>1. PICK p \in DOMAIN f[c] :
            LitTrue(M.asg, f[c][p]) /\ Settled(f, f[c][p], M)
      BY <2>1 DEF GoodModel
    <3>2. f[c][p] \in Lits
      BY <1>3, <2>1, LiteralAt
    <3>3. QED
      BY <1>6, <1>7, <3>1, <3>2
  <2>2. CASE c \in DOMAIN f /\ Occurs(l, f[c])
    BY <1>4, <1>5, <2>2 DEF Occurs
  <2>3. QED
    BY <1>1, <1>8, <2>1, <2>2
<1>9. QED
  BY <1>2, <1>8 DEF GoodModel
-----------------------------------------------------------------------------
(***************************************************************************)
(* The steps                                                               *)
(***************************************************************************)
\* A step that leaves the models and the activations alone.
Quiet == BcpDone \/ PlpDone \/ Check \/ SayAnswer \/ PrintLit \/ Finish
           \/ termination_handler

LEMMA QuietStep ==
  Quiet => UNCHANGED <<F, heap, m, latest, stack>>
  BY DEF Quiet, BcpDone, PlpDone, Check, SayAnswer, PrintLit, Finish,
         termination_handler

\* The model of the running activation and the one of its caller are models.
LEMMA Pointers ==
  ASSUME TypeOK
  PROVE  /\ Depth \in Nat \ {0}
         /\ Top \in Frame /\ Top.phi \in 1..Len(heap)
         /\ Phi \in Model(F)
         /\ Depth > 1 => /\ Caller \in Frame /\ Caller.phi \in 1..Len(heap)
                         /\ heap[Caller.phi] \in Model(F)
<1>1. Depth \in Nat \ {0} /\ Top \in Frame /\ Top.phi \in 1..Len(heap)
  BY DEF TypeOK, Depth, Top
<1>2. Phi \in Model(F)
  BY <1>1 DEF TypeOK, Phi
<1>3. ASSUME Depth > 1
      PROVE  Caller \in Frame /\ Caller.phi \in 1..Len(heap)
  BY <1>1, <1>3 DEF TypeOK, Depth, Caller
<1>4. ASSUME Depth > 1 PROVE heap[Caller.phi] \in Model(F)
  BY <1>3, <1>4 DEF TypeOK
<1>5. QED
  BY <1>1, <1>2, <1>3, <1>4

\* What main prints for a variable is a multiple of it.
LEMMA PrintedInt ==
  ASSUME TypeOK, NEW v \in Vars
  PROVE  Printed(v) \in Int
<1> DEFINE ass == heap[latest].asg[v]
           x == IF ass = 0 THEN 1 ELSE ass
<1>1. heap[latest] \in Model(F)
  BY DEF TypeOK
<1>2. heap[latest].asg \in [Vars -> -128..127]
  BY <1>1 DEF Model
<1>3. ass \in Int
  <2>1. ass \in -128..127
    BY <1>2
  <2>2. QED
    BY <2>1
<1>4. Printed(v) = v * x /\ v \in Int
  BY NAssumption DEF Printed, Vars
<1> HIDE DEF ass
<1>5. x \in Int
  BY <1>3
<1> HIDE DEF x
<1>6. v * x \in Int
  BY <1>4, <1>5
<1>7. QED
  BY <1>4, <1>6

LEMMA InitType == Init => TypeOK
<1> SUFFICES ASSUME Init PROVE TypeOK
  OBVIOUS
<1>1. F \in Formulas
  BY InputsAssumption DEF Init
<1>2. PICK junk \in [Vars -> Junk] :
        heap = <<[asg |-> junk,
                  live |-> [c \in DOMAIN F |-> DOMAIN F[c]],
                  tagged |-> {}]>>
  BY DEF Init
<1>3. ASSUME NEW c \in DOMAIN F PROVE DOMAIN F[c] \in SUBSET Nat
  BY <1>1, <1>3 DEF Formulas
<1>4. junk \in [Vars -> -128..127]
  BY <1>2, JunkAssumption
<1>5. heap[1] \in Model(F) /\ Len(heap) = 1 /\ heap \in Seq(Model(F))
  BY <1>2, <1>3, <1>4 DEF Model
<1>6. stack \in Seq(Frame) /\ Len(stack) = 1 /\ stack[1].phi = 1
  BY DEF Init, NewFrame, Frame
<1>7. /\ out = <<>> /\ m = 0 /\ latest = 1 /\ pc = "bcp" /\ ret = FALSE
      /\ said = "none" /\ status = "running"
  BY DEF Init
<1>9. <<>> \in Seq(Int)
  OBVIOUS
<1>8. \A i \in 1..Len(stack) : stack[i].phi \in 1..Len(heap)
  BY <1>5, <1>6
<1>10. m \in 0..Len(heap) /\ latest \in 1..Len(heap) /\ Len(heap) > 0
       /\ Len(stack) > 0
  BY <1>5, <1>6, <1>7
<1>11. /\ pc \in {"bcp", "plp", "check", "return", "print"}
       /\ said \in {"none", "SAT", "UNSAT"} /\ ret \in BOOLEAN
       /\ status \in {"running", "finished", "signalled"} /\ out \in Seq(Int)
  BY <1>7, <1>9
<1>12. QED
  BY <1>1, <1>5, <1>6, <1>8, <1>10, <1>11 DEF TypeOK

(***************************************************************************)
(* What the steps that change the models or the activations do             *)
(***************************************************************************)
LEMMA AssignEffect ==
  ASSUME TypeOK, Bcp \/ Plp
  PROVE  \E l \in Lits :
           /\ Bcp => IsUnitLiteral(F, l, Phi)
           /\ Plp => IsPureLiteral(F, l, Phi)
           /\ heap' \in Seq(Model(F)) /\ Len(heap') = Len(heap)
           /\ \A k \in 1..Len(heap) :
                heap'[k] = IF k = Top.phi THEN Assign(F, l, Phi) ELSE heap[k]
           /\ UNCHANGED <<F, m, latest, stack, pc, ret, said, out, status>>
<1>1. PICK l \in Lits : /\ Bcp => IsUnitLiteral(F, l, Phi)
                        /\ Plp => IsPureLiteral(F, l, Phi)
                        /\ SetPhi(l)
  BY DEF Bcp, Plp
<1>2. Assign(F, l, Phi) \in Model(F) /\ Top.phi \in 1..Len(heap)
  BY Pointers, AssignType DEF TypeOK
<1>3. /\ heap' \in Seq(Model(F)) /\ Len(heap') = Len(heap)
      /\ \A k \in 1..Len(heap) :
           heap'[k] = IF k = Top.phi THEN Assign(F, l, Phi) ELSE heap[k]
  BY <1>1, <1>2, ExceptSeq DEF SetPhi, TypeOK
<1>4. UNCHANGED <<F, m, latest, stack, pc, ret, said, out, status>>
  BY DEF Bcp, Plp
<1>5. QED
  BY <1>1, <1>3, <1>4

LEMMA BranchTrueEffect ==
  ASSUME TypeOK, BranchTrue
  PROVE  \E l \in Vars :
           /\ IsChosen(F, l, Phi)
           /\ heap' \in Seq(Model(F)) /\ Len(heap') = Len(heap) + 1
           /\ \A k \in 1..Len(heap) : heap'[k] = heap[k]
           /\ heap'[Len(heap) + 1] = Assign(F, l, Phi)
           /\ stack' \in Seq(Frame) /\ Depth' = Depth + 1
           /\ \A i \in 1..Depth :
                stack'[i] = IF i = Depth THEN Waiting(Top.phi, 1, l) ELSE stack[i]
           /\ stack'[Depth + 1] = NewFrame(Len(heap) + 1)
<1>1. PICK l \in Vars :
        /\ IsChosen(F, l, Phi)
        /\ heap' = Append(heap, Assign(F, l, Phi))
        /\ stack' = Append([stack EXCEPT ![Depth] = Waiting(Top.phi, 1, l)],
                           NewFrame(Len(heap) + 1))
  BY DEF BranchTrue
<1>2. l \in Lits
  BY NAssumption DEF Vars, Lits
<1>3. Assign(F, l, Phi) \in Model(F)
  BY <1>2, AssignType, Pointers DEF TypeOK
<1>4. /\ heap' \in Seq(Model(F)) /\ Len(heap') = Len(heap) + 1
      /\ \A k \in 1..Len(heap) : heap'[k] = heap[k]
      /\ heap'[Len(heap) + 1] = Assign(F, l, Phi)
  BY <1>1, <1>3, AppendProperties DEF TypeOK
<1>5. NewFrame(Len(heap) + 1) \in Frame /\ Waiting(Top.phi, 1, l) \in Frame
  BY <1>2, Pointers DEF NewFrame, Waiting, Frame, TypeOK, Lits
<1> DEFINE S == [stack EXCEPT ![Depth] = Waiting(Top.phi, 1, l)]
<1>6. /\ S \in Seq(Frame) /\ Len(S) = Depth
      /\ \A i \in 1..Depth :
           S[i] = IF i = Depth THEN Waiting(Top.phi, 1, l) ELSE stack[i]
  BY <1>5, Pointers, ExceptSeq DEF TypeOK, Depth
<1>7. stack' = Append(S, NewFrame(Len(heap) + 1))
  BY <1>1
<1> HIDE DEF S
<1>8. /\ stack' \in Seq(Frame) /\ Len(stack') = Depth + 1
      /\ \A i \in 1..Depth : stack'[i] = S[i]
      /\ stack'[Depth + 1] = NewFrame(Len(heap) + 1)
  BY <1>5, <1>6, <1>7, AppendProperties
<1>9. QED
  BY <1>1, <1>4, <1>6, <1>8 DEF Depth

LEMMA BranchFalseEffect ==
  ASSUME TypeOK, StackOrdered, BranchFalse
  PROVE  /\ Depth > 1 /\ m = Len(heap) /\ Caller.lit \in Vars
         /\ heap' \in Seq(Model(F)) /\ Len(heap') = Len(heap)
         /\ \A k \in 1..Len(heap) :
              heap'[k] = IF k = m THEN Assign(F, -Caller.lit, heap[Caller.phi])
                                  ELSE heap[k]
         /\ stack' \in Seq(Frame) /\ Depth' = Depth
         /\ \A i \in 1..Depth :
              stack'[i] = IF i = Depth THEN NewFrame(m)
                          ELSE IF i = Depth - 1
                                 THEN Waiting(Caller.phi, 2, Caller.lit)
                                 ELSE stack[i]
<1>1. /\ Depth > 1 /\ m = Len(heap) /\ m \in 1..Len(heap)
      /\ Caller.lit \in Vars
  BY Pointers DEF BranchFalse, StackOrdered, TypeOK, Caller
<1>2. -Caller.lit \in Lits
  BY <1>1, NAssumption DEF Vars, Lits
<1>3. Assign(F, -Caller.lit, heap[Caller.phi]) \in Model(F)
  BY <1>1, <1>2, AssignType, Pointers DEF TypeOK
<1>4. /\ heap' \in Seq(Model(F)) /\ Len(heap') = Len(heap)
      /\ \A k \in 1..Len(heap) :
           heap'[k] = IF k = m THEN Assign(F, -Caller.lit, heap[Caller.phi])
                               ELSE heap[k]
  BY <1>1, <1>3, ExceptSeq DEF BranchFalse, TypeOK
<1> DEFINE W == Waiting(Caller.phi, 2, Caller.lit)
           S == [stack EXCEPT ![Depth - 1] = W]
<1>5. W \in Frame /\ NewFrame(m) \in Frame
  BY <1>1, Pointers DEF NewFrame, Waiting, Frame
<1>6. /\ S \in Seq(Frame) /\ Len(S) = Depth
      /\ \A i \in 1..Depth : S[i] = IF i = Depth - 1 THEN W ELSE stack[i]
  BY <1>1, <1>5, Pointers, ExceptSeq DEF TypeOK, Depth
<1>7. stack' = [S EXCEPT ![Depth] = NewFrame(m)]
  BY DEF BranchFalse
<1> HIDE DEF S, W
<1>8. /\ stack' \in Seq(Frame) /\ Len(stack') = Depth
      /\ \A i \in 1..Depth : stack'[i] = IF i = Depth THEN NewFrame(m) ELSE S[i]
  BY <1>5, <1>6, <1>7, Pointers, ExceptSeq
<1>9. QED
  BY <1>1, <1>4, <1>6, <1>8 DEF Depth, W

LEMMA ReturnEffect ==
  ASSUME TypeOK, Return
  PROVE  /\ Depth > 1
         /\ stack' \in Seq(Frame) /\ Depth' = Depth - 1
         /\ \A i \in 1..(Depth - 1) : stack'[i] = stack[i]
         /\ UNCHANGED <<F, heap, m, latest, pc, ret, said, out, status>>
<1>1. \A i \in 1..(Depth - 1) : stack[i] \in Frame
  BY Pointers DEF TypeOK, Depth
<1>2. stack' = SubSeq(stack, 1, Depth - 1) /\ Depth > 1
  BY DEF Return
<1>3. /\ SubSeq(stack, 1, Depth - 1) \in Seq(Frame)
      /\ Len(SubSeq(stack, 1, Depth - 1)) = Depth - 1
      /\ \A i \in 1..(Depth - 1) : SubSeq(stack, 1, Depth - 1)[i] = stack[i]
  BY <1>1, <1>2, Pointers, SubSeqProperties
<1>4. UNCHANGED <<F, heap, m, latest, pc, ret, said, out, status>>
  BY DEF Return
<1>5. QED
  BY <1>2, <1>3, <1>4 DEF Depth
-----------------------------------------------------------------------------
(***************************************************************************)
(* Every conjunct of the inductive invariant is kept by every step         *)
(***************************************************************************)
\* That BranchFalse keeps the types needs the order of the stack, which says
\* that m points somewhere and that a literal was chosen.
LEMMA TypeStep == TypeOK /\ StackOrdered /\ [Next]_vars => TypeOK'
<1> SUFFICES ASSUME TypeOK, StackOrdered, [Next]_vars PROVE TypeOK'
  OBVIOUS
<1>1. ASSUME Bcp \/ Plp PROVE TypeOK'
  BY <1>1, AssignEffect DEF TypeOK
<1>2. ASSUME BranchTrue PROVE TypeOK'
  <2>1. /\ heap' \in Seq(Model(F)) /\ Len(heap') = Len(heap) + 1
        /\ stack' \in Seq(Frame) /\ Depth' = Depth + 1
    BY <1>2, BranchTrueEffect
  <2>2. \A i \in 1..Depth : stack'[i].phi = stack[i].phi
    <3>1. PICK l \in Vars : \A i \in 1..Depth :
            stack'[i] = IF i = Depth THEN Waiting(Top.phi, 1, l) ELSE stack[i]
      BY <1>2, BranchTrueEffect
    <3>2. QED
      BY <3>1 DEF Waiting, Top
  <2>3. stack'[Depth + 1].phi = Len(heap) + 1
    BY <1>2, BranchTrueEffect DEF NewFrame
  <2>4. \A i \in 1..Depth : stack[i].phi \in 1..Len(heap)
    BY DEF TypeOK, Depth
  <2>5. ASSUME NEW i \in 1..Depth' PROVE stack'[i].phi \in 1..Len(heap')
    <3>1. Len(heap) \in Nat /\ (i \in 1..Depth \/ i = Depth + 1)
      BY <2>1, Pointers DEF TypeOK
    <3>2. QED
      BY <2>1, <2>2, <2>3, <2>4, <3>1
  <2>6. /\ F' = F /\ m' = Len(heap) + 1 /\ latest' = Len(heap) + 1
        /\ pc' = "bcp" /\ UNCHANGED <<ret, said, out, status>>
    BY <1>2 DEF BranchTrue
  <2>7. QED
    BY <2>1, <2>5, <2>6 DEF TypeOK, Depth
<1>3. ASSUME BranchFalse PROVE TypeOK'
  <2>1. /\ heap' \in Seq(Model(F)) /\ Len(heap') = Len(heap)
        /\ stack' \in Seq(Frame) /\ Depth' = Depth
        /\ m \in 1..Len(heap)
    BY <1>3, BranchFalseEffect, Pointers DEF TypeOK
  <2>2. \A i \in 1..Depth :
          stack'[i].phi = IF i = Depth THEN m ELSE stack[i].phi
    BY <1>3, BranchFalseEffect DEF Waiting, NewFrame, Caller
  <2>3. \A i \in 1..Depth : stack[i].phi \in 1..Len(heap)
    BY DEF TypeOK, Depth
  <2>4. /\ latest' = m /\ pc' = "bcp"
        /\ UNCHANGED <<F, m, ret, said, out, status>>
    BY <1>3 DEF BranchFalse
  <2>5. QED
    BY <2>1, <2>2, <2>3, <2>4 DEF TypeOK, Depth
<1>4. ASSUME Return PROVE TypeOK'
  <2>1. /\ stack' \in Seq(Frame) /\ Len(stack') = Len(stack) - 1
        /\ Len(stack) \in Nat /\ Len(stack) > 1
        /\ \A i \in 1..(Len(stack) - 1) : stack'[i] = stack[i]
        /\ UNCHANGED <<F, heap, m, latest, pc, ret, said, out, status>>
    BY <1>4, ReturnEffect, Pointers DEF Depth
  <2>2. \A i \in 1..Len(stack') : stack'[i].phi \in 1..Len(heap')
    BY <2>1 DEF TypeOK
  <2>3. QED
    BY <2>1, <2>2 DEF TypeOK
<1>5. ASSUME Quiet PROVE TypeOK'
  <2>1. UNCHANGED <<F, heap, m, latest, stack>>
    BY <1>5, QuietStep
  <2>2. pc' \in {"bcp", "plp", "check", "return", "print"}
    BY <1>5 DEF TypeOK, Quiet, BcpDone, PlpDone, Check, SayAnswer, PrintLit,
                Finish, termination_handler
  <2>3. ret' \in BOOLEAN
    BY <1>5 DEF TypeOK, Quiet, BcpDone, PlpDone, Check, SayAnswer, PrintLit,
                Finish, termination_handler, consistent
  <2>4. /\ said' \in {"none", "SAT", "UNSAT"}
        /\ status' \in {"running", "finished", "signalled"}
    BY <1>5 DEF TypeOK, Quiet, BcpDone, PlpDone, Check, SayAnswer, PrintLit,
                Finish, termination_handler
  <2>5. out' \in Seq(Int)
    <3>1. CASE PrintLit
      <4>1. Len(out) + 1 \in Vars
        BY <3>1, NAssumption DEF PrintLit, TypeOK, Vars
      <4>2. Printed(Len(out) + 1) \in Int
        BY <4>1, PrintedInt
      <4>3. QED
        BY <3>1, <4>2 DEF PrintLit, TypeOK
    <3>2. CASE ~PrintLit
      BY <1>5, <3>2 DEF TypeOK, Quiet, BcpDone, PlpDone, Check, SayAnswer,
                        Finish, termination_handler
    <3>3. QED
      BY <3>1, <3>2
  <2>6. QED
    BY <2>1, <2>2, <2>3, <2>4, <2>5 DEF TypeOK
<1>6. CASE UNCHANGED vars
  BY <1>6 DEF vars, TypeOK
<1>7. QED
  BY <1>1, <1>2, <1>3, <1>4, <1>5, <1>6 DEF Next, Step, Quiet

LEMMA OrderStep == TypeOK /\ StackOrdered /\ [Next]_vars => StackOrdered'
<1> SUFFICES ASSUME TypeOK, StackOrdered, [Next]_vars PROVE StackOrdered'
  OBVIOUS
<1>1. ASSUME Bcp \/ Plp PROVE StackOrdered'
  <2>1. Len(heap') = Len(heap) /\ UNCHANGED <<m, stack, pc>>
    BY <1>1, AssignEffect
  <2>2. QED
    BY <2>1 DEF StackOrdered, Depth
<1>2. ASSUME BranchTrue PROVE StackOrdered'
  <2>1. PICK l \in Vars :
          /\ Len(heap') = Len(heap) + 1 /\ Depth' = Depth + 1
          /\ \A i \in 1..Depth :
               stack'[i] = IF i = Depth THEN Waiting(Top.phi, 1, l) ELSE stack[i]
          /\ stack'[Depth + 1] = NewFrame(Len(heap) + 1)
    BY <1>2, BranchTrueEffect
  <2>2. m' = Len(heap') /\ pc' = "bcp" /\ Depth \in Nat \ {0} /\ Len(heap) \in Nat
    BY <1>2, <2>1, Pointers DEF BranchTrue, TypeOK
  <2>3. ASSUME NEW i \in 1..Depth', NEW j \in 1..Depth', i < j
        PROVE  stack'[i].phi < stack'[j].phi
    <3>1. stack'[i].phi = stack[i].phi /\ stack[i].phi \in 1..Len(heap)
      BY <2>1, <2>2, <2>3 DEF Waiting, Top, TypeOK, Depth
    <3>2. CASE j = Depth + 1
      BY <2>1, <2>2, <3>1, <3>2 DEF NewFrame
    <3>3. CASE j \in 1..Depth
      <4>1. stack'[j].phi = stack[j].phi
        BY <2>1, <3>3 DEF Waiting, Top
      <4>2. i \in 1..Depth
        BY <2>1, <2>2, <2>3, <3>3
      <4>3. QED
        BY <2>3, <3>1, <3>3, <4>1, <4>2 DEF StackOrdered
    <3>4. QED
      BY <2>1, <2>2, <3>2, <3>3
  <2>4. ASSUME NEW i \in 1..(Depth' - 1)
        PROVE  stack'[i].branch # 0 /\ stack'[i].lit \in Vars
    BY <2>1, <2>2 DEF Waiting, StackOrdered
  <2>5. QED
    BY <2>2, <2>3, <2>4 DEF StackOrdered
<1>3. ASSUME BranchFalse PROVE StackOrdered'
  <2>1. /\ Depth > 1 /\ m = Len(heap) /\ Caller.lit \in Vars
        /\ Len(heap') = Len(heap) /\ Depth' = Depth
        /\ \A i \in 1..Depth :
             stack'[i] = IF i = Depth THEN NewFrame(m)
                         ELSE IF i = Depth - 1
                                THEN Waiting(Caller.phi, 2, Caller.lit)
                                ELSE stack[i]
    BY <1>3, BranchFalseEffect
  <2>2. m' = m /\ pc' = "bcp" /\ Depth \in Nat \ {0} /\ Len(heap) \in Nat
    BY <1>3, Pointers DEF BranchFalse, TypeOK
  <2>3. \A i \in 1..Depth :
          stack'[i].phi = IF i = Depth THEN m ELSE stack[i].phi
    BY <2>1 DEF NewFrame, Waiting, Caller
  <2>4. \A i \in 1..Depth : stack[i].phi \in 1..Len(heap)
    BY DEF TypeOK, Depth
  <2>5. ASSUME NEW i \in 1..Depth', NEW j \in 1..Depth', i < j
        PROVE  stack'[i].phi < stack'[j].phi
    <3>1. stack[i].phi < stack[j].phi
      BY <2>1, <2>5 DEF StackOrdered
    <3>2. QED
      BY <2>1, <2>2, <2>3, <2>4, <2>5, <3>1
  <2>6. ASSUME NEW i \in 1..(Depth' - 1)
        PROVE  stack'[i].branch # 0 /\ stack'[i].lit \in Vars
    BY <2>1, <2>2 DEF Waiting, StackOrdered
  <2>7. QED
    BY <2>1, <2>2, <2>5, <2>6 DEF StackOrdered
<1>4. ASSUME Return PROVE StackOrdered'
  <2>1. /\ Depth > 1 /\ Depth \in Nat /\ Depth' = Depth - 1
        /\ \A i \in 1..(Depth - 1) : stack'[i] = stack[i]
        /\ UNCHANGED <<heap, m, pc>>
    BY <1>4, ReturnEffect, Pointers
  <2>2. pc = "return"
    BY <1>4 DEF Return
  <2>3. QED
    BY <2>1, <2>2 DEF StackOrdered
<1>5. ASSUME Quiet PROVE StackOrdered'
  <2>1. UNCHANGED <<F, heap, m, latest, stack>>
    BY <1>5, QuietStep
  <2>2. pc' = "print" => Depth = 1
    BY <1>5 DEF Quiet, BcpDone, PlpDone, Check, SayAnswer, PrintLit,
                Finish, termination_handler, StackOrdered
  <2>3. QED
    BY <2>1, <2>2 DEF StackOrdered, Depth
<1>6. CASE UNCHANGED vars
  BY <1>6 DEF vars, StackOrdered, Depth
<1>7. QED
  BY <1>1, <1>2, <1>3, <1>4, <1>5, <1>6 DEF Next, Step, Quiet

\* A step changes the model of the running activation or the one m points to,
\* and both are newer than the models of the activations that wait.
LEMMA PendingStep ==
  TypeOK /\ StackOrdered /\ PendingModelIntact /\ [Next]_vars
    => PendingModelIntact'
<1> SUFFICES ASSUME TypeOK, StackOrdered, PendingModelIntact, [Next]_vars
             PROVE  PendingModelIntact'
  OBVIOUS
<1>1. \A i \in 1..(Depth - 1) : stack[i].phi < Top.phi /\ Top.phi \in 1..Len(heap)
                                  /\ stack[i].phi \in 1..Len(heap)
  BY Pointers DEF StackOrdered, Top, TypeOK, Depth
<1>2. Depth \in Nat \ {0} /\ Len(heap) \in Nat
  BY Pointers DEF TypeOK
<1>3. ASSUME Bcp \/ Plp PROVE PendingModelIntact'
  <2>1. /\ \A k \in 1..Len(heap) : k # Top.phi => heap'[k] = heap[k]
        /\ UNCHANGED <<F, stack>>
    BY <1>3, AssignEffect
  <2>2. \A i \in 1..(Depth - 1) : heap'[stack[i].phi] = heap[stack[i].phi]
    BY <1>1, <2>1
  <2>3. QED
    BY <2>1, <2>2 DEF PendingModelIntact, Depth
<1>4. ASSUME BranchTrue PROVE PendingModelIntact'
  <2>1. PICK l \in Vars :
          /\ IsChosen(F, l, Phi) /\ Depth' = Depth + 1
          /\ \A k \in 1..Len(heap) : heap'[k] = heap[k]
          /\ \A i \in 1..Depth :
               stack'[i] = IF i = Depth THEN Waiting(Top.phi, 1, l) ELSE stack[i]
    BY <1>4, BranchTrueEffect
  <2>2. F' = F
    BY <1>4 DEF BranchTrue
  <2>3. ASSUME NEW i \in 1..(Depth' - 1), stack'[i].branch = 1
        PROVE  IsChosen(F, stack'[i].lit, heap'[stack'[i].phi])
    <3>1. CASE i = Depth
      <4>1. /\ stack'[i].phi = Top.phi /\ stack'[i].lit = l
            /\ heap'[Top.phi] = Phi
        BY <3>1, <2>1, <2>3, <1>2, Pointers DEF Waiting, Phi
      <4>2. QED
        BY <4>1, <2>1
    <3>2. CASE i \in 1..(Depth - 1)
      <4>1. stack'[i] = stack[i] /\ heap'[stack[i].phi] = heap[stack[i].phi]
        BY <3>2, <2>1, <1>1, <1>2
      <4>2. QED
        BY <4>1, <3>2, <2>3 DEF PendingModelIntact
    <3>3. QED
      BY <3>1, <3>2, <2>1, <1>2
  <2>4. QED
    BY <2>2, <2>3 DEF PendingModelIntact
<1>5. ASSUME BranchFalse PROVE PendingModelIntact'
  <2>1. /\ m = Len(heap) /\ Depth' = Depth
        /\ \A k \in 1..Len(heap) : k # m => heap'[k] = heap[k]
        /\ \A i \in 1..(Depth - 1) :
             stack'[i] = IF i = Depth - 1
                           THEN Waiting(Caller.phi, 2, Caller.lit)
                           ELSE stack[i]
    BY <1>5, <1>2, BranchFalseEffect
  <2>2. F' = F
    BY <1>5 DEF BranchFalse
  <2>3. ASSUME NEW i \in 1..(Depth - 1), stack'[i].branch = 1
        PROVE  IsChosen(F, stack'[i].lit, heap'[stack'[i].phi])
    <3>1. i # Depth - 1
      BY <2>1, <2>3 DEF Waiting
    <3>2. stack'[i] = stack[i] /\ stack[i].phi # m
      BY <2>1, <3>1, <1>1
    <3>3. heap'[stack[i].phi] = heap[stack[i].phi]
      BY <2>1, <3>2, <1>1
    <3>4. QED
      BY <3>2, <3>3, <2>3 DEF PendingModelIntact
  <2>4. QED
    BY <2>1, <2>2, <2>3 DEF PendingModelIntact
<1>6. ASSUME Return PROVE PendingModelIntact'
  <2>1. /\ Depth' = Depth - 1 /\ UNCHANGED <<F, heap>>
        /\ \A i \in 1..(Depth - 1) : stack'[i] = stack[i]
    BY <1>6, ReturnEffect
  <2>2. QED
    BY <2>1, <1>2 DEF PendingModelIntact
<1>7. ASSUME Quiet PROVE PendingModelIntact'
  BY <1>7, QuietStep DEF PendingModelIntact, Depth
<1>8. CASE UNCHANGED vars
  BY <1>8 DEF vars, PendingModelIntact, Depth
<1>9. QED
  BY <1>3, <1>4, <1>5, <1>6, <1>7, <1>8 DEF Next, Step, Quiet

LEMMA GoodStep ==
  TypeOK /\ StackOrdered /\ PendingModelIntact /\ AllGood /\ [Next]_vars
    => AllGood'
<1> SUFFICES ASSUME TypeOK, StackOrdered, PendingModelIntact, AllGood,
                    [Next]_vars
             PROVE  AllGood'
  OBVIOUS
<1>1. Phi \in Model(F) /\ GoodModel(F, Phi) /\ F \in Formulas
  BY Pointers DEF AllGood, Phi, TypeOK
<1>2. ASSUME Bcp \/ Plp PROVE AllGood'
  <2>1. PICK l \in Lits :
          /\ Bcp => IsUnitLiteral(F, l, Phi)
          /\ Plp => IsPureLiteral(F, l, Phi)
          /\ Len(heap') = Len(heap) /\ F' = F
          /\ \A k \in 1..Len(heap) :
               heap'[k] = IF k = Top.phi THEN Assign(F, l, Phi) ELSE heap[k]
    BY <1>2, AssignEffect
  <2>2. \/ Phi.asg[Abs(l)] = 0
        \/ \E c \in Untagged(F, Phi) : \E p \in Phi.live[c] :
             Abs(F[c][p]) = Abs(l)
    BY <1>2, <2>1 DEF IsUnitLiteral, UnitClauses, IsPureLiteral, PureLiterals
  <2>3. GoodModel(F, Assign(F, l, Phi))
    BY <1>1, <2>2, AssignGood
  <2>4. QED
    BY <2>1, <2>3 DEF AllGood
<1>3. ASSUME NEW M \in Model(F), GoodModel(F, M), NEW l \in Vars,
             NEW k \in {l, -l}, IsChosen(F, l, M)
      PROVE  GoodModel(F, Assign(F, k, M))
  <2>1. k \in Lits /\ Abs(k) = l
    BY NAssumption DEF Vars, Lits, Abs
  <2>2. \E c \in Untagged(F, M) : \E p \in M.live[c] : Abs(F[c][p]) = Abs(k)
    BY <1>3, <2>1 DEF IsChosen
  <2>3. QED
    BY <1>1, <1>3, <2>1, <2>2, AssignGood
<1>4. ASSUME BranchTrue PROVE AllGood'
  <2>1. PICK l \in Vars :
          /\ IsChosen(F, l, Phi)
          /\ Len(heap') = Len(heap) + 1 /\ Len(heap) \in Nat
          /\ \A k \in 1..Len(heap) : heap'[k] = heap[k]
          /\ heap'[Len(heap) + 1] = Assign(F, l, Phi)
    BY <1>4, BranchTrueEffect DEF TypeOK
  <2>2. F' = F
    BY <1>4 DEF BranchTrue
  <2>3. GoodModel(F, Assign(F, l, Phi))
    BY <1>1, <1>3, <2>1
  <2>4. QED
    BY <2>1, <2>2, <2>3 DEF AllGood
<1>5. ASSUME BranchFalse PROVE AllGood'
  <2>1. /\ Depth > 1 /\ Caller.lit \in Vars
        /\ Len(heap') = Len(heap)
        /\ \A k \in 1..Len(heap) :
             heap'[k] = IF k = m THEN Assign(F, -Caller.lit, heap[Caller.phi])
                                 ELSE heap[k]
    BY <1>5, BranchFalseEffect
  <2>2. F' = F /\ Caller.branch = 1
    BY <1>5 DEF BranchFalse
  <2>3. /\ heap[Caller.phi] \in Model(F) /\ GoodModel(F, heap[Caller.phi])
        /\ IsChosen(F, Caller.lit, heap[Caller.phi])
    BY <2>1, <2>2, Pointers DEF AllGood, PendingModelIntact, Caller
  <2>4. GoodModel(F, Assign(F, -Caller.lit, heap[Caller.phi]))
    BY <2>1, <2>3, <1>3
  <2>5. QED
    BY <2>1, <2>2, <2>4 DEF AllGood
<1>6. ASSUME Return \/ Quiet \/ UNCHANGED vars PROVE AllGood'
  <2>1. UNCHANGED <<F, heap>>
    BY <1>6, ReturnEffect, QuietStep DEF vars
  <2>2. QED
    BY <2>1 DEF AllGood
<1>7. QED
  BY <1>2, <1>4, <1>5, <1>6 DEF Next, Step, Quiet

LEMMA AnswerStep ==
  TypeOK /\ StackOrdered /\ AnswerInv /\ [Next]_vars => AnswerInv'
<1> SUFFICES ASSUME TypeOK, StackOrdered, AnswerInv, [Next]_vars
             PROVE  AnswerInv'
  OBVIOUS
<1>1. ASSUME Bcp \/ Plp PROVE AnswerInv'
  <2>1. Searching /\ Searching'
    BY <1>1, AssignEffect DEF Bcp, Plp, Searching
  <2>2. UNCHANGED <<latest, stack, pc, ret, said>>
    BY <1>1, AssignEffect
  <2>3. Top' = Top
    BY <2>2 DEF Top, Depth
  <2>4. QED
    BY <2>1, <2>2, <2>3 DEF AnswerInv
<1>2. ASSUME BranchTrue PROVE AnswerInv'
  <2>1. /\ Depth' = Depth + 1 /\ stack'[Depth + 1] = NewFrame(Len(heap) + 1)
        /\ latest' = Len(heap) + 1 /\ pc' = "bcp" /\ pc = "check"
        /\ UNCHANGED <<ret, said>>
    BY <1>2, BranchTrueEffect DEF BranchTrue
  <2>2. Top'.phi = Len(heap) + 1
    BY <2>1 DEF Top, NewFrame
  <2>3. QED
    BY <2>1, <2>2 DEF AnswerInv, Searching
<1>3. ASSUME BranchFalse PROVE AnswerInv'
  <2>1. /\ Depth' = Depth /\ stack'[Depth] = NewFrame(m)
        /\ latest' = m /\ pc' = "bcp" /\ pc = "return" /\ ~ret
        /\ UNCHANGED <<ret, said>>
    BY <1>3, BranchFalseEffect, Pointers DEF BranchFalse
  <2>2. Top'.phi = m
    BY <2>1 DEF Top, NewFrame
  <2>3. QED
    BY <2>1, <2>2 DEF AnswerInv, Searching
<1>4. ASSUME Return PROVE AnswerInv'
  BY <1>4, ReturnEffect DEF Return, AnswerInv, Searching
<1>5. ASSUME Quiet PROVE AnswerInv'
  <2>1. UNCHANGED <<F, heap, latest, Top>>
    BY <1>5, QuietStep DEF Top, Depth
  <2>2. CASE Check
    BY <2>1, <2>2 DEF Check, AnswerInv, Searching, Phi
  <2>3. CASE ~Check
    BY <1>5, <2>1, <2>3 DEF Quiet, BcpDone, PlpDone, SayAnswer, PrintLit, Finish,
                            termination_handler, AnswerInv, Searching
  <2>4. QED
    BY <2>2, <2>3
<1>6. CASE UNCHANGED vars
  BY <1>6 DEF vars, AnswerInv, Searching, Top, Depth
<1>7. QED
  BY <1>1, <1>2, <1>3, <1>4, <1>5, <1>6 DEF Next, Step, Quiet

\* A model of what is left is a model of one of the two branches.
LEMMA BranchesCover ==
  ASSUME NEW f \in Formulas, NEW M \in Model(f), NEW l \in Vars,
         GoodModel(f, M), ResidualSat(f, M)
  PROVE  ResidualSat(f, Assign(f, l, M)) \/ ResidualSat(f, Assign(f, -l, M))
<1>1. PICK tau \in Assignments : Models(f, tau, M)
  BY DEF ResidualSat
<1>2. l \in Lits /\ -l \in Lits
  BY NAssumption DEF Vars, Lits
<1>3. LitTrue(tau, l) \/ LitTrue(tau, -l)
  BY <1>2, Decides
<1>4. QED
  BY <1>1, <1>2, <1>3, AssignKeepsModels DEF ResidualSat, GoodModel

LEMMA LostStep ==
  TypeOK /\ StackOrdered /\ AllGood /\ AnswerInv /\ NothingLost /\ [Next]_vars
    => NothingLost'
<1> SUFFICES ASSUME TypeOK, StackOrdered, AllGood, AnswerInv, NothingLost,
                    [Next]_vars, Satisfiable(F')
             PROVE  \/ Searching' /\ ResidualSat(F', Phi')
                    \/ ret'
                    \/ \E i \in 1..(Depth' - 1) : PendingSat(i)'
  BY DEF NothingLost
<1>1. F' = F
  BY DEF Next, Step, Bcp, BcpDone, Plp, PlpDone, Check, BranchTrue, BranchFalse,
         Return, SayAnswer, PrintLit, Finish, termination_handler, vars
<1>2. \/ Searching /\ ResidualSat(F, Phi)
      \/ ret
      \/ \E i \in 1..(Depth - 1) : PendingSat(i)
  BY <1>1 DEF NothingLost
<1>3. \A i \in 1..(Depth - 1) : /\ stack[i].phi < Top.phi
                                /\ Top.phi \in 1..Len(heap)
                                /\ stack[i].phi \in 1..Len(heap)
  BY Pointers DEF StackOrdered, Top, TypeOK, Depth
<1>4. Depth \in Nat \ {0} /\ Len(heap) \in Nat
  BY Pointers DEF TypeOK
<1>5. F \in Formulas /\ Phi \in Model(F) /\ GoodModel(F, Phi)
  BY Pointers DEF TypeOK, AllGood, Phi
<1>6. ASSUME NEW i \in Nat, PendingSat(i), stack'[i] = stack[i],
             heap'[stack[i].phi] = heap[stack[i].phi]
      PROVE  PendingSat(i)'
  BY <1>1, <1>6 DEF PendingSat
<1>7. CASE Bcp \/ Plp
  <2>1. PICK l \in Lits :
          /\ Bcp => IsUnitLiteral(F, l, Phi)
          /\ Plp => IsPureLiteral(F, l, Phi)
          /\ \A k \in 1..Len(heap) :
               heap'[k] = IF k = Top.phi THEN Assign(F, l, Phi) ELSE heap[k]
          /\ UNCHANGED <<stack, pc, ret>>
    BY <1>7, AssignEffect
  <2>2. Searching' = Searching /\ Depth' = Depth /\ Phi' = Assign(F, l, Phi)
    BY <2>1, Pointers DEF Searching, Depth, Phi, Top
  <2>3. ASSUME ResidualSat(F, Phi) PROVE ResidualSat(F, Assign(F, l, Phi))
    <3>1. PICK tau \in Assignments : Models(F, tau, Phi)
      BY <2>3 DEF ResidualSat
    <3>2. CASE Bcp
      <4>1. LitTrue(tau, l)
        BY <1>5, <2>1, <3>1, <3>2, UnitForced DEF GoodModel
      <4>2. QED
        BY <1>5, <3>1, <4>1, AssignKeepsModels DEF GoodModel, ResidualSat
    <3>3. CASE Plp
      <4>1. l \in PureLiterals(F, Phi)
        BY <2>1, <3>3 DEF IsPureLiteral
      <4>2. QED
        BY <1>5, <3>1, <4>1, PureKeepsModels DEF GoodModel, ResidualSat
    <3>4. QED
      BY <1>7, <3>2, <3>3
  <2>4. ASSUME NEW i \in 1..(Depth - 1), PendingSat(i) PROVE PendingSat(i)'
    BY <1>3, <1>6, <2>1, <2>4
  <2>5. QED
    BY <1>1, <1>2, <2>1, <2>2, <2>3, <2>4
<1>8. CASE BranchTrue
  <2>1. PICK l \in Vars :
          /\ heap'[Len(heap) + 1] = Assign(F, l, Phi)
          /\ \A k \in 1..Len(heap) : heap'[k] = heap[k]
          /\ Depth' = Depth + 1
          /\ \A i \in 1..Depth :
               stack'[i] = IF i = Depth THEN Waiting(Top.phi, 1, l) ELSE stack[i]
          /\ stack'[Depth + 1] = NewFrame(Len(heap) + 1)
    BY <1>8, BranchTrueEffect
  <2>2. pc' = "bcp" /\ ret' = ret
    BY <1>8 DEF BranchTrue
  <2>3. Phi' = Assign(F, l, Phi)
    BY <2>1 DEF Phi, Top, NewFrame
  <2>4. CASE ResidualSat(F, Phi)
    <3>1. CASE ResidualSat(F, Assign(F, l, Phi))
      BY <1>1, <2>2, <2>3, <3>1 DEF Searching
    <3>2. CASE ResidualSat(F, Assign(F, -l, Phi))
      <4>1. PICK i \in 1..Depth : i = Depth
        BY <1>4
      <4>2. stack'[i] = Waiting(Top.phi, 1, l) /\ heap'[Top.phi] = Phi
        BY <2>1, <4>1, Pointers DEF Phi
      <4>3. PendingSat(i)'
        BY <1>1, <3>2, <4>2 DEF PendingSat, Waiting
      <4>4. QED
        BY <1>4, <2>1, <4>1, <4>3
    <3>3. QED
      BY <1>5, <2>4, <3>1, <3>2, BranchesCover
  <2>5. CASE \E i \in 1..(Depth - 1) : PendingSat(i)
    <3>1. PICK i \in 1..(Depth - 1) : PendingSat(i)
      BY <2>5
    <3>2. stack'[i] = stack[i] /\ heap'[stack[i].phi] = heap[stack[i].phi]
      BY <1>3, <1>4, <2>1
    <3>3. PendingSat(i)'
      BY <1>6, <3>1, <3>2
    <3>4. QED
      BY <1>4, <2>1, <3>3
  <2>6. QED
    BY <1>2, <2>2, <2>4, <2>5
<1>9. CASE BranchFalse
  <2>1. /\ Depth > 1 /\ m = Len(heap) /\ Depth' = Depth
        /\ \A k \in 1..Len(heap) :
             heap'[k] = IF k = m THEN Assign(F, -Caller.lit, heap[Caller.phi])
                                 ELSE heap[k]
        /\ \A i \in 1..Depth :
             stack'[i] = IF i = Depth THEN NewFrame(m)
                         ELSE IF i = Depth - 1
                                THEN Waiting(Caller.phi, 2, Caller.lit)
                                ELSE stack[i]
    BY <1>9, BranchFalseEffect
  <2>2. pc = "return" /\ ~ret /\ pc' = "bcp" /\ m > 0
    BY <1>4, <2>1, <1>9 DEF BranchFalse, TypeOK
  <2>3. Phi' = Assign(F, -Caller.lit, heap[Caller.phi])
    BY <1>4, <2>1, <2>2 DEF Phi, Top, NewFrame
  <2>4. PICK i \in 1..(Depth - 1) : PendingSat(i)
    BY <1>2, <2>2 DEF Searching
  <2>5. CASE i = Depth - 1
    BY <1>1, <2>2, <2>3, <2>4, <2>5 DEF PendingSat, Caller, Searching
  <2>6. CASE i # Depth - 1
    <3>1. stack'[i] = stack[i] /\ heap'[stack[i].phi] = heap[stack[i].phi]
      BY <1>3, <1>4, <2>1, <2>6
    <3>2. QED
      BY <1>6, <2>1, <2>4, <3>1
  <2>7. QED
    BY <2>5, <2>6
<1>10. CASE Return
  <2>1. /\ Depth > 1 /\ Depth' = Depth - 1 /\ UNCHANGED <<heap, pc, ret>>
        /\ \A i \in 1..(Depth - 1) : stack'[i] = stack[i]
    BY <1>10, ReturnEffect
  <2>2. pc = "return" /\ (ret \/ Caller.branch = 2)
    BY <1>10 DEF Return
  <2>3. CASE ~ret
    <3>1. PICK i \in 1..(Depth - 1) : PendingSat(i)
      BY <1>2, <2>2, <2>3 DEF Searching
    <3>2. i # Depth - 1
      BY <2>2, <2>3, <3>1 DEF PendingSat, Caller
    <3>3. PendingSat(i)'
      BY <1>6, <2>1, <3>1
    <3>4. QED
      BY <1>4, <2>1, <3>1, <3>2, <3>3
  <2>4. QED
    BY <2>1, <2>3
<1>11. CASE Quiet
  <2>1. UNCHANGED <<heap, stack, Phi, Depth>>
    BY <1>11, QuietStep DEF Phi, Top, Depth
  <2>2. \A i \in Nat : PendingSat(i) => PendingSat(i)'
    BY <1>6, <2>1
  <2>3. CASE Check
    <3>1. contains_empty(F, Phi) => ~ResidualSat(F, Phi)
      BY DEF contains_empty, ResidualSat, Models, HasTrue
    <3>2. Searching /\ ~ret /\ (ret' \/ contains_empty(F, Phi))
      BY <2>3 DEF Check, Searching, AnswerInv
    <3>3. QED
      BY <1>2, <2>1, <2>2, <3>1, <3>2
  <2>4. CASE ~Check
    <3>1. ret' = ret /\ (Searching => Searching')
      BY <1>11, <2>4 DEF Quiet, BcpDone, PlpDone, SayAnswer, PrintLit, Finish,
                         termination_handler, Searching
    <3>2. QED
      BY <1>1, <1>2, <2>1, <2>2, <3>1
  <2>5. QED
    BY <2>3, <2>4
<1>12. CASE UNCHANGED vars
  BY <1>2, <1>12 DEF vars, Searching, Phi, Top, Depth, PendingSat
<1>13. QED
  BY <1>7, <1>8, <1>9, <1>10, <1>11, <1>12 DEF Next, Step, Quiet

LEMMA OutStep == TypeOK /\ AnswerInv /\ OutInv /\ [Next]_vars => OutInv'
<1> SUFFICES ASSUME TypeOK, AnswerInv, OutInv, [Next]_vars PROVE OutInv'
  OBVIOUS
<1>1. ASSUME NEW v \in Vars, UNCHANGED <<heap, latest>>
      PROVE  Printed(v)' = Printed(v)
  BY <1>1 DEF Printed
<1>2. CASE PrintLit
  <2>1. /\ said = "SAT" /\ said' = said /\ Len(out) + 1 \in Vars
        /\ out' = Append(out, Printed(Len(out) + 1))
        /\ UNCHANGED <<heap, latest>>
    BY <1>2, NAssumption DEF PrintLit, TypeOK, Vars
  <2>2. ASSUME NEW v \in DOMAIN out' PROVE v \in Vars /\ out'[v] = Printed(v)
    BY <2>1 DEF OutInv, TypeOK
  <2>3. QED
    BY <1>1, <2>1, <2>2 DEF OutInv
<1>3. CASE SayAnswer
  <2>1. said = "none"
    BY <1>3 DEF SayAnswer, AnswerInv
  <2>2. out' = <<>>
    BY <1>3, <2>1 DEF SayAnswer, OutInv
  <2>3. QED
    BY <2>2 DEF OutInv
<1>4. ASSUME Bcp \/ Plp \/ BranchTrue \/ BranchFalse PROVE OutInv'
  <2>1. said = "none" /\ UNCHANGED <<out, said>>
    BY <1>4 DEF Bcp, Plp, BranchTrue, BranchFalse, AnswerInv
  <2>2. out' = <<>>
    BY <2>1 DEF OutInv
  <2>3. QED
    BY <2>2 DEF OutInv
<1>5. ASSUME \/ Return \/ BcpDone \/ PlpDone \/ Check \/ Finish
             \/ termination_handler \/ UNCHANGED vars
      PROVE  OutInv'
  <2>1. UNCHANGED <<out, said, heap, latest>>
    BY <1>5 DEF Return, BcpDone, PlpDone, Check, Finish, termination_handler, vars
  <2>2. QED
    BY <1>1, <2>1 DEF OutInv
<1>6. QED
  BY <1>2, <1>3, <1>4, <1>5 DEF Next, Step

-----------------------------------------------------------------------------
(***************************************************************************)
(* The theorems                                                            *)
(***************************************************************************)
LEMMA InitIInv == Init => IInv
<1> SUFFICES ASSUME Init PROVE IInv
  OBVIOUS
<1>1. TypeOK
  BY InitType
<1>2. PICK junk \in [Vars -> Junk] :
        heap = <<[asg |-> junk,
                  live |-> [c \in DOMAIN F |-> DOMAIN F[c]],
                  tagged |-> {}]>>
  BY DEF Init
<1>3. /\ stack = <<NewFrame(1)>> /\ Depth = 1 /\ Top.phi = 1 /\ Phi = heap[1]
      /\ latest = 1 /\ pc = "bcp" /\ said = "none" /\ ret = FALSE
  BY DEF Init, Depth, Top, NewFrame, Phi
<1>4. /\ Len(heap) = 1
      /\ heap[1].tagged = {} /\ \A c \in DOMAIN F : heap[1].live[c] = DOMAIN F[c]
  BY <1>2
<1>5. StackOrdered
  BY <1>3 DEF StackOrdered
<1>6. PendingModelIntact
  BY <1>3 DEF PendingModelIntact
<1>7. AllGood
  BY <1>4 DEF AllGood, GoodModel
<1>8. AnswerInv
  BY <1>3 DEF AnswerInv, Searching
<1>9. NothingLost
  <2> SUFFICES ASSUME Satisfiable(F) PROVE ResidualSat(F, Phi)
    BY <1>3 DEF NothingLost, Searching
  <2>1. PICK tau \in Assignments : Satisfies(tau, F)
    BY DEF Satisfiable
  <2>2. Models(F, tau, Phi)
    BY <1>3, <1>4, <2>1 DEF Models, Satisfies, Untagged
  <2>3. QED
    BY <2>2 DEF ResidualSat
<1>10. OutInv
  BY DEF Init, OutInv
<1>11. QED
  BY <1>1, <1>5, <1>6, <1>7, <1>8, <1>9, <1>10 DEF IInv

\* The conjunction of the types, the order of the activations, the models they
\* wait with, the tagged clauses and the search space left holds in every state.
THEOREM Invariance == Spec => []IInv
<1>1. IInv /\ [Next]_vars => IInv'
  BY TypeStep, OrderStep, PendingStep, GoodStep, AnswerStep, LostStep, OutStep
     DEF IInv
<1>2. QED
  BY InitIInv, <1>1, PTL DEF Spec

\* Every variable of the program keeps its type, for every input.
THEOREM TypeCorrect == Spec => []TypeOK
<1>1. IInv => TypeOK
  BY DEF IInv
<1>2. QED
  BY Invariance, <1>1, PTL

\* When DPLL has answered SAT, the bytes main prints satisfy every clause,
\* whatever memory held: the tagged clauses are true and all are tagged.
THEOREM SatSoundness == Spec => []SatSound
<1>1. IInv => SatSound
  <2> SUFFICES ASSUME IInv, said = "SAT"
               PROVE  Satisfies(heap[latest].asg, F)
    BY DEF SatSound
  <2>1. consistent(F, heap[latest]) /\ GoodModel(F, heap[latest])
    BY DEF IInv, AnswerInv, AllGood, TypeOK
  <2>2. \A c \in DOMAIN F : c \in heap[latest].tagged
    BY <2>1 DEF consistent, Untagged
  <2>3. QED
    BY <2>1, <2>2 DEF GoodModel, Satisfies, HasTrue
<1>2. QED
  BY Invariance, <1>1, PTL

\* When DPLL has answered UNSAT the formula has no model: no second branch is
\* lost to the static model that all activations share.
THEOREM UnsatSoundness == Spec => []UnsatSound
<1>1. IInv => UnsatSound
  <2> SUFFICES ASSUME IInv, said = "UNSAT", Satisfiable(F)
               PROVE  FALSE
    BY DEF UnsatSound
  <2>1. pc = "print" /\ ~ret /\ Depth = 1
    BY DEF IInv, AnswerInv, StackOrdered
  <2>2. QED
    BY <2>1 DEF IInv, NothingLost, Searching
<1>2. QED
  BY Invariance, <1>1, PTL

\* copy(phi, m, false) never overwrites a model that an activation below the
\* returning one still needs, and no two activations share a model.
THEOREM StaticModelSafe == Spec => []StaticModelFree
<1>1. IInv => StaticModelFree
  <2> SUFFICES ASSUME IInv PROVE StaticModelFree
    OBVIOUS
  <2>1. \A i \in 1..Depth : stack[i].phi \in 1..Len(heap)
    BY DEF IInv, TypeOK, Depth
  <2>2. Depth \in Nat \ {0} /\ Len(heap) \in Nat
    BY Pointers DEF IInv, TypeOK
  <2>3. \A i, j \in 1..Depth : i < j => stack[i].phi < stack[j].phi
    BY DEF IInv, StackOrdered
  <2>4. \A i, j \in 1..Depth : i # j => stack[i].phi # stack[j].phi
    BY <2>1, <2>2, <2>3
  <2>5. ASSUME NEW i \in 1..(Depth - 1) PROVE stack[i].phi # m
    <3>1. m = Len(heap)
      BY <2>2, <2>5 DEF IInv, StackOrdered
    <3>2. stack[i].phi < stack[Depth].phi
      BY <2>2, <2>3
    <3>3. QED
      BY <2>1, <2>2, <3>1, <3>2
  <2>6. QED
    BY <2>4, <2>5 DEF StaticModelFree
<1>2. QED
  BY Invariance, <1>1, PTL

\* A caller finds its model as it left it when its second branch begins.
THEOREM PendingModelsIntact == Spec => []PendingModelIntact
<1>1. IInv => PendingModelIntact
  BY DEF IInv
<1>2. QED
  BY Invariance, <1>1, PTL
-----------------------------------------------------------------------------
(***************************************************************************)
(* The solver keeps the promise of SatSolver                               *)
(***************************************************************************)
\* The byte printed for a variable, times the variable, is in range and has
\* the sign of the byte.
LEMMA ByteTimes ==
  ASSUME NEW v \in Vars, NEW x \in -128..127, x # 0
  PROVE  v * x \in -(128 * N)..(127 * N) /\ (v * x > 0 <=> x > 0)
<1>1. v \in Int /\ N \in Int /\ 1 <= v /\ v <= N /\ x \in Int /\ -128 <= x /\ x <= 127
  BY NAssumption DEF Vars
<1>2. CASE x > 0
  <2>1. v * x > 0 /\ v * x <= v * 127
    BY <1>1, <1>2
  <2>2. QED
    BY <1>1, <1>2, <2>1
<1>3. CASE x < 0
  <2>1. v * x < 0 /\ v * x >= v * (-128)
    BY <1>1, <1>3
  <2>2. QED
    BY <1>1, <1>3, <2>1
<1>4. QED
  BY <1>1, <1>2, <1>3

\* What is printed is the sign of an assignment that satisfies the formula.
LEMMA PrintedIsModel ==
  ASSUME IInv, ret
  PROVE  \E tau \in Assignments :
           /\ Satisfies(tau, F)
           /\ \A v \in Vars : /\ Printed(v) \in -(128 * N)..(127 * N)
                              /\ LitTrue(tau, v) <=> Printed(v) > 0
<1> DEFINE asg == heap[latest].asg
           tau == [v \in Vars |-> IF asg[v] < 0 THEN -1 ELSE 1]
<1>1. heap[latest] \in Model(F) /\ F \in Formulas
  BY DEF IInv, TypeOK
<1>2. asg \in [Vars -> -128..127]
  BY <1>1 DEF Model
<1>3. consistent(F, heap[latest]) /\ GoodModel(F, heap[latest])
  BY DEF IInv, AnswerInv, AllGood, TypeOK
<1>4. tau \in Assignments
  BY DEF Assignments
<1>5. ASSUME NEW l \in Lits, LitTrue(asg, l) PROVE LitTrue(tau, l)
  <2>1. IF l > 0 THEN l \in Vars /\ asg[l] > 0 ELSE -l \in Vars /\ asg[-l] < 0
    BY <1>5, NAssumption DEF LitTrue, Lits, Vars
  <2>2. \A v \in Vars : asg[v] \in Int
    BY <1>2
  <2>3. QED
    BY <2>1, <2>2 DEF LitTrue, Lits
<1>6. Satisfies(tau, F)
  <2> SUFFICES ASSUME NEW c \in DOMAIN F
               PROVE  \E p \in DOMAIN F[c] : LitTrue(tau, F[c][p])
    BY DEF Satisfies, HasTrue
  <2>1. c \in heap[latest].tagged
    BY <1>3 DEF consistent, Untagged
  <2>2. PICK p \in DOMAIN F[c] : LitTrue(asg, F[c][p])
    BY <1>3, <2>1 DEF GoodModel
  <2>3. QED
    BY <1>1, <1>5, <2>2, LiteralAt
<1>7. ASSUME NEW v \in Vars
      PROVE  /\ Printed(v) \in -(128 * N)..(127 * N)
             /\ LitTrue(tau, v) <=> Printed(v) > 0
  <2> DEFINE x == IF asg[v] = 0 THEN 1 ELSE asg[v]
  <2>1. x \in -128..127 /\ x # 0
    BY <1>2
  <2>2. Printed(v) = v * x
    BY DEF Printed
  <2>3. LitTrue(tau, v) <=> x > 0
    <3>1. v > 0
      BY NAssumption DEF Vars
    <3>2. asg[v] \in -128..127
      BY <1>2
    <3>3. LitTrue(tau, v) <=> tau[v] > 0
      BY <3>1 DEF LitTrue
    <3>4. QED
      BY <3>2, <3>3
  <2> HIDE DEF x
  <2>4. v * x \in -(128 * N)..(127 * N) /\ (v * x > 0 <=> x > 0)
    BY <2>1, ByteTimes
  <2> HIDE DEF tau
  <2>5. QED
    BY <2>2, <2>3, <2>4
<1>8. QED
  BY <1>4, <1>6, <1>7

\* SatSolver has its own copy of the definitions of Cnf: they are the same.
LEMMA SameCnf ==
  /\ Promise!Assignments = Assignments
  /\ \A tau, l : Promise!LitTrue(tau, l) <=> LitTrue(tau, l)
  /\ \A tau, f : Promise!Satisfies(tau, f) <=> Satisfies(tau, f)
  /\ \A f : Promise!Satisfiable(f) <=> Satisfiable(f)
<1>1. Promise!Assignments = Assignments
  BY DEF Promise!Assignments, Promise!Vars, Assignments, Vars
<1>2. \A tau, l : Promise!LitTrue(tau, l) <=> LitTrue(tau, l)
  BY DEF Promise!LitTrue, LitTrue
<1>3. \A tau, f : Promise!Satisfies(tau, f) <=> Satisfies(tau, f)
  BY <1>2 DEF Promise!Satisfies, Satisfies, Promise!HasTrue, HasTrue
<1>4. \A f : Promise!Satisfiable(f) <=> Satisfiable(f)
  BY <1>1, <1>3 DEF Promise!Satisfiable, Satisfiable
<1>5. QED
  BY <1>1, <1>2, <1>3, <1>4

\* Every behaviour of the search, seen through the formula, the answer, the
\* printed literals and the status of the process, is one the promise allows.
THEOREM Refinement == Spec => PromiseKept
<1>1. Init => Promise!Init
  BY DEF Init, Promise!Init
<1>2. ASSUME IInv, IInv', [Next]_vars
      PROVE  [Promise!Next]_(Promise!vars)
  <2>1. CASE SayAnswer
    <3>1. said = "none" /\ UNCHANGED <<F, out, status>> /\ status = "running"
      BY <1>2, <2>1 DEF SayAnswer, Running, IInv, AnswerInv
    <3>2. CASE said' = "SAT"
      <4>1. Satisfiable(F)
        <5>1. ret
          BY <2>1, <3>2 DEF SayAnswer
        <5>2. QED
          BY <1>2, <5>1, PrintedIsModel DEF Satisfiable
      <4>2. QED
        BY <3>1, <3>2, <4>1, SameCnf DEF Promise!SaySat, Promise!Next
    <3>3. CASE said' = "UNSAT"
      <4>1. ~ret /\ pc = "return" /\ Depth = 1
        BY <2>1, <3>3 DEF SayAnswer
      <4>2. ~Satisfiable(F)
        BY <1>2, <4>1 DEF IInv, NothingLost, Searching
      <4>3. QED
        BY <3>1, <3>3, <4>2, SameCnf DEF Promise!SayUnsat, Promise!Next
    <3>4. QED
      BY <2>1, <3>2, <3>3 DEF SayAnswer
  <2>2. CASE PrintLit
    <3>1. /\ said = "SAT" /\ ret /\ Len(out) < N /\ status = "running"
          /\ out' = Append(out, Printed(Len(out) + 1))
          /\ out \in Seq(Int) /\ Len(out) + 1 \in Vars
          /\ UNCHANGED <<F, said, status>>
      BY <1>2, <2>2, NAssumption DEF PrintLit, Running, IInv, TypeOK, AnswerInv,
                                      Vars
    <3>2. PICK tau \in Assignments :
            /\ Satisfies(tau, F)
            /\ \A v \in Vars : /\ Printed(v) \in -(128 * N)..(127 * N)
                               /\ LitTrue(tau, v) <=> Printed(v) > 0
      BY <1>2, <3>1, PrintedIsModel
    <3>3. \A v \in DOMAIN out' : v \in Vars /\ out'[v] = Printed(v)
      BY <1>2, <3>1 DEF IInv, OutInv
    <3>4. Promise!AgreesWith(out', tau)
      BY <3>2, <3>3, SameCnf DEF Promise!AgreesWith
    <3>5. Promise!IsModelPrefix(out', F)
      BY <3>2, <3>4, SameCnf DEF Promise!IsModelPrefix
    <3>6. \E x \in Promise!Printable : out' = Append(out, x)
      BY <3>1, <3>2 DEF Promise!Printable
    <3>7. QED
      BY <3>1, <3>5, <3>6 DEF Promise!PrintLit, Promise!Next
  <2>3. CASE Finish
    <3>1. /\ said = "UNSAT" \/ (said = "SAT" /\ Len(out) = N)
          /\ status = "running" /\ status' = "finished"
          /\ UNCHANGED <<F, said, out>>
      BY <1>2, <2>3 DEF Finish, Running, IInv, TypeOK, AnswerInv
    <3>2. QED
      BY <3>1 DEF Promise!Finish, Promise!Next
  <2>4. CASE termination_handler
    BY <2>4 DEF termination_handler, Running, Promise!Stop, Promise!Next
  <2>5. CASE \/ Bcp \/ BcpDone \/ Plp \/ PlpDone \/ Check \/ BranchTrue
             \/ BranchFalse \/ Return \/ UNCHANGED vars
    BY <2>5 DEF Bcp, BcpDone, Plp, PlpDone, Check, BranchTrue, BranchFalse,
                Return, vars, Promise!vars
  <2>6. QED
    BY <1>2, <2>1, <2>2, <2>3, <2>4, <2>5 DEF Next, Step
<1>3. QED
  BY <1>1, <1>2, Invariance, PTL DEF Spec, PromiseKept, Promise!Spec
=============================================================================
