---------------------------- MODULE Cdcl1Proofs ----------------------------
(***************************************************************************)
(* Proofs about solver1, for every formula, size of the queue and number   *)
(* of clauses learnt, whatever the scores come to.                         *)
(*                                                                         *)
(* The watched literals are the heart of it: WatchInv is inductive with    *)
(* the agreement of levels and assignments (LevelInv) and the literal bcp  *)
(* visits the clauses of (CursorInv).  The second part is about what is    *)
(* learnt: the clauses count their literals right, what bcp assigns has a  *)
(* clause for a reason, and resolving them keeps what follows (IInv3).  The*)
(* third is about the tree: what its operations do to the entries and their*)
(* order, and that no variable to decide on is ever missing (CoverInv).    *)
(***************************************************************************)
EXTENDS Cdcl1, CnfProofs, FiniteSetTheorems

-----------------------------------------------------------------------------
(***************************************************************************)
(* The ring is a queue that loses what is pushed when it is full, for every*)
(* size: its operations seen through its contents.                         *)
(***************************************************************************)
\* The start of the program: an empty ring.
LEMMA RingInit ==
  ASSUME NEW x
  PROVE  IsRing(InitQueue(x)) /\ InitQueue(x).itemCount = 0
BY QueueAssumption DEF IsRing, InitQueue, Places, NextTail, PlaceOf

\* reset empties a ring, whatever state it is in.
LEMMA RingReset ==
  ASSUME NEW q, IsRing(q)
  PROVE  IsRing(reset(q)) /\ Contents(reset(q)) = <<>>
<1>1. reset(q).itemCount = 0 /\ reset(q).head = 0 /\ reset(q).tail = -1
      /\ reset(q).queue = q.queue /\ DOMAIN reset(q) = DOMAIN q
  BY DEF IsRing, reset
<1>2. IsRing(reset(q))
  BY <1>1, QueueAssumption DEF IsRing, NextTail, PlaceOf, Places
<1>3. QED
  BY <1>1, <1>2 DEF Contents

\* A full ring stays as it is: the item is lost.
LEMMA RingPushFull ==
  ASSUME NEW q, NEW x, is_full(q)
  PROVE  push(q, x) = q
BY DEF push

\* The item goes behind the ones waiting, whose order stays.
LEMMA RingPush ==
  ASSUME NEW q, NEW x, IsRing(q), ~is_full(q)
  PROVE  IsRing(push(q, x)) /\ Contents(push(q, x)) = Append(Contents(q), x)
<1> DEFINE r == push(q, x)
           n == q.itemCount
<1>1. /\ r.queue = [q.queue EXCEPT ![NextTail(q)] = x] /\ r.head = q.head
      /\ r.tail = NextTail(q) /\ r.itemCount = n + 1
      /\ DOMAIN r = {"queue", "head", "tail", "itemCount"}
  BY DEF push
<1>2. /\ n \in Nat /\ n < MAX_QUEUE_SIZE /\ q.head \in Places
      /\ NextTail(q) = PlaceOf(q, n + 1) /\ DOMAIN q.queue = Places
  BY QueueAssumption DEF IsRing, is_full
<1>3. \A k \in 1..MAX_QUEUE_SIZE : PlaceOf(q, k) \in Places
  BY <1>2, QueueAssumption DEF PlaceOf, Places
<1>4. \A k \in 1..n : PlaceOf(q, k) # PlaceOf(q, n + 1)
  BY <1>2, QueueAssumption DEF PlaceOf, Places
<1>5. \A k \in 1..(n + 1) : PlaceOf(r, k) = PlaceOf(q, k)
  BY <1>1 DEF PlaceOf
<1>6. IsRing(r)
  <2>1. DOMAIN r.queue = Places
    BY <1>1, <1>2
  <2>2. r.tail \in Places
    BY <1>1, <1>2, <1>3, QueueAssumption
  <2>3. NextTail(r) = PlaceOf(r, r.itemCount + 1)
    <3>1. /\ r.tail = IF q.head + n < MAX_QUEUE_SIZE
                      THEN q.head + n ELSE q.head + n - MAX_QUEUE_SIZE
          /\ r.head = q.head /\ r.itemCount = n + 1
      BY <1>1, <1>2 DEF PlaceOf, Places
    <3>2. q.head \in 0..(MAX_QUEUE_SIZE - 1) /\ n \in Nat /\ n < MAX_QUEUE_SIZE
      BY <1>2 DEF Places
    <3> HIDE DEF r, n
    <3>3. QED
      BY <3>1, <3>2, QueueAssumption DEF NextTail, PlaceOf
  <2>4. QED
    BY <1>1, <1>2, <2>1, <2>2, <2>3, QueueAssumption DEF IsRing, Places
<1>7. Contents(r) = Append(Contents(q), x)
  <2>1. \A k \in 1..n : r.queue[PlaceOf(r, k)] = q.queue[PlaceOf(q, k)]
    BY <1>1, <1>2, <1>3, <1>4, <1>5
  <2>2. r.queue[PlaceOf(r, n + 1)] = x
    <3>1. PlaceOf(r, n + 1) = NextTail(q)
      BY <1>2, <1>5
    <3>2. NextTail(q) \in DOMAIN q.queue
      BY <1>2, <1>3, QueueAssumption
    <3>3. QED
      BY <1>1, <3>1, <3>2
  <2>3. Len(Contents(q)) = n /\ Contents(q) = [k \in 1..n |-> q.queue[PlaceOf(q, k)]]
    BY <1>2 DEF Contents
  <2>4. Contents(r) = [k \in 1..(n + 1) |-> r.queue[PlaceOf(r, k)]]
    BY <1>1 DEF Contents
  <2>5. Append(Contents(q), x) = [k \in 1..(n + 1) |-> IF k = n + 1 THEN x ELSE Contents(q)[k]]
    BY <1>2, <2>3
  <2>6. \A k \in 1..(n + 1) : Contents(r)[k] = (IF k = n + 1 THEN x ELSE Contents(q)[k])
    BY <1>2, <2>1, <2>2, <2>3, <2>4
  <2>7. QED
    BY <2>4, <2>5, <2>6
<1>8. QED
  BY <1>6, <1>7

\* pop takes the item that was pushed first.
LEMMA RingPop ==
  ASSUME NEW q, IsRing(q), ~is_q_empty(q)
  PROVE  /\ IsRing(pop(q))
         /\ Contents(q) # <<>> /\ Front(q) = Head(Contents(q))
         /\ Contents(pop(q)) = Tail(Contents(q))
<1> DEFINE r == pop(q)
           n == q.itemCount
<1>1. /\ r.queue = q.queue /\ r.itemCount = n - 1 /\ r.tail = q.tail
      /\ r.head = IF q.head + 1 = MAX_QUEUE_SIZE THEN 0 ELSE q.head + 1
      /\ DOMAIN r = DOMAIN q
  BY DEF pop, IsRing
<1>2. /\ n \in Nat \ {0} /\ n <= MAX_QUEUE_SIZE /\ q.head \in Places
      /\ NextTail(q) = PlaceOf(q, n + 1)
  BY QueueAssumption DEF IsRing, is_q_empty
<1>3. \A k \in 1..n : PlaceOf(r, k) = PlaceOf(q, k + 1)
  BY <1>1, <1>2, QueueAssumption DEF PlaceOf, Places
<1>4. IsRing(r)
  <2>1. r.head \in Places /\ r.itemCount \in 0..MAX_QUEUE_SIZE
    BY <1>1, <1>2, QueueAssumption DEF Places
  <2>2. NextTail(r) = NextTail(q)
    BY <1>1 DEF NextTail
  <2>3. PlaceOf(r, r.itemCount + 1) = PlaceOf(q, n + 1)
    BY <1>1, <1>2, <1>3
  <2>4. QED
    BY <1>1, <1>2, <2>1, <2>2, <2>3 DEF IsRing
<1>5. /\ Contents(q) = [k \in 1..n |-> q.queue[PlaceOf(q, k)]]
      /\ Contents(r) = [k \in 1..(n - 1) |-> q.queue[PlaceOf(r, k)]]
  BY <1>1 DEF Contents
<1>6. Front(q) = Contents(q)[1] /\ Len(Contents(q)) = n
  <2>1. PlaceOf(q, 1) = q.head
    BY <1>2, QueueAssumption DEF PlaceOf, Places
  <2>2. QED
    BY <1>2, <1>5, <2>1 DEF Front
<1>7. Contents(r) = Tail(Contents(q))
  <2>1. Tail(Contents(q)) = [k \in 1..(n - 1) |-> Contents(q)[k + 1]]
    BY <1>2, <1>5, <1>6
  <2>2. \A k \in 1..(n - 1) : Contents(r)[k] = Contents(q)[k + 1]
    BY <1>2, <1>3, <1>5
  <2>3. QED
    BY <1>5, <2>1, <2>2
<1>8. Contents(q) # <<>> /\ Head(Contents(q)) = Contents(q)[1]
  BY <1>2, <1>5, <1>6
<1>9. QED
  BY <1>4, <1>6, <1>7, <1>8

-----------------------------------------------------------------------------
(***************************************************************************)
(* Literals and lists                                                      *)
(***************************************************************************)
\* The variable of a literal, and the two literals of a variable.
LEMMA LitFacts ==
  /\ \A l \in Lits : Var(l) \in Vars /\ -l \in Lits
  /\ \A l, k \in Lits : Var(l) = Var(k) => l = k \/ l = -k
  /\ \A v \in Vars : v \in Lits /\ -v \in Lits /\ Var(v) = v /\ Var(-v) = v
BY NAssumption DEF Lits, Vars, Var, Abs

\* A literal has one of three values.
LEMMA ValueFacts ==
  ASSUME TypeInv, NEW l \in Lits
  PROVE  /\ IsTrue(l) <=> IsFalse(-l)
         /\ IsFalse(l) <=> IsTrue(-l)
         /\ IsUnassigned(l) \/ IsTrue(l) \/ IsFalse(l)
         /\ ~(IsTrue(l) /\ IsFalse(l))
         /\ IsUnassigned(l) => ~IsTrue(l) /\ ~IsFalse(l)
<1>1. Var(l) \in Vars /\ Var(-l) = Var(l) /\ l # 0 /\ l \in Int
  BY NAssumption DEF Lits, Vars, Var, Abs
<1>2. value[Var(l)] \in {-1, 0, 1}
  BY <1>1 DEF TypeInv, UNASSIGNED
<1>3. QED
  BY <1>1, <1>2 DEF IsTrue, IsFalse, IsUnassigned, UNASSIGNED

\* The literals of the formula.
LEMMA LitOfClause ==
  ASSUME F \in Formulas, NEW c \in DOMAIN F, NEW p \in DOMAIN F[c]
  PROVE  F[c][p] \in Lits
BY DEF Formulas

Has(s, d) == \E i \in DOMAIN s : s[i] = d

\* A list loses no clause when another one is put in front.
LEMMA PrependHas ==
  ASSUME NEW S, NEW s \in Seq(S), NEW c \in S
  PROVE  /\ Prepend(s, c) \in Seq(S)
         /\ Has(Prepend(s, c), c)
         /\ \A d : Has(s, d) => Has(Prepend(s, c), d)
<1>1. ASSUME NEW r \in Seq(S)
      PROVE  /\ <<c>> \o r \in Seq(S) /\ Has(<<c>> \o r, c)
             /\ \A d : Has(r, d) => Has(<<c>> \o r, d)
  <2> DEFINE q == <<c>> \o r
  <2>1. q \in Seq(S) /\ Len(q) = Len(r) + 1 /\ q[1] = c
        /\ \A i \in 1..Len(r) : q[i + 1] = r[i]
    OBVIOUS
  <2>2. Has(q, c)
    BY <2>1 DEF Has
  <2>3. ASSUME NEW d, Has(r, d) PROVE Has(q, d)
    <3>1. PICK i \in 1..Len(r) : r[i] = d
      BY <2>3 DEF Has
    <3>2. i + 1 \in DOMAIN q /\ q[i + 1] = d
      BY <2>1, <3>1
    <3>3. QED
      BY <3>2 DEF Has
  <2>4. QED
    BY <2>1, <2>2, <2>3
<1>2. CASE Second(s, c) = {}
  BY <1>1, <1>2 DEF Prepend
<1>3. CASE Second(s, c) # {}
  <2> DEFINE i == CHOOSE k \in Second(s, c) : TRUE
             r == Without(s, i)
  <2>1. i \in 1..Len(s) /\ s[i] = c
    BY <1>3 DEF Second
  <2>2. /\ r \in Seq(S) /\ Len(r) = Len(s) - 1
        /\ \A j \in 1..(Len(s) - 1) : r[j] = IF j < i THEN s[j] ELSE s[j + 1]
    BY <2>1 DEF Without
  <2>3. Prepend(s, c) = <<c>> \o r
    BY <1>3 DEF Prepend
  <2>4. ASSUME NEW d, Has(s, d), d # c PROVE Has(r, d)
    <3>1. PICK k \in 1..Len(s) : s[k] = d
      BY <2>4 DEF Has
    <3>2. k # i
      BY <2>1, <2>4, <3>1
    <3>3. CASE k < i
      <4>1. k \in DOMAIN r /\ r[k] = d
        BY <2>1, <2>2, <3>1, <3>3
      <4>2. QED
        BY <4>1 DEF Has
    <3>4. CASE k > i
      <4>1. k - 1 \in DOMAIN r /\ r[k - 1] = d
        BY <2>1, <2>2, <3>1, <3>4
      <4>2. QED
        BY <4>1 DEF Has
    <3>5. QED
      BY <2>1, <3>2, <3>3, <3>4
  <2> HIDE DEF r
  <2>5. QED
    BY <1>1, <2>2, <2>3, <2>4
<1>4. QED
  BY <1>2, <1>3

\* The same for one or two copies of a clause.
LEMMA PrependEachHas ==
  ASSUME NEW S, NEW s \in Seq(S), NEW c \in S, NEW ps
  PROVE  /\ PrependEach(s, c, ps) \in Seq(S)
         /\ ps # {} => Has(PrependEach(s, c, ps), c)
         /\ \A d : Has(s, d) => Has(PrependEach(s, c, ps), d)
<1>1. Prepend(s, c) \in Seq(S) /\ Has(Prepend(s, c), c)
      /\ \A d : Has(s, d) => Has(Prepend(s, c), d)
  BY PrependHas
<1>2. /\ Prepend(Prepend(s, c), c) \in Seq(S)
      /\ Has(Prepend(Prepend(s, c), c), c)
      /\ \A d : Has(s, d) => Has(Prepend(Prepend(s, c), c), d)
  BY <1>1, PrependHas
<1>3. QED
  BY <1>1, <1>2 DEF PrependEach
-----------------------------------------------------------------------------
(***************************************************************************)
(* Types                                                                   *)
(***************************************************************************)
\* assign keeps the types.
LEMMA AssignType ==
  ASSUME TypeInv, NEW l \in Lits, NEW from, assign(l, from)
  PROVE  /\ value' \in [Vars -> {UNASSIGNED, 0, 1}] /\ level' \in [Vars -> Int]
         /\ assignment_trackers' \in Seq(Seq(Vars))
         /\ decision_level' = decision_level
<1>1. Var(l) \in Vars
  BY LitFacts
<1>2. decision_level \in 1..Len(assignment_trackers)
  BY DEF TypeInv, decision_level
<1>3. TopList \in Seq(Vars)
  BY <1>2 DEF TypeInv, TopList
<1>4. <<Var(l)>> \o TopList \in Seq(Vars)
  BY <1>1, <1>3
<1>5. assignment_trackers' = [assignment_trackers EXCEPT ![decision_level] = <<Var(l)>> \o TopList]
  BY DEF assign, TopList
<1>6. assignment_trackers' \in Seq(Seq(Vars)) /\ Len(assignment_trackers') = Len(assignment_trackers)
  BY <1>2, <1>4, <1>5 DEF TypeInv
<1>7. QED
  BY <1>1, <1>2, <1>6 DEF assign, TypeInv, UNASSIGNED, decision_level

\* The literal at the head of the queue.
LEMMA FrontLit ==
  ASSUME TypeInv, ~is_q_empty(queue)
  PROVE  Front(queue).lit \in Lits
<1>1. IsRing(queue) /\ \A k \in DOMAIN Contents(queue) : Contents(queue)[k].lit \in Lits
  BY DEF TypeInv
<1>2. Front(queue) = Head(Contents(queue)) /\ Contents(queue) # <<>>
  BY <1>1, RingPop
<1>3. Contents(queue) = [k \in 1..queue.itemCount |-> queue.queue[PlaceOf(queue, k)]]
      /\ queue.itemCount \in Nat
  BY <1>1, QueueAssumption DEF Contents, IsRing
<1>4. 1 \in DOMAIN Contents(queue) /\ Head(Contents(queue)) = Contents(queue)[1]
  BY <1>2, <1>3
<1>5. QED
  BY <1>1, <1>2, <1>4

\* The queue keeps its type when a literal is pushed, one is popped, or all are
\* thrown away.
LitsOnly(q) == IsRing(q) /\ \A k \in DOMAIN Contents(q) : Contents(q)[k].lit \in Lits

\* The ring holds literals before and after an operation.
LEMMA QueueType ==
  ASSUME NEW q, LitsOnly(q)
  PROVE  /\ \A x : x.lit \in Lits => LitsOnly(push(q, x))
         /\ ~is_q_empty(q) => LitsOnly(pop(q))
         /\ LitsOnly(reset(q))
<1>1. /\ IsRing(q) /\ q.itemCount \in Nat
      /\ Contents(q) = [k \in 1..q.itemCount |-> q.queue[PlaceOf(q, k)]]
  BY QueueAssumption DEF LitsOnly, Contents, IsRing
<1>2. Len(Contents(q)) = q.itemCount /\ DOMAIN Contents(q) = 1..q.itemCount
      /\ \A k \in 1..q.itemCount : Contents(q)[k].lit \in Lits
  <2>1. \A k \in DOMAIN Contents(q) : Contents(q)[k].lit \in Lits
    BY DEF LitsOnly
  <2> DEFINE C == Contents(q)
  <2>2. C = [k \in 1..q.itemCount |-> q.queue[PlaceOf(q, k)]]
    BY <1>1
  <2> HIDE DEF C
  <2>3. Len(C) = q.itemCount /\ DOMAIN C = 1..q.itemCount
    BY <1>1, <2>2
  <2>4. QED
    BY <2>1, <2>3 DEF C
<1>3. ASSUME NEW x, x.lit \in Lits PROVE LitsOnly(push(q, x))
  <2>1. CASE is_full(q)
    BY <2>1, RingPushFull
  <2>2. CASE ~is_full(q)
    <3>1. IsRing(push(q, x)) /\ Contents(push(q, x)) = Append(Contents(q), x)
      BY <1>1, <2>2, RingPush
    <3>2. Append(Contents(q), x) = [k \in 1..(q.itemCount + 1) |->
                                      IF k = q.itemCount + 1 THEN x ELSE Contents(q)[k]]
      BY <1>1, <1>2
    <3>3. \A k \in 1..(q.itemCount + 1) : Append(Contents(q), x)[k].lit \in Lits
      BY <1>1, <1>2, <1>3, <3>2
    <3>4. QED
      BY <3>1, <3>2, <3>3 DEF LitsOnly
  <2>3. QED
    BY <2>1, <2>2
<1>4. ASSUME ~is_q_empty(q) PROVE LitsOnly(pop(q))
  <2>1. IsRing(pop(q)) /\ Contents(q) # <<>> /\ Contents(pop(q)) = Tail(Contents(q))
    BY <1>1, <1>4, RingPop
  <2>2. Tail(Contents(q)) = [k \in 1..(q.itemCount - 1) |-> Contents(q)[k + 1]]
    BY <1>1, <1>2, <2>1
  <2>3. ASSUME NEW k \in 1..(q.itemCount - 1) PROVE Tail(Contents(q))[k].lit \in Lits
    <3>1. k + 1 \in 1..q.itemCount
      BY <1>1
    <3>2. Tail(Contents(q))[k] = Contents(q)[k + 1]
      BY <2>2
    <3>3. QED
      BY <1>2, <3>1, <3>2
  <2>4. QED
    BY <2>1, <2>2, <2>3 DEF LitsOnly
<1>5. LitsOnly(reset(q))
  BY <1>1, RingReset DEF LitsOnly
<1>6. QED
  BY <1>3, <1>4, <1>5

\* A turn of learn_clause that calls merge.
StartMerge ==
  /\ Running /\ pc = "learn"
  /\ \E k \in DOMAIN assigned_literals :
       /\ Resolvable(k)
       /\ LET v == Var(assigned_literals[k]) IN
            /\ v \notin visited /\ visited' = visited \cup {v}
            /\ resolvent' = v /\ this' = antecedent[v] /\ iB' = 1
  /\ pc' = "merge"
  /\ UNCHANGED <<F, pos, assigned, heap, watching, bcp, clause, bt_level,
                 conflict_at_top, size, n_add, output, status>>

\* A turn for a variable that was resolved on before.
SkipVisited ==
  /\ Running /\ pc = "learn"
  /\ \E k \in DOMAIN assigned_literals :
       Resolvable(k) /\ Var(assigned_literals[k]) \in visited
  /\ pos' = pos + 1
  /\ UNCHANGED <<F, pc, assigned, heap, watching, bcp, conflict, output, status>>

\* There are no other turns.
LEMMA Turns == learn_clause => StartMerge \/ SkipVisited
<1> SUFFICES ASSUME learn_clause PROVE StartMerge \/ SkipVisited
  OBVIOUS
<1>1. PICK k \in DOMAIN assigned_literals :
        /\ Resolvable(k)
        /\ LET v == Var(assigned_literals[k]) IN
             IF v \in visited
             THEN pos' = pos + 1 /\ UNCHANGED <<pc, visited, merging>>
             ELSE /\ visited' = visited \cup {v}
                  /\ resolvent' = v /\ this' = antecedent[v] /\ iB' = 1
                  /\ pc' = "merge" /\ pos' = pos
  BY Zenon DEF learn_clause
<1>2. /\ Running /\ pc = "learn"
      /\ UNCHANGED <<F, assigned, heap, watching, bcp, clause, bt_level,
                     conflict_at_top, size, n_add, output, status>>
  BY Zenon DEF learn_clause
<1>3. CASE Var(assigned_literals[k]) \in visited
  <2>1. pos' = pos + 1 /\ UNCHANGED <<pc, visited, merging>>
    BY <1>1, <1>3
  <2>2. UNCHANGED conflict
    BY <1>2, <2>1 DEF conflict
  <2>3. QED
    BY <1>1, <1>2, <1>3, <2>1, <2>2, Zenon DEF SkipVisited
<1>4. CASE Var(assigned_literals[k]) \notin visited
  BY <1>1, <1>2, <1>4, Zenon DEF StartMerge
<1>5. QED
  BY <1>3, <1>4

\* One turn of learn_clause or of merge.
Resolving == learn_clause \/ merge \/ MergeDone

\* A turn of the analysis touches nothing but the clause being learnt.
LEMMA ResolvingFacts ==
  ASSUME Resolving
  PROVE  /\ status = "running" /\ pc \in {"learn", "merge"} /\ pc' \in {"learn", "merge"}
         /\ UNCHANGED <<F, assigned, heap, watching, bcp, bt_level, conflict_at_top,
                        size, n_add, output>>
         /\ pos' = pos \/ pos' = pos + 1
         /\ status' = status \/ status' = "crashed"
<1>1. CASE StartMerge
  BY <1>1, Zenon DEF StartMerge, Running
<1>2. CASE SkipVisited
  BY <1>2, Zenon DEF SkipVisited, Running, conflict
<1>3. CASE merge
  BY <1>3, Zenon DEF merge, Running, CrashIf
<1>4. CASE MergeDone
  BY <1>4, Zenon DEF MergeDone, Running
<1>5. QED
  BY <1>1, <1>2, <1>3, <1>4, Turns DEF Resolving

\* Every action keeps the types.
LEMMA TypeStep ==
  ASSUME IInv, [Next]_vars
  PROVE  TypeInv'
<1> USE DEF IInv
<1>q. LitsOnly(queue)
  BY DEF TypeInv, LitsOnly
<1>t. assignment_trackers \in Seq(Seq(Vars)) /\ decision_level = Len(assignment_trackers)
      /\ decision_level \in Nat \ {0} /\ decision_level \in DOMAIN assignment_trackers
  BY DEF TypeInv, decision_level
<1>1. CASE Begin
  <2>1. CASE InitTable
    BY <2>1 DEF InitTable, CrashIf, TypeInv, assigned, bcp, conflict, output, watching, decision_level
  <2>2. CASE InitWatched
    <3>1. pos \in DOMAIN F
      <4>1. F \in Seq(Seq(Lits)) /\ pos \in Nat \ {0} /\ pos <= Len(F)
        BY <2>2 DEF InitWatched, TypeInv, Formulas
      <4>2. QED
        BY <4>1
    <3>2. FirstWatched(pos) \in [1..2 -> Nat]
      <4>1. \A i, j \in Nat : <<i, j>> \in [1..2 -> Nat]
        OBVIOUS
      <4>2. QED
        BY <4>1 DEF FirstWatched
    <3>3. w_clauses' \in [Vars -> Seq(DOMAIN F)]
      BY <2>2, <3>1, PrependEachHas DEF InitWatched, TypeInv
    <3>4. watched' \in [DOMAIN F -> [1..2 -> Nat]]
      BY <2>2, <3>1, <3>2 DEF InitWatched, TypeInv
    <3>5. QED
      BY <2>2, <3>3, <3>4 DEF InitWatched, TypeInv, assigned, bcp, conflict, output, decision_level
  <2>3. CASE InitEmptyClause
    BY <2>3 DEF InitEmptyClause, TypeInv, assigned, bcp, conflict, output, watching, decision_level
  <2>4. CASE InitDone
    BY <2>4 DEF InitDone, TypeInv, assigned, bcp, conflict, output, watching, decision_level
  <2>5. QED
    BY <1>1, <2>1, <2>2, <2>3, <2>4 DEF Begin
<1>2. CASE Search
  <2>1. CASE PlpAssign
    <3>1. PICK l \in {pos, -pos} :
            IF IsUnassigned(l) THEN assign(l, NoClause) /\ UNCHANGED status
            ELSE status' = "error" /\ UNCHANGED <<assigned, table>>
      BY <2>1 DEF PlpAssign
    <3>2. l \in Lits
      <4>1. pos \in Vars
        BY <2>1, NAssumption DEF PlpAssign, TypeInv, Vars
      <4>2. pos \in Lits /\ -pos \in Lits
        BY <4>1, LitFacts
      <4>3. QED
        BY <4>2
    <3>3. /\ value' \in [Vars -> {UNASSIGNED, 0, 1}] /\ level' \in [Vars -> Int]
          /\ assignment_trackers' \in Seq(Seq(Vars)) /\ decision_level' > 0
          /\ status' \in {"running", "error"}
      <4>1. CASE IsUnassigned(l)
        BY <1>t, <2>1, <3>1, <3>2, <4>1, AssignType DEF PlpAssign, Running
      <4>2. CASE ~IsUnassigned(l)
        BY <2>1, <3>1, <4>2 DEF assigned, TypeInv, decision_level
      <4>3. QED
        BY <4>1, <4>2
    <3>4. QED
      BY <2>1, <3>3 DEF PlpAssign, TypeInv, bcp, conflict, output, watching
  <2>2. CASE PlpSkip
    BY <2>2 DEF PlpSkip, TypeInv, assigned, bcp, conflict, output, watching, decision_level
  <2>3. CASE PlpDone
    BY <2>3 DEF PlpDone, TypeInv, assigned, bcp, conflict, output, watching, decision_level
  <2>4. CASE decide
    <3>1. cur'.lit \in Lits \cup {0} /\ pc' \in {"start", "decide"}
      BY <2>4 DEF decide, TypeInv
    <3>2. /\ conflict_at_top' = FALSE
          /\ UNCHANGED <<F, pos, assigned, watching, queue, walk, bt_level, output, status>>
      BY <2>4 DEF decide
    <3>3. QED
      BY <3>1, <3>2 DEF TypeInv, assigned, output, watching, decision_level
  <2>5. CASE SaySat
    BY <2>5 DEF SaySat, TypeInv, assigned, bcp, conflict, watching, decision_level
  <2>6. QED
    BY <1>2, <2>1, <2>2, <2>3, <2>4, <2>5 DEF Search
<1>3. CASE Propagate
  <2>1. CASE BcpStart
    <3>1. LitsOnly(queue')
      BY <1>q, <2>1, QueueType DEF BcpStart, CursorInv
    <3>2. QED
      BY <2>1, <3>1 DEF BcpStart, LitsOnly, TypeInv, assigned, conflict, output, watching, decision_level
  <2>2. CASE BcpAssign
    <3>1. cur'.lit \in Lits /\ assign(cur'.lit, cur'.antecedent)
      BY <2>2, FrontLit DEF BcpAssign
    <3>2. LitsOnly(queue')
      BY <1>q, <2>2, QueueType DEF BcpAssign
    <3>3. walk' \in Seq(DOMAIN F)
      BY <2>2, <3>1, LitFacts DEF BcpAssign, TypeInv
    <3>4. /\ value' \in [Vars -> {UNASSIGNED, 0, 1}] /\ level' \in [Vars -> Int]
          /\ assignment_trackers' \in Seq(Seq(Vars)) /\ decision_level' = decision_level
      BY <3>1, AssignType
    <3>5. QED
      BY <2>2, <3>1, <3>2, <3>3, <3>4 DEF BcpAssign, LitsOnly, TypeInv, conflict, output, watching
  <2>3. CASE BcpSkip
    <3>1. LitsOnly(queue')
      BY <1>q, <2>3, QueueType DEF BcpSkip
    <3>2. QED
      BY <2>3, <3>1 DEF BcpSkip, LitsOnly, TypeInv, assigned, conflict, output, watching, decision_level
  <2>4. CASE BcpDone
    <3>1. LitsOnly(queue')
      BY <1>q, <2>4, QueueType DEF BcpDone
    <3>2. assignment_trackers' \in Seq(Seq(Vars)) /\ decision_level' > 0
      BY <1>t, <2>4 DEF BcpDone, decision_level
    <3>3. QED
      BY <2>4, <3>1, <3>2 DEF BcpDone, LitsOnly, TypeInv, conflict, output, watching
  <2>v. Visiting => /\ Head(walk) \in DOMAIN F /\ Tail(walk) \in Seq(DOMAIN F)
                    /\ Listed(Head(walk))
    BY DEF Visiting, TypeInv, WatchInv, ClauseIds
  <2>5. CASE VisitOther
    BY <2>5, <2>v DEF VisitOther, TypeInv, assigned, conflict, output, watching, decision_level
  <2>6. CASE VisitMove
    <3>1. Head(walk) \in DOMAIN F /\ Tail(walk) \in Seq(DOMAIN F) /\ Rewatch(Head(walk))
      BY <2>6, <2>v DEF VisitMove
    <3>2. w_clauses' \in [Vars -> Seq(DOMAIN F)]
      BY <3>1, PrependEachHas DEF Rewatch, TypeInv
    <3>3. NewIndex(Head(walk)) \in 1..2 /\ NewWatches(Head(walk)) \subseteq Nat
      <4>1. F[Head(walk)] \in Seq(Lits)
        BY <3>1 DEF TypeInv, Formulas
      <4>2. NewWatches(Head(walk)) \subseteq DOMAIN F[Head(walk)]
        BY DEF NewWatches, Inspected
      <4>3. QED
        BY <4>1, <4>2 DEF NewIndex
    <3>4. watched' \in [DOMAIN F -> [1..2 -> Nat]]
      <4>1. watched \in [DOMAIN F -> [1..2 -> Nat]]
        BY DEF TypeInv
      <4>2. CASE NewWatches(Head(walk)) = {}
        BY <3>1, <4>1, <4>2 DEF Rewatch
      <4>3. CASE NewWatches(Head(walk)) # {}
        <5>1. PICK p \in NewWatches(Head(walk)) :
                watched' = [watched EXCEPT ![Head(walk)][NewIndex(Head(walk))] = p]
          BY <3>1, <4>3 DEF Rewatch
        <5>2. watched[Head(walk)] \in [1..2 -> Nat] /\ p \in Nat
          BY <3>1, <3>3, <4>1
        <5>3. [watched[Head(walk)] EXCEPT ![NewIndex(Head(walk))] = p] \in [1..2 -> Nat]
          BY <3>3, <5>2
        <5>4. QED
          BY <3>1, <4>1, <5>1, <5>3
      <4>4. QED
        BY <4>2, <4>3
    <3>5. QED
      BY <2>6, <3>1, <3>2, <3>4 DEF VisitMove, TypeInv, assigned, conflict, output, decision_level
  <2>7. CASE VisitUnit
    <3> DEFINE c == Head(walk)
    <3>1. /\ c \in DOMAIN F /\ Tail(walk) \in Seq(DOMAIN F) /\ Listed(c)
          /\ queue' = push(queue, [lit |-> WatchedLit(c, 3 - NewIndex(c)),
                                   antecedent |-> Original(c)])
          /\ walk' = Tail(walk)
      BY <2>7, <2>v DEF VisitUnit
    <3>2. 3 - NewIndex(c) \in 1..2
      BY DEF NewIndex
    <3>3. WatchedLit(c, 3 - NewIndex(c)) \in Lits
      BY <3>1, <3>2, LitOfClause DEF Listed, WatchedLit, TypeInv
    <3> HIDE DEF c
    <3>4. LitsOnly(queue')
      BY <1>q, <3>1, <3>3, QueueType
    <3>5. QED
      BY <2>7, <3>1, <3>4 DEF VisitUnit, LitsOnly, TypeInv, assigned, conflict, output, watching, decision_level
  <2>8. CASE VisitConflict
    <3>1. LitsOnly(queue')
      BY <1>q, <2>8, QueueType DEF VisitConflict
    <3>2. QED
      BY <2>8, <3>1 DEF VisitConflict, LitsOnly, TypeInv, assigned, output, watching, decision_level
  <2>9. CASE SayUnsat
    <3>1. LitsOnly(queue')
      BY <1>q, <2>9, QueueType DEF SayUnsat
    <3>2. QED
      BY <2>9, <3>1 DEF SayUnsat, LitsOnly, TypeInv, assigned, conflict, watching, decision_level
  <2>10. CASE VisitDone
    BY <2>10 DEF VisitDone, TypeInv, assigned, bcp, conflict, output, watching, decision_level
  <2>11. QED
    BY <1>3, <2>1, <2>2, <2>3, <2>4, <2>5, <2>6, <2>7, <2>8, <2>9, <2>10 DEF Propagate
<1>4. CASE Analyze
  <2>1. CASE Resolving
    BY <2>1, ResolvingFacts DEF TypeInv, assigned, bcp, output, watching, decision_level
  <2>2. CASE get_backtracking_level
    BY <1>t, <2>2 DEF get_backtracking_level, TypeInv, assigned, output, watching, decision_level
  <2>3. CASE cancel
    <3>1. TopList \in Seq(Vars) /\ TopList # <<>>
      BY <1>t, <2>3 DEF cancel, TopList
    <3>2. Head(TopList) \in Vars /\ Tail(TopList) \in Seq(Vars)
      BY <3>1
    <3>3. assignment_trackers' = [assignment_trackers EXCEPT ![decision_level] = Tail(TopList)]
      BY <2>3 DEF cancel, TopList
    <3>4. assignment_trackers' \in Seq(Seq(Vars)) /\ decision_level' = decision_level
      BY <1>t, <3>2, <3>3 DEF decision_level
    <3>5. value' \in [Vars -> {UNASSIGNED, 0, 1}] /\ level' \in [Vars -> Int]
      BY <2>3, <3>2 DEF cancel, TypeInv, UNASSIGNED
    <3>6. QED
      BY <2>3, <3>4, <3>5 DEF cancel, CrashIf, TypeInv, bcp, conflict, output, watching
  <2>4. CASE CancelLevel
    <3>1. assignment_trackers' \in Seq(Seq(Vars)) /\ decision_level' > 0
      BY <1>t, <2>4 DEF CancelLevel, decision_level
    <3>2. QED
      BY <2>4, <3>1 DEF CancelLevel, TypeInv, bcp, conflict, output, watching
  <2>5. CASE add_learnt_clause
    <3>1. pc' \in {"learnt", "scores"} /\ pos' = 1
      BY <2>5, Zenon DEF add_learnt_clause
    <3>2. UNCHANGED <<F, assigned, watching, bcp, bt_level, conflict_at_top, output, status>>
      BY <2>5, Zenon DEF add_learnt_clause
    <3>3. UNCHANGED <<F, value, level, assignment_trackers, watched, w_clauses, walk, queue,
                      cur, bt_level, conflict_at_top, said, status>>
      BY <3>2, Zenon DEF assigned, bcp, output, watching
    <3>4. pc' \in {"table", "watch", "plp", "decide", "start", "bcp", "visit", "learn",
                   "merge", "backtrack", "scores", "decay", "learnt", "report"}
          /\ pos' \in Nat \ {0} /\ decision_level' = decision_level
      BY <3>1, <3>3 DEF decision_level
    <3>5. QED
      BY <3>3, <3>4 DEF TypeInv
  <2>6. CASE update_scores
    BY <2>6 DEF update_scores, CrashIf, TypeInv, assigned, bcp, conflict, output, watching, decision_level
  <2>7. CASE UpdateDone
    BY <2>7 DEF UpdateDone, TypeInv, assigned, bcp, conflict, output, watching, decision_level
  <2>8. CASE decaying_sum
    BY <2>8 DEF decaying_sum, CrashIf, TypeInv, assigned, bcp, conflict, output, watching, decision_level
  <2>9. CASE LearntDone
    BY <2>9 DEF LearntDone, CrashIf, TypeInv, assigned, bcp, output, watching, decision_level
  <2>10. QED
    BY <1>4, <2>1, <2>2, <2>3, <2>4, <2>5, <2>6, <2>7, <2>8, <2>9 DEF Analyze, Resolving
<1>5. CASE PrintLit \/ Finish \/ termination_handler \/ UNCHANGED vars
  <2>1. UNCHANGED <<F, pc, pos, assigned, watching, bcp, conflict, said>>
    BY <1>5, Zenon DEF PrintLit, Finish, termination_handler, vars, output
  <2>2. status' = status \/ status' \in {"finished", "signalled"}
    BY <1>5, Zenon DEF PrintLit, Finish, termination_handler, vars
  <2>3. QED
    BY <2>1, <2>2 DEF TypeInv, assigned, bcp, conflict, watching, decision_level
<1>6. QED
  BY <1>1, <1>2, <1>3, <1>4, <1>5 DEF Next, Step
-----------------------------------------------------------------------------
(***************************************************************************)
(* Levels                                                                  *)
(***************************************************************************)
\* An assignment at the current level keeps lists and values in agreement.
LEMMA AssignLevel ==
  ASSUME TypeInv, LevelInv, NEW l \in Lits, IsUnassigned(l), NEW from, assign(l, from)
  PROVE  LevelInv'
<1> DEFINE T == assignment_trackers
           D == decision_level
           v == Var(l)
<1>1. v \in Vars /\ value[v] = UNASSIGNED
  BY LitFacts DEF IsUnassigned
<1>2. /\ T \in Seq(Seq(Vars)) /\ D = Len(T) /\ D \in Nat \ {0}
      /\ T[D] \in Seq(Vars) /\ value \in [Vars -> {UNASSIGNED, 0, 1}]
      /\ level \in [Vars -> Int]
  BY DEF TypeInv, decision_level
<1>3. /\ T' = [T EXCEPT ![D] = <<v>> \o T[D]] /\ D' = D
      /\ value' = [value EXCEPT ![v] = IF l > 0 THEN 1 ELSE 0]
      /\ level' = [level EXCEPT ![v] = D]
  BY <1>2 DEF assign, decision_level
<1>4. /\ \A k \in 1..D : k # D => T'[k] = T[k]
      /\ T'[D] \in Seq(Vars) /\ Len(T'[D]) = Len(T[D]) + 1 /\ T'[D][1] = v
      /\ \A i \in 1..Len(T[D]) : T'[D][i + 1] = T[D][i]
  BY <1>1, <1>2, <1>3
<1>5. /\ value'[v] # UNASSIGNED /\ level'[v] = D
      /\ \A w \in Vars : w # v => value'[w] = value[w] /\ level'[w] = level[w]
  BY <1>1, <1>2, <1>3 DEF UNASSIGNED
<1>6. /\ \A k \in 1..D : \A i \in DOMAIN T[k] :
           /\ T[k][i] \in Vars /\ value[T[k][i]] # UNASSIGNED /\ level[T[k][i]] = k
           /\ \A j \in DOMAIN T[k] : j # i => T[k][j] # T[k][i]
      /\ \A w \in Vars : value[w] # UNASSIGNED =>
           level[w] \in 1..D /\ \E i \in DOMAIN T[level[w]] : T[level[w]][i] = w
  BY <1>2 DEF LevelInv
<1>d. /\ Len(T[D]) \in Nat /\ DOMAIN T[D] = 1..Len(T[D])
      /\ DOMAIN T'[D] = 1..(Len(T[D]) + 1)
  BY <1>2, <1>4
<1> HIDE DEF T, D, v
<1>7. ASSUME NEW k \in 1..D, NEW i \in DOMAIN T'[k]
      PROVE  /\ value'[T'[k][i]] # UNASSIGNED /\ level'[T'[k][i]] = k
             /\ \A j \in DOMAIN T'[k] : j # i => T'[k][j] # T'[k][i]
  <2>1. CASE k # D
    <3>1. T'[k] = T[k]
      BY <1>4, <2>1
    <3>2. /\ T[k][i] \in Vars /\ value[T[k][i]] # UNASSIGNED /\ level[T[k][i]] = k
          /\ \A j \in DOMAIN T[k] : j # i => T[k][j] # T[k][i]
      BY <1>6, <1>7, <3>1
    <3>3. QED
      BY <1>1, <1>5, <3>1, <3>2
  <2>2. CASE k = D
    <3>1. ASSUME NEW j \in 1..Len(T[D])
          PROVE  /\ T[D][j] \in Vars /\ T[D][j] # v
                 /\ value[T[D][j]] # UNASSIGNED /\ level[T[D][j]] = D
      <4>1. D \in 1..D /\ j \in DOMAIN T[D]
        BY <1>d, <2>2
      <4>2. QED
        BY <1>1, <1>6, <4>1
    <3>2. ASSUME NEW j \in DOMAIN T'[D], j # 1
          PROVE  j - 1 \in 1..Len(T[D]) /\ T'[D][j] = T[D][j - 1]
      <4>1. j - 1 \in 1..Len(T[D]) /\ (j - 1) + 1 = j
        BY <1>d, <3>2
      <4>2. QED
        BY <1>4, <4>1
    <3>3. CASE i = 1
      <4>1. T'[D][i] = v /\ \A j \in DOMAIN T'[D] : j # i => T'[D][j] # v
        <5>1. T'[D][i] = v
          BY <1>4, <3>3
        <5>2. ASSUME NEW j \in DOMAIN T'[D], j # i PROVE T'[D][j] # v
          <6>1. j - 1 \in 1..Len(T[D]) /\ T'[D][j] = T[D][j - 1]
            BY <3>2, <3>3, <5>2
          <6>2. QED
            BY <3>1, <6>1
        <5>3. QED
          BY <5>1, <5>2
      <4>2. QED
        BY <1>5, <2>2, <4>1
    <3>4. CASE i # 1
      <4>1. i - 1 \in 1..Len(T[D]) /\ T'[D][i] = T[D][i - 1]
        BY <1>7, <2>2, <3>2, <3>4
      <4>2. value'[T'[D][i]] # UNASSIGNED /\ level'[T'[D][i]] = D
        BY <1>5, <3>1, <4>1
      <4>3. ASSUME NEW j \in DOMAIN T'[D], j # i PROVE T'[D][j] # T'[D][i]
        <5>1. CASE j = 1
          BY <1>4, <3>1, <4>1, <5>1
        <5>2. CASE j # 1
          <6>1. j - 1 \in 1..Len(T[D]) /\ T'[D][j] = T[D][j - 1]
            BY <3>2, <5>2
          <6>2. j - 1 # i - 1
            BY <1>d, <2>2, <1>7, <4>3
          <6>3. D \in 1..D /\ DOMAIN T[D] = 1..Len(T[D])
            BY <1>2, <1>d
          <6>4. QED
            BY <1>6, <4>1, <6>1, <6>2, <6>3
        <5>3. QED
          BY <5>1, <5>2
      <4>4. QED
        BY <2>2, <4>2, <4>3
    <3>5. QED
      BY <3>3, <3>4
  <2>3. QED
    BY <2>1, <2>2
<1>8. ASSUME NEW w \in Vars, value'[w] # UNASSIGNED
      PROVE  level'[w] \in 1..D /\ \E i \in DOMAIN T'[level'[w]] : T'[level'[w]][i] = w
  <2>1. CASE w = v
    <3>1. 1 \in DOMAIN T'[D] /\ T'[D][1] = w /\ D \in 1..D
      BY <1>2, <1>4, <2>1
    <3>2. QED
      BY <1>5, <2>1, <3>1
  <2>2. CASE w # v
    <3>1. level'[w] = level[w] /\ level[w] \in 1..D
      BY <1>5, <1>6, <1>8, <2>2
    <3>2. PICK i \in DOMAIN T[level[w]] : T[level[w]][i] = w
      BY <1>5, <1>6, <1>8, <2>2
    <3>3. CASE level[w] # D
      BY <1>4, <3>1, <3>2, <3>3
    <3>4. CASE level[w] = D
      <4>1. i \in 1..Len(T[D]) /\ i + 1 \in DOMAIN T'[D] /\ T'[D][i + 1] = w
        BY <1>4, <1>d, <3>2, <3>4
      <4>2. QED
        BY <3>1, <3>4, <4>1
    <3>5. QED
      BY <3>3, <3>4
  <2>3. QED
    BY <2>1, <2>2
<1>9. QED
  BY <1>3, <1>7, <1>8 DEF LevelInv, T, D

\* So does the cancelling of the last assignment of the current level.
LEMMA CancelKeepsLevel ==
  ASSUME TypeInv, LevelInv, cancel
  PROVE  /\ LevelInv' /\ decision_level' = decision_level
         /\ Head(TopList) \in Vars
         /\ value[Head(TopList)] # UNASSIGNED /\ level[Head(TopList)] = decision_level
<1> DEFINE T == assignment_trackers
           D == decision_level
           v == Head(TopList)
<1>1. /\ T \in Seq(Seq(Vars)) /\ D = Len(T) /\ D \in Nat \ {0} /\ TopList = T[D]
      /\ T[D] \in Seq(Vars) /\ T[D] # <<>>
      /\ value \in [Vars -> {UNASSIGNED, 0, 1}] /\ level \in [Vars -> Int]
  BY DEF TypeInv, decision_level, cancel, TopList
<1>2. /\ T' = [T EXCEPT ![D] = Tail(T[D])]
      /\ value' = [value EXCEPT ![v] = UNASSIGNED]
      /\ level' = [level EXCEPT ![v] = -1]
  BY DEF cancel
<1>3. v = T[D][1] /\ v \in Vars /\ 1 \in DOMAIN T[D] /\ D \in 1..D
  BY <1>1
<1>4. /\ D' = D /\ \A k \in 1..D : k # D => T'[k] = T[k]
      /\ T'[D] \in Seq(Vars) /\ Len(T'[D]) = Len(T[D]) - 1
      /\ \A i \in 1..(Len(T[D]) - 1) : T'[D][i] = T[D][i + 1]
  BY <1>1, <1>2 DEF decision_level
<1>5. /\ value'[v] = UNASSIGNED
      /\ \A w \in Vars : w # v => value'[w] = value[w] /\ level'[w] = level[w]
  BY <1>1, <1>2, <1>3
<1>6. /\ \A k \in 1..D : \A i \in DOMAIN T[k] :
           /\ T[k][i] \in Vars /\ value[T[k][i]] # UNASSIGNED /\ level[T[k][i]] = k
           /\ \A j \in DOMAIN T[k] : j # i => T[k][j] # T[k][i]
      /\ \A w \in Vars : value[w] # UNASSIGNED =>
           level[w] \in 1..D /\ \E i \in DOMAIN T[level[w]] : T[level[w]][i] = w
  BY <1>1 DEF LevelInv
<1>7. value[v] # UNASSIGNED /\ level[v] = D
  BY <1>3, <1>6
<1>d. /\ Len(T[D]) \in Nat /\ DOMAIN T[D] = 1..Len(T[D])
      /\ DOMAIN T'[D] = 1..(Len(T[D]) - 1)
  BY <1>1, <1>4
<1> HIDE DEF T, D, v
<1>8. ASSUME NEW k \in 1..D, NEW i \in DOMAIN T'[k]
      PROVE  /\ value'[T'[k][i]] # UNASSIGNED /\ level'[T'[k][i]] = k
             /\ \A j \in DOMAIN T'[k] : j # i => T'[k][j] # T'[k][i]
  <2>1. CASE k # D
    <3>1. T'[k] = T[k]
      BY <1>4, <2>1
    <3>2. /\ T[k][i] \in Vars /\ value[T[k][i]] # UNASSIGNED /\ level[T[k][i]] = k
          /\ \A j \in DOMAIN T[k] : j # i => T[k][j] # T[k][i]
      BY <1>6, <1>8, <3>1
    <3>3. T[k][i] # v
      BY <1>7, <2>1, <3>2
    <3>4. QED
      BY <1>5, <3>1, <3>2, <3>3
  <2>2. CASE k = D
    <3>1. \A j \in DOMAIN T'[D] : /\ j + 1 \in DOMAIN T[D] /\ j + 1 # 1
                                  /\ T'[D][j] = T[D][j + 1]
      BY <1>4, <1>d
    <3>2. i + 1 \in DOMAIN T[D] /\ i + 1 # 1 /\ T'[D][i] = T[D][i + 1]
      BY <1>8, <2>2, <3>1
    <3>3. /\ T[D][i + 1] \in Vars /\ T[D][i + 1] # v
          /\ value[T[D][i + 1]] # UNASSIGNED /\ level[T[D][i + 1]] = D
      BY <1>3, <1>6, <3>2
    <3>4. ASSUME NEW j \in DOMAIN T'[D], j # i PROVE T'[D][j] # T'[D][i]
      <4>1. j + 1 \in DOMAIN T[D] /\ T'[D][j] = T[D][j + 1] /\ j + 1 # i + 1
        BY <1>4, <1>8, <2>2, <3>1, <3>4
      <4>2. QED
        BY <1>3, <1>6, <3>2, <4>1
    <3>5. QED
      BY <1>5, <2>2, <3>2, <3>3, <3>4
  <2>3. QED
    BY <2>1, <2>2
<1>9. ASSUME NEW w \in Vars, value'[w] # UNASSIGNED
      PROVE  level'[w] \in 1..D /\ \E i \in DOMAIN T'[level'[w]] : T'[level'[w]][i] = w
  <2>1. w # v /\ level'[w] = level[w] /\ level[w] \in 1..D
    BY <1>5, <1>6, <1>9
  <2>2. PICK i \in DOMAIN T[level[w]] : T[level[w]][i] = w
    BY <1>5, <1>6, <1>9, <2>1
  <2>3. CASE level[w] # D
    BY <1>4, <2>1, <2>2, <2>3
  <2>4. CASE level[w] = D
    <3>1. i # 1 /\ i \in 1..Len(T[D])
      BY <1>d, <1>3, <2>1, <2>2, <2>4
    <3>2. i - 1 \in 1..(Len(T[D]) - 1) /\ i - 1 \in DOMAIN T'[D] /\ (i - 1) + 1 = i
      BY <1>d, <3>1
    <3>3. T'[D][i - 1] = w
      BY <1>4, <2>2, <2>4, <3>2
    <3>4. QED
      BY <2>1, <2>4, <3>2, <3>3
  <2>5. QED
    BY <2>3, <2>4
<1>10. LevelInv'
  BY <1>4, <1>8, <1>9 DEF LevelInv, T, D
<1>11. QED
  BY <1>3, <1>4, <1>7, <1>10 DEF D, v

\* Every action keeps levels and assignments in agreement.
LEMMA LevelStep ==
  ASSUME IInv, [Next]_vars
  PROVE  LevelInv'
<1> USE DEF IInv
<1>1. CASE UNCHANGED <<value, level, assignment_trackers>>
  BY <1>1 DEF LevelInv, decision_level, UNASSIGNED
<1>2. CASE PlpAssign
  <2>1. PICK l \in {pos, -pos} :
          IF IsUnassigned(l) THEN assign(l, NoClause) /\ UNCHANGED status
          ELSE status' = "error" /\ UNCHANGED <<assigned, table>>
    BY <1>2 DEF PlpAssign
  <2>2. l \in Lits
    <3>1. pos \in Vars
      BY <1>2, NAssumption DEF PlpAssign, TypeInv, Vars
    <3>2. pos \in Lits /\ -pos \in Lits
      BY <3>1, LitFacts
    <3>3. QED
      BY <3>2
  <2>3. QED
    BY <1>1, <2>1, <2>2, AssignLevel DEF assigned
<1>3. CASE BcpAssign
  <2>1. /\ cur'.lit \in Lits /\ assign(cur'.lit, cur'.antecedent)
        /\ IsUnassigned(cur'.lit)
    BY <1>3, FrontLit DEF BcpAssign
  <2>2. QED
    BY <2>1, AssignLevel
<1>4. CASE BcpDone
  <2> DEFINE T == assignment_trackers
  <2>1. T \in Seq(Seq(Vars)) /\ T' = Append(T, <<>>) /\ UNCHANGED <<value, level>>
    BY <1>4 DEF BcpDone, TypeInv
  <2>2. Len(T') = Len(T) + 1 /\ \A k \in 1..Len(T) : T'[k] = T[k]
    BY <2>1
  <2>3. T'[Len(T) + 1] = <<>> /\ Len(T) \in Nat
    BY <2>1
  <2>4. QED
    BY <2>1, <2>2, <2>3 DEF LevelInv, decision_level, UNASSIGNED
<1>5. CASE cancel
  BY <1>5, CancelKeepsLevel
<1>6. CASE CancelLevel
  <2> DEFINE T == assignment_trackers
             D == decision_level
  <2>1. /\ T \in Seq(Seq(Vars)) /\ D = Len(T) /\ D > 1 /\ T[D] = <<>>
        /\ T' = SubSeq(T, 1, D - 1) /\ UNCHANGED <<value, level>>
    BY <1>6 DEF CancelLevel, TypeInv, decision_level, TopList
  <2>2. Len(T') = D - 1 /\ D \in Nat /\ \A k \in 1..(D - 1) : T'[k] = T[k]
    BY <2>1
  <2>3. D' = D - 1
    BY <2>2 DEF decision_level
  <2>4. \A v \in Vars : value[v] # UNASSIGNED => level[v] # D
    BY <2>1 DEF LevelInv
  <2>5. \A v \in Vars : value[v] # UNASSIGNED => level[v] \in 1..(D - 1)
    BY <2>2, <2>4 DEF LevelInv
  <2>6. \A k \in 1..(D - 1) : k \in 1..D
    BY <2>2
  <2>7. /\ \A k \in 1..D : \A i \in DOMAIN T[k] :
             /\ T[k][i] \in Vars /\ value[T[k][i]] # UNASSIGNED /\ level[T[k][i]] = k
             /\ \A j \in DOMAIN T[k] : j # i => T[k][j] # T[k][i]
        /\ \A w \in Vars : value[w] # UNASSIGNED =>
             \E i \in DOMAIN T[level[w]] : T[level[w]][i] = w
    <3>1. LevelInv /\ T \in Seq(Seq(Vars)) /\ D = Len(T)
      BY <2>1
    <3>2. \A k \in 1..D : \A i \in DOMAIN T[k] : T[k][i] \in Vars
      BY <3>1
    <3>3. QED
      BY <3>1, <3>2 DEF LevelInv
  <2> HIDE DEF D, T
  <2>8. ASSUME NEW k \in 1..(D - 1), NEW i \in DOMAIN T'[k]
        PROVE  /\ value[T'[k][i]] # UNASSIGNED /\ level[T'[k][i]] = k
               /\ \A j \in DOMAIN T'[k] : j # i => T'[k][j] # T'[k][i]
    BY <2>2, <2>6, <2>7, <2>8
  <2>9. ASSUME NEW w \in Vars, value[w] # UNASSIGNED
        PROVE  /\ level[w] \in 1..(D - 1)
               /\ \E i \in DOMAIN T'[level[w]] : T'[level[w]][i] = w
    BY <2>2, <2>5, <2>7, <2>9
  <2>10. value' = value /\ level' = level
    BY <2>1
  <2>11. QED
    BY <2>3, <2>8, <2>9, <2>10 DEF LevelInv, D, T, UNASSIGNED
<1>7. CASE Begin
  BY <1>1, <1>7 DEF Begin, InitTable, InitWatched, InitEmptyClause, InitDone, assigned
<1>8. CASE PlpSkip \/ PlpDone \/ decide \/ SaySat
  BY <1>1, <1>8 DEF PlpSkip, PlpDone, decide, SaySat, assigned
<1>9. CASE \/ BcpStart \/ BcpSkip \/ VisitOther \/ VisitMove \/ VisitUnit
           \/ VisitConflict \/ SayUnsat \/ VisitDone
  BY <1>1, <1>9 DEF BcpStart, BcpSkip, VisitOther, VisitMove, VisitUnit,
                    VisitConflict, SayUnsat, VisitDone, assigned
<1>r. CASE Resolving
  BY <1>1, <1>r, ResolvingFacts DEF assigned
<1>10. CASE \/ get_backtracking_level \/ add_learnt_clause
            \/ update_scores \/ UpdateDone \/ decaying_sum \/ LearntDone
  BY <1>1, <1>10 DEF get_backtracking_level, add_learnt_clause,
                     update_scores, UpdateDone, decaying_sum, LearntDone, assigned
<1>11. CASE PrintLit \/ Finish \/ termination_handler \/ UNCHANGED vars
  BY <1>1, <1>11 DEF PrintLit, Finish, termination_handler, vars, assigned
<1>12. QED
  BY <1>2, <1>3, <1>4, <1>5, <1>6, <1>7, <1>8, <1>9, <1>r, <1>10, <1>11
  DEF Next, Step, Search, Propagate, Analyze, Resolving
-----------------------------------------------------------------------------
(***************************************************************************)
(* The literal of bcp                                                      *)
(***************************************************************************)
\* Every action keeps CursorInv.
LEMMA CursorStep ==
  ASSUME IInv, [Next]_vars
  PROVE  CursorInv'
<1> USE DEF IInv, CursorInv
<1>1. CASE Begin
  BY <1>1 DEF Begin, InitTable, InitWatched, InitEmptyClause, InitDone, CrashIf,
              assigned, conflict, output, bcp, Running, UNASSIGNED
<1>2. CASE PlpAssign
  BY <1>2 DEF PlpAssign, Running, assigned, conflict, output, bcp
<1>3. CASE PlpSkip \/ PlpDone \/ SaySat
  BY <1>3 DEF PlpSkip, PlpDone, SaySat, Running, assigned, conflict, output, bcp
<1>4. CASE decide
  <2>1. pc' = "decide" \/ (pc' = "start" /\ cur'.lit \in Lits)
    BY <1>4 DEF decide
  <2>2. said' = said /\ pc = "decide"
    BY <1>4 DEF decide, output
  <2>3. QED
    BY <2>1, <2>2
<1>5. CASE BcpAssign
  <2>1. /\ cur'.lit \in Lits /\ assign(cur'.lit, cur'.antecedent)
        /\ pc' = "visit" /\ pc = "bcp" /\ said' = said
    BY <1>5, FrontLit DEF BcpAssign, output
  <2>2. Var(cur'.lit) \in Vars
    BY <2>1, LitFacts
  <2>3. /\ value'[Var(cur'.lit)] = IF cur'.lit > 0 THEN 1 ELSE 0
        /\ level'[Var(cur'.lit)] = decision_level
    BY <2>1, <2>2 DEF assign, TypeInv
  <2>4. decision_level' = decision_level
    BY <2>1, AssignType
  <2>5. QED
    BY <2>1, <2>3, <2>4 DEF IsTrue
<1>6. CASE BcpStart \/ BcpSkip \/ BcpDone
  BY <1>6 DEF BcpStart, BcpSkip, BcpDone, Running, output
<1>7. CASE VisitOther \/ VisitMove \/ VisitUnit
  BY <1>7 DEF VisitOther, VisitMove, VisitUnit, Visiting, Running, assigned, conflict,
              output, decision_level, IsTrue
<1>8. CASE VisitConflict \/ SayUnsat \/ VisitDone
  BY <1>8 DEF VisitConflict, SayUnsat, VisitDone, ConflictOn, Visiting, Running, output
<1>r. CASE Resolving
  BY <1>r, ResolvingFacts DEF output
<1>9. CASE \/ get_backtracking_level \/ cancel \/ CancelLevel
           \/ add_learnt_clause \/ update_scores \/ UpdateDone \/ decaying_sum
  BY <1>9 DEF get_backtracking_level, cancel, CancelLevel, Cancelled,
              add_learnt_clause, update_scores, UpdateDone, decaying_sum, Running, output
<1>10. CASE LearntDone
  BY <1>10 DEF LearntDone, CrashIf, Running, TypeInv, output, bcp
<1>11. CASE PrintLit \/ Finish \/ termination_handler \/ UNCHANGED vars
  BY <1>11 DEF PrintLit, Finish, termination_handler, Running, vars, assigned, bcp,
               conflict, output, decision_level, IsTrue, UNASSIGNED
<1>12. QED
  BY <1>1, <1>2, <1>3, <1>4, <1>5, <1>6, <1>7, <1>8, <1>9, <1>r, <1>10, <1>11
  DEF Next, Step, Search, Propagate, Analyze, Resolving
-----------------------------------------------------------------------------
(***************************************************************************)
(* The watched literals                                                    *)
(***************************************************************************)
Safe(c) == Justified(c) \/ Pending(c) \/ Doomed(c)

\* The watched literals of a clause that is in its lists.
LEMMA WatchedLits ==
  ASSUME F \in Formulas, NEW c \in DOMAIN F, Listed(c), NEW k \in 1..2
  PROVE  /\ watched[c][k] \in DOMAIN F[c] /\ WatchedLit(c, k) \in Lits
         /\ Has(w_clauses[Var(WatchedLit(c, k))], c)
BY LitOfClause DEF Listed, WatchedLit, Has

\* What is watched stays so when nothing it depends on changes.
LEMMA WatchedSame ==
  ASSUME NEW c, UNCHANGED <<F, value, level, watched, w_clauses>>
  PROVE  /\ Listed(c) => Listed(c)'
         /\ Justified(c) => Justified(c)'
  BY DEF Listed, Justified, WatchedLit, IsTrue, IsFalse

\* A step that touches neither assignments nor watches, outside of the visits of
\* bcp and of backtracking.
LEMMA WatchQuiet ==
  ASSUME IInv, UNCHANGED <<F, value, level, watched, w_clauses>>,
         pc \notin {"visit", "learn", "merge", "backtrack"},
         ClauseIds' \subseteq ClauseIds,
         said = "UNSAT" => said' = "UNSAT"
  PROVE  WatchInv'
<1>1. \A c : ~Pending(c) /\ ~Doomed(c)
  BY DEF Pending, Doomed, Cancelling
<1>2. ASSUME NEW c \in ClauseIds'
      PROVE  Listed(c)' /\ (said' # "UNSAT" => Safe(c)')
  <2>1. Listed(c) /\ (said # "UNSAT" => Justified(c))
    BY <1>1, <1>2 DEF IInv, WatchInv
  <2>2. QED
    BY <2>1, WatchedSame DEF Safe
<1>3. QED
  BY <1>2 DEF WatchInv, Safe

\* An assignment justifies what was justified, but for the clauses that watch
\* the literal that is now false.
LEMMA JustifiedAssign ==
  ASSUME TypeInv, NEW l \in Lits, IsUnassigned(l), NEW from, assign(l, from),
         UNCHANGED <<F, watched>>,
         NEW c \in DOMAIN F, Listed(c), Justified(c)
  PROVE  Justified(c)' \/ \E k \in 1..2 : WatchedLit(c, k) = -l
<1>1. \A k \in 1..2 : WatchedLit(c, k) \in Lits
  BY WatchedLits DEF TypeInv
<1>2. \A p \in DOMAIN F[c] : F[c][p] \in Lits
  BY LitOfClause DEF TypeInv
<1>3. /\ value' = [value EXCEPT ![Var(l)] = IF l > 0 THEN 1 ELSE 0]
      /\ level' = [level EXCEPT ![Var(l)] = decision_level]
      /\ value \in [Vars -> {UNASSIGNED, 0, 1}] /\ level \in [Vars -> Int]
      /\ Var(l) \in Vars
  BY LitFacts DEF assign, TypeInv
<1>4. ASSUME NEW m \in Lits, ~IsUnassigned(m)
      PROVE  /\ Var(m) \in Vars /\ Var(m) # Var(l)
             /\ value'[Var(m)] = value[Var(m)] /\ level'[Var(m)] = level[Var(m)]
  BY <1>3, <1>4, LitFacts DEF IsUnassigned
<1>5. \A k \in 1..2 : WatchedLit(c, k)' = WatchedLit(c, k)
  BY DEF WatchedLit
<1>6. CASE \E k \in 1..2 : ~IsFalse(WatchedLit(c, k))
  <2>1. PICK k \in 1..2 : ~IsFalse(WatchedLit(c, k))
    BY <1>6
  <2> DEFINE w == WatchedLit(c, k)
  <2>2. w \in Lits /\ ~IsFalse(w) /\ WatchedLit(c, k)' = w
    BY <1>1, <1>5, <2>1
  <2> HIDE DEF w
  <2>3. CASE ~IsUnassigned(w)
    <3>1. value'[Var(w)] = value[Var(w)]
      BY <1>4, <2>2, <2>3
    <3>2. ~(value'[Var(w)] = (IF w > 0 THEN 0 ELSE 1))
      BY <2>2, <3>1 DEF IsFalse
    <3>3. QED
      BY <2>2, <3>2 DEF Justified, IsFalse
  <2>4. CASE Var(w) # Var(l)
    <3>1. value'[Var(w)] = value[Var(w)]
      BY <1>3, <2>2, <2>4, LitFacts
    <3>2. ~(value'[Var(w)] = (IF w > 0 THEN 0 ELSE 1))
      BY <2>2, <3>1 DEF IsFalse
    <3>3. QED
      BY <2>2, <3>2 DEF Justified, IsFalse
  <2>5. CASE w = l
    <3>1. value'[Var(w)] = IF w > 0 THEN 1 ELSE 0
      BY <1>3, <2>5
    <3>2. ~(value'[Var(w)] = (IF w > 0 THEN 0 ELSE 1))
      BY <3>1
    <3>3. QED
      BY <2>2, <3>2 DEF Justified, IsFalse
  <2>6. QED
    BY <2>2, <2>4, <2>5, LitFacts DEF w
<1>7. CASE /\ \A k \in 1..2 : IsFalse(WatchedLit(c, k))
           /\ \E p \in DOMAIN F[c], k \in 1..2 :
                /\ IsTrue(F[c][p])
                /\ level[Var(F[c][p])] <= level[Var(WatchedLit(c, k))]
  <2>1. PICK p \in DOMAIN F[c], k \in 1..2 :
          /\ IsTrue(F[c][p])
          /\ level[Var(F[c][p])] <= level[Var(WatchedLit(c, k))]
    BY <1>7
  <2> DEFINE w == WatchedLit(c, k)
             m == F[c][p]
  <2>2. w \in Lits /\ m \in Lits /\ ~IsUnassigned(w) /\ ~IsUnassigned(m)
        /\ WatchedLit(c, k)' = w /\ F'[c][p] = m /\ p \in DOMAIN F'[c]
        /\ IsTrue(m) /\ level[Var(m)] <= level[Var(w)]
    BY <1>1, <1>2, <1>5, <1>7, <2>1, ValueFacts
  <2> HIDE DEF w, m
  <2>3. /\ level'[Var(w)] = level[Var(w)] /\ level'[Var(m)] = level[Var(m)]
        /\ value'[Var(m)] = value[Var(m)]
    BY <1>4, <2>2
  <2>4. value'[Var(m)] = (IF m > 0 THEN 1 ELSE 0) /\ level'[Var(m)] <= level'[Var(w)]
    BY <2>2, <2>3 DEF IsTrue
  <2>5. QED
    BY <2>2, <2>4 DEF Justified, IsTrue
<1>8. QED
  BY <1>6, <1>7 DEF Justified

\* The steps that build the lists.
LEMMA WatchBegin ==
  ASSUME IInv, Begin
  PROVE  WatchInv'
<1> USE DEF IInv
<1>1. CASE InitTable
  BY <1>1, WatchQuiet DEF InitTable, ClauseIds, assigned, watching, output, TypeInv
<1>2. CASE InitEmptyClause
  BY <1>2, WatchQuiet DEF InitEmptyClause, ClauseIds, assigned, watching, output
<1>3. CASE InitDone
  <2>1. DOMAIN F \subseteq 1..(pos - 1)
    <3>1. F \in Seq(Seq(Lits)) /\ pos \in Nat /\ pos > Len(F)
      BY <1>3 DEF InitDone, TypeInv, Formulas
    <3>2. QED
      BY <3>1
  <2>2. ClauseIds' \subseteq ClauseIds
    BY <1>3, <2>1 DEF InitDone, ClauseIds
  <2>3. QED
    BY <1>3, <2>2, WatchQuiet DEF InitDone, assigned, watching, output
<1>4. CASE InitWatched
  <2>0. PICK n : n = pos
    OBVIOUS
  <2>1. /\ n \in DOMAIN F /\ n \in Nat /\ F[n] # <<>> /\ F[n] \in Seq(Lits)
        /\ 1..(n - 1) \subseteq DOMAIN F /\ 1..n = 1..(n - 1) \cup {n}
    <3>1. F \in Seq(Seq(Lits)) /\ n \in Nat \ {0} /\ n <= Len(F) /\ F[n] # <<>>
      BY <1>4, <2>0 DEF InitWatched, TypeInv, Formulas
    <3>2. QED
      BY <3>1
  <2>2. ClauseIds = 1..(n - 1) /\ ClauseIds' = 1..n
        /\ UNCHANGED <<F, value, level>>
    BY <1>4, <2>0, <2>1 DEF InitWatched, ClauseIds, assigned
  <2> DEFINE Fresh(v) == {k \in 1..2 : Var(F[n][FirstWatched(n)[k]]) = v}
  <2>3. /\ watched' = [watched EXCEPT ![n] = FirstWatched(n)]
        /\ \A v \in Vars : w_clauses'[v] = PrependEach(w_clauses[v], n, Fresh(v))
        /\ w_clauses \in [Vars -> Seq(DOMAIN F)] /\ watched \in [DOMAIN F -> [1..2 -> Nat]]
    BY <1>4, <2>0 DEF InitWatched, TypeInv
  <2>a. \A v \in Vars : \A ps :
          /\ ps # {} => Has(PrependEach(w_clauses[v], n, ps), n)
          /\ \A d : Has(w_clauses[v], d) => Has(PrependEach(w_clauses[v], n, ps), d)
    <3>1. \A v \in Vars : w_clauses[v] \in Seq(DOMAIN F)
      BY <2>3
    <3>2. QED
      BY <2>1, <3>1, PrependEachHas
  <2>4. \A v \in Vars : \A d : Has(w_clauses[v], d) => Has(w_clauses'[v], d)
    <3> HIDE DEF Fresh
    <3>1. QED
      BY <2>3, <2>a
  <2>5. ASSUME NEW c \in DOMAIN F, NEW k \in 1..2, WatchedLit(c, k)' \in Lits
        PROVE  ~IsFalse(WatchedLit(c, k))'
    <3>1. Var(WatchedLit(c, k)') \in Vars
      BY <2>5, LitFacts
    <3>2. value'[Var(WatchedLit(c, k)')] = UNASSIGNED
      BY <1>4, <2>2, <3>1 DEF CursorInv, InitWatched
    <3>3. QED
      BY <3>2 DEF IsFalse, UNASSIGNED
  <2>6. ASSUME NEW c \in 1..(n - 1) PROVE Listed(c)' /\ Safe(c)'
    <3>1. c \in DOMAIN F /\ c # n /\ Listed(c) /\ watched'[c] = watched[c]
      BY <2>1, <2>2, <2>3, <2>6 DEF WatchInv
    <3>2. \A k \in 1..2 : /\ watched[c][k] \in DOMAIN F[c] /\ WatchedLit(c, k) \in Lits
                          /\ Has(w_clauses[Var(WatchedLit(c, k))], c)
                          /\ WatchedLit(c, k)' = WatchedLit(c, k)
      BY <2>2, <3>1, WatchedLits DEF TypeInv, WatchedLit
    <3>3. \A k \in 1..2 : Has(w_clauses'[Var(WatchedLit(c, k))], c)
      BY <2>4, <3>2, LitFacts
    <3>4. Listed(c)'
      BY <2>2, <3>1, <3>2, <3>3 DEF Listed, Has
    <3>5. ~IsFalse(WatchedLit(c, 1))'
      BY <2>5, <3>1, <3>2
    <3>6. QED
      BY <3>4, <3>5 DEF Safe, Justified
  <2>7. Listed(n)' /\ Safe(n)'
    <3>1. FirstWatched(n) \in [1..2 -> DOMAIN F[n]]
      <4>1. Len(F[n]) \in Nat /\ Len(F[n]) # 0 /\ DOMAIN F[n] = 1..Len(F[n])
        BY <2>1
      <4>2. \A S : \A i, j \in S : <<i, j>> \in [1..2 -> S]
        OBVIOUS
      <4>3. 1 \in DOMAIN F[n] /\ (Len(F[n]) # 1 => 2 \in DOMAIN F[n])
        <5>1. PICK k : k = Len(F[n])
          OBVIOUS
        <5>2. k \in Nat /\ k # 0 /\ DOMAIN F[n] = 1..k
          BY <4>1, <5>1
        <5>3. 1 \in 1..k /\ (k # 1 => 2 \in 1..k)
          BY <5>2
        <5>4. QED
          BY <5>1, <5>2, <5>3
      <4>4. QED
        BY <4>2, <4>3 DEF FirstWatched
    <3> DEFINE W(k) == F[n][FirstWatched(n)[k]]
    <3>2. \A k \in 1..2 : W(k) \in Lits
      BY <2>1, <3>1, LitOfClause DEF TypeInv
    <3>3. watched'[n] = FirstWatched(n) /\ F' = F
      BY <2>1, <2>2, <2>3
    <3>4. \A k \in 1..2 : /\ watched'[n][k] \in DOMAIN F'[n]
                          /\ WatchedLit(n, k)' = W(k)
      BY <3>1, <3>3 DEF WatchedLit
    <3>5. ASSUME NEW k \in 1..2 PROVE Has(w_clauses'[Var(W(k))], n)
      <4>1. Var(W(k)) \in Vars
        BY <3>2, LitFacts
      <4>2. Fresh(Var(W(k))) # {}
        OBVIOUS
      <4> HIDE DEF Fresh, W
      <4>3. QED
        BY <2>3, <2>a, <4>1, <4>2
    <3>6. ~IsFalse(WatchedLit(n, 1))'
      BY <2>1, <2>5, <3>2, <3>4
    <3>7. Justified(n)'
      BY <3>6 DEF Justified
    <3> HIDE DEF W
    <3>8. Listed(n)'
      BY <3>4, <3>5 DEF Listed, Has
    <3>9. QED
      BY <3>7, <3>8 DEF Safe
  <2>8. \A c \in ClauseIds' : Listed(c)' /\ Safe(c)'
    BY <2>1, <2>2, <2>6, <2>7
  <2>9. QED
    BY <2>8 DEF WatchInv, Safe
<1>5. QED
  BY <1>1, <1>2, <1>3, <1>4 DEF Begin

\* The steps of plp and decide.
LEMMA WatchSearch ==
  ASSUME IInv, Search
  PROVE  WatchInv'
<1> USE DEF IInv
<1>1. CASE PlpAssign
  <2>1. PICK l \in {pos, -pos} :
          /\ Pure(l)
          /\ IF IsUnassigned(l) THEN assign(l, NoClause) /\ UNCHANGED status
             ELSE status' = "error" /\ UNCHANGED <<assigned, table>>
    BY <1>1 DEF PlpAssign
  <2>2. l \in Lits
    <3>1. pos \in Vars
      BY <1>1, NAssumption DEF PlpAssign, TypeInv, Vars
    <3>2. pos \in Lits /\ -pos \in Lits
      BY <3>1, LitFacts
    <3>3. QED
      BY <3>2
  <2>3. CASE ~IsUnassigned(l)
    BY <1>1, <2>1, <2>3, WatchQuiet DEF PlpAssign, ClauseIds, assigned, watching, output
  <2>4. CASE IsUnassigned(l)
    <3>1. /\ assign(l, NoClause) /\ UNCHANGED <<F, watched, w_clauses, said, pc>>
          /\ pc = "plp" /\ ClauseIds = DOMAIN F /\ ClauseIds' = DOMAIN F
      BY <1>1, <2>1, <2>4 DEF PlpAssign, ClauseIds, watching, output
    <3>2. ASSUME NEW c \in DOMAIN F PROVE Listed(c)' /\ (said' # "UNSAT" => Safe(c)')
      <4>1. Listed(c) /\ (said # "UNSAT" => Justified(c))
        BY <3>1, <3>2 DEF WatchInv, Pending, Doomed, Cancelling
      <4>2. Listed(c)'
        BY <3>1, <4>1 DEF Listed, WatchedLit
      <4>3. \A k \in 1..2 : WatchedLit(c, k) # -l
        <5>1. \A k \in 1..2 : watched[c][k] \in DOMAIN F[c]
          BY <4>1 DEF Listed
        <5>2. QED
          BY <2>1, <5>1 DEF Pure, OccursIn, WatchedLit
      <4>4. Justified(c) => Justified(c)'
        BY <2>2, <2>4, <3>1, <4>1, <4>3, JustifiedAssign
      <4>5. QED
        BY <3>1, <4>1, <4>2, <4>4 DEF Safe
    <3>3. QED
      BY <3>1, <3>2 DEF WatchInv, Safe
  <2>5. QED
    BY <2>3, <2>4
<1>2. CASE PlpSkip
  BY <1>2, WatchQuiet DEF PlpSkip, ClauseIds, assigned, watching, output
<1>3. CASE PlpDone
  BY <1>3, WatchQuiet DEF PlpDone, ClauseIds, assigned, watching, output
<1>4. CASE decide
  <2>1. pc = "decide" /\ pc' \in {"start", "decide"}
        /\ UNCHANGED <<F, value, level, watched, w_clauses, said>>
    BY <1>4 DEF decide, assigned, watching, output
  <2>2. QED
    BY <2>1, WatchQuiet DEF ClauseIds
<1>5. CASE SaySat
  BY <1>5, WatchQuiet DEF SaySat, CursorInv, ClauseIds, assigned, watching, output
<1>6. QED
  BY <1>1, <1>2, <1>3, <1>4, <1>5 DEF Search

\* A clause bcp has not come to stays pending when another one is visited.
LEMMA PendingRest ==
  ASSUME TypeInv, Visiting, walk' = Tail(walk), NEW c, c # Head(walk),
         \E i \in DOMAIN walk : walk[i] = c
  PROVE  \E i \in DOMAIN walk' : walk'[i] = c
<1>1. walk \in Seq(DOMAIN F) /\ walk # <<>>
  BY DEF TypeInv, Visiting
<1>2. PICK i \in 1..Len(walk) : walk[i] = c
  BY <1>1
<1>3. i # 1
  BY <1>1, <1>2
<1>4. i - 1 \in DOMAIN Tail(walk) /\ Tail(walk)[i - 1] = walk[(i - 1) + 1] /\ (i - 1) + 1 = i
  BY <1>1, <1>2, <1>3
<1>5. QED
  BY <1>2, <1>4

\* When a clause is visited the other ones stay as they are.
LEMMA WatchOthers ==
  ASSUME IInv, Visiting, walk' = Tail(walk), UNCHANGED <<F, pc, value, level, cur, said>>,
         NEW c \in DOMAIN F, c # Head(walk), watched'[c] = watched[c],
         \A v \in Vars : \A d : Has(w_clauses[v], d) => Has(w_clauses'[v], d)
  PROVE  Listed(c)' /\ (said' # "UNSAT" => Safe(c)')
<1>1. /\ TypeInv /\ pc = "visit" /\ Listed(c)
      /\ said # "UNSAT" => Justified(c) \/ Pending(c)
  BY DEF IInv, Visiting, WatchInv, ClauseIds, Doomed, Cancelling
<1>2. \A k \in 1..2 : /\ watched[c][k] \in DOMAIN F[c] /\ WatchedLit(c, k) \in Lits
                      /\ Has(w_clauses[Var(WatchedLit(c, k))], c)
                      /\ WatchedLit(c, k)' = WatchedLit(c, k)
  BY <1>1, WatchedLits DEF TypeInv, WatchedLit
<1>3. \A k \in 1..2 : Has(w_clauses'[Var(WatchedLit(c, k))], c)
  BY <1>2, LitFacts
<1>4. Listed(c)'
  BY <1>2, <1>3 DEF Listed, Has
<1>5. Justified(c) => Justified(c)'
  BY <1>2 DEF Justified, IsTrue, IsFalse
<1>6. Pending(c) => Pending(c)'
  BY <1>1, <1>2, PendingRest DEF Pending, Hit
<1>7. QED
  BY <1>1, <1>4, <1>5, <1>6 DEF Safe

\* bcp takes the next assignment: the clauses that watch its negation are those
\* it visits then.
LEMMA WatchAssign ==
  ASSUME IInv, BcpAssign
  PROVE  WatchInv'
<1> USE DEF IInv
<1>1. /\ cur'.lit \in Lits /\ assign(cur'.lit, cur'.antecedent) /\ IsUnassigned(cur'.lit)
      /\ walk' = w_clauses[Var(cur'.lit)] /\ pc = "bcp" /\ pc' = "visit"
      /\ UNCHANGED <<F, watched, w_clauses, said>>
      /\ ClauseIds = DOMAIN F /\ ClauseIds' = DOMAIN F
  BY FrontLit DEF BcpAssign, watching, output, ClauseIds
<1>2. ASSUME NEW c \in DOMAIN F
      PROVE  Listed(c)' /\ (said' # "UNSAT" => Safe(c)')
  <2>1. Listed(c) /\ (said # "UNSAT" => Justified(c))
    BY <1>1, <1>2 DEF WatchInv, Pending, Doomed, Cancelling
  <2>2. Listed(c)'
    BY <1>1, <2>1 DEF Listed, WatchedLit
  <2>3. ASSUME NEW k \in 1..2, WatchedLit(c, k) = -cur'.lit PROVE Pending(c)'
    <3>1. Has(w_clauses[Var(WatchedLit(c, k))], c) /\ WatchedLit(c, k)' = WatchedLit(c, k)
      BY <1>1, <2>1, WatchedLits DEF TypeInv, WatchedLit
    <3>2. Var(-cur'.lit) = Var(cur'.lit)
      BY <1>1 DEF Var, Abs, Lits
    <3>3. \E i \in DOMAIN walk' : walk'[i] = c
      BY <1>1, <2>3, <3>1, <3>2 DEF Has
    <3>4. QED
      BY <1>1, <2>3, <3>1, <3>3 DEF Pending, Hit
  <2>4. Justified(c) => Justified(c)' \/ Pending(c)'
    <3>1. ASSUME Justified(c)
          PROVE  Justified(c)' \/ \E k \in 1..2 : WatchedLit(c, k) = -cur'.lit
      <4>1. PICK l, from : l = cur'.lit /\ from = cur'.antecedent
        OBVIOUS
      <4>2. l \in Lits /\ IsUnassigned(l) /\ assign(l, from)
        BY <1>1, <4>1
      <4>3. Justified(c)' \/ \E k \in 1..2 : WatchedLit(c, k) = -l
        BY <1>1, <2>1, <3>1, <4>2, JustifiedAssign
      <4>4. QED
        BY <4>1, <4>3
    <3>2. QED
      BY <2>3, <3>1
  <2>5. QED
    BY <1>1, <2>1, <2>2, <2>4 DEF Safe
<1>3. QED
  BY <1>1, <1>2 DEF WatchInv, Safe

\* A clause with a false watched literal gets another one, unless it is true.
LEMMA WatchMove ==
  ASSUME IInv, VisitMove
  PROVE  WatchInv'
<1> USE DEF IInv
<1>0. PICK c : c = Head(walk)
  OBVIOUS
<1>1. /\ Visiting /\ Hit(c) /\ (ClauseTrue(c) \/ NewWatches(c) # {}) /\ Rewatch(c)
      /\ walk' = Tail(walk) /\ pc = "visit" /\ UNCHANGED <<F, pc, value, level, cur, said>>
      /\ ClauseIds = DOMAIN F /\ ClauseIds' = DOMAIN F
  BY <1>0 DEF VisitMove, Visiting, assigned, output, ClauseIds
<1>2. c \in DOMAIN F /\ Listed(c) /\ F[c] \in Seq(Lits)
  BY <1>0, <1>1 DEF Visiting, TypeInv, Formulas, WatchInv
<1>3. NewWatches(c) \subseteq DOMAIN F[c] /\ NewIndex(c) \in 1..2
  BY DEF NewWatches, Inspected, NewIndex
<1>4. watched \in [DOMAIN F -> [1..2 -> Nat]] /\ w_clauses \in [Vars -> Seq(DOMAIN F)]
  BY DEF TypeInv
<1> DEFINE New(v) == {p \in NewWatches(c) : Var(F[c][p]) = v}
<1>5. \A v \in Vars : w_clauses'[v] = PrependEach(w_clauses[v], c, New(v))
  BY <1>1 DEF Rewatch
<1>6. \A v \in Vars : \A ps :
        /\ ps # {} => Has(PrependEach(w_clauses[v], c, ps), c)
        /\ \A d : Has(w_clauses[v], d) => Has(PrependEach(w_clauses[v], c, ps), d)
  <2>1. \A v \in Vars : w_clauses[v] \in Seq(DOMAIN F)
    BY <1>4
  <2>2. QED
    BY <1>2, <2>1, PrependEachHas
<1>7. \A v \in Vars : \A d : Has(w_clauses[v], d) => Has(w_clauses'[v], d)
  <2> HIDE DEF New
  <2>1. QED
    BY <1>5, <1>6
<1>8. \A d \in DOMAIN F : d # c => watched'[d] = watched[d]
  BY <1>1, <1>4 DEF Rewatch
<1>9. ASSUME NEW d \in DOMAIN F, d # c PROVE Listed(d)' /\ (said' # "UNSAT" => Safe(d)')
  BY <1>0, <1>1, <1>7, <1>8, <1>9, WatchOthers
<1>10. \A k \in 1..2 : /\ watched[c][k] \in DOMAIN F[c] /\ WatchedLit(c, k) \in Lits
                       /\ Has(w_clauses'[Var(WatchedLit(c, k))], c)
  BY <1>2, <1>7, WatchedLits, LitFacts DEF TypeInv
<1>11. CASE NewWatches(c) = {}
  <2>1. watched' = watched
    BY <1>1, <1>11 DEF Rewatch
  <2>2. Listed(c)'
    BY <1>1, <1>10, <2>1 DEF Listed, WatchedLit, Has
  <2>3. PICK p \in DOMAIN F[c] : IsTrue(F[c][p])
    BY <1>1, <1>11 DEF ClauseTrue
  <2>4. PICK k \in 1..2 : WatchedLit(c, k) = -cur.lit
    BY <1>1 DEF Hit
  <2>5. /\ cur.lit \in Lits /\ level[Var(cur.lit)] = decision_level
        /\ Var(-cur.lit) = Var(cur.lit)
    BY <1>1 DEF CursorInv, Var, Abs, Lits
  <2>6. F[c][p] \in Lits /\ Var(F[c][p]) \in Vars /\ ~IsUnassigned(F[c][p])
    <3>1. F[c][p] \in Lits
      BY <1>2
    <3>2. QED
      BY <2>3, <3>1, ValueFacts, LitFacts
  <2>7. level[Var(F[c][p])] <= decision_level
    <3>1. level[Var(F[c][p])] \in 1..decision_level
      BY <2>6 DEF LevelInv, IsUnassigned
    <3>2. QED
      BY <3>1
  <2>8. level[Var(F[c][p])] <= level[Var(WatchedLit(c, k))]
    BY <2>4, <2>5, <2>7
  <2>9. Justified(c)
    BY <2>3, <2>8 DEF Justified
  <2>10. Justified(c)'
    BY <1>1, <2>1, <2>9 DEF Justified, WatchedLit, IsTrue, IsFalse
  <2>11. QED
    BY <1>1, <1>9, <2>2, <2>10 DEF WatchInv, Safe
<1>12. CASE NewWatches(c) # {}
  <2>1. PICK p \in NewWatches(c) : watched' = [watched EXCEPT ![c][NewIndex(c)] = p]
    BY <1>1, <1>12 DEF Rewatch
  <2>2. p \in DOMAIN F[c] /\ IsUnassigned(F[c][p]) /\ F[c][p] \in Lits
    <3>1. p \in DOMAIN F[c] /\ IsUnassigned(F[c][p])
      BY <1>3 DEF NewWatches
    <3>2. QED
      BY <1>2, <3>1
  <2>3. /\ watched'[c][NewIndex(c)] = p
        /\ \A k \in 1..2 : k # NewIndex(c) => watched'[c][k] = watched[c][k]
    <3>1. watched[c] \in [1..2 -> Nat] /\ watched'[c] = [watched[c] EXCEPT ![NewIndex(c)] = p]
      BY <1>2, <1>4, <2>1
    <3>2. QED
      BY <1>3, <3>1
  <2>4. Has(w_clauses'[Var(F[c][p])], c)
    <3>1. Var(F[c][p]) \in Vars /\ p \in New(Var(F[c][p]))
      BY <2>2, LitFacts
    <3>2. New(Var(F[c][p])) # {}
      BY <3>1
    <3> HIDE DEF New
    <3>3. QED
      BY <1>5, <1>6, <3>1, <3>2
  <2>5. \A k \in 1..2 : /\ watched'[c][k] \in DOMAIN F[c]
                        /\ Has(w_clauses'[Var(F[c][watched'[c][k]])], c)
    BY <1>10, <2>2, <2>3, <2>4 DEF WatchedLit
  <2>6. Listed(c)'
    BY <1>1, <2>5 DEF Listed, WatchedLit, Has
  <2>7. ~IsFalse(F[c][p])'
    <3>1. ~IsFalse(F[c][p])
      BY <2>2, ValueFacts
    <3>2. QED
      BY <1>1, <3>1 DEF IsFalse
  <2>8. Justified(c)'
    <3>1. PICK k \in 1..2 : k = NewIndex(c)
      BY <1>3
    <3>2. WatchedLit(c, k)' = F[c][p] /\ F' = F
      BY <1>1, <2>3, <3>1 DEF WatchedLit
    <3>3. ~IsFalse(WatchedLit(c, k))'
      BY <2>7, <3>2 DEF IsFalse
    <3>4. QED
      BY <3>3 DEF Justified
  <2>9. QED
    BY <1>1, <1>9, <2>6, <2>8 DEF WatchInv, Safe
<1>13. QED
  BY <1>11, <1>12

\* The other visits of bcp: nothing is false but a clause in conflict, which loses
\* a watched literal of the current level by backtracking.
LEMMA WatchVisit ==
  ASSUME IInv, VisitOther \/ VisitUnit \/ VisitConflict \/ SayUnsat \/ VisitDone
  PROVE  WatchInv'
<1> USE DEF IInv
<1>0. PICK c : c = Head(walk)
  OBVIOUS
<1>1. /\ pc = "visit" /\ UNCHANGED <<F, value, level, watched, w_clauses, cur>>
      /\ UNCHANGED assignment_trackers /\ ClauseIds = DOMAIN F
  BY DEF VisitOther, VisitUnit, VisitConflict, SayUnsat, VisitDone, ConflictOn, Visiting,
         assigned, watching, bcp, output, ClauseIds
<1>2. ASSUME NEW d \in DOMAIN F
      PROVE  /\ Listed(d)' /\ (said # "UNSAT" => Justified(d) \/ Pending(d))
             /\ Justified(d) => Justified(d)'
  BY <1>1, <1>2, WatchedSame DEF WatchInv, Doomed, Cancelling
<1>3. CASE VisitOther
  <2>1. Visiting /\ walk' = Tail(walk) /\ ~Hit(c) /\ UNCHANGED <<pc, said>>
        /\ ClauseIds' = DOMAIN F
    BY <1>0, <1>1, <1>3 DEF VisitOther, output, ClauseIds
  <2>2. ASSUME NEW d \in DOMAIN F, d # c PROVE Listed(d)' /\ (said' # "UNSAT" => Safe(d)')
    BY <1>0, <1>1, <2>1, <2>2, WatchOthers
  <2>3. c \in DOMAIN F => Listed(c)' /\ (said' # "UNSAT" => Safe(c)')
    BY <1>2, <2>1 DEF Pending, Safe
  <2>4. QED
    BY <2>1, <2>2, <2>3 DEF WatchInv, Safe
<1>4. CASE VisitUnit
  <2>1. /\ Visiting /\ walk' = Tail(walk) /\ UNCHANGED <<pc, said>>
        /\ ~ClauseTrue(c) /\ ~ClauseFalse(c) /\ NewWatches(c) = {}
        /\ ClauseIds' = DOMAIN F
    BY <1>0, <1>1, <1>4 DEF VisitUnit, output, ClauseIds
  <2>2. ASSUME NEW d \in DOMAIN F, d # c PROVE Listed(d)' /\ (said' # "UNSAT" => Safe(d)')
    BY <1>0, <1>1, <2>1, <2>2, WatchOthers
  <2>3. c \in DOMAIN F /\ F[c] \in Seq(Lits)
    BY <1>0, <2>1 DEF Visiting, TypeInv, Formulas
  <2>4. PICK p \in DOMAIN F[c] : ~IsFalse(F[c][p])
    BY <2>1 DEF ClauseFalse
  <2>5. F[c][p] \in Lits /\ IsUnassigned(F[c][p])
    <3>1. F[c][p] \in Lits /\ ~IsTrue(F[c][p])
      BY <2>1, <2>3 DEF ClauseTrue
    <3>2. QED
      BY <2>4, <3>1, ValueFacts
  <2>6. p \in Inspected(c)
    <3>1. Len(F[c]) \in Nat /\ DOMAIN F[c] = 1..Len(F[c])
      BY <2>3
    <3>2. 1..p \subseteq DOMAIN F[c]
      BY <3>1
    <3>3. QED
      BY <2>1, <3>2 DEF Inspected, ClauseTrue
  <2>7. PICK k \in 1..2 : F[c][p] = WatchedLit(c, k)
    BY <2>1, <2>5, <2>6 DEF NewWatches
  <2>8. Justified(c)
    BY <2>4, <2>7 DEF Justified
  <2>9. Listed(c)' /\ Safe(c)'
    BY <1>2, <2>3, <2>8 DEF Safe
  <2>10. QED
    BY <2>1, <2>2, <2>9 DEF WatchInv, Safe
<1>5. CASE VisitConflict
  <2>1. pc' = "learn" /\ said' = said /\ ClauseIds' = DOMAIN F
    BY <1>1, <1>5 DEF VisitConflict, output, ClauseIds
  <2>2. /\ cur.lit \in Lits /\ IsTrue(cur.lit) /\ level[Var(cur.lit)] = decision_level
        /\ Var(-cur.lit) = Var(cur.lit) /\ IsFalse(-cur.lit)
    <3>1. cur.lit \in Lits /\ IsTrue(cur.lit) /\ level[Var(cur.lit)] = decision_level
      BY <1>1 DEF CursorInv
    <3>2. QED
      BY <3>1, ValueFacts DEF Var, Abs, Lits
  <2>3. ASSUME NEW d \in DOMAIN F, Pending(d) PROVE Doomed(d)'
    <3>1. PICK k \in 1..2 : WatchedLit(d, k) = -cur.lit
      BY <2>3 DEF Pending, Hit
    <3>2. /\ level[Var(WatchedLit(d, k))] = decision_level /\ IsFalse(WatchedLit(d, k))
      BY <2>2, <3>1
    <3>3. /\ level'[Var(WatchedLit(d, k)')] = decision_level' /\ IsFalse(WatchedLit(d, k))'
      BY <1>1, <3>2 DEF WatchedLit, IsFalse, decision_level
    <3>4. QED
      BY <2>1, <3>3 DEF Doomed, Cancelling
  <2>4. QED
    BY <1>2, <2>1, <2>3 DEF WatchInv, Safe
<1>6. CASE SayUnsat
  BY <1>1, <1>2, <1>6 DEF SayUnsat, WatchInv, ClauseIds
<1>7. CASE VisitDone
  <2>1. pc' = "bcp" /\ UNCHANGED said /\ walk = <<>> /\ ClauseIds' = DOMAIN F
    BY <1>1, <1>7 DEF VisitDone, output, ClauseIds
  <2>2. \A d : ~Pending(d)
    BY <2>1 DEF Pending
  <2>3. QED
    BY <1>2, <2>1, <2>2 DEF WatchInv, Safe
<1>8. QED
  BY <1>3, <1>4, <1>5, <1>6, <1>7

\* Backtracking reaches a level below the one of the conflict: it cancels a level
\* at least.
LEMMA BacktrackBelow ==
  ASSUME TypeInv, get_backtracking_level
  PROVE  decision_level > Kept'
<1>1. PICK k \in 1..decision_level, l \in Lits \cup {0} :
        /\ IF clause.n = 1 THEN k = INITIAL_BT_LEVEL /\ l = clause.lits[1]
                           ELSE IsBacktrackLevel(k) /\ IsBacktrackLit(l)
        /\ bt_level' = k
  BY DEF get_backtracking_level
<1>2. decision_level \in Nat \ {0} /\ k \in Nat
  BY DEF TypeInv, decision_level
<1>3. CASE k = INITIAL_BT_LEVEL
  BY <1>1, <1>2, <1>3 DEF Kept, INITIAL_BT_LEVEL
<1>4. CASE k # INITIAL_BT_LEVEL
  <2>1. k \in {level[Var(clause.lits[i])] : i \in DOMAIN clause.lits \ Here(clause.lits)}
    BY <1>1, <1>4 DEF IsBacktrackLevel
  <2>2. k # decision_level
    BY <2>1 DEF Here
  <2>3. Kept' = k
    BY <1>1, <1>4 DEF Kept
  <2>4. QED
    BY <1>1, <1>2, <2>2, <2>3
<1>5. QED
  BY <1>3, <1>4

\* A clause stays justified, or doomed, when an assignment of the current level is
\* cancelled.
LEMMA WatchCancel ==
  ASSUME IInv, cancel
  PROVE  WatchInv'
<1> USE DEF IInv
<1> DEFINE D == decision_level
           v == Head(TopList)
<1>1. /\ D' = D /\ v \in Vars /\ level[v] = D /\ D \in Nat
  BY CancelKeepsLevel DEF TypeInv, decision_level
<1>2. /\ pc = "backtrack" /\ pc' = "backtrack" /\ decision_level > Kept /\ Kept' = Kept
      /\ UNCHANGED <<F, watched, w_clauses, said>>
      /\ ClauseIds = DOMAIN F /\ ClauseIds' = DOMAIN F
  BY DEF cancel, conflict, watching, output, ClauseIds, Kept
<1>3. Cancelling /\ Cancelling'
  BY <1>1, <1>2 DEF Cancelling
<1>4. /\ value' = [value EXCEPT ![v] = UNASSIGNED] /\ level' = [level EXCEPT ![v] = -1]
      /\ value \in [Vars -> {UNASSIGNED, 0, 1}] /\ level \in [Vars -> Int]
  BY DEF cancel, TypeInv
<1> HIDE DEF v
<1>5. ASSUME NEW m \in Lits
      PROVE  /\ Var(m) \in Vars
             /\ IsFalse(m)' => IsFalse(m)
             /\ Var(m) # v => /\ level'[Var(m)] = level[Var(m)]
                              /\ IsFalse(m)' <=> IsFalse(m)
                              /\ IsTrue(m)' <=> IsTrue(m)
             /\ Var(m) = v => ~IsFalse(m)'
  <2>1. Var(m) \in Vars
    BY LitFacts
  <2>2. CASE Var(m) = v
    <3>1. value'[Var(m)] = UNASSIGNED
      BY <1>1, <1>4, <2>2
    <3>2. ~IsFalse(m)'
      BY <3>1 DEF IsFalse, UNASSIGNED
    <3>3. QED
      BY <2>1, <2>2, <3>2
  <2>3. CASE Var(m) # v
    <3>1. value'[Var(m)] = value[Var(m)] /\ level'[Var(m)] = level[Var(m)]
      BY <1>1, <1>4, <2>1, <2>3
    <3>2. QED
      BY <2>1, <2>3, <3>1 DEF IsFalse, IsTrue
  <2>4. QED
    BY <2>2, <2>3
<1>6. ASSUME NEW c \in DOMAIN F PROVE Listed(c)' /\ (said' # "UNSAT" => Safe(c)')
  <2>1. Listed(c) /\ (said # "UNSAT" => Justified(c) \/ Doomed(c))
    BY <1>2, <1>6 DEF WatchInv, Pending
  <2>2. Listed(c)'
    BY <1>2, <2>1 DEF Listed, WatchedLit
  <2>3. \A k \in 1..2 : WatchedLit(c, k) \in Lits /\ WatchedLit(c, k)' = WatchedLit(c, k)
    BY <1>2, <2>1, WatchedLits DEF TypeInv, WatchedLit
  <2>4. ASSUME NEW k \in 1..2, level[Var(WatchedLit(c, k))] = D PROVE Safe(c)'
    <3>1. PICK w \in Lits : w = WatchedLit(c, k) /\ w = WatchedLit(c, k)'
      BY <2>3
    <3>2. CASE ~IsFalse(w)'
      <4>1. ~IsFalse(WatchedLit(c, k))'
        BY <3>1, <3>2 DEF IsFalse
      <4>2. QED
        BY <4>1 DEF Safe, Justified
    <3>3. CASE IsFalse(w)'
      <4>1. level'[Var(w)] = D
        BY <1>5, <2>4, <3>1, <3>3
      <4>2. level'[Var(WatchedLit(c, k)')] = D' /\ IsFalse(WatchedLit(c, k))'
        BY <1>1, <3>1, <3>3, <4>1 DEF IsFalse
      <4>3. QED
        BY <1>3, <4>2 DEF Safe, Doomed
    <3>4. QED
      BY <3>2, <3>3
  <2>5. CASE Doomed(c)
    BY <2>2, <2>4, <2>5 DEF Doomed
  <2>6. CASE \E k \in 1..2 : ~IsFalse(WatchedLit(c, k))
    <3>1. PICK k \in 1..2 : ~IsFalse(WatchedLit(c, k))
      BY <2>6
    <3>2. PICK w \in Lits : w = WatchedLit(c, k) /\ w = WatchedLit(c, k)'
      BY <2>3
    <3>3. ~IsFalse(w)'
      BY <1>5, <3>1, <3>2
    <3>4. ~IsFalse(WatchedLit(c, k))'
      BY <3>2, <3>3 DEF IsFalse
    <3>5. QED
      BY <2>2, <3>4 DEF Safe, Justified
  <2>7. CASE /\ \A k \in 1..2 : IsFalse(WatchedLit(c, k))
             /\ \E p \in DOMAIN F[c], k \in 1..2 :
                  /\ IsTrue(F[c][p])
                  /\ level[Var(F[c][p])] <= level[Var(WatchedLit(c, k))]
    <3>1. PICK p \in DOMAIN F[c], k \in 1..2 :
                 /\ IsTrue(F[c][p])
                 /\ level[Var(F[c][p])] <= level[Var(WatchedLit(c, k))]
      BY <2>7
    <3>2. PICK w \in Lits : w = WatchedLit(c, k) /\ w = WatchedLit(c, k)'
      BY <2>3
    <3>3. PICK m \in Lits : m = F[c][p]
      BY LitOfClause DEF TypeInv
    <3>4. CASE Var(w) = v
      <4>1. ~IsFalse(w)'
        BY <1>5, <3>4
      <4>2. ~IsFalse(WatchedLit(c, k))'
        BY <3>2, <4>1 DEF IsFalse
      <4>3. QED
        BY <2>2, <4>2 DEF Safe, Justified
    <3>5. CASE Var(m) = v
      <4>1. D <= level[Var(w)]
        BY <1>1, <3>1, <3>2, <3>3, <3>5
      <4>2. level[Var(w)] \in 1..D
        <5>1. IsFalse(w) /\ Var(w) \in Vars
          BY <1>5, <2>7, <3>2
        <5>2. value[Var(w)] # UNASSIGNED
          BY <5>1 DEF IsFalse, UNASSIGNED
        <5>3. QED
          BY <5>1, <5>2 DEF LevelInv
      <4>3. level[Var(w)] = D
        BY <1>1, <4>1, <4>2
      <4>4. QED
        BY <2>2, <2>4, <3>2, <4>3
    <3>6. CASE Var(w) # v /\ Var(m) # v
      <4>1. /\ IsTrue(m) /\ level[Var(m)] <= level[Var(w)]
        BY <3>1, <3>2, <3>3
      <4>2. /\ IsTrue(m)' /\ level'[Var(m)] <= level'[Var(w)]
        BY <1>5, <3>6, <4>1
      <4>3. p \in DOMAIN F'[c] /\ F'[c][p] = m
        BY <1>2, <3>3
      <4>4. Justified(c)'
        BY <3>2, <4>2, <4>3 DEF Justified, IsTrue
      <4>5. QED
        BY <2>2, <4>4 DEF Safe
    <3>7. QED
      BY <3>4, <3>5, <3>6
  <2>8. QED
    BY <1>2, <2>1, <2>2, <2>5, <2>6, <2>7 DEF Justified
<1>7. QED
  BY <1>2, <1>6 DEF WatchInv, Safe

\* No clause is doomed when the current level is empty.
LEMMA NoneDoomed ==
  ASSUME IInv, TopList = <<>>, NEW c \in DOMAIN F, Listed(c)
  PROVE  ~Doomed(c)
<1>1. \A u \in Vars : value[u] # UNASSIGNED => level[u] # decision_level
  BY DEF IInv, LevelInv, TopList
<1>2. \A k \in 1..2 : Var(WatchedLit(c, k)) \in Vars
  BY WatchedLits, LitFacts DEF IInv, TypeInv
<1>3. \A k \in 1..2 : IsFalse(WatchedLit(c, k)) => value[Var(WatchedLit(c, k))] # UNASSIGNED
  BY DEF IsFalse, UNASSIGNED
<1>4. QED
  BY <1>1, <1>2, <1>3 DEF Doomed

\* The steps of analyze_conflict.
LEMMA WatchAnalyze ==
  ASSUME IInv, Analyze
  PROVE  WatchInv'
<1> USE DEF IInv
<1>1. CASE Resolving
  <2>1. /\ pc \in {"learn", "merge"} /\ pc' \in {"learn", "merge"}
        /\ ClauseIds = DOMAIN F /\ ClauseIds' = DOMAIN F
        /\ UNCHANGED <<F, value, level, watched, w_clauses, said, assignment_trackers>>
    BY <1>1, ResolvingFacts DEF assigned, watching, output, ClauseIds
  <2>2. ASSUME NEW c \in DOMAIN F PROVE Listed(c)' /\ (said' # "UNSAT" => Safe(c)')
    <3>1. Listed(c) /\ (said # "UNSAT" => Justified(c) \/ Doomed(c))
      BY <2>1, <2>2 DEF WatchInv, Pending
    <3>2. Doomed(c) => Doomed(c)'
      BY <2>1 DEF Doomed, Cancelling, WatchedLit, IsFalse, decision_level
    <3>3. QED
      BY <2>1, <3>1, <3>2, WatchedSame DEF Safe
  <2>3. QED
    BY <2>1, <2>2 DEF WatchInv, Safe
<1>2. CASE get_backtracking_level
  <2>1. /\ pc = "learn" /\ pc' = "backtrack" /\ ClauseIds = DOMAIN F /\ ClauseIds' = DOMAIN F
        /\ UNCHANGED <<F, value, level, watched, w_clauses, said, assignment_trackers>>
    BY <1>2 DEF get_backtracking_level, assigned, watching, output, ClauseIds
  <2>2. Cancelling'
    BY <1>2, <2>1, BacktrackBelow DEF Cancelling, decision_level
  <2>3. ASSUME NEW c \in DOMAIN F PROVE Listed(c)' /\ (said' # "UNSAT" => Safe(c)')
    <3>1. Listed(c) /\ (said # "UNSAT" => Justified(c) \/ Doomed(c))
      BY <2>1, <2>3 DEF WatchInv, Pending
    <3>2. Doomed(c) => Doomed(c)'
      BY <2>1, <2>2 DEF Doomed, WatchedLit, IsFalse, decision_level
    <3>3. QED
      BY <2>1, <3>1, <3>2, WatchedSame DEF Safe
  <2>4. QED
    BY <2>1, <2>3 DEF WatchInv, Safe
<1>3. CASE cancel
  BY <1>3, WatchCancel
<1>4. CASE CancelLevel
  <2>1. /\ pc = "backtrack" /\ pc' = "backtrack" /\ ClauseIds = DOMAIN F /\ ClauseIds' = DOMAIN F
        /\ UNCHANGED <<F, value, level, watched, w_clauses, said>> /\ TopList = <<>>
    BY <1>4 DEF CancelLevel, watching, output, ClauseIds
  <2>2. ASSUME NEW c \in DOMAIN F PROVE Listed(c)' /\ (said' # "UNSAT" => Safe(c)')
    <3>1. Listed(c) /\ (said # "UNSAT" => Justified(c) \/ Doomed(c))
      BY <2>1, <2>2 DEF WatchInv, Pending
    <3>2. ~Doomed(c)
      BY <2>1, <3>1, NoneDoomed
    <3>3. QED
      BY <2>1, <3>1, <3>2, WatchedSame DEF Safe
  <2>3. QED
    BY <2>1, <2>2 DEF WatchInv, Safe
<1>5. CASE add_learnt_clause
  <2>1. /\ pc = "backtrack" /\ pc' \in {"learnt", "scores"} /\ Cancelled
        /\ ClauseIds = DOMAIN F /\ ClauseIds' = DOMAIN F
        /\ UNCHANGED <<F, value, level, watched, w_clauses, said>>
    BY <1>5 DEF add_learnt_clause, Cancelled, assigned, watching, output, ClauseIds
  <2>2. ASSUME NEW c \in DOMAIN F PROVE Listed(c)' /\ (said' # "UNSAT" => Safe(c)')
    <3>1. Listed(c) /\ (said # "UNSAT" => Justified(c) \/ Doomed(c))
      BY <2>1, <2>2 DEF WatchInv, Pending
    <3>2. ~Doomed(c)
      <4>1. CASE decision_level <= Kept
        <5>1. decision_level \in Nat /\ Kept \in Nat
          BY DEF TypeInv, decision_level, Kept
        <5>2. ~(decision_level > Kept)
          BY <4>1, <5>1
        <5>3. QED
          BY <2>1, <5>2 DEF Doomed, Cancelling
      <4>2. CASE TopList = <<>>
        BY <3>1, <4>2, NoneDoomed
      <4>3. QED
        BY <2>1, <4>1, <4>2 DEF Cancelled
    <3>3. QED
      BY <2>1, <3>1, <3>2, WatchedSame DEF Safe
  <2>3. QED
    BY <2>1, <2>2 DEF WatchInv, Safe
<1>6. CASE update_scores \/ UpdateDone \/ decaying_sum
  <2>1. /\ pc \in {"scores", "decay"} /\ pc' \in {"scores", "decay", "learnt"}
        /\ UNCHANGED <<F, value, level, watched, w_clauses, said>>
    BY <1>6 DEF update_scores, UpdateDone, decaying_sum, assigned, watching, output
  <2>2. QED
    BY <2>1, WatchQuiet DEF ClauseIds
<1>7. CASE LearntDone
  <2>1. /\ pc = "learnt" /\ pc' \in {"plp", "start"}
        /\ UNCHANGED <<F, value, level, watched, w_clauses, said>>
    BY <1>7 DEF LearntDone, assigned, watching, output
  <2>2. QED
    BY <2>1, WatchQuiet DEF ClauseIds
<1>8. QED
  BY <1>1, <1>2, <1>3, <1>4, <1>5, <1>6, <1>7 DEF Analyze, Resolving

\* Every action keeps WatchInv.
LEMMA WatchStep ==
  ASSUME IInv, [Next]_vars
  PROVE  WatchInv'
<1>1. CASE UNCHANGED <<F, pc, pos, value, level, watched, w_clauses, walk, cur, bt_level,
                       assignment_trackers, said>>
  <2>1. \A c : /\ Listed(c) <=> Listed(c)'
               /\ Justified(c) <=> Justified(c)'
               /\ Pending(c) <=> Pending(c)'
               /\ Doomed(c) <=> Doomed(c)'
    BY <1>1 DEF Listed, Justified, Pending, Doomed, Cancelling, Kept, Hit, WatchedLit,
                IsTrue, IsFalse, decision_level
  <2>2. ClauseIds' = ClauseIds
    BY <1>1 DEF ClauseIds
  <2>3. QED
    BY <1>1, <2>1, <2>2 DEF IInv, WatchInv
<1>2. CASE BcpStart \/ BcpSkip
  <2>1. /\ pc \in {"start", "bcp"} /\ pc' = "bcp"
        /\ UNCHANGED <<F, value, level, watched, w_clauses, said>>
    BY <1>2 DEF BcpStart, BcpSkip, assigned, watching, output
  <2>2. QED
    BY <2>1, WatchQuiet DEF ClauseIds
<1>3. CASE BcpDone
  BY <1>3, WatchQuiet DEF BcpDone, ClauseIds, watching, output
<1>4. CASE PrintLit \/ Finish \/ termination_handler \/ UNCHANGED vars
  BY <1>1, <1>4 DEF PrintLit, Finish, termination_handler, vars, assigned, watching, bcp,
                    conflict, output
<1>5. QED
  BY <1>2, <1>3, <1>4, WatchBegin, WatchSearch, WatchAssign, WatchMove, WatchVisit,
     WatchAnalyze
  DEF Next, Step, Propagate
-----------------------------------------------------------------------------
(***************************************************************************)
(* The number of assignments                                               *)
(***************************************************************************)
Valued == {v \in Vars : value[v] # UNASSIGNED}

\* There are N variables.
LEMMA VarsFinite ==
  /\ IsFiniteSet(Vars) /\ Cardinality(Vars) = N
  /\ \A S \in SUBSET Vars : IsFiniteSet(S) /\ (Cardinality(S) = N => S = Vars)
<1>1. IsFiniteSet(Vars) /\ Cardinality(Vars) = N
  BY NAssumption, FS_Interval DEF Vars
<1>2. QED
  BY <1>1, FS_Subset

\* An assignment counts.
LEMMA AssignCount ==
  ASSUME TypeInv, CountInv, NEW l \in Lits, IsUnassigned(l), NEW from, assign(l, from)
  PROVE  CountInv'
<1>1. /\ Var(l) \in Vars /\ Var(l) \notin Valued
      /\ value' = [value EXCEPT ![Var(l)] = IF l > 0 THEN 1 ELSE 0]
      /\ value \in [Vars -> {UNASSIGNED, 0, 1}] /\ nassigned' = nassigned + 1
  BY LitFacts DEF assign, TypeInv, IsUnassigned, Valued
<1>2. Valued' = Valued \cup {Var(l)}
  BY <1>1 DEF Valued, UNASSIGNED
<1>3. IsFiniteSet(Valued)
  BY VarsFinite DEF Valued
<1>4. Cardinality(Valued') = Cardinality(Valued) + 1
  BY <1>1, <1>2, <1>3, FS_AddElement
<1>5. QED
  BY <1>1, <1>4 DEF CountInv, Valued

\* Every action keeps the count.
LEMMA CountStep ==
  ASSUME IInv, [Next]_vars
  PROVE  CountInv'
<1> USE DEF IInv
<1>1. CASE UNCHANGED <<value, nassigned>>
  BY <1>1 DEF CountInv, UNASSIGNED
<1>2. CASE PlpAssign
  <2>1. PICK l \in {pos, -pos} :
          IF IsUnassigned(l) THEN assign(l, NoClause) /\ UNCHANGED status
          ELSE status' = "error" /\ UNCHANGED <<assigned, table>>
    BY <1>2 DEF PlpAssign
  <2>2. l \in Lits
    <3>1. pos \in Vars
      BY <1>2, NAssumption DEF PlpAssign, TypeInv, Vars
    <3>2. pos \in Lits /\ -pos \in Lits
      BY <3>1, LitFacts
    <3>3. QED
      BY <3>2
  <2>3. QED
    BY <1>1, <2>1, <2>2, AssignCount DEF assigned
<1>3. CASE BcpAssign
  <2>1. /\ cur'.lit \in Lits /\ assign(cur'.lit, cur'.antecedent)
        /\ IsUnassigned(cur'.lit)
    BY <1>3, FrontLit DEF BcpAssign
  <2>2. QED
    BY <2>1, AssignCount
<1>4. CASE cancel
  <2> DEFINE v == Head(TopList)
  <2>1. v \in Valued /\ v \in Vars
    BY <1>4, CancelKeepsLevel DEF Valued
  <2>2. /\ value' = [value EXCEPT ![v] = UNASSIGNED] /\ nassigned' = nassigned - 1
        /\ value \in [Vars -> {UNASSIGNED, 0, 1}]
    BY <1>4 DEF cancel, TypeInv
  <2> HIDE DEF v
  <2>3. Valued' = Valued \ {v}
    BY <2>1, <2>2 DEF Valued, UNASSIGNED
  <2>4. IsFiniteSet(Valued)
    BY VarsFinite DEF Valued
  <2>5. Cardinality(Valued') = Cardinality(Valued) - 1
    BY <2>1, <2>3, <2>4, FS_RemoveElement
  <2>6. QED
    BY <2>2, <2>5 DEF CountInv, Valued
<1>5. CASE Begin
  BY <1>1, <1>5 DEF Begin, InitTable, InitWatched, InitEmptyClause, InitDone, assigned
<1>6. CASE PlpSkip \/ PlpDone \/ decide \/ SaySat
  BY <1>1, <1>6 DEF PlpSkip, PlpDone, decide, SaySat, assigned
<1>7. CASE \/ BcpStart \/ BcpSkip \/ BcpDone \/ VisitOther \/ VisitMove \/ VisitUnit
           \/ VisitConflict \/ SayUnsat \/ VisitDone
  BY <1>1, <1>7 DEF BcpStart, BcpSkip, BcpDone, VisitOther, VisitMove, VisitUnit,
                    VisitConflict, SayUnsat, VisitDone, assigned
<1>r. CASE Resolving
  BY <1>1, <1>r, ResolvingFacts DEF assigned
<1>8. CASE \/ get_backtracking_level \/ CancelLevel \/ add_learnt_clause
           \/ update_scores \/ UpdateDone \/ decaying_sum \/ LearntDone
  BY <1>1, <1>8 DEF get_backtracking_level, CancelLevel, add_learnt_clause,
                    update_scores, UpdateDone, decaying_sum, LearntDone, assigned
<1>9. CASE PrintLit \/ Finish \/ termination_handler \/ UNCHANGED vars
  BY <1>1, <1>9 DEF PrintLit, Finish, termination_handler, vars, assigned
<1>10. QED
  BY <1>2, <1>3, <1>4, <1>5, <1>6, <1>7, <1>r, <1>8, <1>9
  DEF Next, Step, Search, Propagate, Analyze, Resolving
-----------------------------------------------------------------------------
(***************************************************************************)
(* The theorems                                                            *)
(***************************************************************************)
\* The program starts in the invariant.
LEMMA InitIInv == Init => IInv
<1> SUFFICES ASSUME Init PROVE IInv
  OBVIOUS
<1>1. F \in Formulas
  BY Inputs1Assumption DEF Init
<1>2. DOMAIN F \subseteq Nat
  <2>1. F \in Seq(Seq(Lits))
    BY <1>1 DEF Formulas
  <2>2. QED
    BY <2>1
<1>3. LitsOnly(queue)
  <2>1. PICK x : x = [lit |-> 0, antecedent |-> NoClause]
    OBVIOUS
  <2>2. queue = InitQueue(x)
    BY <2>1 DEF Init
  <2>3. IsRing(queue) /\ queue.itemCount = 0
    BY <2>2, RingInit
  <2>4. DOMAIN Contents(queue) = {}
    BY <2>3 DEF Contents
  <2>5. QED
    BY <2>3, <2>4 DEF LitsOnly
<1>4. TypeInv
  <2>1. assignment_trackers \in Seq(Seq(Vars)) /\ decision_level = 1
    BY DEF Init, decision_level
  <2>2. \A S : <<0, 0>> \in [1..2 -> Nat] /\ <<>> \in Seq(S)
    OBVIOUS
  <2>3. /\ value \in [Vars -> {UNASSIGNED, 0, 1}] /\ level \in [Vars -> Int]
        /\ watched \in [DOMAIN F -> [1..2 -> Nat]]
        /\ w_clauses \in [Vars -> Seq(DOMAIN F)] /\ walk \in Seq(DOMAIN F)
    BY <2>2 DEF Init
  <2>4. /\ cur.lit = 0 /\ pc = "table" /\ pos = 1 /\ bt_level = 0
        /\ conflict_at_top = FALSE /\ said = "none" /\ status = "running"
    BY DEF Init
  <2>5. IsRing(queue) /\ \A k \in DOMAIN Contents(queue) : Contents(queue)[k].lit \in Lits
    BY <1>3 DEF LitsOnly
  <2>6. /\ pc \in {"table", "watch", "plp", "decide", "start", "bcp", "visit", "learn", "merge",
                   "backtrack", "scores", "decay", "learnt", "report"}
        /\ pos \in Nat \ {0} /\ cur.lit \in Lits \cup {0} /\ bt_level \in Nat
        /\ conflict_at_top \in BOOLEAN /\ said \in {"none", "SAT", "UNSAT"}
        /\ status \in {"running", "finished", "signalled", "error", "crashed"}
    <3>1. pos \in Nat \ {0} /\ cur.lit \in Lits \cup {0} /\ bt_level \in Nat
      BY <2>4
    <3>2. conflict_at_top \in BOOLEAN
      BY <2>4
    <3>3. QED
      BY <2>4, <3>1, <3>2
  <2>7. decision_level > 0
    BY <2>1
  <2>8. QED
    BY <1>1, <2>1, <2>3, <2>5, <2>6, <2>7, Zenon DEF TypeInv
<1>5. \A v \in Vars : value[v] = UNASSIGNED
  BY DEF Init
<1>6. CountInv
  <2>1. {v \in Vars : value[v] # UNASSIGNED} = {}
    BY <1>5
  <2>2. QED
    BY <2>1, FS_EmptySet DEF CountInv, Init
<1>7. CursorInv
  BY <1>5 DEF CursorInv, Init
<1>8. LevelInv
  <2>1. assignment_trackers = <<<<>>>> /\ decision_level = 1
    BY DEF Init, decision_level
  <2>2. QED
    BY <1>5, <2>1 DEF LevelInv
<1>9. WatchInv
  BY DEF WatchInv, ClauseIds, Init
<1>10. QED
  BY <1>4, <1>6, <1>7, <1>8, <1>9 DEF IInv

\* The invariant holds in every state solver1 reaches.
THEOREM Invariance == Spec => []IInv
<1>1. IInv /\ [Next]_vars => IInv'
  BY TypeStep, CountStep, CursorStep, LevelStep, WatchStep DEF IInv
<1>2. QED
  BY InitIInv, <1>1, PTL DEF Spec

\* The lists of the levels agree with the values, for backtracking to cancel the
\* assignments it should.
THEOREM LevelsAgree == Spec => []LevelInv
<1>1. IInv => LevelInv
  BY DEF IInv
<1>2. QED
  BY Invariance, <1>1, PTL

\* No clause becomes false unnoticed.
THEOREM NoneMissed == Spec => []WatchInv
<1>1. IInv => WatchInv
  BY DEF IInv
<1>2. QED
  BY Invariance, <1>1, PTL
-----------------------------------------------------------------------------
(***************************************************************************)
(* The tree of literals, for any entries: what a rotation, an insertion,   *)
(* a deletion and extract_max do to the entries and their order.  Each     *)
(* function is recursive; that the recursion has a solution is proved from *)
(* what it returns at the heights below.                                   *)
(***************************************************************************)
\* The recursion of Trees has a solution.
LEMMA TreesEquation ==
  Trees = [n \in Nat |-> IF n = 0 THEN {NULL} ELSE Grown(Trees[n - 1], n)]
<1> DEFINE P(f, k) == f = [n \in 0..k |-> IF n = 0 THEN {NULL} ELSE Grown(f[n - 1], n)]
<1>1. ASSUME NEW k \in Nat, NEW m \in Nat, NEW f, NEW e, P(f, k), P(e, m)
      PROVE  \A n \in Nat : n <= k /\ n <= m => f[n] = e[n]
  <2> DEFINE T == {n \in Nat : n <= k /\ n <= m => f[n] = e[n]}
  <2>1. 0 \in T
    BY <1>1
  <2>2. ASSUME NEW n \in Nat, n \in T PROVE n + 1 \in T
    <3>1. SUFFICES ASSUME n + 1 <= k, n + 1 <= m PROVE f[n + 1] = e[n + 1]
      OBVIOUS
    <3>2. f[n] = e[n]
      BY <2>2, <3>1
    <3>3. n + 1 # 0 /\ (n + 1) - 1 = n /\ n + 1 \in 0..k /\ n + 1 \in 0..m
      BY <3>1
    <3>4. f[n + 1] = Grown(f[n], n + 1) /\ e[n + 1] = Grown(e[n], n + 1)
      BY <1>1, <3>3
    <3>5. QED
      BY <3>2, <3>4
  <2> HIDE DEF T
  <2>3. \A n \in Nat : n \in T
    BY <2>1, <2>2, NatInduct
  <2>4. QED
    BY <2>3 DEF T
<1>2. \A k \in Nat : \E f : P(f, k)
  <2> DEFINE T == {k \in Nat : \E f : P(f, k)}
  <2>1. 0 \in T
    <3>1. P([n \in 0..0 |-> {NULL}], 0)
      OBVIOUS
    <3>2. QED
      BY <3>1
  <2>2. ASSUME NEW k \in Nat, k \in T PROVE k + 1 \in T
    <3>1. PICK f : P(f, k)
      BY <2>2
    <3> DEFINE e == [n \in 0..(k + 1) |-> IF n = k + 1 THEN Grown(f[k], k + 1) ELSE f[n]]
    <3>2. \A n \in 0..k : e[n] = f[n] /\ n # k + 1
      OBVIOUS
    <3>3. ASSUME NEW n \in 0..(k + 1)
          PROVE  e[n] = IF n = 0 THEN {NULL} ELSE Grown(e[n - 1], n)
      <4>1. CASE n = k + 1
        <5>1. k \in 0..k /\ n # 0 /\ n - 1 = k
          BY <4>1
        <5>2. e[n] = Grown(f[k], k + 1) /\ e[k] = f[k]
          BY <3>2, <4>1, <5>1
        <5>3. QED
          BY <5>1, <5>2
      <4>2. CASE n # k + 1 /\ n # 0
        <5>1. n \in 0..k /\ n - 1 \in 0..k
          BY <4>2
        <5>2. f[n] = Grown(f[n - 1], n)
          BY <3>1, <4>2, <5>1
        <5>3. QED
          BY <3>2, <4>2, <5>1, <5>2
      <4>3. CASE n = 0
        <5>1. n \in 0..k
          BY <4>3
        <5>2. QED
          BY <3>1, <3>2, <4>3, <5>1
      <4>4. QED
        BY <4>1, <4>2, <4>3
    <3>4. e = [n \in 0..(k + 1) |-> e[n]]
      OBVIOUS
    <3> HIDE DEF e
    <3>5. P(e, k + 1)
      BY <3>3, <3>4
    <3>6. QED
      BY <3>5
  <2> HIDE DEF T
  <2>3. \A k \in Nat : k \in T
    BY <2>1, <2>2, NatInduct
  <2>4. QED
    BY <2>3 DEF T
<1> DEFINE A == [k \in Nat |-> CHOOSE f : P(f, k)]
           g == [n \in Nat |-> A[n][n]]
<1>3. \A k \in Nat : P(A[k], k)
  BY <1>2
<1> HIDE DEF A
<1>4. ASSUME NEW n \in Nat PROVE g[n] = IF n = 0 THEN {NULL} ELSE Grown(g[n - 1], n)
  <2>1. n \in 0..n /\ P(A[n], n) /\ g[n] = A[n][n]
    <3>1. n \in 0..n /\ g[n] = A[n][n]
      OBVIOUS
    <3>2. P(A[n], n)
      BY <1>3, Zenon
    <3>3. QED
      BY <3>1, <3>2, Zenon
  <2>2. CASE n = 0
    BY <2>1, <2>2
  <2>3. CASE n # 0
    <3>1. n - 1 \in Nat /\ n - 1 <= n
      BY <2>3
    <3>2. P(A[n - 1], n - 1) /\ g[n - 1] = A[n - 1][n - 1]
      BY <1>3, <3>1
    <3>3. A[n][n - 1] = A[n - 1][n - 1]
      BY <1>1, <2>1, <3>1, <3>2
    <3>4. A[n][n] = Grown(A[n][n - 1], n)
      BY <2>1, <2>3
    <3>5. QED
      BY <2>1, <2>3, <3>2, <3>3, <3>4
  <2>4. QED
    BY <2>2, <2>3
<1>5. g = [n \in Nat |-> g[n]]
  OBVIOUS
<1> HIDE DEF g
<1>6. \E e : e = [n \in Nat |-> IF n = 0 THEN {NULL} ELSE Grown(e[n - 1], n)]
  BY <1>4, <1>5
<1>7. QED
  BY <1>6 DEF Trees

\* The trees of all heights.
Tree == UNION {Trees[h] : h \in Nat}

\* A tree is NULL or a node above the trees of a lower level.
LEMMA TreesCases ==
  ASSUME NEW h \in Nat, NEW t
  PROVE  t \in Trees[h] <=>
           \/ t = NULL
           \/ /\ h # 0 /\ t.height > Taller(t.left, t.right)
              /\ t \in [literal : Int, score : Nat, left : Trees[h - 1],
                        right : Trees[h - 1], height : 1..h]
<1>1. Trees[h] = IF h = 0 THEN {NULL} ELSE Grown(Trees[h - 1], h)
  BY TreesEquation
<1>2. QED
  BY <1>1 DEF Grown

\* Only NULL has the height 0.
LEMMA Height ==
  ASSUME NEW h \in Nat, NEW t \in Trees[h]
  PROVE  t.height \in 0..h /\ (t.height = 0 <=> t = NULL)
BY TreesCases DEF NULL

\* What a node of a tree is.
LEMMA NodeOf ==
  ASSUME NEW h \in Nat, NEW t \in Trees[h], t # NULL
  PROVE  /\ h - 1 \in Nat /\ t.left \in Trees[h - 1] /\ t.right \in Trees[h - 1]
         /\ t.literal \in Int /\ t.score \in Nat /\ t.height \in 1..h
         /\ t.left.height < t.height /\ t.right.height < t.height
         /\ t = [literal |-> t.literal, score |-> t.score, left |-> t.left,
                 right |-> t.right, height |-> t.height]
<1>1. /\ h # 0 /\ t.height > Taller(t.left, t.right)
      /\ t \in [literal : Int, score : Nat, left : Trees[h - 1],
                right : Trees[h - 1], height : 1..h]
  BY TreesCases
<1>2. h - 1 \in Nat /\ t.left \in Trees[h - 1] /\ t.right \in Trees[h - 1]
  BY <1>1
<1>3. t.left.height \in Int /\ t.right.height \in Int
  BY <1>2, Height
<1>4. t.left.height < t.height /\ t.right.height < t.height
  BY <1>1, <1>3 DEF Taller
<1>5. QED
  BY <1>1, <1>2, <1>4

\* A node of a height above those of its children is a tree.
LEMMA MakeNode ==
  ASSUME NEW h \in Nat, NEW l, NEW r, h # 0, l \in Trees[h - 1], r \in Trees[h - 1],
         NEW n \in 1..h, l.height < n, r.height < n,
         NEW literal \in Int, NEW sc \in Nat
  PROVE  [literal |-> literal, score |-> sc, left |-> l, right |-> r,
          height |-> n] \in Trees[h]
<1> DEFINE t == [literal |-> literal, score |-> sc, left |-> l, right |-> r,
                 height |-> n]
<1>1. l.height \in Int /\ r.height \in Int
  BY Height
<1>2. n > Taller(l, r)
  BY <1>1 DEF Taller
<1>3. t \in [literal : Int, score : Nat, left : Trees[h - 1],
             right : Trees[h - 1], height : 1..h]
  OBVIOUS
<1>4. t.height > Taller(t.left, t.right)
  BY <1>2
<1> HIDE DEF t
<1>5. t \in Trees[h]
  BY <1>3, <1>4, TreesCases
<1>6. QED
  BY <1>5 DEF t

\* A tree is found at every level from its height up.
LEMMA TreeAtHeight ==
  \A h \in Nat : \A t \in Trees[h], k \in Nat : t.height <= k => t \in Trees[k]
<1> DEFINE T == {h \in Nat : \A t \in Trees[h], k \in Nat :
                               t.height <= k => t \in Trees[k]}
<1>0. \A k \in Nat : NULL \in Trees[k]
  BY TreesCases
<1>1. 0 \in T
  BY <1>0, TreesCases
<1>2. ASSUME NEW h \in Nat, h \in T PROVE h + 1 \in T
  <2>1. ASSUME NEW t \in Trees[h + 1], NEW k \in Nat, t.height <= k, t # NULL
        PROVE  t \in Trees[k]
    <3>1. /\ t.left \in Trees[h] /\ t.right \in Trees[h]
          /\ t.literal \in Int /\ t.score \in Nat /\ t.height \in 1..(h + 1)
          /\ t.left.height < t.height /\ t.right.height < t.height
          /\ t = [literal |-> t.literal, score |-> t.score, left |-> t.left,
                  right |-> t.right, height |-> t.height]
      <4>1. h + 1 \in Nat /\ (h + 1) - 1 = h
        OBVIOUS
      <4>2. QED
        BY <2>1, <4>1, NodeOf
    <3>2. t.left.height \in Int /\ t.right.height \in Int
      BY <3>1, Height
    <3>3. k # 0 /\ k - 1 \in Nat /\ t.left.height <= k - 1 /\ t.right.height <= k - 1
      BY <2>1, <3>1, <3>2
    <3>4. t.left \in Trees[k - 1] /\ t.right \in Trees[k - 1]
      BY <1>2, <3>1, <3>3
    <3>5. t.height \in 1..k
      BY <2>1, <3>1
    <3>6. QED
      BY <3>1, <3>3, <3>4, <3>5, MakeNode
  <2>2. QED
    BY <1>0, <2>1
<1> HIDE DEF T
<1>3. \A h \in Nat : h \in T
  BY <1>1, <1>2, NatInduct
<1>4. QED
  BY <1>3 DEF T

\* A node of the tree as a record.
Node(literal, sc, l, r, n) ==
  [literal |-> literal, score |-> sc, left |-> l, right |-> r, height |-> n]

\* Trees, seen without their levels.
LEMMA TreeFacts ==
  /\ NULL \in Tree /\ NULL.height = 0 /\ Broken \notin Tree
  /\ \A t \in Tree : t.height \in Nat /\ t \in Trees[t.height] /\ (t.height = 0 <=> t = NULL)
<1>1. NULL \in Trees[0]
  BY TreesCases
<1>2. NULL \in Tree
  BY <1>1 DEF Tree
<1>3. ASSUME NEW t \in Tree
      PROVE  t.height \in Nat /\ t \in Trees[t.height] /\ (t.height = 0 <=> t = NULL)
  <2>1. PICK h \in Nat : t \in Trees[h]
    BY DEF Tree
  <2>2. t.height \in 0..h /\ (t.height = 0 <=> t = NULL)
    BY <2>1, Height
  <2>3. QED
    BY <2>1, <2>2, TreeAtHeight
<1>4. Broken \notin Tree
  BY <1>3 DEF Broken
<1>5. QED
  BY <1>2, <1>3, <1>4 DEF NULL

\* The node of a tree.
LEMMA NodeFacts ==
  ASSUME NEW t \in Tree, t # NULL
  PROVE  /\ t.left \in Tree /\ t.right \in Tree /\ t.literal \in Int /\ t.score \in Nat
         /\ t.height \in Nat /\ t.height > 0 /\ t.left.height \in Nat /\ t.right.height \in Nat
         /\ t.left.height < t.height /\ t.right.height < t.height
         /\ t = Node(t.literal, t.score, t.left, t.right, t.height)
<1>1. PICK h \in Nat : t \in Trees[h]
  BY DEF Tree
<1>2. /\ h - 1 \in Nat /\ t.left \in Trees[h - 1] /\ t.right \in Trees[h - 1]
      /\ t.literal \in Int /\ t.score \in Nat /\ t.height \in 1..h
      /\ t.left.height < t.height /\ t.right.height < t.height
      /\ t = Node(t.literal, t.score, t.left, t.right, t.height)
  BY <1>1, NodeOf DEF Node
<1>3. t.left \in Tree /\ t.right \in Tree
  BY <1>2 DEF Tree
<1>4. QED
  BY <1>2, <1>3, TreeFacts

\* A node above two trees is a tree.
LEMMA NodeInTree ==
  ASSUME NEW l \in Tree, NEW r \in Tree, NEW n \in Nat, l.height < n, r.height < n,
         NEW literal \in Int, NEW sc \in Nat
  PROVE  Node(literal, sc, l, r, n) \in Tree
<1>1. l.height \in Nat /\ r.height \in Nat /\ l \in Trees[l.height] /\ r \in Trees[r.height]
  BY TreeFacts
<1>2. n # 0 /\ n - 1 \in Nat /\ l.height <= n - 1 /\ r.height <= n - 1 /\ n \in 1..n
  BY <1>1
<1>3. l \in Trees[n - 1] /\ r \in Trees[n - 1]
  BY <1>1, <1>2, TreeAtHeight
<1>4. Node(literal, sc, l, r, n) \in Trees[n]
  BY <1>2, <1>3, MakeNode DEF Node
<1>5. QED
  BY <1>4 DEF Tree

\* The entry of a node, and lists of entries.
Entry(t) == [literal |-> t.literal, score |-> t.score]
EntrySet == [literal : Int, score : Nat]
EntryLists == Seq(EntrySet)

\* Entries lists the left child, the node and the right child.
LEMMA EntriesNode ==
  /\ Entries(NULL) = <<>> /\ Entries(Broken) = <<>>
  /\ \A t \in Tree : /\ Entries(t) \in EntryLists
                     /\ t # NULL => Entries(t) = Entries(t.left) \o <<Entry(t)>>
                                                   \o Entries(t.right)
<1> DEFINE Body(f, h, t) == IF t = NULL THEN <<>>
                            ELSE f[h - 1][t.left] \o <<Entry(t)>> \o f[h - 1][t.right]
           Level(f, h) == [t \in Trees[h] |-> Body(f, h, t)]
           Solves(f) == f = [h \in Nat |-> Level(f, h)]
<1>1. ASSUME NEW f, NEW h \in Nat, NEW t \in Trees[h],
             h # 0 => f[h - 1] \in [Trees[h - 1] -> EntryLists]
      PROVE  Body(f, h, t) \in EntryLists
  <2>1. CASE t = NULL
    BY <2>1 DEF EntryLists
  <2>2. CASE t # NULL
    <3>1. /\ h - 1 \in Nat /\ t.left \in Trees[h - 1] /\ t.right \in Trees[h - 1]
          /\ t.literal \in Int /\ t.score \in Nat /\ t.height \in 1..h
      BY <2>2, NodeOf
    <3>2. h # 0
      BY <3>1
    <3>3. f[h - 1][t.left] \in EntryLists /\ f[h - 1][t.right] \in EntryLists
      BY <1>1, <3>1, <3>2
    <3>4. Entry(t) \in [literal : Int, score : Nat]
      BY <3>1 DEF Entry
    <3>5. QED
      BY <2>2, <3>3, <3>4 DEF EntryLists, EntrySet
  <2>3. QED
    BY <2>1, <2>2
<1>2. ASSUME NEW f, Solves(f) PROVE \A h \in Nat : f[h] \in [Trees[h] -> EntryLists]
  <2> DEFINE T == {h \in Nat : f[h] \in [Trees[h] -> EntryLists]}
  <2>1. \A h \in Nat : f[h] = Level(f, h)
    BY <1>2
  <2> HIDE DEF Body
  <2>2. 0 \in T
    <3>1. \A t \in Trees[0] : Body(f, 0, t) \in EntryLists
      BY <1>1
    <3>2. QED
      BY <2>1, <3>1
  <2>3. ASSUME NEW h \in Nat, h \in T PROVE h + 1 \in T
    <3>1. h + 1 \in Nat /\ (h + 1) - 1 = h
      OBVIOUS
    <3>2. \A t \in Trees[h + 1] : Body(f, h + 1, t) \in EntryLists
      BY <1>1, <2>3, <3>1
    <3>3. QED
      BY <2>1, <3>1, <3>2
  <2> HIDE DEF T
  <2>4. \A h \in Nat : h \in T
    BY <2>2, <2>3, NatInduct
  <2>5. QED
    BY <2>4 DEF T
<1>3. \E f : Solves(f)
  <2> DEFINE st == [n \in Nat |-> [f \in [Trees[n] -> EntryLists] |->
                      [t \in Trees[n + 1] |->
                         IF t = NULL THEN <<>>
                         ELSE f[t.left] \o <<Entry(t)>> \o f[t.right]]]]
             f0 == [t \in Trees[0] |-> <<>>]
  <2>1. PICK g : g = [n \in Nat |-> IF n = 0 THEN f0 ELSE st[n - 1][g[n - 1]]]
    <3> HIDE DEF st, f0
    <3>1. \E g : Recurs(g, f0, st)
      BY Recursion
    <3>2. QED
      BY <3>1 DEF Recurs
  <2> DEFINE T == {h \in Nat : g[h] \in [Trees[h] -> EntryLists] /\ g[h] = Level(g, h)}
  <2> HIDE DEF Body
  <2>2. 0 \in T
    <3>1. g[0] = f0
      BY <2>1
    <3>2. \A t \in Trees[0] : Body(g, 0, t) = <<>>
      BY TreesCases DEF Body
    <3>3. <<>> \in EntryLists
      BY DEF EntryLists
    <3>4. QED
      BY <3>1, <3>2, <3>3
  <2>3. ASSUME NEW h \in Nat, h \in T PROVE h + 1 \in T
    <3>1. h + 1 \in Nat /\ (h + 1) - 1 = h /\ h + 1 # 0
      OBVIOUS
    <3>2. g[h] \in [Trees[h] -> EntryLists]
      BY <2>3
    <3>3. g[h + 1] = st[h][g[h]]
      <4> HIDE DEF st, f0
      <4>1. QED
        BY <2>1, <3>1
    <3>4. st[h][g[h]] = [t \in Trees[h + 1] |->
                           IF t = NULL THEN <<>>
                           ELSE g[h][t.left] \o <<Entry(t)>> \o g[h][t.right]]
      BY <3>2
    <3>5. g[h + 1] = Level(g, h + 1)
      BY <3>1, <3>3, <3>4 DEF Body
    <3>6. \A t \in Trees[h + 1] : Body(g, h + 1, t) \in EntryLists
      BY <1>1, <3>1, <3>2
    <3>7. QED
      BY <3>5, <3>6
  <2>4. \A h \in Nat : g[h] = Level(g, h)
    <3> HIDE DEF T
    <3>1. \A h \in Nat : h \in T
      BY <2>2, <2>3, NatInduct
    <3>2. QED
      BY <3>1 DEF T
  <2>5. g = [h \in Nat |-> g[h]]
    <3> HIDE DEF st, f0
    <3>1. QED
      BY <2>1
  <2>6. Solves(g)
    BY <2>4, <2>5
  <2>7. QED
    BY <2>6
<1> DEFINE L == CHOOSE f : Solves(f)
<1>4. Solves(L)
  BY <1>3
<1>5. \A t : Entries(t) = IF t = Broken THEN <<>> ELSE L[t.height][t]
  BY DEF Entries, Entry
<1> HIDE DEF L
<1>6. \A h \in Nat : \A t \in Trees[h] : L[h][t] = Body(L, h, t) /\ L[h][t] \in EntryLists
  <2>1. \A h \in Nat : L[h] \in [Trees[h] -> EntryLists]
    BY <1>2, <1>4
  <2>2. \A h \in Nat : L[h] = Level(L, h)
    BY <1>4
  <2>3. QED
    BY <2>1, <2>2

<1> HIDE DEF Body
<1>7. \A h \in Nat : \A t \in Trees[h], k \in Nat : t \in Trees[k] => L[h][t] = L[k][t]
  <2> DEFINE T == {h \in Nat : \A t \in Trees[h], k \in Nat :
                                 t \in Trees[k] => L[h][t] = L[k][t]}
  <2>1. ASSUME NEW h \in Nat, NEW k \in Nat, NULL \in Trees[h], NULL \in Trees[k]
        PROVE  L[h][NULL] = <<>> /\ L[k][NULL] = <<>>
    BY <1>6, <2>1 DEF Body
  <2>2. 0 \in T
    <3>1. \A t \in Trees[0] : t = NULL
      BY TreesCases
    <3>2. ASSUME NEW t \in Trees[0], NEW k \in Nat, t \in Trees[k]
          PROVE  L[0][t] = L[k][t]
      BY <2>1, <3>1, <3>2
    <3>3. QED
      BY <3>2
  <2>3. ASSUME NEW h \in Nat, h \in T PROVE h + 1 \in T
    <3>1. ASSUME NEW t \in Trees[h + 1], NEW k \in Nat, t \in Trees[k]
          PROVE  L[h + 1][t] = L[k][t]
      <4>0. h + 1 \in Nat /\ (h + 1) - 1 = h
        OBVIOUS
      <4>1. CASE t = NULL
        BY <2>1, <3>1, <4>0, <4>1
      <4>2. CASE t # NULL
        <5>1. t.left \in Trees[h] /\ t.right \in Trees[h]
          BY <4>0, <4>2, NodeOf
        <5>2. k - 1 \in Nat /\ t.left \in Trees[k - 1] /\ t.right \in Trees[k - 1]
          BY <3>1, <4>2, NodeOf
        <5>3. L[h][t.left] = L[k - 1][t.left] /\ L[h][t.right] = L[k - 1][t.right]
          BY <2>3, <5>1, <5>2
        <5>4. L[h + 1][t] = Body(L, h + 1, t) /\ L[k][t] = Body(L, k, t)
          BY <1>6, <3>1, <4>0
        <5>5. QED
          BY <4>0, <4>2, <5>3, <5>4 DEF Body
      <4>3. QED
        BY <4>1, <4>2
    <3>2. QED
      BY <3>1
  <2> HIDE DEF T
  <2>4. \A h \in Nat : h \in T
    BY <2>2, <2>3, NatInduct
  <2>5. QED
    BY <2>4 DEF T
<1>8. \A t \in Tree : Entries(t) = L[t.height][t]
  BY <1>5, TreeFacts
<1>9. Entries(NULL) = <<>> /\ Entries(Broken) = <<>>
  <2>1. Entries(Broken) = <<>>
    BY <1>5
  <2>2. NULL \in Trees[0] /\ Entries(NULL) = L[0][NULL]
    BY <1>8, TreeFacts
  <2>3. QED
    BY <1>6, <2>1, <2>2 DEF Body
<1>10. ASSUME NEW t \in Tree, t # NULL
       PROVE  Entries(t) = Entries(t.left) \o <<Entry(t)>> \o Entries(t.right)
  <2> DEFINE h == t.height
  <2>1. h \in Nat /\ t \in Trees[h]
    BY TreeFacts
  <2>2. h - 1 \in Nat /\ t.left \in Trees[h - 1] /\ t.right \in Trees[h - 1]
    BY <1>10, <2>1, NodeOf
  <2>3. t.left \in Tree /\ t.right \in Tree
    BY <1>10, NodeFacts
  <2>4. \A c \in {t.left, t.right} : c.height \in Nat /\ c \in Trees[c.height]
    BY <2>3, TreeFacts
  <2>5. Entries(t.left) = L[h - 1][t.left] /\ Entries(t.right) = L[h - 1][t.right]
    BY <1>7, <1>8, <2>2, <2>3, <2>4
  <2>6. Entries(t) = Body(L, h, t)
    BY <1>6, <1>8, <2>1
  <2>7. QED
    BY <1>10, <2>5, <2>6 DEF Body
<1>11. \A t \in Tree : Entries(t) \in EntryLists
  BY <1>6, <1>8, TreeFacts
<1>12. QED
  BY <1>9, <1>10, <1>11

\* The entries of a tree as a set, and their order.
Els(t) == {Entries(t)[i] : i \in DOMAIN Entries(t)}
Ordered(t) == \A i, j \in DOMAIN Entries(t) : i < j => Entries(t)[i].score <= Entries(t)[j].score

\* The places of a sequence with one element between two parts.
LEMMA Around ==
  ASSUME NEW S, NEW a \in Seq(S), NEW e \in S, NEW b \in Seq(S)
  PROVE  LET s == a \o <<e>> \o b IN
         /\ s \in Seq(S) /\ DOMAIN s = 1..(Len(a) + 1 + Len(b))
         /\ \A i \in 1..Len(a) : s[i] = a[i]
         /\ s[Len(a) + 1] = e
         /\ \A i \in 1..Len(b) : s[Len(a) + 1 + i] = b[i]
<1> DEFINE c == a \o <<e>>
           s == c \o b
<1>1. c \in Seq(S) /\ Len(c) = Len(a) + 1 /\ c[Len(a) + 1] = e
      /\ \A i \in 1..Len(a) : c[i] = a[i]
  OBVIOUS
<1>2. Len(a) \in Nat /\ Len(b) \in Nat
  OBVIOUS
<1> HIDE DEF c
<1>3. s \in Seq(S) /\ DOMAIN s = 1..(Len(c) + Len(b))
      /\ (\A i \in 1..Len(c) : s[i] = c[i])
      /\ (\A i \in 1..Len(b) : s[Len(c) + i] = b[i])
  BY <1>1
<1> HIDE DEF s
<1>4. \A i \in 1..Len(a) : s[i] = a[i]
  BY <1>1, <1>2, <1>3
<1>5. s[Len(a) + 1] = e
  BY <1>1, <1>2, <1>3
<1>6. QED
  BY <1>1, <1>3, <1>4, <1>5 DEF c, s

\* The entries of a node are those of its children and its own; they are in order
\* iff those of the children are, with its own between them.
LEMMA ElsNode ==
  ASSUME NEW t \in Tree, t # NULL
  PROVE  /\ Els(t) = Els(t.left) \cup {Entry(t)} \cup Els(t.right)
         /\ Ordered(t) <=> /\ Ordered(t.left) /\ Ordered(t.right)
                           /\ \A x \in Els(t.left) : x.score <= t.score
                           /\ \A x \in Els(t.right) : t.score <= x.score
<1> DEFINE a == Entries(t.left)
           b == Entries(t.right)
           e == Entry(t)
           s == Entries(t)
           S == EntrySet
           n == Len(a)
           m == Len(b)
<1>1. a \in Seq(S) /\ b \in Seq(S) /\ s = a \o <<e>> \o b
  BY EntriesNode, NodeFacts DEF EntryLists
<1>2. e \in S /\ e.score = t.score
  BY NodeFacts DEF Entry, EntrySet
<1> HIDE DEF a, b, e, s, S
<1>3. /\ DOMAIN s = 1..(n + 1 + m)
      /\ \A i \in 1..n : s[i] = a[i]
      /\ s[n + 1] = e
      /\ \A i \in 1..m : s[n + 1 + i] = b[i]
  BY <1>1, <1>2, Around
<1>4. n \in Nat /\ m \in Nat /\ DOMAIN a = 1..n /\ DOMAIN b = 1..m
      /\ (\A i \in 1..n : a[i] \in S) /\ (\A i \in 1..m : b[i] \in S)
  BY <1>1
<1> HIDE DEF n, m
<1>5. \A i \in DOMAIN s : i \in 1..n \/ i = n + 1 \/ (\E k \in 1..m : i = n + 1 + k)
  <2>1. ASSUME NEW i \in DOMAIN s, i \notin 1..n, i # n + 1
        PROVE  \E k \in 1..m : i = n + 1 + k
    <3>1. i - (n + 1) \in 1..m /\ i = n + 1 + (i - (n + 1))
      BY <1>3, <1>4, <2>1
    <3>2. QED
      BY <3>1
  <2>2. QED
    BY <2>1
<1>6. Els(t) = {s[i] : i \in DOMAIN s} /\ Els(t.left) = {a[i] : i \in 1..n}
      /\ Els(t.right) = {b[i] : i \in 1..m}
  BY <1>4 DEF Els, s, a, b
<1>7. Els(t) = Els(t.left) \cup {e} \cup Els(t.right)
  <2>1. \A i \in 1..n : i \in DOMAIN s
    BY <1>3, <1>4
  <2>2. n + 1 \in DOMAIN s
    BY <1>3, <1>4
  <2>3. \A i \in 1..m : n + 1 + i \in DOMAIN s
    BY <1>3, <1>4
  <2>4. QED
    BY <1>3, <1>5, <1>6, <2>1, <2>2, <2>3
<1>8. /\ Ordered(t) <=> \A i, j \in DOMAIN s : i < j => s[i].score <= s[j].score
      /\ Ordered(t.left) <=> \A i, j \in 1..n : i < j => a[i].score <= a[j].score
      /\ Ordered(t.right) <=> \A i, j \in 1..m : i < j => b[i].score <= b[j].score
  BY <1>4 DEF Ordered, s, a, b
<1>9. ASSUME Ordered(t)
      PROVE  /\ Ordered(t.left) /\ Ordered(t.right)
             /\ \A x \in Els(t.left) : x.score <= t.score
             /\ \A x \in Els(t.right) : t.score <= x.score
  <2>1. \A i, j \in DOMAIN s : i < j => s[i].score <= s[j].score
    BY <1>8, <1>9
  <2>2. Ordered(t.left)
    <3>1. ASSUME NEW i \in 1..n, NEW j \in 1..n, i < j PROVE a[i].score <= a[j].score
      <4>1. i \in DOMAIN s /\ j \in DOMAIN s
        BY <1>3, <1>4
      <4>2. QED
        BY <1>3, <2>1, <3>1, <4>1
    <3>2. QED
      BY <1>8, <3>1
  <2>3. Ordered(t.right)
    <3>1. ASSUME NEW i \in 1..m, NEW j \in 1..m, i < j PROVE b[i].score <= b[j].score
      <4>1. n + 1 + i \in DOMAIN s /\ n + 1 + j \in DOMAIN s /\ n + 1 + i < n + 1 + j
        BY <1>3, <1>4, <3>1
      <4>2. QED
        BY <1>3, <2>1, <4>1
    <3>2. QED
      BY <1>8, <3>1
  <2>4. ASSUME NEW i \in 1..n PROVE a[i].score <= t.score
    <3>1. i \in DOMAIN s /\ n + 1 \in DOMAIN s /\ i < n + 1
      BY <1>3, <1>4
    <3>2. QED
      BY <1>2, <1>3, <2>1, <3>1
  <2>5. ASSUME NEW i \in 1..m PROVE t.score <= b[i].score
    <3>1. n + 1 + i \in DOMAIN s /\ n + 1 \in DOMAIN s /\ n + 1 < n + 1 + i
      BY <1>3, <1>4
    <3>2. QED
      BY <1>2, <1>3, <2>1, <3>1
  <2>6. QED
    BY <1>6, <2>2, <2>3, <2>4, <2>5
<1>10. ASSUME Ordered(t.left), Ordered(t.right),
              \A x \in Els(t.left) : x.score <= t.score,
              \A x \in Els(t.right) : t.score <= x.score
       PROVE  Ordered(t)
  <2>1. \A i \in 1..n : a[i].score <= t.score /\ a[i].score \in Nat
    BY <1>4, <1>6, <1>10 DEF S, EntrySet
  <2>2. \A i \in 1..m : t.score <= b[i].score /\ b[i].score \in Nat
    BY <1>4, <1>6, <1>10 DEF S, EntrySet
  <2>3. t.score \in Nat
    BY NodeFacts
  <2>4. ASSUME NEW i \in DOMAIN s, NEW j \in DOMAIN s, i < j
        PROVE  s[i].score <= s[j].score
    <3>1. CASE j \in 1..n
      <4>1. i \in 1..n
        BY <1>3, <1>4, <2>4, <3>1
      <4>2. QED
        BY <1>3, <1>8, <1>10, <2>4, <3>1, <4>1
    <3>2. CASE j = n + 1
      <4>1. i \in 1..n
        BY <1>3, <1>4, <2>4, <3>2
      <4>2. QED
        BY <1>2, <1>3, <2>1, <3>2, <4>1
    <3>3. CASE \E k \in 1..m : j = n + 1 + k
      <4>1. PICK k \in 1..m : j = n + 1 + k
        BY <3>3
      <4>2. s[j] = b[k]
        BY <1>3, <4>1
      <4>3. CASE i \in 1..n
        <5>1. s[i] = a[i]
          BY <1>3, <4>3
        <5>2. a[i].score <= t.score /\ t.score <= b[k].score
              /\ a[i].score \in Nat /\ b[k].score \in Nat
          BY <2>1, <2>2, <4>3
        <5>3. a[i].score <= b[k].score
          BY <2>3, <5>2
        <5>4. QED
          BY <4>2, <5>1, <5>3
      <4>4. CASE i = n + 1
        BY <1>2, <1>3, <2>2, <4>2, <4>4
      <4>5. CASE \E q \in 1..m : i = n + 1 + q
        <5>1. PICK q \in 1..m : i = n + 1 + q
          BY <4>5
        <5>2. q < k
          BY <1>4, <2>4, <4>1, <5>1
        <5>3. QED
          BY <1>3, <1>8, <1>10, <4>2, <5>1, <5>2
      <4>6. QED
        BY <1>5, <4>3, <4>4, <4>5
    <3>4. QED
      BY <1>5, <3>1, <3>2, <3>3
  <2>5. QED
    BY <1>8, <2>4
<1>11. QED
  BY <1>7, <1>9, <1>10 DEF e

\* NULL and Broken have no entries.
LEMMA ElsFacts ==
  /\ Els(NULL) = {} /\ Ordered(NULL) /\ Els(Broken) = {} /\ Ordered(Broken)
  /\ \A t \in Tree : \A x \in Els(t) : x \in EntrySet
<1>1. DOMAIN Entries(NULL) = {} /\ DOMAIN Entries(Broken) = {}
  <2>1. Entries(NULL) = <<>> /\ Entries(Broken) = <<>>
    BY EntriesNode
  <2>2. QED
    BY <2>1
<1>2. ASSUME NEW t \in Tree, NEW x \in Els(t) PROVE x \in EntrySet
  <2>1. Entries(t) \in Seq(EntrySet)
    BY EntriesNode DEF EntryLists
  <2>2. PICK i \in DOMAIN Entries(t) : x = Entries(t)[i]
    BY DEF Els
  <2>3. DOMAIN Entries(t) = 1..Len(Entries(t))
    BY <2>1
  <2>4. Entries(t)[i] \in EntrySet
    BY <2>1, <2>3
  <2>5. QED
    BY <2>2, <2>4
<1>3. QED
  BY <1>1, <1>2 DEF Els, Ordered

\* u is the node t with the children l and r.
IsWith(u, t, l, r) ==
  /\ u \in Tree /\ u # NULL /\ u # Broken
  /\ u.left = l /\ u.right = r /\ u.literal = t.literal /\ u.score = t.score
  /\ u.height = 1 + Taller(l, r)
  /\ Els(u) = Els(l) \cup {Entry(t)} \cup Els(r)
  /\ Ordered(u) <=> /\ Ordered(l) /\ Ordered(r)
                    /\ \A x \in Els(l) : x.score <= t.score
                    /\ \A x \in Els(r) : t.score <= x.score

\* With is a node of a tree with these children.
LEMMA WithFacts ==
  ASSUME NEW t \in Tree, t # NULL, NEW l \in Tree, NEW r \in Tree
  PROVE  IsWith(With(t, l, r), t, l, r)
<1> DEFINE u == With(t, l, r)
           h == 1 + Taller(l, r)
<1>1. l # Broken /\ r # Broken /\ l.height \in Nat /\ r.height \in Nat
  BY TreeFacts
<1>2. /\ t.literal \in Int /\ t.score \in Nat
      /\ t = Node(t.literal, t.score, t.left, t.right, t.height)
  BY NodeFacts
<1>3. u = [t EXCEPT !.left = l, !.right = r, !.height = h]
  BY <1>1 DEF With
<1>4. u = Node(t.literal, t.score, l, r, h)
  BY <1>2, <1>3 DEF Node
<1>5. h \in Nat /\ l.height < h /\ r.height < h
  BY <1>1 DEF Taller
<1> HIDE DEF h, u
<1>6. u \in Tree
  BY <1>2, <1>4, <1>5, NodeInTree
<1>7. /\ u.left = l /\ u.right = r /\ u.literal = t.literal /\ u.score = t.score
      /\ u.height = h
  BY <1>4 DEF Node
<1>8. u # NULL /\ u # Broken
  BY <1>1, <1>5, <1>6, <1>7, TreeFacts
<1>9. Entry(u) = Entry(t)
  BY <1>7 DEF Entry
<1>10. QED
  BY <1>6, <1>7, <1>8, <1>9, ElsNode DEF h, u, IsWith

\* The same entries, in order if they were.
Like(u, t) == u \in Tree /\ u # NULL /\ Els(u) = Els(t) /\ (Ordered(t) => Ordered(u))

\* Rotations keep the entries and their order.
LEMMA RotateRight ==
  ASSUME NEW t \in Tree, t # NULL, t.left # NULL
  PROVE  /\ Like(rotate_right(t), t) /\ rotate_right(t).right # NULL
         /\ rotate_right(t) = With(t.left, t.left.left, With(t, t.left.right, t.right))
<1> DEFINE l == t.left
           u == With(t, l.right, t.right)
           v == With(l, l.left, u)
<1>1. l \in Tree /\ t.right \in Tree /\ t.score \in Nat
  BY NodeFacts
<1>2. l.left \in Tree /\ l.right \in Tree /\ l.score \in Nat
  BY <1>1, NodeFacts
<1>3. /\ u \in Tree /\ u # NULL
      /\ Els(u) = Els(l.right) \cup {Entry(t)} \cup Els(t.right)
      /\ Ordered(u) <=> /\ Ordered(l.right) /\ Ordered(t.right)
                        /\ \A x \in Els(l.right) : x.score <= t.score
                        /\ \A x \in Els(t.right) : t.score <= x.score
  BY <1>1, <1>2, WithFacts DEF IsWith
<1> HIDE DEF u
<1>14. l # NULL
  OBVIOUS
<1> HIDE DEF l
<1>4. /\ v \in Tree /\ v # NULL /\ v.right = u
      /\ Els(v) = Els(l.left) \cup {Entry(l)} \cup Els(u)
      /\ Ordered(v) <=> /\ Ordered(l.left) /\ Ordered(u)
                        /\ \A x \in Els(l.left) : x.score <= l.score
                        /\ \A x \in Els(u) : l.score <= x.score
  <2>1. IsWith(v, l, l.left, u)
    BY <1>1, <1>2, <1>3, <1>14, WithFacts
  <2>2. QED
    BY <2>1 DEF IsWith
<1> HIDE DEF v
<1>5. /\ Els(l) = Els(l.left) \cup {Entry(l)} \cup Els(l.right)
      /\ Ordered(l) <=> /\ Ordered(l.left) /\ Ordered(l.right)
                        /\ \A x \in Els(l.left) : x.score <= l.score
                        /\ \A x \in Els(l.right) : l.score <= x.score
  BY <1>1, <1>14, ElsNode
<1>6. /\ Els(t) = Els(l) \cup {Entry(t)} \cup Els(t.right)
      /\ Ordered(t) <=> /\ Ordered(l) /\ Ordered(t.right)
                        /\ \A x \in Els(l) : x.score <= t.score
                        /\ \A x \in Els(t.right) : t.score <= x.score
  BY ElsNode DEF l
<1>7. Els(v) = Els(t)
  BY <1>3, <1>4, <1>5, <1>6
<1>8. Ordered(t) => Ordered(v)
  <2> SUFFICES ASSUME Ordered(t) PROVE Ordered(v)
    OBVIOUS
  <2>1. Ordered(u)
    BY <1>3, <1>5, <1>6
  <2>2. \A x \in Els(u) : l.score <= x.score
    <3>1. Entry(l) \in Els(l) /\ Entry(l).score = l.score /\ Entry(t).score = t.score
      BY <1>5 DEF Entry
    <3>2. l.score <= t.score
      BY <1>6, <3>1
    <3>3. ASSUME NEW x \in Els(t.right) PROVE l.score <= x.score
      <4>1. x.score \in Nat /\ t.score <= x.score
        BY <1>1, <1>6, ElsFacts DEF EntrySet
      <4>2. QED
        BY <1>1, <1>2, <3>2, <4>1
    <3>4. QED
      BY <1>3, <1>5, <1>6, <3>1, <3>2, <3>3
  <2>3. QED
    BY <1>4, <1>5, <1>6, <2>1, <2>2
<1>9. rotate_right(t) = v
  BY DEF rotate_right, v, u, l
<1>10. QED
  BY <1>3, <1>4, <1>7, <1>8, <1>9 DEF Like, u, v, l

\* And of a left rotation.
LEMMA RotateLeft ==
  ASSUME NEW t \in Tree, t # NULL, t.right # NULL
  PROVE  /\ Like(rotate_left(t), t) /\ rotate_left(t).left # NULL
<1> DEFINE r == t.right
           u == With(t, t.left, r.left)
           v == With(r, u, r.right)
<1>1. r \in Tree /\ t.left \in Tree /\ t.score \in Nat
  BY NodeFacts
<1>2. r.left \in Tree /\ r.right \in Tree /\ r.score \in Nat
  BY <1>1, NodeFacts
<1>3. /\ u \in Tree /\ u # NULL
      /\ Els(u) = Els(t.left) \cup {Entry(t)} \cup Els(r.left)
      /\ Ordered(u) <=> /\ Ordered(t.left) /\ Ordered(r.left)
                        /\ \A x \in Els(t.left) : x.score <= t.score
                        /\ \A x \in Els(r.left) : t.score <= x.score
  BY <1>1, <1>2, WithFacts DEF IsWith
<1> HIDE DEF u
<1>14. r # NULL
  OBVIOUS
<1> HIDE DEF r
<1>4. /\ v \in Tree /\ v # NULL /\ v.left = u
      /\ Els(v) = Els(u) \cup {Entry(r)} \cup Els(r.right)
      /\ Ordered(v) <=> /\ Ordered(u) /\ Ordered(r.right)
                        /\ \A x \in Els(u) : x.score <= r.score
                        /\ \A x \in Els(r.right) : r.score <= x.score
  <2>1. IsWith(v, r, u, r.right)
    BY <1>1, <1>2, <1>3, <1>14, WithFacts
  <2>2. QED
    BY <2>1 DEF IsWith
<1> HIDE DEF v
<1>5. /\ Els(r) = Els(r.left) \cup {Entry(r)} \cup Els(r.right)
      /\ Ordered(r) <=> /\ Ordered(r.left) /\ Ordered(r.right)
                        /\ \A x \in Els(r.left) : x.score <= r.score
                        /\ \A x \in Els(r.right) : r.score <= x.score
  BY <1>1, <1>14, ElsNode
<1>6. /\ Els(t) = Els(t.left) \cup {Entry(t)} \cup Els(r)
      /\ Ordered(t) <=> /\ Ordered(t.left) /\ Ordered(r)
                        /\ \A x \in Els(t.left) : x.score <= t.score
                        /\ \A x \in Els(r) : t.score <= x.score
  BY ElsNode DEF r
<1>7. Els(v) = Els(t)
  BY <1>3, <1>4, <1>5, <1>6
<1>8. Ordered(t) => Ordered(v)
  <2> SUFFICES ASSUME Ordered(t) PROVE Ordered(v)
    OBVIOUS
  <2>1. Ordered(u)
    BY <1>3, <1>5, <1>6
  <2>2. \A x \in Els(u) : x.score <= r.score
    <3>1. Entry(r) \in Els(r) /\ Entry(r).score = r.score /\ Entry(t).score = t.score
      BY <1>5 DEF Entry
    <3>2. t.score <= r.score
      BY <1>6, <3>1
    <3>3. ASSUME NEW x \in Els(t.left) PROVE x.score <= r.score
      <4>1. x.score \in Nat /\ x.score <= t.score
        BY <1>1, <1>6, ElsFacts DEF EntrySet
      <4>2. QED
        BY <1>1, <1>2, <3>2, <4>1
    <3>4. QED
      BY <1>3, <1>5, <1>6, <3>1, <3>2, <3>3
  <2>3. QED
    BY <1>4, <1>5, <1>6, <2>1, <2>2
<1>9. rotate_left(t) = v
  BY DEF rotate_left, v, u, r
<1>10. QED
  BY <1>3, <1>4, <1>7, <1>8, <1>9 DEF Like, u, v, r

\* Children with the same entries.
LEMMA WithLike ==
  ASSUME NEW t \in Tree, t # NULL, NEW l \in Tree, NEW r \in Tree,
         Els(l) = Els(t.left), Ordered(t.left) => Ordered(l),
         Els(r) = Els(t.right), Ordered(t.right) => Ordered(r)
  PROVE  Like(With(t, l, r), t)
<1>1. IsWith(With(t, l, r), t, l, r)
  BY WithFacts
<1>2. QED
  BY <1>1, ElsNode DEF IsWith, Like

\* A node above a broken tree is broken.
LEMMA WithBroken ==
  ASSUME NEW t, NEW l, NEW r
  PROVE  With(t, Broken, r) = Broken /\ With(t, l, Broken) = Broken
BY DEF With

\* One change after the other.
LEMMA LikeTrans ==
  ASSUME NEW s, NEW t, NEW u, Like(s, t), Like(t, u)
  PROVE  Like(s, u)
BY DEF Like

\* So do two rotations, unless the grandchild is missing.
LEMMA RotateTwiceRight ==
  ASSUME NEW t \in Tree, t # NULL, t.left # NULL
  PROVE  /\ RotateLeftRight(t) = Broken \/ Like(RotateLeftRight(t), t)
         /\ t.left.right # NULL => Like(RotateLeftRight(t), t)
<1> DEFINE x == rotate_left(t.left)
           u == With(t, x, t.right)
<1>1. t.left \in Tree /\ t.right \in Tree
  BY NodeFacts
<1>2. RotateLeftRight(t) = IF u = Broken THEN Broken ELSE rotate_right(u)
  BY DEF RotateLeftRight
<1>3. CASE t.left.right = NULL
  <2>1. x = Broken
    BY <1>3 DEF rotate_left
  <2>2. QED
    BY <1>2, <1>3, <2>1, WithBroken
<1>4. CASE t.left.right # NULL
  <2>1. Like(x, t.left)
    BY <1>1, <1>4, RotateLeft
  <2>2. x \in Tree /\ x # NULL /\ Els(x) = Els(t.left) /\ (Ordered(t.left) => Ordered(x))
    BY <2>1 DEF Like
  <2> HIDE DEF x
  <2>3. Like(u, t)
    BY <1>1, <2>2, WithLike
  <2>4. u \in Tree /\ u # NULL /\ u # Broken /\ u.left = x
    BY <1>1, <2>2, WithFacts DEF IsWith
  <2> HIDE DEF u
  <2>5. Like(rotate_right(u), u)
    BY <2>2, <2>4, RotateRight
  <2>6. RotateLeftRight(t) = rotate_right(u)
    BY <1>2, <2>4
  <2>7. QED
    BY <2>3, <2>5, <2>6, LikeTrans
<1>5. QED
  BY <1>3, <1>4

\* The same to the left.
LEMMA RotateTwiceLeft ==
  ASSUME NEW t \in Tree, t # NULL, t.right # NULL
  PROVE  /\ RotateRightLeft(t) = Broken \/ Like(RotateRightLeft(t), t)
         /\ t.right.left # NULL => Like(RotateRightLeft(t), t)
<1> DEFINE x == rotate_right(t.right)
           u == With(t, t.left, x)
<1>1. t.left \in Tree /\ t.right \in Tree
  BY NodeFacts
<1>2. RotateRightLeft(t) = IF u = Broken THEN Broken ELSE rotate_left(u)
  BY DEF RotateRightLeft
<1>3. CASE t.right.left = NULL
  <2>1. x = Broken
    BY <1>3 DEF rotate_right
  <2>2. QED
    BY <1>2, <1>3, <2>1, WithBroken
<1>4. CASE t.right.left # NULL
  <2>1. Like(x, t.right)
    BY <1>1, <1>4, RotateRight
  <2>2. x \in Tree /\ x # NULL /\ Els(x) = Els(t.right) /\ (Ordered(t.right) => Ordered(x))
    BY <2>1 DEF Like
  <2> HIDE DEF x
  <2>3. Like(u, t)
    BY <1>1, <2>2, WithLike
  <2>4. u \in Tree /\ u # NULL /\ u # Broken /\ u.right = x
    BY <1>1, <2>2, WithFacts DEF IsWith
  <2> HIDE DEF u
  <2>5. Like(rotate_left(u), u)
    BY <2>2, <2>4, RotateLeft
  <2>6. RotateRightLeft(t) = rotate_left(u)
    BY <1>2, <2>4
  <2>7. QED
    BY <2>3, <2>5, <2>6, LikeTrans
<1>5. QED
  BY <1>3, <1>4

\* The balance of a node is off to a side only if it has a child there.
LEMMA Balance ==
  ASSUME NEW t \in Tree
  PROVE  /\ get_balance(t) \in Int
         /\ get_balance(t) > 0 => t # NULL /\ t.left # NULL
         /\ get_balance(t) < 0 => t # NULL /\ t.right # NULL
<1>1. CASE t = NULL
  BY <1>1 DEF get_balance
<1>2. CASE t # NULL
  <2>1. t.left \in Tree /\ t.right \in Tree /\ t.left.height \in Nat /\ t.right.height \in Nat
    BY <1>2, NodeFacts
  <2>2. (t.left.height = 0 <=> t.left = NULL) /\ (t.right.height = 0 <=> t.right = NULL)
    BY <2>1, TreeFacts
  <2>3. QED
    BY <1>2, <2>1, <2>2 DEF get_balance
<1>3. QED
  BY <1>1, <1>2

\* No change is one too.
LEMMA LikeItself ==
  ASSUME NEW t \in Tree, t # NULL
  PROVE  Like(t, t)
BY DEF Like

\* insert_literal ends with a tree of the same entries, or breaks.
LEMMA RebalancedFacts ==
  ASSUME NEW t \in Tree, t # NULL, NEW sc \in Nat
  PROVE  Rebalanced(t, sc) = Broken \/ Like(Rebalanced(t, sc), t)
<1>1. /\ t # Broken /\ get_balance(t) \in Int
      /\ get_balance(t) > 1 => t.left # NULL
      /\ get_balance(t) < -1 => t.right # NULL
  BY Balance, TreeFacts
<1>2. /\ get_balance(t) > 1 => t.left.score \in Nat
      /\ get_balance(t) < -1 => t.right.score \in Nat
  BY <1>1, NodeFacts
<1>3. Rebalanced(t, sc) \in {t}
        \cup (IF t.left # NULL THEN {rotate_right(t), RotateLeftRight(t)} ELSE {})
        \cup (IF t.right # NULL THEN {rotate_left(t), RotateRightLeft(t)} ELSE {})
  <2>1. CASE get_balance(t) > 1
    BY <1>1, <1>2, <2>1 DEF Rebalanced
  <2>2. CASE get_balance(t) < -1
    BY <1>1, <1>2, <2>2 DEF Rebalanced
  <2>3. CASE ~(get_balance(t) > 1) /\ ~(get_balance(t) < -1)
    BY <1>1, <2>3 DEF Rebalanced
  <2>4. QED
    BY <2>1, <2>2, <2>3
<1>4. t.left # NULL => /\ Like(rotate_right(t), t)
                       /\ RotateLeftRight(t) = Broken \/ Like(RotateLeftRight(t), t)
  BY RotateRight, RotateTwiceRight
<1>5. t.right # NULL => /\ Like(rotate_left(t), t)
                        /\ RotateRightLeft(t) = Broken \/ Like(RotateRightLeft(t), t)
  BY RotateLeft, RotateTwiceLeft
<1>6. QED
  BY <1>3, <1>4, <1>5, LikeItself

\* What insert_literal makes of the tree t.
Inserted(u, t, e) ==
  \/ u = Broken
  \/ /\ u \in Tree /\ u # NULL /\ Els(u) = Els(t) \cup {e}
     /\ Ordered(t) => Ordered(u)

\* A literal into the empty tree.
LEMMA LeafFacts ==
  ASSUME NEW literal \in Int, NEW sc \in Nat
  PROVE  Inserted(init_node(literal, sc), NULL, [literal |-> literal, score |-> sc])
<1> DEFINE t == init_node(literal, sc)
<1>1. t = Node(literal, sc, NULL, NULL, 1)
  BY DEF init_node, Node
<1>2. t \in Tree
  BY <1>1, NodeInTree, TreeFacts
<1>3. t.height = 1 /\ t.left = NULL /\ t.right = NULL
      /\ Entry(t) = [literal |-> literal, score |-> sc]
  BY <1>1 DEF Node, Entry
<1> HIDE DEF t
<1>4. t # NULL
  BY <1>2, <1>3, TreeFacts
<1>5. QED
  BY <1>2, <1>3, <1>4, ElsNode, ElsFacts DEF Inserted, t

\* The literal goes to the right, where the scores are as high as its own.
LEMMA InsertRight ==
  ASSUME NEW t \in Tree, t # NULL, NEW literal \in Int, NEW sc \in Nat,
         NEW v, Inserted(v, t.right, [literal |-> literal, score |-> sc]),
         t.score <= sc
  PROVE  Inserted(Rebalanced(With(t, t.left, v), sc), t,
                  [literal |-> literal, score |-> sc])
<1> DEFINE e == [literal |-> literal, score |-> sc]
           u == With(t, t.left, v)
<1>1. t.left \in Tree /\ t.right \in Tree /\ e.score = sc
  BY NodeFacts
<1>2. CASE v = Broken
  <2>1. u = Broken
    BY <1>2, WithBroken
  <2>2. Rebalanced(u, sc) = Broken
    BY <2>1 DEF Rebalanced
  <2>3. QED
    BY <2>2 DEF Inserted
<1>3. CASE v # Broken
  <2>1. v \in Tree /\ Els(v) = Els(t.right) \cup {e} /\ (Ordered(t.right) => Ordered(v))
    BY <1>3 DEF Inserted
  <2>2. IsWith(u, t, t.left, v)
    BY <1>1, <2>1, WithFacts
  <2> HIDE DEF e, u
  <2>3. u \in Tree /\ u # NULL /\ Els(u) = Els(t) \cup {e} /\ (Ordered(t) => Ordered(u))
    BY <1>1, <2>1, <2>2, ElsNode DEF IsWith
  <2>4. Rebalanced(u, sc) = Broken \/ Like(Rebalanced(u, sc), u)
    BY <2>3, RebalancedFacts
  <2>5. QED
    BY <2>3, <2>4 DEF Like, Inserted, e, u
<1>4. QED
  BY <1>2, <1>3

\* The literal goes to the left, where the scores are as low as its own.
LEMMA InsertLeft ==
  ASSUME NEW t \in Tree, t # NULL, NEW literal \in Int, NEW sc \in Nat,
         NEW v, Inserted(v, t.left, [literal |-> literal, score |-> sc]),
         sc <= t.score
  PROVE  Inserted(Rebalanced(With(t, v, t.right), sc), t,
                  [literal |-> literal, score |-> sc])
<1> DEFINE e == [literal |-> literal, score |-> sc]
           u == With(t, v, t.right)
<1>1. t.left \in Tree /\ t.right \in Tree /\ e.score = sc
  BY NodeFacts
<1>2. CASE v = Broken
  <2>1. u = Broken
    BY <1>2, WithBroken
  <2>2. Rebalanced(u, sc) = Broken
    BY <2>1 DEF Rebalanced
  <2>3. QED
    BY <2>2 DEF Inserted
<1>3. CASE v # Broken
  <2>1. v \in Tree /\ Els(v) = Els(t.left) \cup {e} /\ (Ordered(t.left) => Ordered(v))
    BY <1>3 DEF Inserted
  <2>2. IsWith(u, t, v, t.right)
    BY <1>1, <2>1, WithFacts
  <2> HIDE DEF e, u
  <2>3. u \in Tree /\ u # NULL /\ Els(u) = Els(t) \cup {e} /\ (Ordered(t) => Ordered(u))
    BY <1>1, <2>1, <2>2, ElsNode DEF IsWith
  <2>4. Rebalanced(u, sc) = Broken \/ Like(Rebalanced(u, sc), u)
    BY <2>3, RebalancedFacts
  <2>5. QED
    BY <2>3, <2>4 DEF Like, Inserted, e, u
<1>4. QED
  BY <1>2, <1>3

\* The element of a set of one.
LEMMA TheOne == \A x : The({x}) = x
BY DEF The

\* Insertion leaves a tree with one entry more, in order if it was, or breaks.
LEMMA InsertFacts ==
  ASSUME NEW tree \in Tree, NEW literal \in Int, NEW sc \in Nat
  PROVE  Inserted(insert_literal(tree, literal, sc), tree,
                  [literal |-> literal, score |-> sc])
<1> DEFINE e == [literal |-> literal, score |-> sc]
           Op(f, t) == IF t = NULL THEN init_node(literal, sc)
                       ELSE The({Rebalanced(v, sc) : v \in
                              IF t.score <= sc
                              THEN {With(t, t.left, u) : u \in {f[t.right]}}
                              ELSE {With(t, u, t.right) : u \in {f[t.left]}}})
           Level(f, h) == [t \in Trees[h] |-> Op(f[h - 1], t)]
           Solves(f) == f = [h \in Nat |-> Level(f, h)]
           Good(n) == {f \in [Trees[n] -> Tree \cup {Broken}] :
                         \A t \in Trees[n] : Inserted(f[t], t, e)}
<1>1. \A f : Op(f, NULL) = init_node(literal, sc)
  OBVIOUS
<1>2. ASSUME NEW n \in Nat, NEW f \in Good(n), NEW t \in Trees[n + 1]
      PROVE  Inserted(Op(f, t), t, e)
  <2>1. CASE t = NULL
    BY <1>1, <2>1, LeafFacts
  <2>2. CASE t # NULL
    <3>1. n + 1 \in Nat /\ (n + 1) - 1 = n
      OBVIOUS
    <3>2. t \in Tree /\ t.left \in Trees[n] /\ t.right \in Trees[n] /\ t.score \in Nat
      BY <2>2, <3>1, NodeOf DEF Tree
    <3>3. Inserted(f[t.left], t.left, e) /\ Inserted(f[t.right], t.right, e)
      BY <3>2
    <3>4. CASE t.score <= sc
      <4>1. Op(f, t) = Rebalanced(With(t, t.left, f[t.right]), sc)
        <5> DEFINE w == With(t, t.left, f[t.right])
                   S == {With(t, t.left, u) : u \in {f[t.right]}}
        <5>1. S = {w}
          OBVIOUS
        <5>2. Op(f, t) = The({Rebalanced(v, sc) : v \in S})
          BY <2>2, <3>4
        <5> HIDE DEF w, S, Op
        <5>3. {Rebalanced(v, sc) : v \in S} = {Rebalanced(w, sc)}
          BY <5>1
        <5>4. Op(f, t) = Rebalanced(w, sc)
          BY <5>2, <5>3, TheOne
        <5>5. QED
          BY <5>4 DEF w
      <4>2. QED
        BY <2>2, <3>2, <3>3, <3>4, <4>1, InsertRight
    <3>5. CASE ~(t.score <= sc)
      <4>1. Op(f, t) = Rebalanced(With(t, f[t.left], t.right), sc)
        <5> DEFINE w == With(t, f[t.left], t.right)
                   S == {With(t, u, t.right) : u \in {f[t.left]}}
        <5>1. S = {w}
          OBVIOUS
        <5>2. Op(f, t) = The({Rebalanced(v, sc) : v \in S})
          BY <2>2, <3>5
        <5> HIDE DEF w, S, Op
        <5>3. {Rebalanced(v, sc) : v \in S} = {Rebalanced(w, sc)}
          BY <5>1
        <5>4. Op(f, t) = Rebalanced(w, sc)
          BY <5>2, <5>3, TheOne
        <5>5. QED
          BY <5>4 DEF w
      <4>2. sc <= t.score
        BY <3>2, <3>5
      <4>3. QED
        BY <2>2, <3>2, <3>3, <4>1, <4>2, InsertLeft
    <3>6. QED
      BY <3>4, <3>5
  <2>3. QED
    BY <2>1, <2>2
<1>3. ASSUME NEW t, NEW u, Inserted(u, t, e) PROVE u \in Tree \cup {Broken}
  BY <1>3 DEF Inserted
<1>4. Trees[0] = {NULL}
  BY TreesCases
<1>5. Inserted(init_node(literal, sc), NULL, e)
  BY LeafFacts
<1> HIDE DEF Op, e
<1>6. \A f : Level(f, 0) \in Good(0)
  BY <1>1, <1>3, <1>4, <1>5
<1>7. ASSUME NEW n \in Nat, NEW f \in Good(n)
      PROVE  [t \in Trees[n + 1] |-> Op(f, t)] \in Good(n + 1)
  BY <1>2, <1>3
<1> DEFINE G == [n \in Nat |-> Good(n)]
           st == [n \in Nat |-> [f \in Good(n) |-> [t \in Trees[n + 1] |-> Op(f, t)]]]
           f0 == Level(<<>>, 0)
<1>8. f0 \in G[0] /\ \A f : Level(f, 0) = f0
  BY <1>1, <1>4, <1>6
<1> HIDE DEF Good
<1>9. ASSUME NEW n \in Nat, NEW f \in G[n]
      PROVE  st[n][f] = [t \in Trees[n + 1] |-> Op(f, t)] /\ st[n][f] \in G[n + 1]
  BY <1>7
<1>10. ASSUME NEW f, Solves(f), NEW n \in Nat, f[n] \in G[n]
       PROVE  f[n + 1] = st[n][f[n]]
  <2>1. f[n + 1] = [t \in Trees[n + 1] |-> Op(f[(n + 1) - 1], t)]
    BY <1>10
  <2>2. (n + 1) - 1 = n
    OBVIOUS
  <2>3. QED
    BY <1>9, <1>10, <2>1, <2>2
<1>11. ASSUME NEW f, Solves(f) PROVE f[0] = f0
  <2>1. f[0] = Level(f, 0)
    BY <1>11
  <2>2. QED
    BY <1>8, <2>1
<1>12. \E f : Solves(f)
  <2>1. PICK g : Recurs(g, f0, st) /\ \A n \in Nat : g[n] \in G[n]
    <3> HIDE DEF st, f0, G
    <3>1. QED
      BY <1>8, <1>9, RecursionIn
  <2>2. g = [n \in Nat |-> IF n = 0 THEN f0 ELSE st[n - 1][g[n - 1]]]
    BY <2>1 DEF Recurs
  <2>3. ASSUME NEW n \in Nat PROVE g[n] = Level(g, n)
    <3>1. CASE n = 0
      <4>1. g[0] = f0
        <5> HIDE DEF st, f0
        <5>1. QED
          BY <2>2
      <4>2. f0 = Level(g, 0)
        BY <1>8
      <4>3. QED
        BY <3>1, <4>1, <4>2
    <3>2. CASE n # 0
      <4>1. n - 1 \in Nat /\ (n - 1) + 1 = n
        BY <3>2
      <4>2. g[n] = st[n - 1][g[n - 1]]
        <5> HIDE DEF st, f0
        <5>1. QED
          BY <2>2, <3>2
      <4>3. QED
        BY <1>9, <2>1, <4>1, <4>2
    <3>3. QED
      BY <3>1, <3>2
  <2>4. g = [n \in Nat |-> g[n]]
    <3> HIDE DEF st, f0
    <3>1. QED
      BY <2>2
  <2>5. QED
    BY <2>3, <2>4
<1> DEFINE L == CHOOSE f : Solves(f)
<1>13. Solves(L)
  BY <1>12
<1>14. insert_literal(tree, literal, sc) = L[tree.height][tree]
  BY DEF insert_literal, Op
<1>15. \A n \in Nat : L[n] \in G[n]
  <2> HIDE DEF L, st, f0, G
  <2>1. L[0] \in G[0]
    BY <1>8, <1>11, <1>13
  <2>2. \A n \in Nat : L[n] \in G[n] => L[n + 1] \in G[n + 1]
    BY <1>9, <1>10, <1>13
  <2>3. QED
    BY <2>1, <2>2, StaysIn
<1> HIDE DEF L
<1>16. tree.height \in Nat /\ tree \in Trees[tree.height]
  BY TreeFacts
<1>17. QED
  BY <1>14, <1>15, <1>16 DEF Good, e

\* What extract_max makes of the tree t: a node of the highest sc and the rest.
Taken(x, t) ==
  /\ x \in [node : Tree \ {NULL}, rest : Tree, h : Nat] /\ x.rest.height <= x.h
  /\ Els(t) = Els(x.rest) \cup {Entry(x.node)}
  /\ Ordered(t) => Ordered(x.rest) /\ \A y \in Els(x.rest) : y.score <= x.node.score

\* The rotation of extract_max does not make the tree higher.
LEMMA RotateHeight ==
  ASSUME NEW u \in Tree, u # NULL, get_balance(u) > 1, get_balance(u.left) >= 0
  PROVE  Like(rotate_right(u), u) /\ rotate_right(u).height <= u.height
<1> DEFINE l == u.left
           w == With(u, l.right, u.right)
<1>1. l # NULL /\ l \in Tree /\ u.right \in Tree
  BY Balance, NodeFacts
<1>2. /\ l.left \in Tree /\ l.right \in Tree /\ l.left.height \in Nat
      /\ l.right.height \in Nat /\ l.height \in Nat /\ u.right.height \in Nat
      /\ l.left.height < l.height /\ l.right.height < l.height
      /\ u.height \in Nat /\ l.height < u.height
  BY <1>1, NodeFacts
<1>3. u.right.height + 1 < l.height
  BY <1>1, <1>2 DEF get_balance
<1>4. w.height = 1 + Taller(l.right, u.right) /\ w \in Tree
  BY <1>1, <1>2, WithFacts DEF IsWith
<1>5. rotate_right(u) = With(l, l.left, w)
  BY <1>1, RotateRight
<1> HIDE DEF w, l
<1>6. With(l, l.left, w).height = 1 + Taller(l.left, w)
  BY <1>1, <1>2, <1>4, WithFacts DEF IsWith
<1>7. w.height \in Nat /\ w.height <= l.height
  BY <1>2, <1>3, <1>4 DEF Taller
<1>8. rotate_right(u).height <= u.height
  BY <1>2, <1>5, <1>6, <1>7 DEF Taller
<1>9. QED
  BY <1>1, <1>8, RotateRight DEF l

\* The step of extract_max from a right child to its parent.
LEMMA TakenRight ==
  ASSUME NEW t \in Tree, t # NULL, t.right # NULL, NEW x, Taken(x, t.right)
  PROVE  LET n == 1 + Taller(t.left, [height |-> x.h])
             u == [t EXCEPT !.right = x.rest, !.height = n]
         IN \A v : v = u \/ (v = rotate_right(u) /\ get_balance(u) > 1
                                                 /\ get_balance(u.left) >= 0)
                     => Taken([node |-> x.node, h |-> n, rest |-> v], t)
<1> DEFINE n == 1 + Taller(t.left, [height |-> x.h])
           u == [t EXCEPT !.right = x.rest, !.height = n]
<1>1. /\ t.left \in Tree /\ t.right \in Tree /\ t.literal \in Int /\ t.score \in Nat
      /\ t.left.height \in Nat
      /\ t = Node(t.literal, t.score, t.left, t.right, t.height)
  BY NodeFacts
<1>2. /\ x.node \in Tree /\ x.node # NULL /\ x.rest \in Tree /\ x.h \in Nat
      /\ x.rest.height <= x.h /\ x.rest.height \in Nat
      /\ Els(t.right) = Els(x.rest) \cup {Entry(x.node)}
      /\ Ordered(t.right) => Ordered(x.rest) /\ \A y \in Els(x.rest) : y.score <= x.node.score
  BY TreeFacts DEF Taken
<1>4. n \in Nat /\ t.left.height < n /\ x.rest.height < n /\ n > 0
  BY <1>1, <1>2 DEF Taller
<1> HIDE DEF n
<1>3. u = Node(t.literal, t.score, t.left, x.rest, n)
  <2>1. ASSUME NEW f, f = [t EXCEPT !.right = x.rest, !.height = n]
        PROVE  f = Node(t.literal, t.score, t.left, x.rest, n)
    BY <1>1, <2>1 DEF Node
  <2>2. QED
    BY <2>1
<1> HIDE DEF u
<1>5. u \in Tree
  BY <1>1, <1>2, <1>3, <1>4, NodeInTree
<1>6. u.height = n /\ u.left = t.left /\ u.right = x.rest /\ u.score = t.score
      /\ Entry(u) = Entry(t)
  BY <1>3 DEF Node, Entry
<1>7. u # NULL
  BY <1>4, <1>5, <1>6, TreeFacts
<1>8. /\ Els(u) = Els(t.left) \cup {Entry(t)} \cup Els(x.rest)
      /\ Ordered(u) <=> /\ Ordered(t.left) /\ Ordered(x.rest)
                        /\ \A y \in Els(t.left) : y.score <= t.score
                        /\ \A y \in Els(x.rest) : t.score <= y.score
  BY <1>5, <1>6, <1>7, ElsNode
<1>9. /\ Els(t) = Els(t.left) \cup {Entry(t)} \cup Els(t.right)
      /\ Ordered(t) <=> /\ Ordered(t.left) /\ Ordered(t.right)
                        /\ \A y \in Els(t.left) : y.score <= t.score
                        /\ \A y \in Els(t.right) : t.score <= y.score
  BY ElsNode
<1>10. Els(t) = Els(u) \cup {Entry(x.node)}
  BY <1>2, <1>8, <1>9
<1>11. ASSUME Ordered(t)
       PROVE  Ordered(u) /\ \A y \in Els(u) : y.score <= x.node.score
  <2>1. Ordered(u)
    BY <1>2, <1>8, <1>9, <1>11
  <2>2. Entry(x.node).score = x.node.score /\ x.node.score \in Nat
    BY <1>2, NodeFacts DEF Entry
  <2>3. t.score <= x.node.score
    BY <1>2, <1>9, <1>11, <2>2
  <2>4. ASSUME NEW y \in Els(t.left) PROVE y.score <= x.node.score
    <3>1. y.score \in Nat /\ y.score <= t.score
      BY <1>1, <1>9, <1>11, ElsFacts DEF EntrySet
    <3>2. QED
      BY <1>1, <2>2, <2>3, <3>1
  <2>5. Entry(t).score = t.score
    BY DEF Entry
  <2>6. QED
    BY <1>2, <1>8, <1>9, <1>11, <2>1, <2>3, <2>4, <2>5
<1>12. ASSUME NEW v, v = u \/ (v = rotate_right(u) /\ get_balance(u) > 1
                                                  /\ get_balance(u.left) >= 0)
       PROVE  Taken([node |-> x.node, h |-> n, rest |-> v], t)
  <2>1. Like(v, u) /\ v.height <= n
    <3>1. CASE v = u
      BY <1>4, <1>5, <1>6, <1>7, <3>1, LikeItself
    <3>2. CASE v # u
      BY <1>5, <1>6, <1>7, <1>12, <3>2, RotateHeight
    <3>3. QED
      BY <3>1, <3>2
  <2>2. v \in Tree /\ Els(v) = Els(u) /\ (Ordered(u) => Ordered(v))
    BY <2>1 DEF Like
  <2>3. QED
    BY <1>2, <1>4, <1>10, <1>11, <2>1, <2>2 DEF Taken
<1>13. QED
  BY <1>12 DEF n, u

\* A node without a right child has the highest sc.
LEMMA TakenHere ==
  ASSUME NEW t \in Tree, t # NULL, t.right = NULL
  PROVE  Taken([node |-> t, rest |-> t.left, h |-> t.left.height], t)
<1>1. t.left \in Tree /\ t.left.height \in Nat /\ t.score \in Nat
  BY NodeFacts
<1>2. /\ Els(t) = Els(t.left) \cup {Entry(t)}
      /\ Ordered(t) => Ordered(t.left) /\ \A x \in Els(t.left) : x.score <= t.score
  BY ElsNode, ElsFacts
<1>3. QED
  BY <1>1, <1>2 DEF Taken

\* extract_max takes out a node of the highest sc and keeps the other entries.
LEMMA ExtractFacts ==
  ASSUME NEW tree \in Tree, tree # NULL
  PROVE  Taken(extract_max(tree), tree)
<1> DEFINE V == [node : Tree \ {NULL}, rest : Tree, h : Nat]
           D(n) == Trees[n] \ {NULL}
           Op(f, t) ==
             IF t.right = NULL THEN [node |-> t, rest |-> t.left, h |-> t.left.height]
             ELSE The({LET n == 1 + Taller(t.left, [height |-> x.h])
                           u == [t EXCEPT !.right = x.rest, !.height = n]
                       IN [node |-> x.node, h |-> n,
                           rest |-> IF /\ t.right.right = NULL
                                       /\ get_balance(u) > 1 /\ get_balance(u.left) >= 0
                                    THEN rotate_right(u) ELSE u]
                         : x \in {f[t.right]}})
           Level(f, h) == [t \in D(h) |-> Op(f[h - 1], t)]
           Solves(f) == f = [h \in Nat |-> Level(f, h)]
           Good(n) == {f \in [D(n) -> V] : \A t \in D(n) : Taken(f[t], t)}
<1>2. ASSUME NEW n \in Nat, NEW f \in Good(n), NEW t \in D(n + 1)
      PROVE  Taken(Op(f, t), t)
  <2>1. n + 1 \in Nat /\ (n + 1) - 1 = n /\ t # NULL
    OBVIOUS
  <2>2. t \in Tree /\ t.right \in Trees[n]
    BY <2>1, NodeOf DEF Tree
  <2>3. CASE t.right = NULL
    BY <2>1, <2>2, <2>3, TakenHere
  <2>4. CASE t.right # NULL
    <3> DEFINE x == f[t.right]
               k == 1 + Taller(t.left, [height |-> x.h])
               u == [t EXCEPT !.right = x.rest, !.height = k]
               v == IF /\ t.right.right = NULL
                       /\ get_balance(u) > 1 /\ get_balance(u.left) >= 0
                    THEN rotate_right(u) ELSE u
    <3>1. Taken(x, t.right)
      BY <2>2, <2>4
    <3> HIDE DEF x
    <3>2. v = u \/ (v = rotate_right(u) /\ get_balance(u) > 1 /\ get_balance(u.left) >= 0)
      <4> HIDE DEF u
      <4>1. QED
        OBVIOUS
    <3>3. Taken([node |-> x.node, h |-> k, rest |-> v], t)
      <4> HIDE DEF v
      <4>1. QED
        BY <2>1, <2>2, <2>4, <3>1, <3>2, TakenRight
    <3>4. Op(f, t) = [node |-> x.node, h |-> k, rest |-> v]
      <4> DEFINE S == {LET n1 == 1 + Taller(t.left, [height |-> y.h])
                           u1 == [t EXCEPT !.right = y.rest, !.height = n1]
                       IN [node |-> y.node, h |-> n1,
                           rest |-> IF /\ t.right.right = NULL
                                       /\ get_balance(u1) > 1 /\ get_balance(u1.left) >= 0
                                    THEN rotate_right(u1) ELSE u1]
                         : y \in {x}}
      <4>1. Op(f, t) = The(S)
        BY <2>4 DEF x
      <4>2. S = {[node |-> x.node, h |-> k, rest |-> v]}
        OBVIOUS
      <4> HIDE DEF S, Op, k, v
      <4>3. QED
        BY <4>1, <4>2, TheOne
    <3>5. QED
      BY <3>3, <3>4
  <2>5. QED
    BY <2>3, <2>4
<1>3. ASSUME NEW t, NEW u, Taken(u, t) PROVE u \in V
  BY <1>3 DEF Taken
<1>4. D(0) = {}
  BY TreesCases
<1> HIDE DEF Op, V
<1>6. \A f : Level(f, 0) \in Good(0)
  BY <1>4
<1>7. ASSUME NEW n \in Nat, NEW f \in Good(n)
      PROVE  [t \in D(n + 1) |-> Op(f, t)] \in Good(n + 1)
  BY <1>2, <1>3
<1> HIDE DEF D
<1> DEFINE G == [n \in Nat |-> Good(n)]
           st == [n \in Nat |-> [f \in Good(n) |-> [t \in D(n + 1) |-> Op(f, t)]]]
           f0 == Level(<<>>, 0)
<1>8. f0 \in G[0] /\ \A f : Level(f, 0) = f0
  BY <1>4, <1>6
<1> HIDE DEF Good
<1>9. ASSUME NEW n \in Nat, NEW f \in G[n]
      PROVE  st[n][f] = [t \in D(n + 1) |-> Op(f, t)] /\ st[n][f] \in G[n + 1]
  BY <1>7
<1>10. ASSUME NEW f, Solves(f), NEW n \in Nat, f[n] \in G[n]
       PROVE  f[n + 1] = st[n][f[n]]
  <2>1. f[n + 1] = [t \in D(n + 1) |-> Op(f[(n + 1) - 1], t)]
    BY <1>10
  <2>2. (n + 1) - 1 = n
    OBVIOUS
  <2>3. QED
    BY <1>9, <1>10, <2>1, <2>2
<1>11. ASSUME NEW f, Solves(f) PROVE f[0] = f0
  <2>1. f[0] = Level(f, 0)
    BY <1>11
  <2>2. QED
    BY <1>8, <2>1
<1>12. \E f : Solves(f)
  <2>1. PICK g : Recurs(g, f0, st) /\ \A n \in Nat : g[n] \in G[n]
    <3> HIDE DEF st, f0, G
    <3>1. QED
      BY <1>8, <1>9, RecursionIn
  <2>2. g = [n \in Nat |-> IF n = 0 THEN f0 ELSE st[n - 1][g[n - 1]]]
    BY <2>1 DEF Recurs
  <2>3. ASSUME NEW n \in Nat PROVE g[n] = Level(g, n)
    <3>1. CASE n = 0
      <4>1. g[0] = f0
        <5> HIDE DEF st, f0
        <5>1. QED
          BY <2>2
      <4>2. f0 = Level(g, 0)
        BY <1>8
      <4>3. QED
        BY <3>1, <4>1, <4>2
    <3>2. CASE n # 0
      <4>1. n - 1 \in Nat /\ (n - 1) + 1 = n
        BY <3>2
      <4>2. g[n] = st[n - 1][g[n - 1]]
        <5> HIDE DEF st, f0
        <5>1. QED
          BY <2>2, <3>2
      <4>3. QED
        BY <1>9, <2>1, <4>1, <4>2
    <3>3. QED
      BY <3>1, <3>2
  <2>4. g = [n \in Nat |-> g[n]]
    <3> HIDE DEF st, f0
    <3>1. QED
      BY <2>2
  <2>5. QED
    BY <2>3, <2>4
<1> DEFINE L == CHOOSE f : Solves(f)
<1>13. Solves(L)
  BY <1>12
<1>14. extract_max(tree) = L[tree.height][tree]
  BY DEF extract_max, Op, D
<1>15. \A n \in Nat : L[n] \in G[n]
  <2> HIDE DEF L, st, f0, G
  <2>1. L[0] \in G[0]
    BY <1>8, <1>11, <1>13
  <2>2. \A n \in Nat : L[n] \in G[n] => L[n + 1] \in G[n + 1]
    BY <1>9, <1>10, <1>13
  <2>3. QED
    BY <2>1, <2>2, StaysIn
<1> HIDE DEF L
<1>16. tree.height \in Nat /\ tree \in D(tree.height)
  BY TreeFacts DEF D
<1>17. QED
  BY <1>14, <1>15, <1>16 DEF Good

\* What delete_literal makes of the tree t: it may only lose entries of the literal.
Deleted(u, t, literal) ==
  /\ u \in Tree /\ Els(u) \subseteq Els(t)
  /\ \A x \in Els(t) : x.literal # literal => x \in Els(u)
  /\ Ordered(t) => Ordered(u)

\* delete_literal ends with a tree of the same entries: where it rotates twice, the
\* grandchild is there.
LEMMA SettleFacts ==
  ASSUME NEW t \in Tree
  PROVE  Settle(t) \in Tree /\ Els(Settle(t)) = Els(t) /\ (Ordered(t) => Ordered(Settle(t)))
<1>1. CASE t = NULL
  BY <1>1 DEF Settle
<1>2. CASE t # NULL
  <2> DEFINE u == With(t, t.left, t.right)
  <2>1. t.left \in Tree /\ t.right \in Tree /\ t # Broken
    BY <1>2, NodeFacts, TreeFacts
  <2>2. Like(u, t)
    BY <1>2, <2>1, WithLike
  <2>3. Settle(t) =
          CASE get_balance(u) > 1 /\ get_balance(u.left) >= 0 -> rotate_right(u)
            [] get_balance(u) > 1 /\ get_balance(u.left) < 0 -> RotateLeftRight(u)
            [] get_balance(u) < -1 /\ get_balance(u.right) <= 0 -> rotate_left(u)
            [] get_balance(u) < -1 /\ get_balance(u.right) > 0 -> RotateRightLeft(u)
            [] OTHER -> u
    BY <1>2, <2>1 DEF Settle
  <2> HIDE DEF u
  <2>4. u \in Tree /\ u # NULL
    BY <2>2 DEF Like
  <2>5. /\ get_balance(u) \in Int
        /\ get_balance(u) > 1 => u.left # NULL /\ u.left \in Tree
        /\ get_balance(u) < -1 => u.right # NULL /\ u.right \in Tree
    BY <2>4, Balance, NodeFacts
  <2>6. Like(Settle(t), u)
    <3>1. CASE get_balance(u) > 1
      <4>1. /\ get_balance(u.left) \in Int
            /\ get_balance(u.left) < 0 => u.left.right # NULL
        BY <2>5, <3>1, Balance
      <4>2. CASE get_balance(u.left) >= 0
        <5>1. Settle(t) = rotate_right(u)
          BY <2>3, <2>5, <3>1, <4>1, <4>2
        <5>2. QED
          BY <2>4, <2>5, <3>1, <5>1, RotateRight
      <4>3. CASE get_balance(u.left) < 0
        <5>1. Settle(t) = RotateLeftRight(u)
          BY <2>3, <2>5, <3>1, <4>1, <4>3
        <5>2. QED
          BY <2>4, <2>5, <3>1, <4>1, <4>3, <5>1, RotateTwiceRight
      <4>4. QED
        BY <4>1, <4>2, <4>3
    <3>2. CASE get_balance(u) < -1
      <4>1. /\ get_balance(u.right) \in Int
            /\ get_balance(u.right) > 0 => u.right.left # NULL
        BY <2>5, <3>2, Balance
      <4>2. CASE get_balance(u.right) <= 0
        <5>1. Settle(t) = rotate_left(u)
          BY <2>3, <2>5, <3>2, <4>1, <4>2
        <5>2. QED
          BY <2>4, <2>5, <3>2, <5>1, RotateLeft
      <4>3. CASE get_balance(u.right) > 0
        <5>1. Settle(t) = RotateRightLeft(u)
          BY <2>3, <2>5, <3>2, <4>1, <4>3
        <5>2. QED
          BY <2>4, <2>5, <3>2, <4>1, <4>3, <5>1, RotateTwiceLeft
      <4>4. QED
        BY <4>1, <4>2, <4>3
    <3>3. CASE ~(get_balance(u) > 1) /\ ~(get_balance(u) < -1)
      <4>1. Settle(t) = u
        BY <2>3, <2>5, <3>3
      <4>2. QED
        BY <2>4, <4>1, LikeItself
    <3>4. QED
      BY <3>1, <3>2, <3>3
  <2>7. QED
    BY <2>2, <2>6 DEF Like
<1>3. QED
  BY <1>1, <1>2

\* The node removed gives its place to the one of the highest sc on its left.
LEMMA RemoveFacts ==
  ASSUME NEW t \in Tree, t # NULL
  PROVE  Deleted(remove_node(t), t, t.literal)
<1>1. /\ t.left \in Tree /\ t.right \in Tree /\ t.score \in Nat
      /\ Entry(t).score = t.score /\ Entry(t).literal = t.literal
  BY NodeFacts DEF Entry
<1>2. /\ Els(t) = Els(t.left) \cup {Entry(t)} \cup Els(t.right)
      /\ Ordered(t) <=> /\ Ordered(t.left) /\ Ordered(t.right)
                        /\ \A y \in Els(t.left) : y.score <= t.score
                        /\ \A y \in Els(t.right) : t.score <= y.score
  BY ElsNode
<1>3. CASE t.left # NULL /\ t.right # NULL
  <2> DEFINE m == extract_max(t.left)
             u == With(m.node, m.rest, t.right)
  <2>1. Taken(m, t.left)
    BY <1>1, <1>3, ExtractFacts
  <2>2. remove_node(t) = u
    <3> DEFINE S == {With(w.node, w.rest, t.right) : w \in {m}}
    <3>1. remove_node(t) = The(S)
      BY <1>3 DEF remove_node
    <3> HIDE DEF m
    <3>2. S = {u}
      OBVIOUS
    <3> HIDE DEF S, u
    <3>3. QED
      BY <3>1, <3>2, TheOne
  <2> HIDE DEF m
  <2>3. /\ m.node \in Tree /\ m.node # NULL /\ m.rest \in Tree
        /\ Els(t.left) = Els(m.rest) \cup {Entry(m.node)}
        /\ Ordered(t.left) => /\ Ordered(m.rest)
                              /\ \A y \in Els(m.rest) : y.score <= m.node.score
    BY <2>1 DEF Taken
  <2>4. IsWith(u, m.node, m.rest, t.right)
    BY <1>1, <2>3, WithFacts
  <2>5. Entry(m.node).score = m.node.score /\ m.node.score \in Nat
    BY <2>3, NodeFacts DEF Entry
  <2> HIDE DEF u
  <2>6. u \in Tree /\ Els(u) = Els(t.left) \cup Els(t.right)
    BY <2>3, <2>4 DEF IsWith
  <2>7. ASSUME Ordered(t) PROVE Ordered(u)
    <3>1. m.node.score <= t.score
      BY <1>2, <2>3, <2>5, <2>7
    <3>2. ASSUME NEW y \in Els(t.right) PROVE m.node.score <= y.score
      <4>1. y.score \in Nat /\ t.score <= y.score
        BY <1>1, <1>2, <2>7, ElsFacts DEF EntrySet
      <4>2. QED
        BY <1>1, <2>5, <3>1, <4>1
    <3>3. QED
      BY <1>2, <2>3, <2>4, <2>7, <3>2 DEF IsWith
  <2>8. QED
    BY <1>1, <1>2, <2>2, <2>6, <2>7 DEF Deleted
<1>4. CASE t.left # NULL /\ t.right = NULL
  <2>1. remove_node(t) = t.left
    BY <1>4 DEF remove_node
  <2>2. QED
    BY <1>1, <1>2, <1>4, <2>1, ElsFacts DEF Deleted
<1>5. CASE t.left = NULL
  <2>1. remove_node(t) = t.right
    BY <1>5 DEF remove_node
  <2>2. QED
    BY <1>1, <1>2, <1>5, <2>1, ElsFacts DEF Deleted
<1>6. QED
  BY <1>3, <1>4, <1>5

\* Entries of the literal lost below a node.
LEMMA DeletedBelow ==
  ASSUME NEW t \in Tree, t # NULL, NEW literal, NEW l, NEW r,
         Deleted(l, t.left, literal), Deleted(r, t.right, literal)
  PROVE  Deleted(With(t, l, r), t, literal)
<1>1. /\ l \in Tree /\ r \in Tree
      /\ Els(l) \subseteq Els(t.left) /\ Els(r) \subseteq Els(t.right)
      /\ \A x \in Els(t.left) : x.literal # literal => x \in Els(l)
      /\ \A x \in Els(t.right) : x.literal # literal => x \in Els(r)
      /\ (Ordered(t.left) => Ordered(l)) /\ (Ordered(t.right) => Ordered(r))
  BY DEF Deleted
<1>2. IsWith(With(t, l, r), t, l, r)
  BY <1>1, WithFacts
<1>3. QED
  BY <1>1, <1>2, ElsNode DEF IsWith, Deleted

\* A tree is what is left of itself when nothing was found.
LEMMA DeletedItself ==
  ASSUME NEW t \in Tree, NEW literal
  PROVE  Deleted(t, t, literal)
BY DEF Deleted

\* Deletion leaves a tree, in order if it was, with all entries of other literals.
LEMMA DeleteFacts ==
  ASSUME NEW tree \in Tree, NEW literal, NEW sc
  PROVE  Deleted(delete_literal(tree, literal, sc), tree, literal)
<1> DEFINE Op(f, t) ==
             IF t = NULL THEN NULL
             ELSE The({Settle(v) : v \in
                    IF t.score > sc THEN {With(t, u, t.right) : u \in {f[t.left]}}
                    ELSE IF t.literal = literal THEN {remove_node(t)}
                    ELSE {With(t, t.left, u) : u \in {f[t.right]}}})
           Level(f, h) == [t \in Trees[h] |-> Op(f[h - 1], t)]
           Solves(f) == f = [h \in Nat |-> Level(f, h)]
           Good(n) == {f \in [Trees[n] -> Tree] : \A t \in Trees[n] : Deleted(f[t], t, literal)}
<1>1. \A f : Op(f, NULL) = NULL
  OBVIOUS
<1>2. ASSUME NEW n \in Nat, NEW f \in Good(n), NEW t \in Trees[n + 1]
      PROVE  Deleted(Op(f, t), t, literal)
  <2>0. t \in Tree
    BY n + 1 \in Nat DEF Tree
  <2>1. CASE t = NULL
    BY <1>1, <2>0, <2>1, DeletedItself
  <2>2. CASE t # NULL
    <3>1. n + 1 \in Nat /\ (n + 1) - 1 = n
      OBVIOUS
    <3>2. t.left \in Trees[n] /\ t.right \in Trees[n] /\ t.left \in Tree /\ t.right \in Tree
      BY <2>2, <3>1, NodeOf DEF Tree
    <3>3. Deleted(f[t.left], t.left, literal) /\ Deleted(f[t.right], t.right, literal)
      BY <3>2
    <3> DEFINE u == IF t.score > sc THEN With(t, f[t.left], t.right)
                    ELSE IF t.literal = literal THEN remove_node(t)
                    ELSE With(t, t.left, f[t.right])
    <3>4. Deleted(With(t, f[t.left], t.right), t, literal)
      BY <2>0, <2>2, <3>2, <3>3, DeletedItself, DeletedBelow
    <3>5. Deleted(With(t, t.left, f[t.right]), t, literal)
      BY <2>0, <2>2, <3>2, <3>3, DeletedItself, DeletedBelow
    <3>6. Deleted(u, t, literal)
      BY <2>0, <2>2, <3>4, <3>5, RemoveFacts
    <3>7. Op(f, t) = Settle(u)
      <4> DEFINE S == IF t.score > sc THEN {With(t, w, t.right) : w \in {f[t.left]}}
                      ELSE IF t.literal = literal THEN {remove_node(t)}
                      ELSE {With(t, t.left, w) : w \in {f[t.right]}}
      <4>1. Op(f, t) = The({Settle(v) : v \in S})
        BY <2>2
      <4>2. S = {u}
        OBVIOUS
      <4> HIDE DEF S, Op, u
      <4>3. {Settle(v) : v \in S} = {Settle(u)}
        BY <4>2
      <4>4. QED
        BY <4>1, <4>3, TheOne
    <3> HIDE DEF u, Op
    <3>8. QED
      BY <3>6, <3>7, SettleFacts DEF Deleted
  <2>3. QED
    BY <2>1, <2>2
<1>3. ASSUME NEW t, NEW u, Deleted(u, t, literal) PROVE u \in Tree
  BY <1>3 DEF Deleted
<1>4. Trees[0] = {NULL}
  BY TreesCases
<1>5. Deleted(NULL, NULL, literal)
  BY TreeFacts, DeletedItself
<1> HIDE DEF Op
<1>6. \A f : Level(f, 0) \in Good(0)
  BY <1>1, <1>3, <1>4, <1>5
<1>7. ASSUME NEW n \in Nat, NEW f \in Good(n)
      PROVE  [t \in Trees[n + 1] |-> Op(f, t)] \in Good(n + 1)
  BY <1>2, <1>3
<1> DEFINE G == [n \in Nat |-> Good(n)]
           st == [n \in Nat |-> [f \in Good(n) |-> [t \in Trees[n + 1] |-> Op(f, t)]]]
           f0 == Level(<<>>, 0)
<1>8. f0 \in G[0] /\ \A f : Level(f, 0) = f0
  BY <1>1, <1>4, <1>6
<1> HIDE DEF Good
<1>9. ASSUME NEW n \in Nat, NEW f \in G[n]
      PROVE  st[n][f] = [t \in Trees[n + 1] |-> Op(f, t)] /\ st[n][f] \in G[n + 1]
  BY <1>7
<1>10. ASSUME NEW f, Solves(f), NEW n \in Nat, f[n] \in G[n]
       PROVE  f[n + 1] = st[n][f[n]]
  <2>1. f[n + 1] = [t \in Trees[n + 1] |-> Op(f[(n + 1) - 1], t)]
    BY <1>10
  <2>2. (n + 1) - 1 = n
    OBVIOUS
  <2>3. QED
    BY <1>9, <1>10, <2>1, <2>2
<1>11. ASSUME NEW f, Solves(f) PROVE f[0] = f0
  <2>1. f[0] = Level(f, 0)
    BY <1>11
  <2>2. QED
    BY <1>8, <2>1
<1>12. \E f : Solves(f)
  <2>1. PICK g : Recurs(g, f0, st) /\ \A n \in Nat : g[n] \in G[n]
    <3> HIDE DEF st, f0, G
    <3>1. QED
      BY <1>8, <1>9, RecursionIn
  <2>2. g = [n \in Nat |-> IF n = 0 THEN f0 ELSE st[n - 1][g[n - 1]]]
    BY <2>1 DEF Recurs
  <2>3. ASSUME NEW n \in Nat PROVE g[n] = Level(g, n)
    <3>1. CASE n = 0
      <4>1. g[0] = f0
        <5> HIDE DEF st, f0
        <5>1. QED
          BY <2>2
      <4>2. f0 = Level(g, 0)
        BY <1>8
      <4>3. QED
        BY <3>1, <4>1, <4>2
    <3>2. CASE n # 0
      <4>1. n - 1 \in Nat /\ (n - 1) + 1 = n
        BY <3>2
      <4>2. g[n] = st[n - 1][g[n - 1]]
        <5> HIDE DEF st, f0
        <5>1. QED
          BY <2>2, <3>2
      <4>3. QED
        BY <1>9, <2>1, <4>1, <4>2
    <3>3. QED
      BY <3>1, <3>2
  <2>4. g = [n \in Nat |-> g[n]]
    <3> HIDE DEF st, f0
    <3>1. QED
      BY <2>2
  <2>5. QED
    BY <2>3, <2>4
<1> DEFINE L == CHOOSE f : Solves(f)
<1>13. Solves(L)
  BY <1>12
<1>14. delete_literal(tree, literal, sc) = L[tree.height][tree]
  BY DEF delete_literal, Op
<1>15. \A n \in Nat : L[n] \in G[n]
  <2> HIDE DEF L, st, f0, G
  <2>1. L[0] \in G[0]
    BY <1>8, <1>11, <1>13
  <2>2. \A n \in Nat : L[n] \in G[n] => L[n + 1] \in G[n + 1]
    BY <1>9, <1>10, <1>13
  <2>3. QED
    BY <2>1, <2>2, StaysIn
<1> HIDE DEF L
<1>16. tree.height \in Nat /\ tree \in Trees[tree.height]
  BY TreeFacts
<1>17. QED
  BY <1>14, <1>15, <1>16 DEF Good
-----------------------------------------------------------------------------
\* Once the program has said SAT every literal of the formula has a value.
AllValued == said = "SAT" =>
               \A c \in DOMAIN F : \A p \in DOMAIN F[c] : ~IsUnassigned(F[c][p])

\* The table misses no literal, hence nothing is left to decide.
LEMMA AllValuedStep ==
  ASSUME IInv, TableInv, AllValued, [Next]_vars
  PROVE  AllValued'
<1>1. CASE UNCHANGED <<F, value, said>>
  BY <1>1 DEF AllValued, IsUnassigned
<1>2. CASE said' # "SAT"
  BY <1>2 DEF AllValued
<1>3. CASE SaySat
  <2>1. pc = "decide" /\ ~Undecided /\ UNCHANGED <<F, value>>
    BY <1>3 DEF SaySat, assigned
  <2>2. ASSUME NEW c \in DOMAIN F, NEW p \in DOMAIN F[c] PROVE ~IsUnassigned(F[c][p])
    <3>1. F[c][p] \in Lits /\ Var(F[c][p]) \in Vars
      BY LitOfClause, LitFacts DEF IInv, TypeInv
    <3>2. OccursIn(Var(F[c][p])) \/ OccursIn(-Var(F[c][p]))
      <4>1. F[c][p] = Var(F[c][p]) \/ F[c][p] = -Var(F[c][p])
        BY <3>1 DEF Var, Abs, Lits
      <4>2. OccursIn(F[c][p])
        BY DEF OccursIn
      <4>3. QED
        BY <4>1, <4>2
    <3>3. CASE nassigned = N
      <4>1. Valued = Vars
        BY <3>3, VarsFinite DEF IInv, CountInv, Valued
      <4>2. QED
        BY <3>1, <4>1 DEF Valued, IsUnassigned
    <3>4. CASE table = NULL
      <4>1. Entries(table) = <<>>
        BY <3>4, EntriesNode
      <4>2. DOMAIN Entries(table) = {}
        BY <4>1
      <4>3. QED
        BY <2>1, <3>1, <3>2, <4>2 DEF TableInv, IsUnassigned
    <3>5. QED
      BY <2>1, <3>3, <3>4 DEF Undecided
  <2>3. QED
    BY <2>1, <2>2 DEF AllValued, IsUnassigned
<1>4. CASE pc = "report"
  <2>1. ~Resolving
    BY <1>4, ResolvingFacts
  <2>2. QED
    BY <1>1, <1>4, <2>1
    DEF Next, Step, Begin, Search, Propagate, Analyze, InitTable, InitWatched,
      InitEmptyClause, InitDone, PlpAssign, PlpSkip, PlpDone, decide, SaySat, BcpStart,
      BcpAssign, BcpSkip, BcpDone, VisitOther, VisitMove, VisitUnit, VisitConflict,
      SayUnsat, VisitDone, ConflictOn, Visiting, Resolving, get_backtracking_level,
      cancel, CancelLevel, add_learnt_clause, Cancelled, update_scores, UpdateDone,
      decaying_sum, LearntDone, PrintLit, Finish, termination_handler, vars, assigned,
      output
<1>5. CASE pc # "report" /\ ~SaySat
  <2>1. said = "none"
    BY <1>5 DEF IInv, CursorInv
  <2>2. CASE Resolving
    <3>1. said' = "none"
      BY <2>1, <2>2, ResolvingFacts DEF output
    <3>2. QED
      BY <1>2, <3>1
  <2>3. CASE ~Resolving
    <3>1. said' \in {"none", "UNSAT"}
      BY <1>5, <2>1, <2>3
      DEF Next, Step, Begin, Search, Propagate, Analyze, InitTable, InitWatched,
          InitEmptyClause, InitDone, PlpAssign, PlpSkip, PlpDone, decide, BcpStart,
          BcpAssign, BcpSkip, BcpDone, VisitOther, VisitMove, VisitUnit, VisitConflict,
          SayUnsat, VisitDone, Resolving, get_backtracking_level, cancel, CancelLevel,
          add_learnt_clause, update_scores, UpdateDone, decaying_sum, LearntDone, PrintLit,
          Finish, termination_handler, vars, output
    <3>2. QED
      BY <1>2, <3>1
  <2>4. QED
    BY <2>2, <2>3
<1>6. QED
  BY <1>3, <1>4, <1>5

\* The assignment that is printed.
Meant == [v \in Vars |-> IF value[v] = 1 THEN 1 ELSE -1]

\* A clause that is watched rightly and has all its literals valued is true.
LEMMA ValuedIsModel ==
  ASSUME IInv, AllValued, said = "SAT"
  PROVE  Meant \in Assignments /\ Satisfies(Meant, F)
<1> DEFINE tau == Meant
<1>1. pc = "report" /\ ClauseIds = DOMAIN F
  BY DEF IInv, CursorInv, ClauseIds
<1>2. ASSUME NEW l \in Lits, IsTrue(l) PROVE LitTrue(tau, l)
  <2>1. Var(l) \in Vars /\ l \in Int /\ l # 0 /\ Var(l) = IF l > 0 THEN l ELSE -l
    BY LitFacts DEF Lits, Var, Abs
  <2>2. CASE l > 0
    BY <1>2, <2>1, <2>2 DEF IsTrue, LitTrue, Meant
  <2>3. CASE ~(l > 0)
    <3>1. -l \in Vars /\ value[-l] = 0
      BY <1>2, <2>1, <2>3 DEF IsTrue
    <3>2. tau[-l] = -1
      BY <3>1 DEF Meant
    <3>3. QED
      BY <2>3, <3>2 DEF LitTrue
  <2>4. QED
    BY <2>2, <2>3
<1>3. ASSUME NEW c \in DOMAIN F PROVE HasTrue(tau, F[c], DOMAIN F[c])
  <2>1. Listed(c) /\ Justified(c)
    BY <1>1 DEF IInv, WatchInv, Pending, Doomed, Cancelling
  <2>2. \A p \in DOMAIN F[c] : F[c][p] \in Lits /\ ~IsUnassigned(F[c][p])
    BY LitOfClause DEF AllValued, IInv, TypeInv
  <2>3. \E p \in DOMAIN F[c] : IsTrue(F[c][p])
    <3>1. CASE \E k \in 1..2 : ~IsFalse(WatchedLit(c, k))
      <4>1. PICK k \in 1..2 : ~IsFalse(WatchedLit(c, k))
        BY <3>1
      <4>2. watched[c][k] \in DOMAIN F[c]
        BY <2>1 DEF Listed
      <4>3. IsTrue(F[c][watched[c][k]])
        BY <2>2, <4>1, <4>2, ValueFacts DEF IInv, WatchedLit
      <4>4. QED
        BY <4>2, <4>3
    <3>2. QED
      BY <2>1, <3>1 DEF Justified
  <2> HIDE DEF tau
  <2>4. QED
    BY <1>2, <2>2, <2>3 DEF HasTrue
<1>4. tau \in Assignments
  BY DEF Assignments, Meant
<1>5. QED
  BY <1>3, <1>4 DEF Satisfies
-----------------------------------------------------------------------------
(***************************************************************************)
(* What the actions leave alone                                            *)
(***************************************************************************)
LEMMA FormulaStays == [Next]_vars => F' = F
<1> SUFFICES ASSUME [Next]_vars PROVE F' = F
  OBVIOUS
<1>1. CASE Begin
  BY <1>1, Zenon DEF Begin, InitTable, InitWatched, InitEmptyClause, InitDone
<1>2. CASE Search
  BY <1>2, Zenon DEF Search, PlpAssign, PlpSkip, PlpDone, decide, SaySat
<1>3. CASE Propagate
  BY <1>3, Zenon DEF Propagate, BcpStart, BcpAssign, BcpSkip, BcpDone, VisitOther,
                     VisitMove, VisitUnit, VisitConflict, SayUnsat, VisitDone
<1>4. CASE Resolving
  BY <1>4, ResolvingFacts, Zenon
<1>5. CASE \/ get_backtracking_level \/ cancel \/ CancelLevel \/ add_learnt_clause
           \/ update_scores \/ UpdateDone \/ decaying_sum \/ LearntDone
  BY <1>5, Zenon DEF get_backtracking_level, cancel, CancelLevel, add_learnt_clause,
                     update_scores, UpdateDone, decaying_sum, LearntDone
<1>6. CASE PrintLit \/ Finish \/ termination_handler \/ UNCHANGED vars
  BY <1>6, Zenon DEF PrintLit, Finish, termination_handler, vars
<1>7. QED
  BY <1>1, <1>2, <1>3, <1>4, <1>5, <1>6 DEF Next, Step, Analyze, Resolving

\* The actions that change the antecedents, the queue, its last literal or the literals
\* bcp has assigned; those of the clause that is learnt; those of its scores; those
\* that count.
Reasoning == \/ PlpAssign \/ decide \/ BcpStart \/ BcpAssign \/ BcpSkip \/ BcpDone
             \/ VisitUnit \/ VisitConflict \/ SayUnsat \/ get_backtracking_level \/ cancel
\* The steps that change the clause being learnt.
Learning == VisitConflict \/ learn_clause \/ merge \/ MergeDone
\* The steps that change scores.
Scoring == update_scores \/ UpdateDone \/ decaying_sum
\* The steps that number learnt clauses or print.
Numbering == add_learnt_clause \/ PrintLit

\* The others leave the reasons and the ring alone.
LEMMA ReasonsStay ==
  ASSUME [Next]_vars, ~Reasoning
  PROVE  UNCHANGED <<antecedent, queue, cur, assigned_literals>>
<1>1. CASE Begin
  BY <1>1, Zenon DEF Begin, InitTable, InitWatched, InitEmptyClause, InitDone, assigned, bcp
<1>2. CASE Search
  BY <1>2, Zenon DEF Search, Reasoning, PlpSkip, PlpDone, SaySat, assigned, bcp
<1>3. CASE Propagate
  BY <1>3, Zenon DEF Propagate, Reasoning, VisitOther, VisitMove, VisitDone, assigned, bcp
<1>4. CASE Resolving
  BY <1>4, ResolvingFacts, Zenon DEF assigned, bcp
<1>5. CASE \/ CancelLevel \/ add_learnt_clause
           \/ update_scores \/ UpdateDone \/ decaying_sum \/ LearntDone
  BY <1>5, Zenon DEF CancelLevel, add_learnt_clause, update_scores, UpdateDone,
                     decaying_sum, LearntDone, assigned, bcp
<1>6. CASE PrintLit \/ Finish \/ termination_handler \/ UNCHANGED vars
  BY <1>6, Zenon DEF PrintLit, Finish, termination_handler, vars, assigned, bcp
<1>7. QED
  BY <1>1, <1>2, <1>3, <1>4, <1>5, <1>6 DEF Next, Step, Analyze, Resolving, Reasoning

\* The others leave the clause being learnt alone.
LEMMA ClauseStays ==
  ASSUME [Next]_vars, ~Learning
  PROVE  /\ UNCHANGED <<clause, visited, this, iB, resolvent>>
         /\ pc' = pc \/ pc' \notin {"learn", "merge"}
<1>1. CASE Begin
  BY <1>1, Zenon DEF Begin, InitTable, InitWatched, InitEmptyClause, InitDone,
                     conflict, merging
<1>2. CASE Search
  BY <1>2, Zenon DEF Search, PlpAssign, PlpSkip, PlpDone, decide, SaySat,
                     conflict, merging
<1>3. CASE Propagate
  BY <1>3, Zenon DEF Propagate, BcpStart, BcpAssign, BcpSkip, BcpDone, VisitOther,
                     VisitMove, VisitUnit, SayUnsat, VisitDone, Learning, conflict, merging
<1>4. CASE \/ get_backtracking_level \/ cancel \/ CancelLevel \/ add_learnt_clause
           \/ update_scores \/ UpdateDone \/ decaying_sum \/ LearntDone
  BY <1>4, Zenon DEF get_backtracking_level, cancel, CancelLevel, add_learnt_clause,
                     update_scores, UpdateDone, decaying_sum, LearntDone, conflict, merging
<1>5. CASE PrintLit \/ Finish \/ termination_handler \/ UNCHANGED vars
  BY <1>5, Zenon DEF PrintLit, Finish, termination_handler, vars, conflict, merging
<1>6. QED
  BY <1>1, <1>2, <1>3, <1>4, <1>5 DEF Next, Step, Analyze, Learning

\* The others leave the scores alone.
LEMMA ScoresStay ==
  ASSUME [Next]_vars, ~Scoring
  PROVE  /\ score' = score
         /\ pc' # "decay" \/ (pc = "decay" /\ pos' = pos)
<1>1. CASE Begin
  BY <1>1, Zenon DEF Begin, InitTable, InitWatched, InitEmptyClause, InitDone, heap
<1>2. CASE Search
  BY <1>2, Zenon DEF Search, PlpAssign, PlpSkip, PlpDone, decide, SaySat, heap
<1>3. CASE Propagate
  BY <1>3, Zenon DEF Propagate, BcpStart, BcpAssign, BcpSkip, BcpDone, VisitOther,
                     VisitMove, VisitUnit, VisitConflict, SayUnsat, VisitDone, heap
<1>4. CASE Resolving
  BY <1>4, ResolvingFacts, Zenon DEF heap
<1>5. CASE \/ get_backtracking_level \/ cancel \/ CancelLevel \/ add_learnt_clause
           \/ LearntDone
  BY <1>5, Zenon DEF get_backtracking_level, cancel, CancelLevel, add_learnt_clause,
                     LearntDone, heap
<1>6. CASE PrintLit \/ Finish \/ termination_handler \/ UNCHANGED vars
  BY <1>6, Zenon DEF PrintLit, Finish, termination_handler, vars, heap
<1>7. QED
  BY <1>1, <1>2, <1>3, <1>4, <1>5, <1>6 DEF Next, Step, Analyze, Resolving, Scoring

\* The others leave the numbers and the output alone.
LEMMA NumbersStay ==
  ASSUME [Next]_vars, ~Numbering
  PROVE  UNCHANGED <<size, n_add, out>>
<1>1. CASE Begin
  BY <1>1, Zenon DEF Begin, InitTable, InitWatched, InitEmptyClause, InitDone, conflict, output
<1>2. CASE Search
  BY <1>2, Zenon DEF Search, PlpAssign, PlpSkip, PlpDone, decide, SaySat, conflict, output
<1>3. CASE Propagate
  BY <1>3, Zenon DEF Propagate, BcpStart, BcpAssign, BcpSkip, BcpDone, VisitOther,
                     VisitMove, VisitUnit, VisitConflict, SayUnsat, VisitDone, conflict, output
<1>4. CASE Resolving
  BY <1>4, ResolvingFacts, Zenon DEF output
<1>5. CASE \/ get_backtracking_level \/ cancel \/ CancelLevel
           \/ update_scores \/ UpdateDone \/ decaying_sum \/ LearntDone
  BY <1>5, Zenon DEF get_backtracking_level, cancel, CancelLevel, update_scores,
                     UpdateDone, decaying_sum, LearntDone, conflict, output
<1>6. CASE Finish \/ termination_handler \/ UNCHANGED vars
  BY <1>6, Zenon DEF Finish, termination_handler, vars, conflict, output
<1>7. QED
  BY <1>1, <1>2, <1>3, <1>4, <1>5, <1>6 DEF Next, Step, Analyze, Resolving, Numbering
-----------------------------------------------------------------------------
(***************************************************************************)
(* The types                                                               *)
(***************************************************************************)
\* All that waits is in A.
Holds(q, A) == IsRing(q) /\ \A k \in DOMAIN Contents(q) : Contents(q)[k] \in A

\* How many items a ring has.
LEMMA ContentsFacts ==
  ASSUME NEW q, IsRing(q)
  PROVE  /\ q.itemCount \in Nat /\ DOMAIN Contents(q) = 1..q.itemCount
         /\ Len(Contents(q)) = q.itemCount
         /\ Contents(q) = [k \in 1..Len(Contents(q)) |-> Contents(q)[k]]
         /\ is_q_empty(q) <=> Contents(q) = <<>>
<1>1. q.itemCount \in Nat
  BY QueueAssumption DEF IsRing
<1> DEFINE C == Contents(q)
<1>2. C = [k \in 1..q.itemCount |-> q.queue[PlaceOf(q, k)]]
  BY DEF Contents
<1> HIDE DEF C
<1>3. DOMAIN C = 1..q.itemCount /\ Len(C) = q.itemCount /\ C = [k \in 1..Len(C) |-> C[k]]
  BY <1>1, <1>2
<1>4. q.itemCount = 0 <=> C = <<>>
  BY <1>1, <1>2, <1>3
<1>5. QED
  BY <1>1, <1>3, <1>4 DEF C, is_q_empty

\* Ring operations bring in nothing but what is pushed.
LEMMA QueueHolds ==
  ASSUME NEW A, NEW q, Holds(q, A)
  PROVE  /\ \A x \in A : Holds(push(q, x), A)
         /\ ~is_q_empty(q) => Holds(pop(q), A) /\ Front(q) \in A
         /\ Holds(reset(q), A)
<1>1. IsRing(q) /\ \A k \in DOMAIN Contents(q) : Contents(q)[k] \in A
  BY DEF Holds
<1> DEFINE C == Contents(q)
           n == q.itemCount
<1>2. /\ n \in Nat /\ Len(C) = n /\ C = [k \in 1..n |-> C[k]]
      /\ \A k \in 1..n : C[k] \in A
  <2>1. n \in Nat /\ DOMAIN C = 1..n /\ Len(C) = n /\ C = [k \in 1..Len(C) |-> C[k]]
    BY <1>1, ContentsFacts
  <2>2. QED
    BY <1>1, <2>1
<1>3. ASSUME NEW x \in A PROVE Holds(push(q, x), A)
  <2>1. CASE is_full(q)
    BY <2>1, RingPushFull
  <2>2. CASE ~is_full(q)
    <3>1. IsRing(push(q, x)) /\ Contents(push(q, x)) = Append(C, x)
      BY <1>1, <2>2, RingPush
    <3> HIDE DEF C, n
    <3>2. C \in Seq(A)
      BY <1>2
    <3>3. Append(C, x) \in Seq(A)
      BY <1>3, <3>2
    <3>4. \A k \in DOMAIN Append(C, x) : Append(C, x)[k] \in A
      BY <3>3
    <3>5. QED
      BY <3>1, <3>4 DEF Holds
  <2>3. QED
    BY <2>1, <2>2
<1>4. ASSUME ~is_q_empty(q) PROVE Holds(pop(q), A) /\ Front(q) \in A
  <2>1. /\ IsRing(pop(q)) /\ C # <<>> /\ Contents(pop(q)) = Tail(C)
        /\ Front(q) = Head(C)
    BY <1>1, <1>4, RingPop
  <2> HIDE DEF C, n
  <2>2. C \in Seq(A)
    BY <1>2
  <2>3. Tail(C) \in Seq(A) /\ Head(C) \in A
    BY <2>1, <2>2
  <2>4. \A k \in DOMAIN Tail(C) : Tail(C)[k] \in A
    BY <2>3
  <2>5. QED
    BY <2>1, <2>3, <2>4 DEF Holds
<1>5. Holds(reset(q), A)
  BY <1>1, RingReset DEF Holds
<1>6. QED
  BY <1>3, <1>4, <1>5

Carrying(C) == [lit : Lits \cup {0}, antecedent : C]

Reasons(C) ==
  /\ antecedent \in [Vars -> C] /\ Holds(queue, Carrying(C))
  /\ cur \in Carrying(C) /\ assigned_literals \in Seq(Lits)

LearnTypes ==
  /\ clause \in Clause /\ visited \subseteq Vars
  /\ this \in Clause /\ iB \in Nat \ {0} /\ resolvent \in Vars \cup {0}
  /\ pc = "merge" => resolvent \in Vars

ScoreTypes == score \in [Lits -> Nat] /\ (pc = "decay" => pos \in Vars)

\* While there is room for learnt clauses, each has got its number.
NumberTypes ==
  /\ size \in 0..NLEARNT_CLAUSES /\ n_add \in 0..NLEARNT_CLAUSES
  /\ size < NLEARNT_CLAUSES => n_add = size
  /\ out \in Seq(0..(Word - 1))

\* The types that TypeInv leaves out.
MoreTypes == Reasons(Clause) /\ LearnTypes /\ ScoreTypes /\ NumberTypes

LEMMA ClauseTypes ==
  ASSUME TypeInv
  PROVE  /\ NoClause \in Clause /\ BrokenClause \in Clause
         /\ \A c \in DOMAIN F : Original(c) \in Clause
<1>1. \A c \in DOMAIN F : F[c] \in Seq(Lits)
  BY DEF TypeInv, Formulas
<1>2. \A c \in DOMAIN F : Len(F[c]) \in Int
  BY <1>1
<1>3. <<>> \in Seq(Lits)
  OBVIOUS
<1>4. QED
  BY <1>1, <1>2, <1>3 DEF NoClause, BrokenClause, Clause, Original

\* The clauses the program reasons with stay in a set that the clauses of the formula
\* and the one learnt belong to.
LEMMA ReasonsStep ==
  ASSUME IInv, NEW C, C \subseteq Clause, Reasons(C), clause \in C,
         NoClause \in C, \A c \in DOMAIN F : Original(c) \in C, [Next]_vars
  PROVE  Reasons(C)'
<1>1. /\ antecedent \in [Vars -> C] /\ Holds(queue, Carrying(C))
      /\ cur \in Carrying(C) /\ assigned_literals \in Seq(Lits) /\ clause \in C
  BY DEF Reasons
<1>2. TypeInv /\ NoClause \in C /\ \A c \in DOMAIN F : Original(c) \in C
  BY DEF IInv
<1>a. \A x \in Carrying(C) : x.lit \in Lits \cup {0} /\ x.antecedent \in C
  BY DEF Carrying
<1>b. \A l \in Lits \cup {0}, c \in C : [lit |-> l, antecedent |-> c] \in Carrying(C)
  BY DEF Carrying
<1>3. CASE ~Reasoning
  BY <1>1, <1>3, ReasonsStay DEF Reasons
<1>4. CASE PlpAssign
  <2>1. UNCHANGED <<queue, cur, assigned_literals>>
    BY <1>4, Zenon DEF PlpAssign, bcp
  <2>2. antecedent' \in [Vars -> C]
    <3>1. PICK l \in {pos, -pos} :
            IF IsUnassigned(l) THEN assign(l, NoClause) /\ UNCHANGED status
            ELSE status' = "error" /\ UNCHANGED <<assigned, table>>
      BY <1>4 DEF PlpAssign
    <3>2. antecedent' = [antecedent EXCEPT ![Var(l)] = NoClause] \/ antecedent' = antecedent
      BY <3>1 DEF assign, assigned
    <3>3. QED
      BY <1>1, <1>2, <3>2
  <2>3. QED
    BY <1>1, <2>1, <2>2 DEF Reasons
<1>5. CASE decide
  <2>1. /\ UNCHANGED <<antecedent, queue, assigned_literals>>
        /\ \E l \in Lits : cur' = [lit |-> l, antecedent |-> NoClause] \/ cur' = cur
    BY <1>5 DEF decide, assigned
  <2>2. QED
    BY <1>1, <1>2, <1>b, <2>1 DEF Reasons
<1>6. CASE BcpStart
  <2>1. /\ antecedent' = antecedent /\ cur' = cur /\ queue' = push(queue, cur)
        /\ assigned_literals' = <<>>
    BY <1>6, Zenon DEF BcpStart, assigned
  <2>2. Holds(queue', Carrying(C))
    BY <1>1, <2>1, QueueHolds
  <2>3. QED
    BY <1>1, <2>1, <2>2 DEF Reasons
<1>7. CASE BcpAssign
  <2>1. /\ ~is_q_empty(queue) /\ cur' = Front(queue) /\ queue' = pop(queue)
        /\ assign(cur'.lit, cur'.antecedent)
        /\ assigned_literals' = <<cur'.lit>> \o assigned_literals
    BY <1>7, Zenon DEF BcpAssign
  <2>2. cur' \in Carrying(C) /\ Holds(queue', Carrying(C)) /\ cur'.lit \in Lits
    BY <1>1, <1>2, <2>1, QueueHolds, FrontLit
  <2>3. antecedent' \in [Vars -> C]
    <3>1. antecedent' = [antecedent EXCEPT ![Var(cur'.lit)] = cur'.antecedent]
      BY <2>1 DEF assign
    <3>2. cur'.antecedent \in C
      BY <1>a, <2>2
    <3>3. QED
      BY <1>1, <3>1, <3>2
  <2>4. assigned_literals' \in Seq(Lits)
    BY <1>1, <2>1, <2>2
  <2>5. QED
    BY <2>2, <2>3, <2>4 DEF Reasons
<1>8. CASE BcpSkip
  <2>1. /\ ~is_q_empty(queue) /\ queue' = pop(queue)
        /\ UNCHANGED <<antecedent, cur, assigned_literals>>
    BY <1>8, Zenon DEF BcpSkip, assigned
  <2>2. Holds(queue', Carrying(C))
    BY <1>1, <2>1, QueueHolds
  <2>3. QED
    BY <1>1, <2>1, <2>2 DEF Reasons
<1>9. CASE BcpDone \/ VisitConflict \/ SayUnsat
  <2>1. queue' = reset(queue) /\ UNCHANGED <<antecedent, cur, assigned_literals>>
    BY <1>9, Zenon DEF BcpDone, VisitConflict, SayUnsat, assigned
  <2>2. Holds(queue', Carrying(C))
    BY <1>1, <2>1, QueueHolds
  <2>3. QED
    BY <1>1, <2>1, <2>2 DEF Reasons
<1>10. CASE VisitUnit
  <2>1. PICK c : /\ c = Head(walk)
                 /\ queue' = push(queue, [lit |-> WatchedLit(c, 3 - NewIndex(c)),
                                          antecedent |-> Original(c)])
    BY <1>10 DEF VisitUnit
  <2>2. UNCHANGED <<antecedent, cur, assigned_literals>> /\ Visiting
    BY <1>10, Zenon DEF VisitUnit, assigned
  <2>3. c \in DOMAIN F /\ WatchedLit(c, 3 - NewIndex(c)) \in Lits
    <3>1. c \in DOMAIN F
      BY <1>2, <2>1, <2>2 DEF Visiting, TypeInv
    <3>2. Listed(c)
      BY <2>2, <3>1 DEF IInv, WatchInv, ClauseIds, Visiting
    <3>3. 3 - NewIndex(c) \in 1..2
      BY DEF NewIndex
    <3>4. QED
      BY <1>2, <3>1, <3>2, <3>3, LitOfClause DEF Listed, WatchedLit, TypeInv
  <2>4. Holds(queue', Carrying(C))
    BY <1>1, <1>2, <1>b, <2>1, <2>3, QueueHolds
  <2>5. QED
    BY <1>1, <2>2, <2>4 DEF Reasons
<1>11. CASE get_backtracking_level
  <2>1. /\ UNCHANGED <<antecedent, queue, assigned_literals>>
        /\ \E l \in Lits \cup {0} : cur' = [lit |-> l, antecedent |-> clause]
    BY <1>11 DEF get_backtracking_level, assigned
  <2>2. QED
    BY <1>1, <1>b, <2>1 DEF Reasons
<1>12. CASE cancel
  <2>1. /\ UNCHANGED <<queue, cur, assigned_literals>>
        /\ antecedent' = [antecedent EXCEPT ![Head(TopList)] = NoClause]
    BY <1>12 DEF cancel, bcp
  <2>2. QED
    BY <1>1, <1>2, <2>1 DEF Reasons
<1>13. QED
  BY <1>3, <1>4, <1>5, <1>6, <1>7, <1>8, <1>9, <1>10, <1>11, <1>12 DEF Reasoning

LEMMA ScoreTypesStep ==
  ASSUME IInv, MoreTypes, [Next]_vars
  PROVE  ScoreTypes'
<1>1. score \in [Lits -> Nat] /\ (pc = "decay" => pos \in Vars) /\ clause \in Clause
  BY DEF MoreTypes, ScoreTypes, LearnTypes
<1>2. CASE ~Scoring
  BY <1>1, <1>2, ScoresStay DEF ScoreTypes
<1>3. CASE update_scores
  <2>1. /\ pc' = "scores" /\ pos <= Len(clause.lits)
        /\ score' = [score EXCEPT ![clause.lits[pos]] = @ + Unit]
    BY <1>3 DEF update_scores
  <2>2. clause.lits[pos] \in Lits
    BY <1>1, <2>1 DEF Clause, IInv, TypeInv
  <2>3. score[clause.lits[pos]] + Unit \in Nat
    BY <1>1, <2>2, Bounds1Assumption
  <2>4. QED
    BY <1>1, <2>1, <2>2, <2>3 DEF ScoreTypes
<1>4. CASE UpdateDone
  BY <1>1, <1>4, NAssumption DEF UpdateDone, ScoreTypes, heap, Vars
<1>5. CASE decaying_sum
  <2>1. /\ pc = "decay" /\ pos' = pos + 1 /\ pc' = IF pos = N THEN "learnt" ELSE "decay"
        /\ score' = [score EXCEPT ![pos] = Half(@), ![-pos] = Half(@)]
    BY <1>5 DEF decaying_sum
  <2>2. pos \in Vars /\ pos \in Lits /\ -pos \in Lits
    BY <1>1, <2>1, LitFacts
  <2>3. \A n \in Nat : Half(n) \in Nat
    BY DEF Half
  <2>4. score' \in [Lits -> Nat]
    <3>1. Half(score[pos]) \in Nat /\ Half(score[-pos]) \in Nat
      BY <1>1, <2>2, <2>3
    <3>2. pos # -pos
      BY <2>2 DEF Vars
    <3>3. score' = [l \in Lits |-> IF l = pos THEN Half(score[pos])
                                  ELSE IF l = -pos THEN Half(score[-pos]) ELSE score[l]]
      BY <1>1, <2>1, <2>2, <3>2
    <3>4. QED
      BY <1>1, <3>1, <3>3
  <2>5. pc' = "decay" => pos' \in Vars
    BY <2>1, <2>2, NAssumption DEF Vars
  <2>6. QED
    BY <2>4, <2>5 DEF ScoreTypes
<1>6. QED
  BY <1>2, <1>3, <1>4, <1>5 DEF Scoring

\* The remainder is below what is divided by.
LEMMA ModFacts ==
  ASSUME NEW a \in Int, NEW b \in Nat \ {0}
  PROVE  /\ a % b \in 0..(b - 1)
         /\ 0 <= a /\ a < b => a % b = a
         /\ a < 0 /\ -b <= a => a % b = a + b
         /\ a = b => a % b = 0
OBVIOUS

LEMMA NumberTypesStep ==
  ASSUME IInv, MoreTypes, [Next]_vars
  PROVE  NumberTypes'
<1> DEFINE M == NLEARNT_CLAUSES
<1>1. /\ size \in 0..M /\ n_add \in 0..M /\ (size < M => n_add = size)
      /\ out \in Seq(0..(Word - 1)) /\ M \in Nat \ {0} /\ Word \in Nat \ {0}
  BY Bounds1Assumption DEF MoreTypes, NumberTypes
<1>2. CASE ~Numbering
  BY <1>1, <1>2, NumbersStay DEF NumberTypes
<1>3. CASE add_learnt_clause
  <2>1. /\ \/ size < M /\ size' = size + 1 /\ n_add' = n_add + 1
           \/ ~(size < M) /\ size' = size /\ n_add' = (n_add % M) + 1
        /\ out' = out
    BY <1>3 DEF add_learnt_clause, output
  <2>2. n_add % M \in 0..(M - 1)
    BY <1>1, ModFacts
  <2> HIDE DEF M
  <2>3. size' \in 0..M /\ n_add' \in 0..M /\ (size' < M => n_add' = size')
    BY <1>1, <2>1, <2>2
  <2>4. QED
    BY <1>1, <2>1, <2>3 DEF NumberTypes, M
<1>4. CASE PrintLit
  <2>1. UNCHANGED <<size, n_add>> /\ Len(out) < N
        /\ LET v == Len(out) + 1 IN out' = Append(out, ltoa(IF value[v] = 1 THEN v ELSE -v))
    BY <1>4 DEF PrintLit, conflict
  <2>2. Len(out) + 1 \in Int /\ \A l \in Int : ltoa(l) \in 0..(Word - 1)
    BY <1>1, ModFacts DEF ltoa
  <2>3. out' \in Seq(0..(Word - 1))
    <3> DEFINE v == Len(out) + 1
               l == IF value[v] = 1 THEN v ELSE -v
               x == ltoa(l)
    <3>1. out' = Append(out, x)
      BY <2>1
    <3>2. x \in 0..(Word - 1)
      <4>1. l \in Int
        BY <2>2
      <4> HIDE DEF l
      <4>2. QED
        BY <2>2, <4>1
    <3> HIDE DEF x
    <3>3. QED
      BY <1>1, <3>1, <3>2
  <2>4. QED
    BY <1>1, <2>1, <2>3 DEF NumberTypes
<1>5. QED
  BY <1>2, <1>3, <1>4 DEF Numbering

\* Taking a literal out of a clause, and putting one in.
LEMMA ResolvedType ==
  ASSUME NEW a \in Clause, NEW c \in Clause, NEW l \in Lits
  PROVE  Resolved(a, c, l) \in Clause
<1>1. c.lits \in Seq(Lits) /\ c.n \in Int /\ a.lits \in Seq(Lits)
  BY DEF Clause
<1>2. Opposites(a, l) \subseteq 1..Len(a.lits) /\ Len(a.lits) \in Nat
  BY <1>1 DEF Opposites
<1>3. Cardinality(Opposites(a, l)) \in Nat
  <2>1. IsFiniteSet(1..Len(a.lits))
    BY <1>2, FS_Interval
  <2>2. IsFiniteSet(Opposites(a, l))
    BY <1>2, <2>1, FS_Subset
  <2>3. QED
    BY <2>2, FS_CardinalityType
<1> DEFINE ps == {i \in DOMAIN c.lits : c.lits[i] # -l}
<1>4. At(c.lits, ps) \in Seq(Lits)
  <2>1. ps \subseteq 1..Len(c.lits)
    BY <1>1
  <2> HIDE DEF ps
  <2>2. QED
    BY <1>1, <2>1, AtPositions
<1>5. c.n - Cardinality(Opposites(a, l)) \in Int
  BY <1>1, <1>3
<1>6. BrokenClause \in Clause
  BY DEF BrokenClause, Clause
<1>7. QED
  BY <1>4, <1>5, <1>6 DEF Resolved, Clause

LEMMA AddedType ==
  ASSUME NEW c \in Clause, NEW l \in Lits
  PROVE  Added(c, l) \in Clause
<1>1. c.lits \in Seq(Lits) /\ c.n \in Int
  BY DEF Clause
<1>2. <<l>> \in Seq(Lits) /\ Append(c.lits, l) \in Seq(Lits) /\ c.n + 1 \in Int
  BY <1>1
<1>3. BrokenClause \in Clause
  BY DEF BrokenClause, Clause
<1>4. QED
  BY <1>2, <1>3 DEF Added, Clause

LEMMA LearnTypesStep ==
  ASSUME IInv, MoreTypes, [Next]_vars
  PROVE  LearnTypes'
<1>1. /\ clause \in Clause /\ visited \subseteq Vars
      /\ this \in Clause /\ iB \in Nat \ {0} /\ resolvent \in Vars \cup {0}
      /\ pc = "merge" => resolvent \in Vars
      /\ antecedent \in [Vars -> Clause] /\ assigned_literals \in Seq(Lits)
  BY DEF MoreTypes, LearnTypes, Reasons
<1>2. NoClause \in Clause /\ \A c \in DOMAIN F : Original(c) \in Clause
  BY ClauseTypes DEF IInv
<1>3. CASE ~Learning
  BY <1>1, <1>3, ClauseStays DEF LearnTypes
<1>4. CASE VisitConflict
  <2>1. /\ \E c \in DOMAIN F : clause' = Original(c)
        /\ visited' = {} /\ pc' = "learn" /\ UNCHANGED <<this, iB, resolvent>>
    BY <1>4, Zenon DEF VisitConflict, merging
  <2>2. QED
    BY <1>1, <1>2, <2>1 DEF LearnTypes
<1>5. CASE StartMerge
  <2>1. PICK k \in DOMAIN assigned_literals :
          LET v == Var(assigned_literals[k]) IN
            /\ visited' = visited \cup {v}
            /\ resolvent' = v /\ this' = antecedent[v] /\ iB' = 1
    BY <1>5 DEF StartMerge
  <2>2. clause' = clause
    BY <1>5 DEF StartMerge
  <2>3. Var(assigned_literals[k]) \in Vars
    BY <1>1, LitFacts
  <2>4. QED
    BY <1>1, <2>1, <2>2, <2>3 DEF LearnTypes
<1>6. CASE SkipVisited
  BY <1>1, <1>6 DEF SkipVisited, conflict, merging, LearnTypes
<1>7. CASE merge
  <2>1. /\ pc = "merge" /\ iB <= Len(clause.lits) /\ iB' = iB + 1
        /\ this' = Merged(antecedent[resolvent], this, clause.lits[iB])
        /\ UNCHANGED <<clause, visited, resolvent>>
    BY <1>7, Zenon DEF merge
  <2>2. antecedent[resolvent] \in Clause /\ clause.lits[iB] \in Lits
    BY <1>1, <2>1 DEF Clause
  <2>3. this' \in Clause
    BY <1>1, <2>1, <2>2, ResolvedType, AddedType DEF Merged
  <2>4. QED
    BY <1>1, <2>1, <2>3 DEF LearnTypes
<1>8. CASE MergeDone
  BY <1>1, <1>2, <1>8 DEF MergeDone, LearnTypes
<1>9. QED
  BY <1>3, <1>4, <1>5, <1>6, <1>7, <1>8, Turns DEF Learning

\* A formula has finitely many literals.
LEMMA FinitePositions == ASSUME Init PROVE IsFiniteSet(Positions(F))
<1>0. F \in Seq(Seq(Lits))
  BY Inputs1Assumption DEF Init, Formulas
<1>1. DOMAIN F = 1..Len(F) /\ Len(F) \in Nat
  BY <1>0
<1>2. ASSUME NEW c \in DOMAIN F PROVE IsFiniteSet({c} \X DOMAIN F[c])
  <2>1. DOMAIN F[c] = 1..Len(F[c]) /\ Len(F[c]) \in Nat
    BY <1>0
  <2>2. IsFiniteSet({c})
    BY FS_Singleton
  <2>3. IsFiniteSet(1..Len(F[c]))
    BY <2>1, FS_Interval
  <2>4. QED
    BY <2>1, <2>2, <2>3, FS_Product
<1> DEFINE S == {{c} \X DOMAIN F[c] : c \in DOMAIN F}
<1>3. IsFiniteSet(S)
  <2>1. IsFiniteSet(DOMAIN F)
    BY <1>1, FS_Interval
  <2> DEFINE f == [c \in DOMAIN F |-> {c} \X DOMAIN F[c]]
  <2>2. f \in Surjection(DOMAIN F, S)
    BY DEF Surjection
  <2>3. QED
    BY <2>1, <2>2, FS_Surjection
<1>4. \A T \in S : IsFiniteSet(T)
  BY <1>2
<1>5. QED
  BY <1>3, <1>4, FS_UNION DEF Positions

\* The scores are natural numbers at the start.
LEMMA InitScore == ASSUME Init PROVE score \in [Lits -> Nat]
<1>1. ASSUME NEW l \in Lits PROVE Occurrences(F, l) \in Nat
  <2>1. IsFiniteSet({x \in Positions(F) : F[x[1]][x[2]] = l})
    BY FinitePositions, FS_Subset
  <2>2. QED
    BY <2>1, FS_CardinalityType DEF Occurrences
<1>2. \A n \in Nat : n * Unit \in Nat
  BY Bounds1Assumption
<1>3. QED
  BY <1>1, <1>2 DEF Init

LEMMA InitMoreTypes == ASSUME Init PROVE MoreTypes
<1>1. IInv /\ NoClause \in Clause /\ NoClause.lits = <<>>
  BY InitIInv, ClauseTypes DEF IInv, NoClause
<1>2. Reasons(Clause)
  <2>1. /\ antecedent = [v \in Vars |-> NoClause] /\ assigned_literals = <<>>
        /\ cur = [lit |-> 0, antecedent |-> NoClause]
        /\ queue = InitQueue([lit |-> 0, antecedent |-> NoClause])
    BY DEF Init
  <2>2. cur \in Carrying(Clause)
    BY <1>1, <2>1 DEF Carrying
  <2>3. IsRing(queue) /\ queue.itemCount = 0
    BY <2>1, RingInit
  <2>4. DOMAIN Contents(queue) = {}
    BY <2>3, ContentsFacts
  <2>5. QED
    BY <1>1, <2>1, <2>2, <2>3, <2>4 DEF Reasons, Holds
<1>3. LearnTypes
  BY <1>1 DEF Init, LearnTypes
<1>4. ScoreTypes
  BY InitScore DEF Init, ScoreTypes
<1>5. NumberTypes
  BY Bounds1Assumption DEF Init, NumberTypes
<1>6. QED
  BY <1>2, <1>3, <1>4, <1>5 DEF MoreTypes

IInv2 == IInv /\ MoreTypes

LEMMA TypedStep == IInv2 /\ [Next]_vars => IInv2'
<1>1. IInv /\ [Next]_vars => IInv'
  BY TypeStep, CountStep, CursorStep, LevelStep, WatchStep DEF IInv
<1>2. IInv /\ MoreTypes /\ [Next]_vars => MoreTypes'
  <2>1. ASSUME IInv, MoreTypes, [Next]_vars PROVE Reasons(Clause)'
    <3>1. /\ NoClause \in Clause /\ \A c \in DOMAIN F : Original(c) \in Clause
          /\ Reasons(Clause) /\ clause \in Clause
      BY <2>1, ClauseTypes DEF IInv, MoreTypes, LearnTypes
    <3>2. QED
      BY <2>1, <3>1, ReasonsStep
  <2>2. QED
    BY <2>1, LearnTypesStep, ScoreTypesStep, NumberTypesStep DEF MoreTypes
<1>3. QED
  BY <1>1, <1>2 DEF IInv2

LEMMA Typed == Spec => []IInv2
<1>1. Init => IInv2
  BY InitIInv, InitMoreTypes DEF IInv2
<1>2. QED
  BY TypedStep, <1>1, PTL DEF Spec

\* The variables of the program keep their types, and nassigned counts the variables
\* that have a value: assign, cancel and the queue lose none.
THEOREM TypeCorrect == Spec => []TypeOK
<1>1. IInv2 => TypeOK
  <2> SUFFICES ASSUME IInv2 PROVE TypeOK
    OBVIOUS
  <2>1. TypeInv /\ CountInv /\ MoreTypes
    BY DEF IInv2, IInv
  <2>2. \A k \in DOMAIN Contents(queue) : Contents(queue)[k] \in Assignment1
    BY <2>1 DEF MoreTypes, Reasons, Holds, Carrying, Assignment1
  <2>3. QED
    BY <2>1, <2>2 DEF TypeOK, MoreTypes, Reasons, Carrying, Assignment1, LearnTypes, ScoreTypes, NumberTypes
<1>2. QED
  BY Typed, <1>1, PTL
-----------------------------------------------------------------------------
(***************************************************************************)
(* merge                                                                   *)
(***************************************************************************)
LitsIn(c) == {c.lits[i] : i \in DOMAIN c.lits}

\* The clause counts its literals right and has none twice.
Counted(c) == /\ c.n = Len(c.lits)
              /\ \A i, j \in 1..Len(c.lits) : c.lits[i] = c.lits[j] => i = j
Good == {c \in Clause : Counted(c)}

LEMMA GoodFacts ==
  ASSUME NEW c \in Good
  PROVE  /\ c \in Clause /\ c.lits \in Seq(Lits) /\ Len(c.lits) \in Nat /\ c.n = Len(c.lits)
         /\ DOMAIN c.lits = 1..Len(c.lits)
         /\ \A i, j \in 1..Len(c.lits) : c.lits[i] = c.lits[j] => i = j
         /\ \A x \in LitsIn(c) : x \in Lits
<1>1. c \in Clause /\ c.lits \in Seq(Lits)
  BY DEF Good, Clause
<1>2. Len(c.lits) \in Nat /\ DOMAIN c.lits = 1..Len(c.lits)
  BY <1>1
<1>3. \A x \in LitsIn(c) : x \in Lits
  BY <1>1 DEF LitsIn
<1>4. QED
  BY <1>1, <1>2, <1>3 DEF Good, Counted

\* A literal that occurs once leaves one literal less, and is counted off once.
LEMMA ResolvedGood ==
  ASSUME NEW a \in Good, NEW c \in Good, NEW l \in Lits, -l \in LitsIn(a), -l \in LitsIn(c)
  PROVE  /\ Resolved(a, c, l) \in Good
         /\ LitsIn(Resolved(a, c, l)) = LitsIn(c) \ {-l}
<1> DEFINE s == c.lits
           ps == {i \in DOMAIN s : s[i] # -l}
           r == At(s, ps)
<1>1. /\ s \in Seq(Lits) /\ Len(s) \in Nat /\ DOMAIN s = 1..Len(s) /\ c.n = Len(s)
      /\ \A i, j \in 1..Len(s) : s[i] = s[j] => i = j
      /\ \A i, j \in DOMAIN a.lits : a.lits[i] = a.lits[j] => i = j
  BY GoodFacts
<1>2. PICK i \in DOMAIN s : s[i] = -l
  BY DEF LitsIn
<1>3. ps = 1..Len(s) \ {i} /\ ps \subseteq 1..Len(s)
  BY <1>1, <1>2
<1>4. Cardinality(Opposites(a, l)) = 1
  <2>1. PICK k \in DOMAIN a.lits : a.lits[k] = -l
    BY DEF LitsIn
  <2>2. Opposites(a, l) = {k}
    BY <1>1, <2>1 DEF Opposites
  <2>3. QED
    BY <2>2, FS_Singleton
<1>5. Resolved(a, c, l) = [lits |-> r, n |-> Len(s) - 1]
  BY <1>1, <1>2, <1>4 DEF Resolved
<1>6. /\ r \in Seq(Lits)
      /\ \A k \in 1..Len(r) : \E j \in ps : r[k] = s[j]
      /\ \A j \in ps : \E k \in 1..Len(r) : r[k] = s[j]
      /\ \A j, k \in 1..Len(r) : r[j] = r[k] => j = k
  <2>1. s \in Seq(Lits) /\ ps \subseteq 1..Len(s)
        /\ \A j, k \in ps : s[j] = s[k] => j = k
    BY <1>1, <1>3
  <2> HIDE DEF s, ps
  <2>2. QED
    BY <2>1, AtPositions
<1>7. Len(r) = Len(s) - 1
  BY <1>1, <1>2, <1>3, AtLength
<1> HIDE DEF r
<1> HIDE DEF s, ps
<1>8. Resolved(a, c, l) \in Good
  <2> DEFINE d == [lits |-> r, n |-> Len(s) - 1]
  <2>1. d \in Clause
    BY <1>1, <1>6 DEF Clause
  <2>2. Counted(d)
    BY <1>1, <1>6, <1>7 DEF Counted
  <2>3. QED
    BY <1>5, <2>1, <2>2 DEF Good
<1>9. {r[k] : k \in 1..Len(r)} = {s[j] : j \in ps}
  <2>1. \A k \in 1..Len(r) : r[k] \in {s[j] : j \in ps}
    BY <1>6
  <2>2. \A j \in ps : s[j] \in {r[k] : k \in 1..Len(r)}
    BY <1>6
  <2>3. QED
    BY <2>1, <2>2
<1>10. {s[j] : j \in ps} = {s[j] : j \in 1..Len(s)} \ {-l}
  BY <1>1, <1>2, <1>3
<1>11. LitsIn(c) = {s[j] : j \in 1..Len(s)}
  BY <1>1 DEF LitsIn, s
<1>12. LitsIn(Resolved(a, c, l)) = {r[k] : k \in 1..Len(r)}
  BY <1>5, <1>6 DEF LitsIn
<1>13. QED
  BY <1>8, <1>9, <1>10, <1>11, <1>12

\* A new literal keeps the count right.
LEMMA AddedGood ==
  ASSUME NEW c \in Good, NEW l \in Lits, l \notin LitsIn(c)
  PROVE  Added(c, l) \in Good /\ LitsIn(Added(c, l)) = LitsIn(c) \cup {l}
<1> DEFINE s == c.lits
           r == Append(s, l)
<1>1. /\ s \in Seq(Lits) /\ Len(s) \in Nat /\ DOMAIN s = 1..Len(s) /\ c.n = Len(s)
      /\ \A i, j \in 1..Len(s) : s[i] = s[j] => i = j
  BY GoodFacts
<1>2. \A i \in 1..Len(s) : s[i] # l
  BY <1>1 DEF LitsIn
<1>3. /\ r \in Seq(Lits) /\ Len(r) = Len(s) + 1 /\ DOMAIN r = 1..(Len(s) + 1)
      /\ \A i \in 1..(Len(s) + 1) : r[i] = IF i = Len(s) + 1 THEN l ELSE s[i]
  BY <1>1
<1>4. Added(c, l) = [lits |-> r, n |-> Len(s) + 1]
  <2>1. CASE s = <<>>
    <3>1. r = <<l>> /\ c.n = 0
      BY <1>1, <2>1
    <3>2. QED
      BY <2>1, <3>1 DEF Added
  <2>2. CASE s # <<>>
    BY <1>1, <2>2 DEF Added
  <2>3. QED
    BY <2>1, <2>2
<1> HIDE DEF r
<1>5. Added(c, l) \in Good
  <2>1. \A i, j \in 1..Len(r) : r[i] = r[j] => i = j
    BY <1>1, <1>2, <1>3
  <2>2. QED
    BY <1>1, <1>3, <1>4, <2>1 DEF Good, Clause, Counted
<1>6. {r[i] : i \in 1..(Len(s) + 1)} = {s[i] : i \in 1..Len(s)} \cup {l}
  BY <1>1, <1>3
<1>7. QED
  BY <1>1, <1>3, <1>4, <1>5, <1>6 DEF LitsIn

\* What the copy of a is when the first j - 1 literals of b have been read.
Read(b, j) == {b.lits[i] : i \in 1..(j - 1)}
HalfMerged(a, b, j, v) ==
  {x \in LitsIn(a) : Var(x) = v => -x \notin Read(b, j)}
  \cup {x \in Read(b, j) : x \notin LitsIn(a) /\ ~OnV(a, x, v)}

LEMMA OnVFacts ==
  ASSUME NEW a, NEW l, NEW v
  PROVE  OnV(a, l, v) <=> Var(l) = v /\ -l \in LitsIn(a)
BY DEF OnV, Opposites, LitsIn

\* A turn of merge keeps the count right and reads one more literal.
LEMMA MergedGood ==
  ASSUME NEW a \in Good, NEW b \in Good, NEW c \in Good, NEW j \in 1..Len(b.lits),
         LitsIn(c) = HalfMerged(a, b, j, resolvent)
  PROVE  /\ Merged(a, c, b.lits[j]) \in Good
         /\ LitsIn(Merged(a, c, b.lits[j])) = HalfMerged(a, b, j + 1, resolvent)
<1> DEFINE l == b.lits[j]
           v == resolvent
           R == Read(b, j)
<1>1. /\ l \in Lits /\ -l \in Lits /\ l # -l /\ -(-l) = l
      /\ l \notin R /\ Read(b, j + 1) = R \cup {l}
  <2>1. b.lits \in Seq(Lits) /\ Len(b.lits) \in Nat
        /\ \A i, k \in 1..Len(b.lits) : b.lits[i] = b.lits[k] => i = k
    BY GoodFacts
  <2>2. l \in Lits /\ -l \in Lits
    BY <2>1, LitFacts
  <2>3. l # -l /\ -(-l) = l
    BY <2>2, NAssumption DEF Lits
  <2>4. l \notin R
    BY <2>1 DEF Read
  <2>5. 1..(j + 1 - 1) = 1..(j - 1) \cup {j}
    BY <2>1
  <2>6. Read(b, j + 1) = R \cup {l}
    BY <2>5 DEF Read
  <2>7. QED
    BY <2>2, <2>3, <2>4, <2>6
<1>2. \A x \in R : x \in Lits
  <2>1. b.lits \in Seq(Lits) /\ Len(b.lits) \in Nat
    BY GoodFacts
  <2>2. QED
    BY <2>1 DEF Read
<1>3. \A x \in LitsIn(a) : x \in Lits /\ -(-x) = x
  <2>1. \A x \in LitsIn(a) : x \in Lits
    BY GoodFacts
  <2>2. \A x \in Lits : -(-x) = x
    BY NAssumption DEF Lits
  <2>3. QED
    BY <2>1, <2>2
<1>4. Var(-l) = Var(l)
  BY <1>1 DEF Var, Abs, Lits
<1>5. \A x : OnV(a, x, v) <=> Var(x) = v /\ -x \in LitsIn(a)
  BY OnVFacts
<1> HIDE DEF l, v, R
<1>6. /\ LitsIn(c) = {x \in LitsIn(a) : Var(x) = v => -x \notin R}
                     \cup {x \in R : x \notin LitsIn(a) /\ ~OnV(a, x, v)}
      /\ HalfMerged(a, b, j + 1, v) =
           {x \in LitsIn(a) : Var(x) = v => -x \notin R \cup {l}}
           \cup {x \in R \cup {l} : x \notin LitsIn(a) /\ ~OnV(a, x, v)}
  BY <1>1 DEF HalfMerged, R, v
<1>7. CASE OnV(a, l, v)
  <2>1. Merged(a, c, l) = Resolved(a, c, l)
    BY <1>7 DEF Merged, v
  <2>2. Var(l) = v /\ -l \in LitsIn(a)
    BY <1>5, <1>7
  <2>3. -l \in LitsIn(c)
    BY <1>1, <1>6, <2>2
  <2>4. Merged(a, c, l) \in Good /\ LitsIn(Merged(a, c, l)) = LitsIn(c) \ {-l}
    BY <1>1, <2>1, <2>2, <2>3, ResolvedGood
  <2>5. HalfMerged(a, b, j + 1, v) = LitsIn(c) \ {-l}
    <3>1. \A x : x \in LitsIn(a) /\ (Var(x) = v => -x \notin R \cup {l})
                 <=> x \in LitsIn(a) /\ (Var(x) = v => -x \notin R) /\ x # -l
      BY <1>1, <1>3, <1>4, <2>2
    <3>2. \A x : x \in R \cup {l} /\ x \notin LitsIn(a) /\ ~OnV(a, x, v)
                 <=> x \in R /\ x \notin LitsIn(a) /\ ~OnV(a, x, v) /\ x # -l
      BY <1>7, <2>2
    <3>3. QED
      BY <1>6, <3>1, <3>2, Zenon
  <2>6. QED
    BY <2>4, <2>5 DEF l, v
<1>8. CASE ~OnV(a, l, v) /\ l \in LitsIn(a)
  <2>1. Merged(a, c, l) = c
    BY <1>8 DEF Merged, v, LitsIn
  <2>2. HalfMerged(a, b, j + 1, v) = LitsIn(c)
    <3>1. \A x : x \in LitsIn(a) /\ (Var(x) = v => -x \notin R \cup {l})
                 <=> x \in LitsIn(a) /\ (Var(x) = v => -x \notin R)
      BY <1>1, <1>3, <1>4, <1>5, <1>8
    <3>2. \A x : x \in R \cup {l} /\ x \notin LitsIn(a) /\ ~OnV(a, x, v)
                 <=> x \in R /\ x \notin LitsIn(a) /\ ~OnV(a, x, v)
      BY <1>8
    <3>3. QED
      BY <1>6, <3>1, <3>2, Zenon
  <2>3. QED
    BY <2>1, <2>2 DEF l, v
<1>9. CASE ~OnV(a, l, v) /\ l \notin LitsIn(a)
  <2>1. Merged(a, c, l) = Added(c, l)
    BY <1>9 DEF Merged, v, LitsIn
  <2>2. l \notin LitsIn(c)
    BY <1>1, <1>6, <1>9
  <2>3. Merged(a, c, l) \in Good /\ LitsIn(Merged(a, c, l)) = LitsIn(c) \cup {l}
    BY <1>1, <2>1, <2>2, AddedGood
  <2>4. HalfMerged(a, b, j + 1, v) = LitsIn(c) \cup {l}
    <3>1. \A x : x \in LitsIn(a) /\ (Var(x) = v => -x \notin R \cup {l})
                 <=> x \in LitsIn(a) /\ (Var(x) = v => -x \notin R)
      BY <1>1, <1>3, <1>4, <1>5, <1>9
    <3>2. \A x : x \in R \cup {l} /\ x \notin LitsIn(a) /\ ~OnV(a, x, v)
                 <=> (x \in R /\ x \notin LitsIn(a) /\ ~OnV(a, x, v)) \/ x = l
      BY <1>9
    <3>3. QED
      BY <1>6, <3>1, <3>2, Zenon
  <2>5. QED
    BY <2>3, <2>4 DEF l, v
<1>10. QED
  BY <1>7, <1>8, <1>9

CountedInv == RepeatFree => Reasons(Good) /\ clause \in Good /\ this \in Good

\* What merge has made of the two clauses so far.
MergeInv ==
  pc = "merge" /\ RepeatFree =>
    /\ iB <= Len(clause.lits) + 1
    /\ antecedent[resolvent] # NoClause
    /\ Clashes(antecedent[resolvent], clause, resolvent)
    /\ Cardinality(Here(clause.lits)) > 1
    /\ \E k \in DOMAIN assigned_literals : resolvent = Var(assigned_literals[k])
    /\ LitsIn(this) = HalfMerged(antecedent[resolvent], clause, iB, resolvent)

LEMMA IntoLearning ==
  ASSUME [Next]_vars, pc' \in {"learn", "merge"}
  PROVE  \/ VisitConflict \/ Resolving
         \/ UNCHANGED <<F, pc, value, level, antecedent, assignment_trackers, queue, cur,
                        assigned_literals, clause, this, iB, resolvent>>
<1>1. CASE Begin
  BY <1>1, Zenon DEF Begin, InitTable, InitWatched, InitEmptyClause, InitDone
<1>2. CASE Search
  BY <1>2, Zenon DEF Search, PlpAssign, PlpSkip, PlpDone, decide, SaySat
<1>3. CASE Propagate
  BY <1>3, Zenon DEF Propagate, BcpStart, BcpAssign, BcpSkip, BcpDone, VisitOther,
                     VisitMove, VisitUnit, SayUnsat, VisitDone, ConflictOn, Visiting
<1>4. CASE \/ get_backtracking_level \/ cancel \/ CancelLevel \/ add_learnt_clause
           \/ update_scores \/ UpdateDone \/ decaying_sum \/ LearntDone
  BY <1>4, Zenon DEF get_backtracking_level, cancel, CancelLevel, Cancelled,
                     add_learnt_clause, update_scores, UpdateDone, decaying_sum, LearntDone
<1>5. CASE PrintLit \/ Finish \/ termination_handler \/ UNCHANGED vars
  BY <1>5, Zenon DEF PrintLit, Finish, termination_handler, vars, assigned, bcp,
                     conflict, merging
<1>6. QED
  BY <1>1, <1>2, <1>3, <1>4, <1>5 DEF Next, Step, Analyze, Resolving

\* The clauses of the formula count their literals right.
LEMMA GoodClauses ==
  ASSUME TypeInv, RepeatFree
  PROVE  NoClause \in Good /\ \A c \in DOMAIN F : Original(c) \in Good
<1>1. NoClause \in Clause /\ \A c \in DOMAIN F : Original(c) \in Clause
  BY ClauseTypes
<1>2. Counted(NoClause)
  BY DEF NoClause, Counted
<1>3. ASSUME NEW c \in DOMAIN F PROVE Counted(Original(c))
  <2>1. F[c] \in Seq(Lits)
    BY DEF TypeInv, Formulas
  <2>2. DOMAIN F[c] = 1..Len(F[c])
    BY <2>1
  <2>3. QED
    BY <2>2 DEF RepeatFree, Original, Counted
<1>4. QED
  BY <1>1, <1>2, <1>3 DEF Good

LEMMA RepeatFreeStays == [Next]_vars => (RepeatFree' <=> RepeatFree)
BY FormulaStays DEF RepeatFree

LEMMA MergeStep ==
  ASSUME IInv2, CountedInv, MergeInv, RepeatFree, merge
  PROVE  /\ this' \in Good
         /\ LitsIn(this') = HalfMerged(antecedent[resolvent], clause, iB + 1, resolvent)
<1>1. /\ pc = "merge" /\ iB <= Len(clause.lits)
      /\ this' = Merged(antecedent[resolvent], this, clause.lits[iB])
  BY DEF merge
<1>2. /\ clause \in Good /\ this \in Good /\ antecedent \in [Vars -> Good]
      /\ resolvent \in Vars /\ iB \in Nat \ {0}
  BY <1>1 DEF CountedInv, Reasons, IInv2, MoreTypes, LearnTypes
<1>3. antecedent[resolvent] \in Good /\ iB \in 1..Len(clause.lits)
  BY <1>1, <1>2, GoodFacts
<1>4. LitsIn(this) = HalfMerged(antecedent[resolvent], clause, iB, resolvent)
  BY <1>1 DEF MergeInv
<1>5. QED
  BY <1>1, <1>2, <1>3, <1>4, MergedGood

LEMMA CountedStep ==
  ASSUME IInv2, CountedInv, MergeInv, [Next]_vars
  PROVE  CountedInv'
<1> SUFFICES ASSUME RepeatFree
             PROVE  Reasons(Good)' /\ clause' \in Good /\ this' \in Good
  BY RepeatFreeStays DEF CountedInv
<1>1. /\ Reasons(Good) /\ clause \in Good /\ this \in Good
      /\ antecedent \in [Vars -> Good] /\ assigned_literals \in Seq(Lits)
  BY DEF CountedInv, Reasons
<1>2. NoClause \in Good /\ \A c \in DOMAIN F : Original(c) \in Good
  BY GoodClauses DEF IInv2, IInv
<1>3. Reasons(Good)'
  <2>1. Good \subseteq Clause
    BY DEF Good
  <2>2. QED
    BY <1>1, <1>2, <2>1, ReasonsStep DEF IInv2
<1>4. CASE ~Learning
  BY <1>1, <1>3, <1>4, ClauseStays
<1>5. CASE VisitConflict
  <2>1. (\E c \in DOMAIN F : clause' = Original(c)) /\ this' = this
    BY <1>5, Zenon DEF VisitConflict, merging
  <2>2. QED
    BY <1>1, <1>2, <1>3, <2>1
<1>6. CASE StartMerge
  <2>1. PICK k \in DOMAIN assigned_literals : this' = antecedent[Var(assigned_literals[k])]
    BY <1>6, Zenon DEF StartMerge
  <2>2. clause' = clause
    BY <1>6 DEF StartMerge
  <2>3. Var(assigned_literals[k]) \in Vars
    BY <1>1, LitFacts
  <2>4. QED
    BY <1>1, <1>3, <2>1, <2>2, <2>3
<1>7. CASE SkipVisited
  BY <1>1, <1>3, <1>7 DEF SkipVisited, conflict, merging
<1>8. CASE merge
  BY <1>1, <1>3, <1>8, MergeStep DEF merge
<1>9. CASE MergeDone
  BY <1>1, <1>2, <1>3, <1>9 DEF MergeDone
<1>10. QED
  BY <1>4, <1>5, <1>6, <1>7, <1>8, <1>9, Turns DEF Learning

LEMMA MergeInvStep ==
  ASSUME IInv2, CountedInv, MergeInv, [Next]_vars
  PROVE  MergeInv'
<1> SUFFICES ASSUME RepeatFree, pc' = "merge" PROVE MergeInv'
  BY RepeatFreeStays DEF MergeInv
<1>1. CASE VisitConflict
  BY <1>1 DEF VisitConflict
<1>2. CASE UNCHANGED <<F, pc, value, level, antecedent, assignment_trackers, queue, cur,
                       assigned_literals, clause, this, iB, resolvent>>
  BY <1>2 DEF MergeInv, Here, decision_level, Clashes, OnV, Opposites, HalfMerged, RepeatFree
<1>3. CASE Resolving
  <2>0. UNCHANGED <<F, level, antecedent, assignment_trackers, assigned_literals>>
    BY <1>3, ResolvingFacts DEF assigned, bcp
  <2>1. CASE StartMerge
    <3>1. PICK k \in DOMAIN assigned_literals :
            /\ Resolvable(k) /\ Var(assigned_literals[k]) \notin visited
            /\ resolvent' = Var(assigned_literals[k])
            /\ this' = antecedent[Var(assigned_literals[k])] /\ iB' = 1
      BY <2>1, Zenon DEF StartMerge
    <3>2. clause' = clause
      BY <2>1 DEF StartMerge
    <3> DEFINE v == Var(assigned_literals[k])
               a == antecedent[v]
    <3>3. a # NoClause /\ Clashes(a, clause, v) /\ IsMostRecent(k)
      BY <3>1 DEF Resolvable
    <3>4. Cardinality(Here(clause.lits)) > 1
      <4>1. clause.lits \in Seq(Lits)
        BY DEF IInv2, MoreTypes, LearnTypes, Clause
      <4>2. IsFiniteSet(Here(clause.lits))
        <5>1. IsFiniteSet(1..Len(clause.lits))
          BY <4>1, FS_Interval
        <5>2. Here(clause.lits) \subseteq 1..Len(clause.lits)
          BY <4>1 DEF Here
        <5>3. QED
          BY <5>1, <5>2, FS_Subset
      <4>3. Cardinality(Here(clause.lits)) \in Nat
        BY <4>2, FS_CardinalityType
      <4>4. ~(Cardinality(Here(clause.lits)) <= 1)
        BY <3>3 DEF IsMostRecent, Implied
      <4>5. QED
        BY <4>3, <4>4
    <3>5. LitsIn(this') = HalfMerged(a, clause, 1, v)
      <4>1. Read(clause, 1) = {}
        BY DEF Read
      <4>2. QED
        BY <3>1, <4>1 DEF HalfMerged
    <3>6. 1 <= Len(clause.lits) + 1
      <4>1. clause \in Good
        BY DEF CountedInv
      <4>2. QED
        BY <4>1, GoodFacts
    <3>7. antecedent'[resolvent'] = a
      BY <2>0, <3>1
    <3>8. Here(clause.lits)' = Here(clause.lits)
      BY <2>0, <3>2 DEF Here, decision_level
    <3> HIDE DEF a
    <3>9. Clashes(antecedent'[resolvent'], clause', resolvent')
      BY <3>1, <3>2, <3>3, <3>7 DEF Clashes, OnV, Opposites
    <3>10. QED
      BY <2>0, <3>1, <3>2, <3>3, <3>4, <3>5, <3>6, <3>7, <3>8, <3>9 DEF MergeInv
  <2>2. CASE SkipVisited \/ MergeDone
    BY <2>2 DEF SkipVisited, MergeDone
  <2>3. CASE merge
    <3>1. /\ pc = "merge" /\ iB <= Len(clause.lits) /\ iB' = iB + 1
          /\ clause' = clause /\ resolvent' = resolvent
      BY <2>3 DEF merge
    <3>2. LitsIn(this') = HalfMerged(antecedent[resolvent], clause, iB + 1, resolvent)
      BY <2>3, MergeStep
    <3>3. iB \in Nat /\ Len(clause.lits) \in Nat
      <4>1. clause.lits \in Seq(Lits) /\ iB \in Nat
        BY DEF IInv2, MoreTypes, LearnTypes, Clause
      <4>2. QED
        BY <4>1
    <3>4. iB' <= Len(clause.lits) + 1
      BY <3>1, <3>3
    <3>5. antecedent'[resolvent'] = antecedent[resolvent]
      BY <2>0, <3>1
    <3>6. /\ antecedent[resolvent] # NoClause
          /\ Clashes(antecedent[resolvent], clause, resolvent)
          /\ Cardinality(Here(clause.lits)) > 1
          /\ \E k \in DOMAIN assigned_literals : resolvent = Var(assigned_literals[k])
      BY <3>1 DEF MergeInv
    <3>7. Here(clause.lits)' = Here(clause.lits)
      BY <2>0, <3>1 DEF Here, decision_level
    <3>8. QED
      BY <2>0, <3>1, <3>2, <3>4, <3>5, <3>6, <3>7 DEF MergeInv
  <2>4. QED
    BY <1>3, <2>1, <2>2, <2>3, Turns DEF Resolving
<1>4. QED
  BY <1>1, <1>2, <1>3, IntoLearning
-----------------------------------------------------------------------------
(***************************************************************************)
(* What bcp assigns                                                        *)
(***************************************************************************)
\* The literal l is what is left of a clause of the formula, which has lost a literal
\* at the current level.
LeftOf(l, c) ==
  /\ \A p \in DOMAIN F[c] : F[c][p] = l \/ IsFalse(F[c][p])
  /\ \E p \in DOMAIN F[c] : /\ IsFalse(F[c][p]) /\ F[c][p] # -l
                            /\ level[Var(F[c][p])] = decision_level
Left(l, a) == \E c \in DOMAIN F : a = Original(c) /\ LeftOf(l, c)

\* All that waits in the queue while bcp is on its way.
QueueInv ==
  /\ pc \notin {"bcp", "visit"} => Contents(queue) = <<>>
  /\ pc = "bcp" /\ assigned_literals = <<>> => Len(Contents(queue)) <= 1
  /\ pc \in {"bcp", "visit"} /\ assigned_literals # <<>> =>
       \A k \in DOMAIN Contents(queue) :
         Left(Contents(queue)[k].lit, Contents(queue)[k].antecedent)

\* All that bcp has assigned; the first literal, the last of the list, was decided or
\* learnt, or is pure.
AssignedInv ==
  /\ pc \in {"visit", "learn", "merge"} => assigned_literals # <<>>
  /\ pc \in {"bcp", "visit", "learn", "merge"} =>
       \A k \in DOMAIN assigned_literals :
         /\ IsTrue(assigned_literals[k])
         /\ level[Var(assigned_literals[k])] = decision_level
         /\ k < Len(assigned_literals) =>
              Left(assigned_literals[k], antecedent[Var(assigned_literals[k])])

BcpInv == QueueInv /\ AssignedInv

\* What is left of a clause stays so while literals are assigned.
LEMMA LeftStays ==
  ASSUME TypeInv, NEW l, NEW a, Left(l, a), F' = F, decision_level' = decision_level,
         NEW v \in Vars, value[v] = UNASSIGNED,
         \A u \in Vars : u # v => value'[u] = value[u] /\ level'[u] = level[u]
  PROVE  Left(l, a)'
<1>1. PICK c \in DOMAIN F : a = Original(c) /\ LeftOf(l, c)
  BY DEF Left
<1>2. ASSUME NEW p \in DOMAIN F[c], IsFalse(F[c][p])
      PROVE  IsFalse(F[c][p])' /\ level'[Var(F[c][p])] = level[Var(F[c][p])]
  <2>1. F[c][p] \in Lits
    BY LitOfClause DEF TypeInv
  <2>2. Var(F[c][p]) \in Vars /\ value[Var(F[c][p])] # UNASSIGNED
    BY <1>2, <2>1, LitFacts DEF IsFalse, UNASSIGNED
  <2>3. value'[Var(F[c][p])] = value[Var(F[c][p])] /\ level'[Var(F[c][p])] = level[Var(F[c][p])]
    BY <2>2
  <2>4. QED
    BY <1>2, <2>3 DEF IsFalse
<1>3. \A p \in DOMAIN F[c] : F[c][p] = l \/ IsFalse(F[c][p])'
  BY <1>1, <1>2 DEF LeftOf
<1>4. \E p \in DOMAIN F[c] : /\ IsFalse(F[c][p])' /\ F[c][p] # -l
                             /\ level'[Var(F[c][p])] = decision_level
  BY <1>1, <1>2 DEF LeftOf
<1>5. LeftOf(l, c)'
  BY <1>3, <1>4 DEF LeftOf, IsFalse
<1>6. a = Original(c)'
  BY <1>1 DEF Original
<1>7. QED
  BY <1>1, <1>5, <1>6 DEF Left

\* The unit clause bcp finds.
LEMMA UnitLeft ==
  ASSUME IInv, VisitUnit, NEW c, c = Head(walk)
  PROVE  Left(WatchedLit(c, 3 - NewIndex(c)), Original(c))
<1> USE DEF IInv
<1>1. /\ Visiting /\ Hit(c) /\ ~ClauseTrue(c) /\ ~ClauseFalse(c) /\ NewWatches(c) = {}
      /\ pc = "visit"
  BY DEF VisitUnit, Visiting
<1>2. c \in DOMAIN F /\ Listed(c) /\ F[c] \in Seq(Lits)
  BY <1>1 DEF Visiting, TypeInv, Formulas, WatchInv, ClauseIds
<1>3. /\ cur.lit \in Lits /\ IsTrue(cur.lit) /\ level[Var(cur.lit)] = decision_level
      /\ -cur.lit \in Lits /\ Var(-cur.lit) = Var(cur.lit) /\ IsFalse(-cur.lit)
  <2>1. cur.lit \in Lits /\ IsTrue(cur.lit) /\ level[Var(cur.lit)] = decision_level
    BY <1>1 DEF CursorInv
  <2>2. QED
    BY <2>1, ValueFacts, LitFacts DEF Var, Abs, Lits
<1>4. \A k \in 1..2 : /\ watched[c][k] \in DOMAIN F[c] /\ WatchedLit(c, k) \in Lits
                      /\ WatchedLit(c, k) = F[c][watched[c][k]]
  BY <1>2, WatchedLits DEF TypeInv, WatchedLit
<1>5. \A p \in DOMAIN F[c] : F[c][p] \in Lits /\ ~IsTrue(F[c][p])
  BY <1>1, <1>2 DEF ClauseTrue
<1> DEFINE i == NewIndex(c)
           l == WatchedLit(c, 3 - i)
<1>6. i \in 1..2 /\ 3 - i \in 1..2 /\ \A k \in 1..2 : k = i \/ k = 3 - i
  BY DEF NewIndex
<1>7. WatchedLit(c, i) = -cur.lit
  <2>1. CASE Var(WatchedLit(c, 1)) = Var(cur.lit)
    <3>1. i = 1
      BY <2>1 DEF NewIndex
    <3>2. WatchedLit(c, 1) # cur.lit
      BY <1>3, <1>4, <1>5
    <3>3. QED
      BY <1>3, <1>4, <2>1, <3>1, <3>2, LitFacts
  <2>2. CASE Var(WatchedLit(c, 1)) # Var(cur.lit)
    <3>1. i = 2
      BY <2>2 DEF NewIndex
    <3>2. WatchedLit(c, 1) # -cur.lit
      BY <1>3, <2>2
    <3>3. PICK k \in 1..2 : WatchedLit(c, k) = -cur.lit
      BY <1>1 DEF Hit
    <3>4. k = 2
      BY <3>2, <3>3
    <3>5. QED
      BY <3>1, <3>3, <3>4
  <2>3. QED
    BY <2>1, <2>2
<1>8. \A p \in DOMAIN F[c] : p \in Inspected(c)
  <2>1. DOMAIN F[c] = 1..Len(F[c]) /\ Len(F[c]) \in Nat
    BY <1>2
  <2>2. \A p \in DOMAIN F[c] : 1..p \subseteq DOMAIN F[c]
    BY <2>1
  <2>3. QED
    BY <1>5, <2>2 DEF Inspected
<1>9. ASSUME NEW p \in DOMAIN F[c], ~IsFalse(F[c][p]) PROVE F[c][p] = l /\ IsUnassigned(l)
  <2>1. IsUnassigned(F[c][p])
    BY <1>5, <1>9, ValueFacts
  <2>2. PICK k \in 1..2 : F[c][p] = WatchedLit(c, k)
    BY <1>1, <1>8, <2>1 DEF NewWatches
  <2>3. k # i
    BY <1>3, <1>7, <1>9, <2>2
  <2>4. QED
    BY <1>6, <2>1, <2>2, <2>3
<1>10. IsUnassigned(l) /\ l \in Lits
  <2>1. PICK p \in DOMAIN F[c] : ~IsFalse(F[c][p])
    BY <1>1 DEF ClauseFalse
  <2>2. QED
    BY <1>4, <1>6, <1>9, <2>1
<1>11. -cur.lit # -l
  <2>1. l # cur.lit
    BY <1>3, <1>10, ValueFacts
  <2>2. QED
    BY <1>3, <1>10, <2>1 DEF Lits
<1> HIDE DEF l, i
<1>12. \E p \in DOMAIN F[c] : /\ IsFalse(F[c][p]) /\ F[c][p] # -l
                              /\ level[Var(F[c][p])] = decision_level
  BY <1>3, <1>4, <1>6, <1>7, <1>11
<1>13. LeftOf(l, c)
  BY <1>9, <1>12 DEF LeftOf
<1>14. QED
  BY <1>2, <1>13 DEF Left, l, i

LEMMA BcpSame ==
  ASSUME BcpInv,
         UNCHANGED <<F, value, level, antecedent, assignment_trackers, queue, assigned_literals>>,
         \/ pc' = pc
         \/ pc = "visit" /\ pc' = "bcp"
         \/ pc \in {"learn", "merge"} /\ pc' \in {"learn", "merge"}
  PROVE  BcpInv'
<1>1. \A l, a : Left(l, a)' <=> Left(l, a)
  BY DEF Left, LeftOf, Original, IsFalse, decision_level
<1>2. \A l : IsTrue(l)' <=> IsTrue(l)
  BY DEF IsTrue
<1>3. decision_level' = decision_level
  BY DEF decision_level
<1>4. QueueInv'
  BY <1>1 DEF BcpInv, QueueInv, AssignedInv
<1>5. AssignedInv'
  BY <1>1, <1>2, <1>3 DEF BcpInv, AssignedInv
<1>6. QED
  BY <1>4, <1>5 DEF BcpInv

\* The first literal waiting is assigned.
LEMMA BcpAssignLeft ==
  ASSUME IInv2, BcpInv, BcpAssign
  PROVE  BcpInv'
<1>0. PICK C, S, l, from :
        /\ C = Contents(queue) /\ S = assigned_literals
        /\ l = Front(queue).lit /\ from = Front(queue).antecedent
  OBVIOUS
<1>1. /\ pc = "bcp" /\ ~is_q_empty(queue) /\ IsUnassigned(l)
      /\ queue' = pop(queue) /\ assign(l, from)
      /\ assigned_literals' = <<l>> \o S /\ pc' = "visit" /\ F' = F
  <2>1. /\ pc = "bcp" /\ ~is_q_empty(queue) /\ IsUnassigned(Front(queue).lit)
        /\ cur' = Front(queue) /\ queue' = pop(queue) /\ assign(cur'.lit, cur'.antecedent)
        /\ assigned_literals' = <<cur'.lit>> \o assigned_literals /\ pc' = "visit" /\ F' = F
    BY Zenon DEF BcpAssign
  <2>2. cur'.lit = l /\ cur'.antecedent = from
    BY <1>0, <2>1
  <2>3. QED
    BY <1>0, <2>1, <2>2
<1>2. /\ TypeInv /\ IsRing(queue) /\ S \in Seq(Lits) /\ antecedent \in [Vars -> Clause]
      /\ value \in [Vars -> {UNASSIGNED, 0, 1}] /\ level \in [Vars -> Int]
  BY <1>0 DEF IInv2, IInv, TypeInv, MoreTypes, Reasons
<1>3. l \in Lits /\ Var(l) \in Vars
  BY <1>0, <1>1, <1>2, FrontLit, LitFacts
<1>4. decision_level' = decision_level
  BY <1>1, <1>2, <1>3, AssignType
<1> DEFINE v == Var(l)
<1>5. /\ value' = [value EXCEPT ![v] = IF l > 0 THEN 1 ELSE 0]
      /\ level' = [level EXCEPT ![v] = decision_level]
      /\ antecedent' = [antecedent EXCEPT ![v] = from]
  BY <1>1, Zenon DEF assign
<1>6. value[v] = UNASSIGNED
  BY <1>1 DEF IsUnassigned
<1>7. /\ \A u \in Vars : u # v => /\ value'[u] = value[u] /\ level'[u] = level[u]
                                  /\ antecedent'[u] = antecedent[u]
      /\ value'[v] = (IF l > 0 THEN 1 ELSE 0) /\ level'[v] = decision_level
      /\ antecedent'[v] = from
  BY <1>2, <1>3, <1>5
<1>8. ASSUME NEW k, NEW a, Left(k, a) PROVE Left(k, a)'
  BY <1>1, <1>2, <1>3, <1>4, <1>6, <1>7, <1>8, LeftStays
<1>9. /\ C # <<>> /\ Front(queue) = Head(C) /\ Contents(queue') = Tail(C)
      /\ C = [k \in 1..Len(C) |-> C[k]] /\ Len(C) \in Nat /\ DOMAIN C = 1..Len(C)
  BY <1>0, <1>1, <1>2, RingPop, ContentsFacts
<1>10. /\ Len(C) >= 1 /\ l = C[1].lit /\ from = C[1].antecedent
       /\ DOMAIN Tail(C) = 1..(Len(C) - 1)
       /\ \A k \in 1..(Len(C) - 1) : Tail(C)[k] = C[k + 1]
  BY <1>0, <1>9
<1>11. S # <<>> => \A k \in 1..Len(C) : Left(C[k].lit, C[k].antecedent)
  BY <1>0, <1>1, <1>9 DEF BcpInv, QueueInv
<1>12. S = <<>> => DOMAIN Tail(C) = {}
  <2>1. S = <<>> => Len(C) <= 1
    BY <1>0, <1>1 DEF BcpInv, QueueInv
  <2>2. QED
    BY <1>9, <1>10, <2>1
<1>13. QueueInv'
  <2>1. ASSUME NEW k \in DOMAIN Tail(C) PROVE Left(Tail(C)[k].lit, Tail(C)[k].antecedent)'
    <3>1. S # <<>> /\ k + 1 \in 1..Len(C) /\ Tail(C)[k] = C[k + 1]
      BY <1>9, <1>10, <1>12
    <3>2. Left(C[k + 1].lit, C[k + 1].antecedent)
      BY <1>11, <3>1
    <3>3. Left(C[k + 1].lit, C[k + 1].antecedent)'
      BY <1>8, <3>2
    <3>4. QED
      BY <3>1, <3>3
  <2>2. QED
    BY <1>1, <1>9, <2>1 DEF QueueInv
<1>14. AssignedInv'
  <2>1. /\ Len(<<l>> \o S) = Len(S) + 1 /\ Len(S) \in Nat
        /\ DOMAIN (<<l>> \o S) = 1..(Len(S) + 1) /\ <<l>> \o S # <<>>
        /\ (<<l>> \o S)[1] = l
        /\ \A k \in 1..(Len(S) + 1) : k # 1 => (<<l>> \o S)[k] = S[k - 1] /\ k - 1 \in 1..Len(S)
    BY <1>2, <1>3
  <2>2. IsTrue(l)' /\ level'[v] = decision_level'
    BY <1>4, <1>7 DEF IsTrue
  <2>3. S # <<>> => Left(l, antecedent[v])'
    <3>1. S # <<>> => Left(C[1].lit, C[1].antecedent)
      BY <1>9, <1>10, <1>11
    <3>2. S # <<>> => Left(l, from)
      BY <1>10, <3>1
    <3>3. S # <<>> => Left(l, from)'
      BY <1>8, <3>2
    <3>4. QED
      BY <1>7, <3>3
  <2>4. ASSUME NEW k \in 1..Len(S)
        PROVE  /\ IsTrue(S[k])' /\ level'[Var(S[k])] = decision_level'
               /\ k < Len(S) => Left(S[k], antecedent[Var(S[k])])'
    <3>1. /\ IsTrue(S[k]) /\ level[Var(S[k])] = decision_level
          /\ k < Len(S) => Left(S[k], antecedent[Var(S[k])])
      BY <1>0, <1>1, <1>2, <2>4 DEF BcpInv, AssignedInv
    <3>2. S[k] \in Lits /\ Var(S[k]) \in Vars /\ Var(S[k]) # v
      <4>1. S[k] \in Lits
        BY <1>2
      <4>2. ~IsUnassigned(S[k])
        BY <1>2, <3>1, <4>1, ValueFacts
      <4>3. QED
        BY <1>6, <4>1, <4>2, LitFacts DEF IsUnassigned
    <3>3. /\ value'[Var(S[k])] = value[Var(S[k])] /\ level'[Var(S[k])] = level[Var(S[k])]
          /\ antecedent'[Var(S[k])] = antecedent[Var(S[k])]
      BY <1>7, <3>2
    <3>4. IsTrue(S[k])' /\ level'[Var(S[k])] = decision_level'
      BY <1>4, <3>1, <3>3 DEF IsTrue
    <3>5. PICK a : a = antecedent[Var(S[k])] /\ a = antecedent'[Var(S[k])]
      BY <3>3
    <3>6. k < Len(S) => Left(S[k], a)'
      BY <1>8, <3>1, <3>5
    <3>7. QED
      BY <3>4, <3>5, <3>6
  <2>5. ASSUME NEW k \in DOMAIN (<<l>> \o S)
        PROVE  /\ IsTrue(assigned_literals[k])'
               /\ level'[Var(assigned_literals'[k])] = decision_level'
               /\ k < Len(<<l>> \o S) =>
                    Left(assigned_literals[k], antecedent[Var(assigned_literals[k])])'
    <3>1. assigned_literals' = <<l>> \o S
      BY <1>1
    <3>2. CASE k = 1
      <4>1. /\ assigned_literals'[k] = l
            /\ k < Len(<<l>> \o S) => S # <<>>
        BY <2>1, <3>1, <3>2
      <4>2. k < Len(<<l>> \o S) => Left(l, antecedent[v])'
        BY <2>3, <4>1
      <4>3. IsTrue(assigned_literals[k])' /\ level'[Var(assigned_literals'[k])] = decision_level'
        BY <2>2, <4>1 DEF IsTrue
      <4>4. k < Len(<<l>> \o S) =>
              Left(assigned_literals[k], antecedent[Var(assigned_literals[k])])'
        BY <4>1, <4>2 DEF Left, LeftOf
      <4>5. QED
        BY <4>3, <4>4
    <3>3. CASE k # 1
      <4>1. /\ assigned_literals'[k] = S[k - 1] /\ k - 1 \in 1..Len(S)
            /\ k < Len(<<l>> \o S) => k - 1 < Len(S)
        BY <2>1, <2>5, <3>1, <3>3
      <4>2. PICK j : j = k - 1
        OBVIOUS
      <4>3. /\ IsTrue(S[j])' /\ level'[Var(S[j])] = decision_level'
            /\ j < Len(S) => Left(S[j], antecedent[Var(S[j])])'
        BY <2>4, <4>1, <4>2
      <4>4. IsTrue(assigned_literals[k])' /\ level'[Var(assigned_literals'[k])] = decision_level'
        BY <4>1, <4>2, <4>3 DEF IsTrue
      <4>5. k < Len(<<l>> \o S) =>
              Left(assigned_literals[k], antecedent[Var(assigned_literals[k])])'
        BY <4>1, <4>2, <4>3 DEF Left, LeftOf
      <4>6. QED
        BY <4>4, <4>5
    <3>4. QED
      BY <3>2, <3>3
  <2>6. assigned_literals' = <<l>> \o S /\ <<l>> \o S # <<>>
    BY <1>1, <2>1
  <2>7. QED
    BY <1>1, <2>5, <2>6 DEF AssignedInv
<1>15. QED
  BY <1>13, <1>14 DEF BcpInv

LEMMA BcpStep ==
  ASSUME IInv2, BcpInv, [Next]_vars
  PROVE  BcpInv'
<1>0. IsRing(queue) /\ TypeInv
  BY DEF IInv2, IInv, TypeInv
<1>1. CASE BcpStart
  <2>1. /\ pc = "start" /\ queue' = push(queue, cur) /\ assigned_literals' = <<>>
        /\ pc' = "bcp"
    BY <1>1 DEF BcpStart
  <2>2. Contents(queue) = <<>>
    BY <2>1 DEF BcpInv, QueueInv
  <2>3. Len(Contents(queue')) <= 1
    <3>1. CASE is_full(queue)
      <4>1. queue' = queue
        BY <2>1, <3>1, RingPushFull
      <4>2. QED
        BY <2>2, <4>1
    <3>2. CASE ~is_full(queue)
      <4>1. Contents(queue') = Append(<<>>, cur)
        BY <1>0, <2>1, <2>2, <3>2, RingPush
      <4>2. QED
        BY <4>1
    <3>3. QED
      BY <3>1, <3>2
  <2>4. QED
    BY <2>1, <2>3 DEF BcpInv, QueueInv, AssignedInv
<1>2. CASE BcpAssign
  BY <1>2, BcpAssignLeft
<1>3. CASE BcpSkip
  <2>1. /\ pc = "bcp" /\ pc' = pc /\ ~is_q_empty(queue) /\ queue' = pop(queue)
        /\ UNCHANGED <<F, value, level, antecedent, assignment_trackers, assigned_literals>>
    BY <1>3, Zenon DEF BcpSkip, assigned
  <2>2. /\ Contents(queue) # <<>> /\ Contents(queue') = Tail(Contents(queue))
        /\ Contents(queue) = [k \in 1..Len(Contents(queue)) |-> Contents(queue)[k]]
        /\ Len(Contents(queue)) \in Nat
    BY <1>0, <2>1, RingPop, ContentsFacts
  <2>3. PICK C : C = Contents(queue) /\ Tail(C) = Contents(queue')
    BY <2>2
  <2>4. /\ Len(Tail(C)) = Len(C) - 1 /\ DOMAIN C = 1..Len(C) /\ Len(C) \in Nat \ {0}
        /\ DOMAIN Tail(C) = 1..(Len(C) - 1)
        /\ \A k \in 1..(Len(C) - 1) : k + 1 \in DOMAIN C /\ Tail(C)[k] = C[k + 1]
    BY <2>2, <2>3
  <2>5. \A l, a : Left(l, a)' <=> Left(l, a)
    BY <2>1 DEF Left, LeftOf, Original, IsFalse, decision_level
  <2>6. assigned_literals = <<>> => Len(Tail(C)) <= 1
    BY <2>1, <2>3, <2>4 DEF BcpInv, QueueInv
  <2>7. ASSUME assigned_literals # <<>>, NEW k \in DOMAIN Tail(C)
        PROVE  Left(Tail(C)[k].lit, Tail(C)[k].antecedent)'
    <3>1. k + 1 \in DOMAIN C /\ Tail(C)[k] = C[k + 1]
      BY <2>4
    <3>2. Left(C[k + 1].lit, C[k + 1].antecedent)
      BY <2>1, <2>3, <2>7, <3>1 DEF BcpInv, QueueInv
    <3>3. Left(C[k + 1].lit, C[k + 1].antecedent)'
      BY <2>5, <3>2
    <3>4. QED
      BY <3>1, <3>3
  <2>8. QueueInv'
    BY <2>1, <2>3, <2>6, <2>7 DEF QueueInv
  <2>9. AssignedInv'
    <3>1. decision_level' = decision_level /\ \A l : IsTrue(l)' <=> IsTrue(l)
      BY <2>1 DEF decision_level, IsTrue
    <3>2. QED
      BY <2>1, <2>5, <3>1 DEF BcpInv, AssignedInv
  <2>10. QED
    BY <2>8, <2>9 DEF BcpInv
<1>4. CASE BcpDone \/ SayUnsat
  <2>1. queue' = reset(queue) /\ pc' \in {"decide", "report"}
    BY <1>4 DEF BcpDone, SayUnsat
  <2>2. Contents(queue') = <<>>
    BY <1>0, <2>1, RingReset
  <2>3. QED
    BY <2>1, <2>2 DEF BcpInv, QueueInv, AssignedInv
<1>5. CASE VisitConflict
  <2>1. /\ queue' = reset(queue) /\ pc' = "learn" /\ pc = "visit"
        /\ UNCHANGED <<F, value, level, antecedent, assignment_trackers, assigned_literals>>
    BY <1>5, Zenon DEF VisitConflict, ConflictOn, Visiting, assigned
  <2>2. Contents(queue') = <<>>
    BY <1>0, <2>1, RingReset
  <2>3. QueueInv'
    BY <2>1, <2>2 DEF QueueInv
  <2>4. AssignedInv'
    <3>1. \A l, a : Left(l, a)' <=> Left(l, a)
      BY <2>1 DEF Left, LeftOf, Original, IsFalse, decision_level
    <3>2. decision_level' = decision_level /\ \A l : IsTrue(l)' <=> IsTrue(l)
      BY <2>1 DEF decision_level, IsTrue
    <3>3. QED
      BY <2>1, <3>1, <3>2 DEF BcpInv, AssignedInv
  <2>5. QED
    BY <2>3, <2>4 DEF BcpInv
<1>6. CASE VisitOther \/ VisitMove \/ VisitDone
  <2>1. /\ UNCHANGED <<F, value, level, antecedent, assignment_trackers, queue, assigned_literals>>
        /\ pc' = pc \/ (pc = "visit" /\ pc' = "bcp")
    BY <1>6, Zenon DEF VisitOther, VisitMove, VisitDone, assigned, bcp
  <2>2. QED
    BY <2>1, BcpSame
<1>7. CASE VisitUnit
  <2>1. PICK c : c = Head(walk)
    OBVIOUS
  <2>2. PICK x : x = [lit |-> WatchedLit(c, 3 - NewIndex(c)), antecedent |-> Original(c)]
    OBVIOUS
  <2>3. /\ queue' = push(queue, x) /\ pc = "visit" /\ pc' = pc
        /\ UNCHANGED <<F, value, level, antecedent, assignment_trackers, assigned_literals>>
    BY <1>7, <2>1, <2>2, Zenon DEF VisitUnit, Visiting, assigned
  <2>4. Left(x.lit, x.antecedent)
    BY <1>7, <2>1, <2>2, UnitLeft DEF IInv2
  <2>5. \A l, a : Left(l, a)' <=> Left(l, a)
    BY <2>3 DEF Left, LeftOf, Original, IsFalse, decision_level
  <2>6. assigned_literals # <<>> /\
        \A k \in DOMAIN Contents(queue) :
          Left(Contents(queue)[k].lit, Contents(queue)[k].antecedent)
    BY <2>3 DEF BcpInv, QueueInv, AssignedInv
  <2>7. \A k \in DOMAIN Contents(queue') :
          Left(Contents(queue')[k].lit, Contents(queue')[k].antecedent)
    <3>1. CASE is_full(queue)
      BY <2>3, <2>6, <3>1, RingPushFull
    <3>2. CASE ~is_full(queue)
      <4>1. PICK C : C = Contents(queue) /\ Contents(queue') = Append(C, x)
        BY <1>0, <2>3, <3>2, RingPush
      <4>2. C = [k \in 1..Len(C) |-> C[k]] /\ Len(C) \in Nat
        BY <1>0, <4>1, ContentsFacts
      <4>3. DOMAIN Append(C, x) = 1..(Len(C) + 1)
            /\ \A k \in 1..(Len(C) + 1) :
                 Append(C, x)[k] = IF k = Len(C) + 1 THEN x ELSE C[k]
        BY <4>2
      <4>4. \A k \in 1..Len(C) : Left(C[k].lit, C[k].antecedent)
        BY <2>6, <4>1, <4>2
      <4>5. ASSUME NEW k \in DOMAIN Append(C, x)
            PROVE  Left(Append(C, x)[k].lit, Append(C, x)[k].antecedent)
        BY <2>4, <4>2, <4>3, <4>4
      <4>6. QED
        BY <4>1, <4>5
    <3>3. QED
      BY <3>1, <3>2
  <2>8. \A k \in DOMAIN Contents(queue') :
          Left(Contents(queue)[k].lit, Contents(queue)[k].antecedent)'
    BY <2>3, <2>7 DEF Left, LeftOf, Original, IsFalse, decision_level
  <2>9. QueueInv'
    BY <2>3, <2>6, <2>8 DEF QueueInv
  <2>10. AssignedInv'
    <3>1. decision_level' = decision_level /\ \A l : IsTrue(l)' <=> IsTrue(l)
      BY <2>3 DEF decision_level, IsTrue
    <3>2. QED
      BY <2>3, <2>5, <3>1 DEF BcpInv, AssignedInv
  <2>11. QED
    BY <2>9, <2>10 DEF BcpInv
<1>8. CASE Resolving
  <2>1. /\ UNCHANGED <<F, value, level, antecedent, assignment_trackers, queue, assigned_literals>>
        /\ pc \in {"learn", "merge"} /\ pc' \in {"learn", "merge"}
    BY <1>8, ResolvingFacts, Zenon DEF assigned, bcp
  <2>2. QED
    BY <2>1, BcpSame
<1>9. CASE PrintLit \/ Finish \/ termination_handler \/ UNCHANGED vars
  <2>1. /\ UNCHANGED <<F, value, level, antecedent, assignment_trackers, queue, assigned_literals>>
        /\ pc' = pc
    BY <1>9, Zenon DEF PrintLit, Finish, termination_handler, vars, assigned, bcp
  <2>2. QED
    BY <2>1, BcpSame
<1>10. CASE Begin \/ Search \/ get_backtracking_level \/ cancel \/ CancelLevel
            \/ add_learnt_clause \/ update_scores \/ UpdateDone \/ decaying_sum \/ LearntDone
  <2>1. /\ pc \notin {"bcp", "visit"} /\ pc' \notin {"bcp", "visit", "learn", "merge"}
        /\ queue' = queue
    <3>1. CASE Begin
      BY <3>1 DEF Begin, InitTable, InitWatched, InitEmptyClause, InitDone, bcp
    <3>2. CASE Search
      BY <3>2 DEF Search, PlpAssign, PlpSkip, PlpDone, decide, SaySat, bcp
    <3>3. CASE get_backtracking_level \/ cancel \/ CancelLevel \/ add_learnt_clause
      BY <3>3 DEF get_backtracking_level, cancel, CancelLevel, Cancelled, add_learnt_clause, bcp
    <3>4. CASE update_scores \/ UpdateDone \/ decaying_sum \/ LearntDone
      BY <3>4 DEF update_scores, UpdateDone, decaying_sum, LearntDone, bcp
    <3>5. QED
      BY <1>10, <3>1, <3>2, <3>3, <3>4
  <2>2. Contents(queue') = <<>>
    BY <2>1 DEF BcpInv, QueueInv
  <2>3. QED
    BY <2>1, <2>2 DEF BcpInv, QueueInv, AssignedInv
<1>11. QED
  BY <1>1, <1>2, <1>3, <1>4, <1>5, <1>6, <1>7, <1>8, <1>9, <1>10
  DEF Next, Step, Propagate, Analyze, Resolving
-----------------------------------------------------------------------------
(***************************************************************************)
(* What is learnt                                                          *)
(***************************************************************************)
\* The literal bcp began with.
Starter == assigned_literals[Len(assigned_literals)]

Entailed(L) == \A tau \in Assignments : Satisfies(tau, F) => \E x \in L : LitTrue(tau, x)

\* A literal of the current level stays in the clause while literals are resolved
\* away, and the first one never gets in.
Derived(L) ==
  /\ \E x \in L : level[Var(x)] = decision_level
  /\ Starter \notin L
  /\ Compelled(Starter) => Entailed(L) /\ \A x \in L : IsFalse(x)

LearnInv ==
  pc \in {"learn", "merge"} /\ RepeatFree => Derived(LitsIn(clause))

LEMMA EntailedFacts ==
  ASSUME NEW lits
  PROVE  Follows(lits) <=> Entailed({lits[i] : i \in DOMAIN lits})
BY DEF Follows, Entailed, HasTrue

LEMMA OriginalFacts ==
  ASSUME NEW c \in DOMAIN F
  PROVE  LitsIn(Original(c)) = {F[c][p] : p \in DOMAIN F[c]} /\ Entailed(LitsIn(Original(c)))
<1>1. LitsIn(Original(c)) = {F[c][p] : p \in DOMAIN F[c]}
  BY DEF LitsIn, Original
<1>2. Entailed({F[c][p] : p \in DOMAIN F[c]})
  BY DEF Entailed, Satisfies, HasTrue
<1>3. QED
  BY <1>1, <1>2

\* Two literals at least are of the current level: one is not of the variable v.
LEMMA AnotherHere ==
  ASSUME NEW b \in Good, Cardinality(Here(b.lits)) > 1, NEW y
  PROVE  \E x \in LitsIn(b) : x # y /\ level[Var(x)] = decision_level
<1> DEFINE H == Here(b.lits)
<1>1. /\ DOMAIN b.lits = 1..Len(b.lits)
      /\ \A i, j \in 1..Len(b.lits) : b.lits[i] = b.lits[j] => i = j
  BY GoodFacts
<1>2. H \subseteq 1..Len(b.lits)
  BY <1>1 DEF Here
<1>3. \E i \in H : b.lits[i] # y
  <2> SUFFICES ASSUME \A i \in H : b.lits[i] = y PROVE FALSE
    OBVIOUS
  <2>1. \A i, j \in H : i = j
    BY <1>1, <1>2
  <2>2. CASE H = {}
    <3>1. Cardinality(H) = 0
      BY <2>2, FS_EmptySet
    <3>2. QED
      BY <3>1
  <2>3. CASE H # {}
    <3>1. PICK i : H = {i}
      BY <2>1, <2>3
    <3>2. Cardinality(H) = 1
      BY <3>1, FS_Singleton
    <3>3. QED
      BY <3>2
  <2>4. QED
    BY <2>2, <2>3
<1>4. QED
  BY <1>3 DEF Here, LitsIn

\* The literal k of bcp had its antecedent: what is left of a clause, unless it is the
\* first one.
LEMMA AntecedentFacts ==
  ASSUME IInv2, AssignedInv, pc = "merge", NEW k \in DOMAIN assigned_literals,
         NEW l, l = assigned_literals[k], NEW a, a = antecedent[Var(l)]
  PROVE  /\ l \in Lits /\ IsTrue(l) /\ Starter \in Lits /\ IsTrue(Starter)
         /\ l # Starter =>
              /\ Entailed(LitsIn(a)) /\ \A x \in LitsIn(a) : x = l \/ IsFalse(x)
              /\ \E x \in LitsIn(a) : IsFalse(x) /\ x # -l /\ level[Var(x)] = decision_level
<1>1. /\ assigned_literals \in Seq(Lits) /\ assigned_literals # <<>>
      /\ \A j \in DOMAIN assigned_literals :
         /\ IsTrue(assigned_literals[j])
         /\ j < Len(assigned_literals) =>
              Left(assigned_literals[j], antecedent[Var(assigned_literals[j])])
  BY DEF IInv2, MoreTypes, Reasons, AssignedInv
<1>2. /\ DOMAIN assigned_literals = 1..Len(assigned_literals)
      /\ Len(assigned_literals) \in DOMAIN assigned_literals /\ Len(assigned_literals) \in Nat
  BY <1>1
<1>3. l \in Lits /\ IsTrue(l) /\ Starter \in Lits /\ IsTrue(Starter)
  BY <1>1, <1>2 DEF Starter
<1>4. ASSUME l # Starter
      PROVE  /\ Entailed(LitsIn(a)) /\ \A x \in LitsIn(a) : x = l \/ IsFalse(x)
             /\ \E x \in LitsIn(a) : IsFalse(x) /\ x # -l /\ level[Var(x)] = decision_level
  <2>1. k < Len(assigned_literals)
    BY <1>2, <1>4 DEF Starter
  <2>2. PICK c \in DOMAIN F : a = Original(c) /\ LeftOf(l, c)
    BY <1>1, <2>1 DEF Left
  <2>3. LitsIn(a) = {F[c][p] : p \in DOMAIN F[c]} /\ Entailed(LitsIn(a))
    BY <2>2, OriginalFacts
  <2>4. QED
    BY <2>2, <2>3 DEF LeftOf
<1>5. QED
  BY <1>3, <1>4

\* When merge is done: the resolvent of the clause and an antecedent.
LEMMA ResolventDerived ==
  ASSUME IInv2, CountedInv, BcpInv, LearnInv, MergeInv, RepeatFree,
         pc = "merge", iB > Len(clause.lits)
  PROVE  Derived(LitsIn(this))
<1>1. PICK a, A, B, T, v : /\ v = resolvent /\ a = antecedent[v]
                           /\ A = LitsIn(a) /\ B = LitsIn(clause) /\ T = LitsIn(this)
  OBVIOUS
<1>2. /\ clause \in Good /\ antecedent \in [Vars -> Good] /\ v \in Vars /\ iB \in Nat
      /\ a \in Good
  BY <1>1 DEF CountedInv, Reasons, IInv2, MoreTypes, LearnTypes
<1>3. \A x \in A \cup B : x \in Lits
  BY <1>1, <1>2, GoodFacts
<1>4. T = {x \in A : Var(x) = v => -x \notin B} \cup {x \in B : x \notin A /\ ~OnV(a, x, v)}
  <2>1. iB <= Len(clause.lits) + 1 /\ T = HalfMerged(a, clause, iB, v)
    BY <1>1 DEF MergeInv
  <2>2. Len(clause.lits) \in Nat /\ DOMAIN clause.lits = 1..Len(clause.lits)
    BY <1>2, GoodFacts
  <2>3. iB - 1 = Len(clause.lits)
    BY <1>2, <2>1, <2>2
  <2>4. Read(clause, iB) = B
    BY <1>1, <2>2, <2>3 DEF Read, LitsIn
  <2>5. QED
    BY <1>1, <2>1, <2>4 DEF HalfMerged
<1>5. \A x : OnV(a, x, v) <=> Var(x) = v /\ -x \in A
  BY <1>1, OnVFacts
<1>6. PICK k \in DOMAIN assigned_literals : v = Var(assigned_literals[k])
  BY <1>1 DEF MergeInv
<1>7. PICK l : l = assigned_literals[k]
  OBVIOUS
<1>8. PICK y \in B : Var(y) = v /\ -y \in A
  <2>1. Clashes(a, clause, v)
    BY <1>1 DEF MergeInv
  <2>2. PICK i \in DOMAIN clause.lits : OnV(a, clause.lits[i], v)
    BY <2>1 DEF Clashes
  <2>3. QED
    BY <1>1, <1>5, <2>2 DEF LitsIn
<1>9. /\ l \in Lits /\ IsTrue(l) /\ v = Var(l) /\ Starter \in Lits /\ IsTrue(Starter)
      /\ l # Starter =>
              /\ Entailed(A) /\ \A x \in A : x = l \/ IsFalse(x)
              /\ \E x \in A : IsFalse(x) /\ x # -l /\ level[Var(x)] = decision_level
  BY <1>1, <1>6, <1>7, AntecedentFacts DEF BcpInv
<1>10. Derived(B)
  BY <1>1 DEF LearnInv
<1>11. \A x \in Lits : /\ Var(x) = v <=> x = l \/ x = -l
                       /\ -(-x) = x /\ -x \in Lits /\ x # -x /\ ~(IsTrue(x) /\ IsFalse(x))
  <2>1. \A x \in Lits : -(-x) = x /\ x # -x /\ Var(-x) = Var(x)
    BY NAssumption DEF Lits, Var, Abs
  <2>2. \A x \in Lits : ~(IsTrue(x) /\ IsFalse(x))
    BY ValueFacts DEF IInv2, IInv
  <2>3. QED
    BY <1>9, <2>1, <2>2, LitFacts
<1>12. y = l \/ y = -l
  BY <1>3, <1>8, <1>11
<1>13. l = Starter => y = -l
  BY <1>8, <1>10, <1>12 DEF Derived
<1>14. \E x \in T : level[Var(x)] = decision_level
  <2>1. CASE l # Starter
    <3>1. PICK x \in A : IsFalse(x) /\ x # -l /\ level[Var(x)] = decision_level
      BY <1>9, <2>1
    <3>2. x # l /\ x \in Lits
      BY <1>3, <1>9, <1>11, <3>1
    <3>3. Var(x) # v
      BY <1>11, <3>1, <3>2
    <3>4. QED
      BY <1>4, <3>1, <3>3
  <2>2. CASE l = Starter
    <3>1. PICK x \in B : x # -l /\ level[Var(x)] = decision_level
      <4>1. Cardinality(Here(clause.lits)) > 1
        BY DEF MergeInv
      <4>2. QED
        BY <1>1, <1>2, <4>1, AnotherHere
    <3>2. x # l /\ x \in Lits
      BY <1>3, <1>10, <2>2, <3>1 DEF Derived
    <3>3. Var(x) # v
      BY <1>11, <3>1, <3>2
    <3>4. ~OnV(a, x, v)
      BY <1>5, <3>3
    <3>5. x \in T
      BY <1>4, <3>1, <3>3, <3>4
    <3>6. QED
      BY <3>1, <3>5
  <2>3. QED
    BY <2>1, <2>2
<1>15. Starter \notin T
  <2>1. Starter \notin B
    BY <1>10 DEF Derived
  <2>2. CASE l # Starter
    <3>1. Starter \notin A
      BY <1>9, <1>11, <2>2
    <3>2. QED
      BY <1>4, <2>1, <3>1
  <2>3. CASE l = Starter
    <3>1. -Starter \in B
      BY <1>8, <1>13, <2>3
    <3>2. QED
      BY <1>4, <1>9, <2>1, <2>3, <3>1
  <2>4. QED
    BY <2>2, <2>3
<1>16. ASSUME Compelled(Starter)
       PROVE  Entailed(T) /\ \A x \in T : IsFalse(x)
  <2>1. Entailed(B) /\ \A x \in B : IsFalse(x)
    BY <1>10, <1>16 DEF Derived
  <2>2. a # NoClause
    BY <1>1 DEF MergeInv
  <2>3. Entailed(A) /\ \A x \in A : x = l \/ IsFalse(x)
    <3>1. CASE l = Starter
      <4>1. a = antecedent[Var(Starter)]
        BY <1>1, <1>9, <3>1
      <4>2. Follows(a.lits) /\ \A i \in DOMAIN a.lits : a.lits[i] = l \/ IsFalse(a.lits[i])
        BY <1>16, <2>2, <3>1, <4>1 DEF Compelled
      <4>3. Entailed(A)
        BY <1>1, <4>2, EntailedFacts DEF LitsIn
      <4>4. QED
        BY <1>1, <4>2, <4>3 DEF LitsIn
    <3>2. QED
      BY <1>9, <3>1
  <2>4. l \notin B /\ y = -l
    BY <1>8, <1>9, <1>11, <1>12, <2>1
  <2>5. \A x \in T : IsFalse(x)
    <3>1. l \notin T
      BY <1>4, <1>8, <1>9, <2>4
    <3>2. QED
      BY <1>4, <2>1, <2>3, <3>1
  <2>6. Entailed(T)
    <3> SUFFICES ASSUME NEW tau \in Assignments, Satisfies(tau, F)
                 PROVE  \E x \in T : LitTrue(tau, x)
      BY DEF Entailed
    <3>1. PICK x \in A : LitTrue(tau, x)
      BY <2>3 DEF Entailed
    <3>2. PICK z \in B : LitTrue(tau, z)
      BY <2>1 DEF Entailed
    <3>3. CASE x # l
      <4>1. x \in Lits /\ Var(x) = v => -x \notin B
        <5>1. x \in Lits
          BY <1>3
        <5>2. Var(x) = v => x = -l
          BY <1>11, <3>3, <5>1
        <5>3. QED
          BY <1>9, <1>11, <2>4, <5>2
      <4>2. x \in T
        BY <1>3, <1>4, <4>1
      <4>3. QED
        BY <3>1, <4>2
    <3>4. CASE x = l
      <4>1. z # -l
        <5>1. ~(LitTrue(tau, l) /\ LitTrue(tau, -l))
          BY <1>9, NAssumption DEF LitTrue, Lits, Assignments, Vars
        <5>2. QED
          BY <3>1, <3>2, <3>4, <5>1
      <4>2. z \in Lits /\ z # l
        BY <1>3, <2>4
      <4>3. Var(z) # v
        BY <1>11, <4>1, <4>2
      <4>4. ~OnV(a, z, v)
        BY <1>5, <4>3
      <4>5. z \in T
        BY <1>4, <4>3, <4>4
      <4>6. QED
        BY <3>2, <4>5
    <3>5. QED
      BY <3>3, <3>4
  <2>7. QED
    BY <2>5, <2>6
<1>17. Derived(T)
  BY <1>14, <1>15, <1>16 DEF Derived
<1>18. QED
  BY <1>1, <1>17

\* The clause in conflict: all of it is false.
LEMMA ConflictDerived ==
  ASSUME IInv2, BcpInv, NEW c \in DOMAIN F, ConflictOn(c)
  PROVE  Derived(LitsIn(Original(c)))
<1>1. /\ pc = "visit" /\ Visiting /\ Hit(c) /\ ClauseFalse(c)
      /\ TypeInv /\ Listed(c) /\ F[c] \in Seq(Lits)
  <2>1. pc = "visit" /\ Visiting /\ Hit(c) /\ ClauseFalse(c)
    BY DEF ConflictOn, Visiting
  <2>2. TypeInv /\ WatchInv /\ F[c] \in Seq(Lits)
    BY DEF IInv2, IInv, TypeInv, Formulas
  <2>3. ClauseIds = DOMAIN F
    BY <2>1 DEF ClauseIds
  <2>4. QED
    BY <2>1, <2>2, <2>3 DEF WatchInv
<1>2. LitsIn(Original(c)) = {F[c][p] : p \in DOMAIN F[c]} /\ Entailed(LitsIn(Original(c)))
  BY OriginalFacts
<1>3. \A x \in LitsIn(Original(c)) : IsFalse(x) /\ x \in Lits
  BY <1>1, <1>2 DEF ClauseFalse
<1>4. \E x \in LitsIn(Original(c)) : level[Var(x)] = decision_level
  <2>1. PICK k \in 1..2 : WatchedLit(c, k) = -cur.lit
    BY <1>1 DEF Hit
  <2>2. /\ watched[c][k] \in DOMAIN F[c] /\ WatchedLit(c, k) = F[c][watched[c][k]]
    BY <1>1 DEF Listed, WatchedLit
  <2>3. level[Var(-cur.lit)] = decision_level
    <3>1. cur.lit \in Lits /\ level[Var(cur.lit)] = decision_level
      BY <1>1 DEF IInv2, IInv, CursorInv
    <3>2. Var(-cur.lit) = Var(cur.lit)
      BY <3>1 DEF Var, Abs, Lits
    <3>3. QED
      BY <3>1, <3>2
  <2>4. QED
    BY <1>2, <2>1, <2>2, <2>3
<1>5. Starter \notin LitsIn(Original(c))
  <2>1. assigned_literals \in Seq(Lits) /\ assigned_literals # <<>>
    BY <1>1 DEF IInv2, MoreTypes, Reasons, BcpInv, AssignedInv
  <2>2. Len(assigned_literals) \in DOMAIN assigned_literals
    BY <2>1
  <2>3. IsTrue(Starter)
    BY <1>1, <2>2 DEF BcpInv, AssignedInv, Starter
  <2>4. QED
    BY <1>1, <1>3, <2>3, ValueFacts
<1>6. QED
  BY <1>2, <1>3, <1>4, <1>5 DEF Derived

LEMMA DerivedStays ==
  ASSUME UNCHANGED <<F, value, level, antecedent, assignment_trackers, assigned_literals>>,
         NEW L, Derived(L)
  PROVE  Derived(L)'
<1>1. Starter' = Starter /\ decision_level' = decision_level
  BY DEF Starter, decision_level
<1>2. PICK s : s = Starter /\ s = Starter'
  BY <1>1
<1>3. Compelled(s)' => Compelled(s)
  BY DEF Compelled, Follows, IsFalse
<1>4. Entailed(L)' <=> Entailed(L)
  BY DEF Entailed
<1>5. \A x : IsFalse(x)' <=> IsFalse(x)
  BY DEF IsFalse
<1>6. Compelled(Starter)' => Compelled(s)
  BY <1>2, <1>3 DEF Compelled
<1>7. Compelled(Starter)' => Entailed(L)' /\ \A x \in L : IsFalse(x)'
  BY <1>2, <1>4, <1>5, <1>6 DEF Derived
<1>8. QED
  BY <1>1, <1>7 DEF Derived

LEMMA LearnInvStep ==
  ASSUME IInv2, CountedInv, BcpInv, LearnInv, MergeInv, [Next]_vars
  PROVE  LearnInv'
<1> SUFFICES ASSUME RepeatFree, pc' \in {"learn", "merge"}
             PROVE  \E L : L = LitsIn(clause') /\ Derived(L)'
  <2>1. ASSUME NEW L, L = LitsIn(clause'), Derived(L)' PROVE Derived(LitsIn(clause))'
    BY <2>1 DEF Derived, Entailed, LitsIn
  <2>2. QED
    BY <2>1, RepeatFreeStays DEF LearnInv
<1>1. CASE VisitConflict
  <2>1. PICK c \in DOMAIN F : ConflictOn(c) /\ clause' = Original(c)
    BY <1>1 DEF VisitConflict
  <2>2. UNCHANGED <<F, value, level, antecedent, assignment_trackers, assigned_literals>>
    BY <1>1 DEF VisitConflict, assigned
  <2>3. PICK L : L = LitsIn(Original(c))
    OBVIOUS
  <2>4. Derived(L)
    BY <2>1, <2>3, ConflictDerived
  <2>5. Derived(L)'
    BY <2>2, <2>4, DerivedStays
  <2>6. QED
    BY <2>1, <2>3, <2>5
<1>2. CASE UNCHANGED <<F, pc, value, level, antecedent, assignment_trackers, queue, cur,
                       assigned_literals, clause, this, iB, resolvent>>
  <2>1. PICK L : L = LitsIn(clause) /\ L = LitsIn(clause')
    BY <1>2
  <2>2. Derived(L)
    BY <1>2, <2>1 DEF LearnInv
  <2>3. Derived(L)'
    BY <1>2, <2>2, DerivedStays
  <2>4. QED
    BY <2>1, <2>3
<1>3. CASE Resolving
  <2>1. /\ UNCHANGED <<F, value, level, antecedent, assignment_trackers, assigned_literals>>
        /\ pc \in {"learn", "merge"}
    BY <1>3, ResolvingFacts, Zenon DEF assigned, bcp
  <2>2. CASE clause' = clause
    <3>1. PICK L : L = LitsIn(clause) /\ L = LitsIn(clause')
      BY <2>2
    <3>2. Derived(L)
      BY <2>1, <3>1 DEF LearnInv
    <3>3. Derived(L)'
      BY <2>1, <3>2, DerivedStays
    <3>4. QED
      BY <3>1, <3>3
  <2>3. CASE MergeDone
    <3>1. pc = "merge" /\ iB > Len(clause.lits) /\ clause' = this
      BY <2>3 DEF MergeDone
    <3>2. PICK L : L = LitsIn(this) /\ L = LitsIn(clause')
      BY <3>1
    <3>3. Derived(L)
      BY <3>1, <3>2, ResolventDerived
    <3>4. Derived(L)'
      BY <2>1, <3>3, DerivedStays
    <3>5. QED
      BY <3>2, <3>4
  <2>4. StartMerge \/ SkipVisited \/ merge => clause' = clause
    BY DEF StartMerge, SkipVisited, merge, conflict
  <2>5. QED
    BY <1>3, <2>2, <2>3, <2>4, Turns DEF Resolving
<1>4. QED
  BY <1>1, <1>2, <1>3, IntoLearning
-----------------------------------------------------------------------------
(***************************************************************************)
(* After a conflict                                                        *)
(***************************************************************************)
NoneAssigned == \A v \in Vars : value[v] = UNASSIGNED

\* The literal to assign loses its value by backtracking; plp finds no variable with
\* a value, for it is called at the first level only, when that is empty.
BackInv ==
  /\ pc = "backtrack" =>
       /\ bt_level \in 1..decision_level
       /\ RepeatFree => cur.lit # 0 /\ (IsUnassigned(cur.lit) \/ level[Var(cur.lit)] > Kept)
  /\ pc \in {"scores", "decay", "learnt"} =>
       /\ decision_level = 1 => NoneAssigned
       /\ RepeatFree => cur.lit # 0 /\ IsUnassigned(cur.lit)
  /\ pc = "plp" => \A v \in Vars : v >= pos => value[v] = UNASSIGNED
  /\ status = "error" => \E c \in DOMAIN F : F[c] = <<>>

\* The literal chosen is of the current level, and that is above the one kept.
LEMMA BackStart ==
  ASSUME IInv2, CountedInv, LearnInv, get_backtracking_level
  PROVE  BackInv'
<1>1. PICK k \in 1..decision_level, l \in Lits \cup {0} :
        /\ IF clause.n = 1 THEN k = INITIAL_BT_LEVEL /\ l = clause.lits[1]
                           ELSE IsBacktrackLevel(k) /\ IsBacktrackLit(l)
        /\ bt_level' = k
        /\ cur' = [lit |-> l, antecedent |-> clause]
  BY DEF get_backtracking_level
<1>2. /\ pc = "learn" /\ pc' = "backtrack" /\ status = "running"
      /\ UNCHANGED <<F, value, level, assignment_trackers, status>>
  BY Zenon DEF get_backtracking_level, Running, assigned
<1>3. /\ decision_level' = decision_level /\ decision_level > Kept'
      /\ (RepeatFree' <=> RepeatFree)
  <2>1. decision_level > Kept'
    BY BacktrackBelow DEF IInv2, IInv
  <2>2. QED
    BY <1>2, <2>1 DEF decision_level, RepeatFree
<1>4. ASSUME RepeatFree PROVE l # 0 /\ level[Var(l)] = decision_level
  <2>1. clause \in Good /\ Derived(LitsIn(clause))
    BY <1>2, <1>4 DEF CountedInv, LearnInv
  <2>2. Here(clause.lits) # {}
    BY <2>1 DEF Derived, Here, LitsIn
  <2>3. \E i \in Here(clause.lits) : l = clause.lits[i]
    <3>1. CASE clause.n = 1
      <4>1. DOMAIN clause.lits = {1}
        BY <2>1, <3>1, GoodFacts
      <4>2. Here(clause.lits) = {1}
        BY <2>2, <4>1 DEF Here
      <4>3. QED
        BY <1>1, <3>1, <4>2
    <3>2. CASE clause.n # 1
      BY <1>1, <2>2, <3>2 DEF IsBacktrackLit
    <3>3. QED
      BY <3>1, <3>2
  <2>4. clause.lits \in Seq(Lits)
    BY <2>1, GoodFacts
  <2>5. l \in Lits
    BY <2>3, <2>4 DEF Here
  <2>6. QED
    BY <2>3, <2>5 DEF Here, Lits
<1>5. bt_level' \in 1..decision_level'
  BY <1>1, <1>3
<1>6. RepeatFree => cur'.lit # 0 /\ level'[Var(cur'.lit)] > Kept'
  BY <1>1, <1>2, <1>3, <1>4
<1>7. QED
  BY <1>2, <1>3, <1>5, <1>6 DEF BackInv

\* Backtracking never takes the literal to assign for one to keep.
LEMMA BackCancel ==
  ASSUME IInv2, BackInv, cancel \/ CancelLevel
  PROVE  BackInv'
<1>1. /\ pc = "backtrack" /\ pc' = "backtrack" /\ decision_level > Kept
      /\ UNCHANGED <<F, bt_level, cur>> /\ Kept' = Kept
      /\ status' # "error"
  <2>1. CASE cancel
    BY <2>1 DEF cancel, CrashIf, Running, conflict, bcp, Kept
  <2>2. CASE CancelLevel
    BY <2>2 DEF CancelLevel, Running, conflict, bcp, Kept
  <2>3. QED
    BY <2>1, <2>2
<1>2. /\ value \in [Vars -> {UNASSIGNED, 0, 1}] /\ level \in [Vars -> Int]
      /\ decision_level \in Nat \ {0} /\ cur.lit \in Lits \cup {0} /\ TypeInv
  BY DEF IInv2, IInv, TypeInv, decision_level
<1>3. bt_level \in 1..decision_level
  BY <1>1 DEF BackInv
<1>4. RepeatFree' <=> RepeatFree
  BY <1>1 DEF RepeatFree
<1>5. CASE cancel
  <2> DEFINE v == Head(TopList)
  <2>1. decision_level' = decision_level /\ v \in Vars
    BY <1>5, CancelKeepsLevel DEF IInv2, IInv
  <2>2. /\ value' = [value EXCEPT ![v] = UNASSIGNED] /\ level' = [level EXCEPT ![v] = -1]
    BY <1>5 DEF cancel
  <2> HIDE DEF v
  <2>3. ASSUME RepeatFree
        PROVE  cur.lit # 0 /\ (value'[Var(cur.lit)] = UNASSIGNED \/ level'[Var(cur.lit)] > Kept)
    <3>1. cur.lit # 0 /\ (IsUnassigned(cur.lit) \/ level[Var(cur.lit)] > Kept)
      BY <1>1, <2>3 DEF BackInv
    <3>2. Var(cur.lit) \in Vars
      BY <1>2, <3>1, LitFacts
    <3>3. QED
      BY <1>2, <2>1, <2>2, <3>1, <3>2 DEF IsUnassigned
  <2>4. QED
    BY <1>1, <1>3, <1>4, <2>1, <2>3 DEF BackInv, IsUnassigned
<1>6. CASE CancelLevel
  <2>1. /\ assignment_trackers' = SubSeq(assignment_trackers, 1, decision_level - 1)
        /\ UNCHANGED <<value, level>> /\ decision_level > 1
    BY <1>6 DEF CancelLevel
  <2>2. decision_level' = decision_level - 1
    BY <1>2, <2>1 DEF TypeInv, decision_level
  <2>3. bt_level \in 1..decision_level'
    <3>1. bt_level = 1 \/ bt_level = Kept
      BY DEF Kept, INITIAL_BT_LEVEL
    <3>2. QED
      BY <1>1, <1>2, <1>3, <2>1, <2>2, <3>1
  <2>4. RepeatFree => cur.lit # 0 /\ (IsUnassigned(cur.lit) \/ level[Var(cur.lit)] > Kept)
    BY <1>1 DEF BackInv
  <2>5. QED
    BY <1>1, <1>4, <2>1, <2>3, <2>4 DEF BackInv, IsUnassigned
<1>7. QED
  BY <1>5, <1>6

LEMMA BackDone ==
  ASSUME IInv2, BackInv, add_learnt_clause
  PROVE  BackInv'
<1>1. /\ pc = "backtrack" /\ pc' \in {"learnt", "scores"} /\ Cancelled
      /\ UNCHANGED <<F, value, level, assignment_trackers, cur, status>> /\ status = "running"
  BY DEF add_learnt_clause, Cancelled, Running, assigned, bcp
<1>2. /\ decision_level \in Nat \ {0} /\ LevelInv /\ cur.lit \in Lits \cup {0}
  BY DEF IInv2, IInv, TypeInv, decision_level
<1>3. /\ bt_level \in 1..decision_level
      /\ RepeatFree => cur.lit # 0 /\ (IsUnassigned(cur.lit) \/ level[Var(cur.lit)] > Kept)
  BY <1>1 DEF BackInv
<1>4. CASE decision_level <= Kept
  <2>1. decision_level # 1 /\ Kept = bt_level
    BY <1>2, <1>3, <1>4 DEF Kept, INITIAL_BT_LEVEL
  <2>2. ASSUME RepeatFree PROVE cur.lit # 0 /\ IsUnassigned(cur.lit)
    <3>1. Var(cur.lit) \in Vars
      BY <1>2, <1>3, <2>2, LitFacts
    <3>2. ~IsUnassigned(cur.lit) => level[Var(cur.lit)] \in 1..decision_level
      BY <1>2, <3>1 DEF LevelInv, IsUnassigned
    <3>3. QED
      BY <1>2, <1>3, <1>4, <2>1, <2>2, <3>2
  <2>3. QED
    BY <1>1, <2>1, <2>2 DEF BackInv, IsUnassigned, decision_level, RepeatFree
<1>5. CASE decision_level = 1 /\ TopList = <<>>
  <2>1. NoneAssigned
    <3> SUFFICES ASSUME NEW v \in Vars, value[v] # UNASSIGNED PROVE FALSE
      BY DEF NoneAssigned
    <3>1. level[v] \in 1..decision_level
          /\ \E i \in DOMAIN assignment_trackers[level[v]] : TRUE
      BY <1>2 DEF LevelInv
    <3>2. level[v] = decision_level
      BY <1>5, <3>1
    <3>3. QED
      BY <1>5, <3>1, <3>2 DEF TopList
  <2>2. RepeatFree => cur.lit # 0 /\ IsUnassigned(cur.lit)
    BY <1>2, <1>3, <2>1, LitFacts DEF NoneAssigned, IsUnassigned
  <2>3. QED
    BY <1>1, <2>1, <2>2 DEF BackInv, IsUnassigned, NoneAssigned, RepeatFree
<1>6. QED
  BY <1>1, <1>4, <1>5 DEF Cancelled

LEMMA BackPlp ==
  ASSUME IInv2, BackInv, PlpAssign
  PROVE  BackInv'
<1>1. /\ pc = "plp" /\ pc' = "plp" /\ pos \in Vars /\ pos' = pos + 1 /\ F' = F
      /\ status = "running"
  BY DEF PlpAssign, Running, IInv2, IInv, TypeInv, Vars
<1>2. /\ value[pos] = UNASSIGNED
      /\ \A v \in Vars : v >= pos => value[v] = UNASSIGNED
  BY <1>1 DEF BackInv, Vars
<1>3. PICK l \in {pos, -pos} : IF IsUnassigned(l)
                               THEN assign(l, NoClause) /\ UNCHANGED status
                               ELSE status' = "error" /\ UNCHANGED <<assigned, table>>
  BY DEF PlpAssign
<1>4. Var(l) = pos /\ IsUnassigned(l)
  BY <1>1, <1>2, LitFacts DEF IsUnassigned
<1>5. /\ value' = [value EXCEPT ![pos] = IF l > 0 THEN 1 ELSE 0] /\ status' = status
  BY <1>3, <1>4 DEF assign
<1>6. \A v \in Vars : v >= pos' => value'[v] = UNASSIGNED
  <2>1. value \in [Vars -> {UNASSIGNED, 0, 1}]
    BY DEF IInv2, IInv, TypeInv
  <2>2. QED
    BY <1>1, <1>2, <1>5, <2>1 DEF Vars
<1>7. QED
  BY <1>1, <1>5, <1>6 DEF BackInv

LEMMA BackStep ==
  ASSUME IInv2, CountedInv, LearnInv, BackInv, [Next]_vars
  PROVE  BackInv'
<1>1. CASE get_backtracking_level
  BY <1>1, BackStart
<1>2. CASE cancel \/ CancelLevel
  BY <1>2, BackCancel
<1>3. CASE add_learnt_clause
  BY <1>3, BackDone
<1>4. CASE PlpAssign
  BY <1>4, BackPlp
<1>5. CASE update_scores \/ UpdateDone \/ decaying_sum
  <2>1. /\ pc \in {"scores", "decay"} /\ pc' \in {"scores", "decay", "learnt"}
        /\ UNCHANGED <<F, value, assignment_trackers, cur>> /\ status' # "error"
    BY <1>5 DEF update_scores, UpdateDone, decaying_sum, assigned, bcp, CrashIf, Running
  <2>2. QED
    BY <2>1 DEF BackInv, IsUnassigned, decision_level, RepeatFree, NoneAssigned
<1>6. CASE LearntDone
  <2>1. /\ pc = "learnt" /\ pc' \in {"plp", "start"} /\ value' = value /\ status' # "error"
        /\ pc' = "plp" => decision_level = 1
    BY <1>6 DEF LearntDone, assigned, CrashIf, Running, INITIAL_BT_LEVEL
  <2>2. QED
    BY <2>1 DEF BackInv, NoneAssigned
<1>7. CASE InitDone
  <2>1. pc = "watch" /\ pc' = "plp" /\ value' = value /\ status' # "error"
    BY <1>7 DEF InitDone, assigned, Running
  <2>2. QED
    BY <2>1 DEF BackInv, IInv2, IInv, CursorInv
<1>8. CASE PlpSkip
  <2>1. pc = "plp" /\ pc' = "plp" /\ value' = value /\ status' # "error" /\ pos' = pos + 1
    BY <1>8 DEF PlpSkip, assigned, Running
  <2>2. pos \in Nat
    BY DEF IInv2, IInv, TypeInv
  <2>3. QED
    BY <2>1, <2>2 DEF BackInv, Vars
<1>9. CASE InitEmptyClause
  BY <1>9 DEF InitEmptyClause, BackInv, IInv2, IInv, TypeInv
<1>10. CASE PrintLit \/ Finish \/ termination_handler \/ UNCHANGED vars
  <2>1. /\ UNCHANGED <<F, pc, pos, value, level, assignment_trackers, cur, bt_level>>
        /\ status' = "error" => status = "error"
    BY <1>10 DEF PrintLit, Finish, termination_handler, vars, assigned, bcp, conflict, Running
  <2>2. QED
    BY <2>1 DEF BackInv, IsUnassigned, decision_level, RepeatFree, NoneAssigned, Kept
<1>11. CASE \/ InitTable \/ InitWatched \/ PlpDone \/ decide \/ SaySat \/ Propagate
            \/ Resolving
  <2>1. /\ pc' \notin {"backtrack", "scores", "decay", "learnt", "plp"} /\ status' # "error"
    <3>1. CASE InitTable \/ InitWatched \/ PlpDone \/ decide \/ SaySat
      BY <3>1 DEF InitTable, InitWatched, PlpDone, decide, SaySat, Running, CrashIf
    <3>2. CASE Propagate
      BY <3>2 DEF Propagate, BcpStart, BcpAssign, BcpSkip, BcpDone, VisitOther, VisitMove,
                  VisitUnit, VisitConflict, SayUnsat, VisitDone, ConflictOn, Visiting, Running
    <3>3. CASE Resolving
      BY <3>3, ResolvingFacts
    <3>4. QED
      BY <1>11, <3>1, <3>2, <3>3
  <2>2. QED
    BY <2>1 DEF BackInv
<1>12. QED
  BY <1>1, <1>2, <1>3, <1>4, <1>5, <1>6, <1>7, <1>8, <1>9, <1>10, <1>11
  DEF Next, Step, Begin, Search, Analyze, Resolving

IInv3 == IInv2 /\ CountedInv /\ BcpInv /\ LearnInv /\ MergeInv /\ BackInv

LEMMA InitIInv3 == ASSUME Init PROVE IInv3
<1>1. IInv2
  BY InitIInv, InitMoreTypes DEF IInv2
<1>2. pc = "table" /\ assigned_literals = <<>> /\ clause = NoClause /\ this = NoClause
      /\ antecedent = [v \in Vars |-> NoClause]
      /\ cur = [lit |-> 0, antecedent |-> NoClause] /\ status = "running"
      /\ queue = InitQueue([lit |-> 0, antecedent |-> NoClause])
  BY DEF Init
<1>3. IsRing(queue) /\ queue.itemCount = 0
  BY <1>2, RingInit
<1>4. Contents(queue) = <<>> /\ DOMAIN Contents(queue) = {}
  BY <1>3, ContentsFacts, QueueAssumption DEF is_q_empty
<1>5. CountedInv
  <2> SUFFICES ASSUME RepeatFree PROVE Reasons(Good) /\ clause \in Good /\ this \in Good
    BY DEF CountedInv
  <2>1. NoClause \in Good
    BY <1>1, GoodClauses DEF IInv2, IInv
  <2>2. cur \in Carrying(Good)
    BY <1>2, <2>1 DEF Carrying
  <2>3. Holds(queue, Carrying(Good))
    BY <1>3, <1>4 DEF Holds
  <2>4. QED
    BY <1>2, <2>1, <2>2, <2>3 DEF Reasons
<1>6. BcpInv
  BY <1>2, <1>4 DEF BcpInv, QueueInv, AssignedInv
<1>7. LearnInv /\ MergeInv /\ BackInv
  BY <1>2 DEF LearnInv, MergeInv, BackInv
<1>8. QED
  BY <1>1, <1>5, <1>6, <1>7 DEF IInv3

LEMMA Analysed == Spec => []IInv3
<1>1. Init => IInv3
  BY InitIInv3
<1>2. IInv2 /\ [Next]_vars => IInv2'
  BY TypedStep
<1>3. IInv3 /\ [Next]_vars => IInv3'
  BY <1>2, CountedStep, BcpStep, LearnInvStep, MergeInvStep, BackStep DEF IInv3
<1>4. QED
  BY <1>1, <1>3, PTL DEF Spec

\* Every clause learnt follows from the formula, however many literals merge has taken
\* out and put in, if the literal bcp began with had to be true.
THEOREM LearntRight == Spec => []LearntImplied
<1>1. IInv3 => LearntImplied
  <2> SUFFICES ASSUME IInv3, pc = "learn", RepeatFree, Compelled(Starter)
               PROVE  Follows(clause.lits)
    BY DEF LearntImplied, Starter
  <2>1. Entailed(LitsIn(clause))
    BY DEF IInv3, LearnInv, Derived
  <2>2. QED
    BY <2>1, EntailedFacts DEF LitsIn
<1>2. QED
  BY Analysed, <1>1, PTL

\* After a conflict there is a literal to assign, and backtracking has taken its value;
\* plp never meets a variable with a value.
THEOREM Assignable == Spec => []LearntAssignable
<1>1. IInv3 => LearntAssignable
  BY DEF IInv3, BackInv, LearntAssignable
<1>2. QED
  BY Analysed, <1>1, PTL
-----------------------------------------------------------------------------
(***************************************************************************)
(* The table of the literals to decide on                                  *)
(***************************************************************************)
\* The trees of the program: in order, or broken.
Tables == {t \in Tree \cup {Broken} : Ordered(t)}

\* The tree t has a literal of the variable v.
Offers(t, v) == \E x \in Els(t) : Var(x.literal) = v

\* A table that is not broken is a tree in order; the empty one is.
LEMMA TablesFacts ==
  NULL \in Tables /\ \A t \in Tables : t # Broken => t \in Tree /\ Ordered(t)
BY TreeFacts, ElsFacts DEF Tables

\* Insertion adds the variable of the literal and keeps the others.
LEMMA InsertOffers ==
  ASSUME NEW t \in Tables, NEW l \in Lits, NEW s \in Nat
  PROVE  LET u == Insert(t, l, s) IN
         /\ u \in Tables /\ (t = Broken => u = Broken)
         /\ u # Broken => Offers(u, Var(l)) /\ \A v : Offers(t, v) => Offers(u, v)
<1> DEFINE u == Insert(t, l, s)
           e == [literal |-> l, score |-> s]
<1>1. CASE t = Broken
  BY <1>1 DEF Insert
<1>2. CASE t # Broken
  <2>1. t \in Tree /\ Ordered(t) /\ l \in Int
    BY <1>2, TablesFacts DEF Lits
  <2>2. u = insert_literal(t, l, s)
    BY <1>2 DEF Insert
  <2>3. Inserted(u, t, e)
    BY <2>1, <2>2, InsertFacts
  <2> HIDE DEF u
  <2>4. u \in Tables
    BY <2>1, <2>3, ElsFacts DEF Inserted, Tables
  <2>5. u # Broken => e \in Els(u) /\ \A x \in Els(t) : x \in Els(u)
    BY <2>3 DEF Inserted
  <2>6. u # Broken => Offers(u, Var(l)) /\ \A v : Offers(t, v) => Offers(u, v)
    BY <2>5 DEF Offers
  <2>7. /\ u \in Tables /\ (t = Broken => u = Broken)
        /\ u # Broken => Offers(u, Var(l)) /\ \A v : Offers(t, v) => Offers(u, v)
    BY <1>2, <2>4, <2>6
  <2>8. QED
    BY <2>7 DEF u
<1>3. QED
  BY <1>1, <1>2

\* So do two insertions.
LEMMA InsertTwice ==
  ASSUME NEW t \in Tables, NEW l \in Lits, NEW s \in Nat, NEW k \in Lits, NEW r \in Nat
  PROVE  LET u == Insert(Insert(t, l, s), k, r) IN
         /\ u \in Tables /\ (t = Broken => u = Broken)
         /\ u # Broken => /\ Offers(u, Var(l)) /\ Offers(u, Var(k))
                          /\ \A v : Offers(t, v) => Offers(u, v)
<1> DEFINE w == Insert(t, l, s)
           u == Insert(w, k, r)
<1>1. /\ w \in Tables /\ (t = Broken => w = Broken)
      /\ w # Broken => Offers(w, Var(l)) /\ \A v : Offers(t, v) => Offers(w, v)
  BY InsertOffers
<1> HIDE DEF w
<1>2. /\ u \in Tables /\ (w = Broken => u = Broken)
      /\ u # Broken => Offers(u, Var(k)) /\ \A v : Offers(w, v) => Offers(u, v)
  BY <1>1, InsertOffers
<1> HIDE DEF u
<1>3. /\ u \in Tables /\ (t = Broken => u = Broken)
      /\ u # Broken => /\ Offers(u, Var(l)) /\ Offers(u, Var(k))
                       /\ \A v : Offers(t, v) => Offers(u, v)
  BY <1>1, <1>2
<1>4. QED
  BY <1>3 DEF u, w

\* Deletion keeps the other variables.
LEMMA DeleteOffers ==
  ASSUME NEW t \in Tables, t # Broken, NEW l, NEW s
  PROVE  LET u == delete_literal(t, l, s) IN
         u \in Tables /\ u # Broken /\ \A v : v # Var(l) /\ Offers(t, v) => Offers(u, v)
<1> DEFINE u == delete_literal(t, l, s)
<1>1. t \in Tree /\ Ordered(t)
  BY TablesFacts
<1>2. Deleted(u, t, l)
  BY <1>1, DeleteFacts
<1> HIDE DEF u
<1>3. u \in Tree /\ Ordered(u)
  BY <1>1, <1>2 DEF Deleted
<1>4. u \in Tables /\ u # Broken
  BY <1>3, TreeFacts DEF Tables
<1>5. ASSUME NEW v, v # Var(l), Offers(t, v) PROVE Offers(u, v)
  <2>1. PICK x \in Els(t) : Var(x.literal) = v
    BY <1>5 DEF Offers
  <2>2. x.literal # l
    BY <1>5, <2>1
  <2>3. QED
    BY <1>2, <2>1, <2>2 DEF Deleted, Offers
<1>6. QED
  BY <1>4, <1>5 DEF u

\* Deleting both literals of a variable, as assign and decaying_sum do.
LEMMA DeleteBoth ==
  ASSUME NEW t \in Tables, t # Broken, NEW l \in Lits, NEW s, NEW r
  PROVE  LET u == delete_literal(delete_literal(t, l, s), -l, r) IN
         u \in Tables /\ u # Broken /\ \A v : v # Var(l) /\ Offers(t, v) => Offers(u, v)
<1> DEFINE w == delete_literal(t, l, s)
           u == delete_literal(w, -l, r)
<1>1. w \in Tables /\ w # Broken /\ \A v : v # Var(l) /\ Offers(t, v) => Offers(w, v)
  BY DeleteOffers
<1> HIDE DEF w
<1>2. u \in Tables /\ u # Broken /\ \A v : v # Var(-l) /\ Offers(w, v) => Offers(u, v)
  BY <1>1, DeleteOffers
<1>3. Var(-l) = Var(l)
  BY DEF Var, Abs, Lits
<1> HIDE DEF u
<1>4. u \in Tables /\ u # Broken /\ \A v : v # Var(l) /\ Offers(t, v) => Offers(u, v)
  BY <1>1, <1>2, <1>3
<1>5. QED
  BY <1>4 DEF u, w

\* The variable bcp is about to assign: it has left the table already.
Taking(v) ==
  \/ pc = "start" /\ v = Var(cur.lit)
  \/ /\ pc = "bcp" /\ assigned_literals = <<>> /\ Contents(queue) # <<>>
     /\ v = Var(Contents(queue)[1].lit)

\* init gives entries to the variables of the formula only.
Occurs(v) == OccursIn(v) \/ OccursIn(-v)

\* The tree is in order, and only the end leaves it broken.
TreeInv ==
  /\ table \in Tables
  /\ table = Broken => ~Running /\ pc # "decide"
  /\ pc = "table" => pos \in Vars

\* A loop is going to put the variable in: that of init, or that of decaying_sum at
\* the end of the conflict, when the learnt clauses are full.
Due(v) == \/ pc \in {"table", "decay"} /\ v >= pos
          \/ pc \in {"backtrack", "scores"} /\ size = NLEARNT_CLAUSES

\* A variable of the formula that has no value is in the table, about to get a value,
\* or will be put in.
CoverInv ==
  table # Broken =>
    \A v \in Vars : value[v] = UNASSIGNED /\ Occurs(v) /\ ~Taking(v) /\ ~Due(v)
                      => Offers(table, v)

\* Scores fall when the learnt clauses are full only.  Until then a variable that loses
\* its value has a literal with a score to return it with; after that all scores may be
\* lost by halving, and decaying_sum must return the variable.
ScoreInv ==
  /\ pc \in {"scores", "decay"} => size = NLEARNT_CLAUSES
  /\ size < NLEARNT_CLAUSES =>
       \A v \in Vars : Occurs(v) => score[v] > 0 \/ score[-v] > 0

\* What a step does to the table: the tree stays one, and a variable without a value
\* that is in it stays in it, or is taken.  One that has lost its value is in it if it
\* has a score, and one that was due is in it or still due.
Covering ==
  /\ TreeInv'
  /\ table' # Broken => table # Broken
  /\ \A v \in Vars : table' # Broken /\ value'[v] = UNASSIGNED =>
       /\ Offers(table, v) => Offers(table', v) \/ Taking(v)'
       /\ \/ value[v] = UNASSIGNED
          \/ /\ pc = "backtrack" /\ pc' = "backtrack" /\ size' = size
             /\ score[v] > 0 \/ score[-v] > 0 => Offers(table', v)
       /\ Due(v) => Due(v)' \/ Offers(table', v)

\* The steps that change the table.
Tabling == \/ InitTable \/ PlpAssign \/ decide \/ BcpAssign \/ cancel \/ update_scores
           \/ decaying_sum

\* The others leave it and the values alone, and what is due stays due.
LEMMA TableStays ==
  ASSUME [Next]_vars, ~Tabling
  PROVE  /\ UNCHANGED <<table, value>>
         /\ pc' = "table" => pc = "table" /\ pos' = pos
         /\ \A v \in Vars : Due(v) => Due(v)'
<1>1. CASE Resolving
  BY <1>1, ResolvingFacts DEF heap, assigned, Due
<1>2. CASE ~Resolving
  <2>1. UNCHANGED <<table, value>> /\ (pc' = "table" => pc = "table" /\ pos' = pos)
    BY <1>2
    DEF Tabling, Next, Step, Begin, Search, Propagate, Analyze, InitWatched, InitEmptyClause,
        InitDone, PlpSkip, PlpDone, SaySat, BcpStart, BcpSkip, BcpDone, VisitOther, VisitMove,
        VisitUnit, VisitConflict, SayUnsat, VisitDone, ConflictOn, Visiting, Resolving,
        get_backtracking_level, CancelLevel, add_learnt_clause, Cancelled, UpdateDone,
        LearntDone, PrintLit, Finish, termination_handler, vars, heap, assigned
  <2>2. pc \in {"table", "decay"} => UNCHANGED <<pc, pos>>
    BY <1>2
    DEF Tabling, Next, Step, Begin, Search, Propagate, Analyze, InitWatched, InitEmptyClause,
        InitDone, PlpSkip, PlpDone, SaySat, BcpStart, BcpSkip, BcpDone, VisitOther, VisitMove,
        VisitUnit, VisitConflict, SayUnsat, VisitDone, ConflictOn, Visiting, Resolving,
        get_backtracking_level, CancelLevel, add_learnt_clause, Cancelled, UpdateDone,
        LearntDone, PrintLit, Finish, termination_handler, vars, heap, assigned
  <2>3. pc = "backtrack" /\ size = NLEARNT_CLAUSES =>
          pc' \in {"backtrack", "scores"} /\ size' = size
    BY <1>2, Bounds1Assumption
    DEF Tabling, Next, Step, Begin, Search, Propagate, Analyze, InitWatched, InitEmptyClause,
        InitDone, PlpSkip, PlpDone, SaySat, BcpStart, BcpSkip, BcpDone, VisitOther, VisitMove,
        VisitUnit, VisitConflict, SayUnsat, VisitDone, ConflictOn, Visiting, Resolving,
        get_backtracking_level, CancelLevel, add_learnt_clause, Cancelled, UpdateDone,
        LearntDone, PrintLit, Finish, termination_handler, vars, conflict
  <2>4. pc = "scores" => (pc' = "scores" /\ size' = size) \/ (pc' = "decay" /\ pos' = 1)
    BY <1>2
    DEF Tabling, Next, Step, Begin, Search, Propagate, Analyze, InitWatched, InitEmptyClause,
        InitDone, PlpSkip, PlpDone, SaySat, BcpStart, BcpSkip, BcpDone, VisitOther, VisitMove,
        VisitUnit, VisitConflict, SayUnsat, VisitDone, ConflictOn, Visiting, Resolving,
        get_backtracking_level, CancelLevel, add_learnt_clause, Cancelled, UpdateDone,
        LearntDone, PrintLit, Finish, termination_handler, vars, conflict
  <2>5. \A v \in Vars : v >= 1
    BY NAssumption DEF Vars
  <2>6. \A v \in Vars : Due(v) => Due(v)'
    BY <2>2, <2>3, <2>4, <2>5 DEF Due
  <2>7. QED
    BY <2>1, <2>6
<1>3. QED
  BY <1>1, <1>2

\* A program that has ended does nothing.
LEMMA Ended ==
  ASSUME ~Running, [Next]_vars
  PROVE  UNCHANGED vars
<1>1. ~Resolving
  BY ResolvingFacts DEF Running
<1>2. QED
  BY <1>1
  DEF Next, Step, Begin, Search, Propagate, Analyze, InitTable, InitWatched,
      InitEmptyClause, InitDone, PlpAssign, PlpSkip, PlpDone, decide, SaySat, BcpStart,
      BcpAssign, BcpSkip, BcpDone, VisitOther, VisitMove, VisitUnit, VisitConflict,
      SayUnsat, VisitDone, ConflictOn, Visiting, Resolving, get_backtracking_level,
      cancel, CancelLevel, add_learnt_clause, Cancelled, update_scores, UpdateDone,
      decaying_sum, LearntDone, PrintLit, Finish, termination_handler

\* assign takes out the literals of its variable only.
LEMMA AssignCovers ==
  ASSUME TypeInv, TreeInv, table # Broken, NEW l \in Lits, NEW from, assign(l, from),
         pc \notin {"table", "decay", "backtrack", "scores"}, pc' # "table"
  PROVE  Covering
<1>1. /\ value' = [value EXCEPT ![Var(l)] = IF l > 0 THEN 1 ELSE 0]
      /\ table' = delete_literal(delete_literal(table, l, score[l]), -l, score[-l])
  BY DEF assign
<1>2. /\ table' \in Tables /\ table' # Broken
      /\ \A v : v # Var(l) /\ Offers(table, v) => Offers(table', v)
  BY <1>1, DeleteBoth DEF TreeInv
<1>3. ASSUME NEW v \in Vars, value'[v] = UNASSIGNED PROVE v # Var(l) /\ value[v] = UNASSIGNED
  BY <1>1, <1>3 DEF TypeInv, UNASSIGNED
<1>4. TreeInv'
  BY <1>2 DEF TreeInv
<1>5. QED
  BY <1>2, <1>3, <1>4 DEF Covering, Due

\* init_unassigned_table puts one variable in.
LEMMA InitCovers ==
  ASSUME TypeInv, ScoreTypes, TreeInv, InitTable
  PROVE  Covering
<1>1. /\ table' = Insert(Insert(table, pos, score[pos]), -pos, score[-pos])
      /\ pc = "table" /\ CrashIf(table' = Broken) /\ UNCHANGED value
      /\ pos' = (IF pos = N THEN 1 ELSE pos + 1) /\ pc' = IF pos = N THEN "watch" ELSE "table"
  BY DEF InitTable, assigned
<1>2. pos \in Vars /\ pos \in Lits /\ -pos \in Lits /\ Var(pos) = pos
  BY <1>1, LitFacts DEF TreeInv
<1>3. score[pos] \in Nat /\ score[-pos] \in Nat /\ table \in Tables
  BY <1>2 DEF ScoreTypes, TreeInv
<1>4. /\ table' \in Tables /\ (table = Broken => table' = Broken)
      /\ table' # Broken => Offers(table', pos) /\ \A v : Offers(table, v) => Offers(table', v)
  BY <1>1, <1>2, <1>3, InsertTwice
<1>5. pc' = "table" => pos' \in Vars
  BY <1>1, <1>2, NAssumption DEF Vars
<1>6. TreeInv'
  BY <1>1, <1>4, <1>5 DEF TreeInv, CrashIf, Running
<1>7. ASSUME NEW v \in Vars, Due(v)
      PROVE  Due(v)' \/ v = pos
  <2>1. v >= pos
    BY <1>1, <1>7 DEF Due
  <2>2. CASE v # pos
    <3>1. v > pos /\ pos # N /\ v >= pos + 1
      BY <1>2, <2>1, <2>2 DEF Vars
    <3>2. QED
      BY <1>1, <3>1 DEF Due
  <2>3. QED
    BY <2>2
<1>8. QED
  BY <1>1, <1>4, <1>6, <1>7 DEF Covering

\* decide takes out one literal; its variable is taken, if it has no value.
LEMMA DecideCovers ==
  ASSUME TreeInv, decide
  PROVE  Covering
<1> DEFINE x == extract_max(table)
<1>1. /\ table # NULL /\ Running /\ pc = "decide" /\ table' = x.rest /\ UNCHANGED value
      /\ pc' \in {"start", "decide"}
  BY DEF decide, Undecided, assigned
<1>2. PICK l \in Lits :
        /\ l = x.node.literal
        /\ cur' = IF IsUnassigned(l) THEN [lit |-> l, antecedent |-> NoClause] ELSE cur
        /\ pc' = IF IsUnassigned(l) THEN "start" ELSE "decide"
  BY DEF decide
<1>3. table \in Tree /\ Ordered(table) /\ table # Broken
  BY <1>1, TablesFacts DEF TreeInv
<1>4. Taken(x, table)
  BY <1>1, <1>3, ExtractFacts
<1> HIDE DEF x
<1>5. table' \in Tree /\ Ordered(table') /\ Els(table) = Els(table') \cup {Entry(x.node)}
  BY <1>1, <1>3, <1>4 DEF Taken
<1>6. table' \in Tables /\ table' # Broken
  BY <1>5, TreeFacts DEF Tables
<1>7. ASSUME NEW v \in Vars, value[v] = UNASSIGNED, Offers(table, v)
      PROVE  Offers(table', v) \/ Taking(v)'
  <2>1. PICK y \in Els(table) : Var(y.literal) = v
    BY <1>7 DEF Offers
  <2>2. CASE y \in Els(table')
    BY <2>1, <2>2 DEF Offers
  <2>3. CASE y = Entry(x.node)
    <3>1. y.literal = l
      BY <1>2, <2>3 DEF Entry
    <3>2. IsUnassigned(l)
      BY <1>7, <2>1, <3>1 DEF IsUnassigned
    <3>3. pc' = "start" /\ cur'.lit = l
      BY <1>2, <3>2
    <3>4. QED
      BY <2>1, <3>1, <3>3 DEF Taking, Var
  <2>4. QED
    BY <1>5, <2>1, <2>2, <2>3
<1>8. TreeInv'
  BY <1>1, <1>6 DEF TreeInv
<1>9. QED
  BY <1>1, <1>3, <1>7, <1>8 DEF Covering, Due

\* revoke_assignment returns the literals that have a score.
LEMMA ReturnOffers ==
  ASSUME score \in [Lits -> Nat], NEW t \in Tables, NEW l \in Lits
  PROVE  LET u == Returned(t, l) IN
         /\ u \in Tables /\ (t = Broken => u = Broken)
         /\ u # Broken => /\ score[l] > 0 => Offers(u, Var(l))
                          /\ \A v : Offers(t, v) => Offers(u, v)
<1>1. score[l] \in Nat
  OBVIOUS
<1>2. QED
  BY <1>1, InsertOffers DEF Returned

\* cancel returns the variable that loses its value.
LEMMA CancelCovers ==
  ASSUME TypeInv, ScoreTypes, TreeInv, cancel
  PROVE  Covering
<1> DEFINE v == Head(TopList)
           l == IF value[v] = 1 THEN v ELSE -v
           t == Returned(table, l)
<1>1. /\ Running /\ pc = "backtrack" /\ pc' = pc /\ decision_level > Kept /\ TopList # <<>>
      /\ value' = [value EXCEPT ![v] = UNASSIGNED] /\ table' = Returned(t, -l)
      /\ CrashIf(table' = Broken) /\ UNCHANGED <<pos, size>>
  BY DEF cancel, conflict
<1>2. v \in Vars
  <2>1. TopList \in Seq(Vars)
    BY DEF TypeInv, TopList, decision_level
  <2>2. QED
    BY <1>1, <2>1
<1>3. l \in Lits /\ -l \in Lits /\ Var(l) = v /\ Var(-l) = v /\ {l, -l} = {v, -v}
  BY <1>2, LitFacts DEF Lits
<1>4. table \in Tables /\ table # Broken /\ score \in [Lits -> Nat]
  BY <1>1 DEF TreeInv, ScoreTypes
<1> HIDE DEF v, l
<1>5. /\ t \in Tables /\ (table = Broken => t = Broken)
      /\ t # Broken => /\ score[l] > 0 => Offers(t, v)
                       /\ \A w : Offers(table, w) => Offers(t, w)
  BY <1>3, <1>4, ReturnOffers
<1> HIDE DEF t
<1>6. /\ table' \in Tables /\ (t = Broken => table' = Broken)
      /\ table' # Broken => /\ score[-l] > 0 => Offers(table', v)
                            /\ \A w : Offers(t, w) => Offers(table', w)
  BY <1>1, <1>3, <1>4, <1>5, ReturnOffers
<1>7. TreeInv'
  BY <1>1, <1>6 DEF TreeInv, CrashIf, Running
<1>8. ASSUME NEW w \in Vars, table' # Broken, value'[w] = UNASSIGNED
      PROVE  /\ Offers(table, w) => Offers(table', w)
             /\ value[w] = UNASSIGNED
                \/ (score[w] > 0 \/ score[-w] > 0 => Offers(table', w))
  <2>1. t # Broken
    BY <1>6, <1>8
  <2>2. Offers(table, w) => Offers(table', w)
    BY <1>5, <1>6, <1>8, <2>1
  <2>3. CASE w = v
    <3>1. score[w] > 0 \/ score[-w] > 0 => score[l] > 0 \/ score[-l] > 0
      BY <1>3, <2>3
    <3>2. QED
      BY <1>5, <1>6, <1>8, <2>1, <2>2, <2>3, <3>1
  <2>4. CASE w # v
    BY <1>1, <1>8, <2>2, <2>4 DEF TypeInv
  <2>5. QED
    BY <2>3, <2>4
<1>9. \A w \in Vars : Due(w) => Due(w)'
  BY <1>1 DEF Due
<1>10. QED
  BY <1>1, <1>4, <1>7, <1>8, <1>9 DEF Covering

\* update_scores takes a literal out and puts it back.
LEMMA UpdateCovers ==
  ASSUME TypeInv, LearnTypes, ScoreTypes, TreeInv, update_scores
  PROVE  Covering
<1> DEFINE l == clause.lits[pos]
           t == delete_literal(table, l, score[l])
<1>1. /\ Running /\ pc = "scores" /\ pc' = pc /\ UNCHANGED value /\ pos <= Len(clause.lits)
      /\ table' = Insert(t, l, score[l]) /\ CrashIf(table' = Broken) /\ size' = size
  BY DEF update_scores, assigned, conflict
<1>2. l \in Lits
  <2>1. clause.lits \in Seq(Lits) /\ pos \in Nat \ {0}
    BY DEF LearnTypes, Clause, TypeInv
  <2>2. QED
    BY <1>1, <2>1
<1>3. table \in Tables /\ table # Broken /\ score[l] \in Nat
  BY <1>1, <1>2 DEF TreeInv, ScoreTypes
<1> HIDE DEF l
<1>4. t \in Tables /\ t # Broken /\ \A v : v # Var(l) /\ Offers(table, v) => Offers(t, v)
  BY <1>3, DeleteOffers
<1> HIDE DEF t
<1>5. /\ table' \in Tables
      /\ table' # Broken => Offers(table', Var(l)) /\ \A v : Offers(t, v) => Offers(table', v)
  BY <1>1, <1>2, <1>3, <1>4, InsertOffers
<1>6. TreeInv'
  BY <1>1, <1>5 DEF TreeInv, CrashIf, Running
<1>7. \A v \in Vars : Due(v) => Due(v)'
  BY <1>1 DEF Due
<1>8. QED
  BY <1>1, <1>3, <1>4, <1>5, <1>6, <1>7 DEF Covering

\* decaying_sum does so with both literals of a variable.
LEMMA DecayCovers ==
  ASSUME TypeInv, ScoreTypes, TreeInv, decaying_sum
  PROVE  Covering
<1> DEFINE t == delete_literal(delete_literal(table, pos, score[pos]), -pos, score[-pos])
<1>1. /\ Running /\ pc = "decay" /\ UNCHANGED value /\ CrashIf(table' = Broken)
      /\ pos' = pos + 1 /\ pc' = IF pos = N THEN "learnt" ELSE "decay"
      /\ score' = [score EXCEPT ![pos] = Half(@), ![-pos] = Half(@)]
      /\ table' = Insert(Insert(t, pos, score'[pos]), -pos, score'[-pos])
  BY DEF decaying_sum, assigned
<1>2. pos \in Vars /\ pos \in Lits /\ -pos \in Lits /\ Var(pos) = pos
  BY <1>1, LitFacts DEF ScoreTypes
<1>3. table \in Tables /\ table # Broken
  BY <1>1 DEF TreeInv
<1>4. score'[pos] \in Nat /\ score'[-pos] \in Nat
  <2>1. pos # -pos /\ score[pos] \in Nat /\ score[-pos] \in Nat
    BY <1>2 DEF ScoreTypes, Vars
  <2>2. score'[pos] = Half(score[pos]) /\ score'[-pos] = Half(score[-pos])
    BY <1>1, <1>2, <2>1 DEF ScoreTypes
  <2>3. QED
    BY <2>1, <2>2 DEF Half
<1>5. t \in Tables /\ t # Broken /\ \A v : v # pos /\ Offers(table, v) => Offers(t, v)
  BY <1>2, <1>3, DeleteBoth
<1> HIDE DEF t
<1> DEFINE n == score'[pos]
           m == score'[-pos]
           u == Insert(Insert(t, pos, n), -pos, m)
<1>u. table' = u /\ n \in Nat /\ m \in Nat
  BY <1>1, <1>4
<1> HIDE DEF n, m
<1>v. /\ u \in Tables
      /\ u # Broken => Offers(u, pos) /\ \A v : Offers(t, v) => Offers(u, v)
  BY <1>2, <1>5, <1>u, InsertTwice
<1>6. /\ table' \in Tables
      /\ table' # Broken => Offers(table', pos) /\ \A v : Offers(t, v) => Offers(table', v)
  BY <1>u, <1>v
<1>7. TreeInv'
  BY <1>1, <1>6 DEF TreeInv, CrashIf, Running
<1>8. ASSUME NEW v \in Vars, Due(v)
      PROVE  Due(v)' \/ v = pos
  <2>1. v >= pos
    BY <1>1, <1>8 DEF Due
  <2>2. CASE v # pos
    <3>1. v > pos /\ pos # N /\ v >= pos + 1
      BY <1>2, <2>1, <2>2 DEF Vars
    <3>2. QED
      BY <1>1, <3>1 DEF Due
  <2>3. QED
    BY <2>2
<1>9. QED
  BY <1>1, <1>3, <1>5, <1>6, <1>7, <1>8 DEF Covering

\* Whatever the program does next.
LEMMA Covers ==
  ASSUME IInv3, TreeInv, [Next]_vars
  PROVE  Covering
<1>1. TypeInv /\ ScoreTypes /\ LearnTypes
  BY DEF IInv3, IInv2, IInv, MoreTypes
<1>2. CASE ~Running
  <2>1. UNCHANGED <<table, value, pc, pos, size, status>>
    BY <1>2, Ended DEF vars, assigned, heap, conflict
  <2>2. TreeInv'
    BY <2>1 DEF TreeInv, Running
  <2>3. QED
    BY <2>1, <2>2 DEF Covering, Due
<1>3. CASE Running /\ UNCHANGED <<table, value>> /\ (pc' = "table" => pc = "table" /\ pos' = pos)
                   /\ \A v \in Vars : Due(v) => Due(v)'
  <2>1. table # Broken
    BY <1>3 DEF TreeInv
  <2>2. TreeInv'
    BY <1>3, <2>1 DEF TreeInv
  <2>3. QED
    BY <1>3, <2>1, <2>2 DEF Covering
<1>4. CASE InitTable
  BY <1>1, <1>4, InitCovers
<1>5. CASE PlpAssign
  <2>1. /\ pc = "plp" /\ pc' = "plp" /\ pos \in Vars /\ table # Broken /\ Running
    BY <1>1, <1>5 DEF PlpAssign, Running, TypeInv, TreeInv, Vars
  <2>2. PICK l \in {pos, -pos} : IF IsUnassigned(l)
                                 THEN assign(l, NoClause) /\ UNCHANGED status
                                 ELSE status' = "error" /\ UNCHANGED <<assigned, table>>
    BY <1>5 DEF PlpAssign
  <2>3. l \in Lits
    BY <2>1, LitFacts
  <2>4. CASE IsUnassigned(l)
    BY <1>1, <2>1, <2>2, <2>3, <2>4, AssignCovers
  <2>5. CASE ~IsUnassigned(l)
    BY <1>3, <2>1, <2>2, <2>5 DEF assigned, Due
  <2>6. QED
    BY <2>4, <2>5
<1>6. CASE decide
  BY <1>6, DecideCovers
<1>7. CASE BcpAssign
  <2>1. pc = "bcp" /\ pc' = "visit" /\ table # Broken
    BY <1>7 DEF BcpAssign, Running, TreeInv
  <2>2. PICK l, from : l = Front(queue).lit /\ assign(l, from)
    BY <1>7 DEF BcpAssign
  <2>3. l \in Lits
    BY <1>1, <1>7, <2>2, FrontLit DEF BcpAssign
  <2>4. QED
    BY <1>1, <2>1, <2>2, <2>3, AssignCovers
<1>8. CASE cancel
  BY <1>1, <1>8, CancelCovers
<1>9. CASE update_scores
  BY <1>1, <1>9, UpdateCovers
<1>10. CASE decaying_sum
  BY <1>1, <1>10, DecayCovers
<1>11. CASE Running /\ ~Tabling
  BY <1>3, <1>11, TableStays
<1>12. QED
  BY <1>2, <1>4, <1>5, <1>6, <1>7, <1>8, <1>9, <1>10, <1>11 DEF Tabling

\* A variable about to get a value is so until it gets it: the queue was empty when
\* the literal was pushed.
LEMMA TakingStays ==
  ASSUME IInv3, [Next]_vars, NEW v \in Vars, value[v] = UNASSIGNED,
         value'[v] = UNASSIGNED, Taking(v)
  PROVE  Taking(v)'
<1>1. TypeInv /\ QueueInv /\ IsRing(queue)
  BY DEF IInv3, IInv2, IInv, BcpInv, TypeInv
<1>2. /\ pc \in {"start", "bcp"}
      /\ pc = "bcp" => Contents(queue) # <<>> /\ v = Var(Contents(queue)[1].lit)
  BY DEF Taking
<1>3. pc = "bcp" => ~is_q_empty(queue) /\ v = Var(Front(queue).lit)
  <2>1. SUFFICES ASSUME pc = "bcp" PROVE ~is_q_empty(queue) /\ v = Var(Front(queue).lit)
    OBVIOUS
  <2>2. ~is_q_empty(queue)
    BY <1>1, <1>2, <2>1, ContentsFacts
  <2>3. Front(queue) = Head(Contents(queue))
    BY <1>1, <2>2, RingPop
  <2>4. QED
    BY <1>2, <2>1, <2>2, <2>3
<1>4. CASE UNCHANGED <<pc, cur, assigned_literals, queue>>
  BY <1>4 DEF Taking
<1>5. CASE BcpStart
  <2>1. pc = "start" /\ pc' = "bcp" /\ queue' = push(queue, cur) /\ assigned_literals' = <<>>
    BY <1>5 DEF BcpStart
  <2>2. v = Var(cur.lit)
    BY <2>1 DEF Taking
  <2>3. Contents(queue) = <<>> /\ is_q_empty(queue)
    BY <1>1, <2>1, ContentsFacts DEF QueueInv
  <2>4. ~is_full(queue)
    BY <2>3, QueueAssumption DEF is_q_empty, is_full
  <2>5. Contents(queue') = Append(<<>>, cur)
    BY <1>1, <2>1, <2>3, <2>4, RingPush
  <2>6. Contents(queue') # <<>> /\ Contents(queue')[1] = cur
    BY <2>5
  <2>7. QED
    BY <2>1, <2>2, <2>6 DEF Taking, Var
<1>6. CASE BcpAssign
  <2>1. PICK l : l = Front(queue).lit /\ value' = [value EXCEPT ![Var(l)] = IF l > 0 THEN 1 ELSE 0]
    BY <1>6 DEF BcpAssign, assign
  <2>2. value'[v] \in {0, 1}
    BY <1>1, <1>3, <1>6, <2>1 DEF BcpAssign, TypeInv
  <2>3. QED
    BY <2>2 DEF UNASSIGNED
<1>7. CASE BcpSkip
  BY <1>3, <1>7 DEF BcpSkip, IsUnassigned
<1>8. CASE BcpDone
  BY <1>3, <1>8 DEF BcpDone
<1>9. CASE termination_handler
  BY <1>4, <1>9 DEF termination_handler, bcp
<1>10. CASE UNCHANGED vars
  BY <1>4, <1>10 DEF vars, bcp
<1>11. QED
  <2>1. ~Resolving
    BY <1>2, ResolvingFacts
  <2>2. QED
    BY <1>2, <1>5, <1>6, <1>7, <1>8, <1>9, <1>10, <2>1
    DEF Next, Step, Begin, Search, Propagate, Analyze, InitTable, InitWatched,
        InitEmptyClause, InitDone, PlpAssign, PlpSkip, PlpDone, decide, SaySat,
        VisitOther, VisitMove, VisitUnit, VisitConflict, SayUnsat, VisitDone, ConflictOn,
        Visiting, Resolving, get_backtracking_level, cancel, CancelLevel,
        add_learnt_clause, Cancelled, update_scores, UpdateDone, decaying_sum, LearntDone,
        PrintLit, Finish

\* The table goes on covering the variables.
LEMMA CoverStep ==
  ASSUME IInv3, TreeInv, CoverInv, ScoreInv, [Next]_vars
  PROVE  CoverInv'
<1>1. Covering
  BY Covers
<1>2. F' = F
  BY FormulaStays
<1>3. SUFFICES ASSUME table' # Broken, NEW v \in Vars, value'[v] = UNASSIGNED, Occurs(v)',
                      ~Taking(v)', ~Due(v)'
               PROVE  Offers(table', v)
  BY DEF CoverInv, Offers, Els
<1>4. Occurs(v)
  BY <1>2, <1>3 DEF Occurs, OccursIn
<1>5. /\ table # Broken
      /\ Offers(table, v) => Offers(table', v)
      /\ \/ value[v] = UNASSIGNED
         \/ /\ pc = "backtrack" /\ pc' = "backtrack" /\ size' = size
            /\ score[v] > 0 \/ score[-v] > 0 => Offers(table', v)
      /\ ~Due(v) \/ Offers(table', v)
  BY <1>1, <1>3 DEF Covering
<1>6. CASE value[v] = UNASSIGNED
  <2>1. ~Taking(v)
    BY <1>3, <1>6, TakingStays
  <2>2. QED
    BY <1>3, <1>4, <1>5, <1>6, <2>1 DEF CoverInv
<1>7. CASE value[v] # UNASSIGNED
  <2>1. pc' = "backtrack" /\ size' = size /\ (score[v] > 0 \/ score[-v] > 0 => Offers(table', v))
    BY <1>5, <1>7
  <2>2. size \in 0..NLEARNT_CLAUSES /\ size # NLEARNT_CLAUSES
    BY <1>3, <2>1 DEF Due, IInv3, IInv2, MoreTypes, NumberTypes
  <2>3. size < NLEARNT_CLAUSES
    BY <2>2, Bounds1Assumption
  <2>4. QED
    BY <1>4, <2>1, <2>3 DEF ScoreInv
<1>8. QED
  BY <1>6, <1>7

\* Scores go up until the learnt clauses are full.
LEMMA ScoreStep ==
  ASSUME IInv3, ScoreInv, [Next]_vars
  PROVE  ScoreInv'
<1>1. /\ F' = F /\ size \in 0..NLEARNT_CLAUSES /\ NLEARNT_CLAUSES \in Nat
      /\ \A v : Occurs(v)' <=> Occurs(v)
  BY FormulaStays, Bounds1Assumption DEF IInv3, IInv2, MoreTypes, NumberTypes, Occurs, OccursIn
<1>2. CASE Scoring
  <2>1. pc \in {"scores", "decay"} /\ size' = size
    BY <1>2 DEF Scoring, update_scores, UpdateDone, decaying_sum, conflict
  <2>2. QED
    BY <1>1, <2>1 DEF ScoreInv
<1>3. CASE add_learnt_clause
  <2>1. /\ score' = score /\ pc' \in {"scores", "learnt"}
        /\ IF size < NLEARNT_CLAUSES THEN size' = size + 1 /\ pc' = "learnt" ELSE size' = size
    BY <1>3 DEF add_learnt_clause, heap
  <2>2. QED
    BY <1>1, <2>1 DEF ScoreInv
<1>4. CASE ~Scoring /\ ~add_learnt_clause
  <2>1. score' = score
    BY <1>4, ScoresStay
  <2>2. size' = size /\ (pc' \in {"scores", "decay"} => pc' = pc)
    <3>1. CASE Resolving
      BY <3>1, ResolvingFacts
    <3>2. CASE ~Resolving
      BY <1>4, <3>2
      DEF Scoring, Next, Step, Begin, Search, Propagate, Analyze, InitTable, InitWatched,
          InitEmptyClause, InitDone, PlpAssign, PlpSkip, PlpDone, decide, SaySat, BcpStart,
          BcpAssign, BcpSkip, BcpDone, VisitOther, VisitMove, VisitUnit, VisitConflict,
          SayUnsat, VisitDone, ConflictOn, Visiting, Resolving, get_backtracking_level,
          cancel, CancelLevel, Cancelled, LearntDone, PrintLit, Finish,
          termination_handler, vars, conflict
    <3>3. QED
      BY <3>1, <3>2
  <2>3. QED
    BY <1>1, <2>1, <2>2 DEF ScoreInv
<1>5. QED
  BY <1>2, <1>3, <1>4

\* A literal of the formula has a score at the start.
LEMMA InitScoreInv == ASSUME Init PROVE ScoreInv
<1>1. ASSUME NEW l \in Lits, OccursIn(l) PROVE score[l] > 0
  <2>1. PICK c \in DOMAIN F : \E p \in DOMAIN F[c] : F[c][p] = l
    BY <1>1 DEF OccursIn
  <2>2. PICK p \in DOMAIN F[c] : F[c][p] = l
    BY <2>1
  <2> DEFINE S == {x \in Positions(F) : F[x[1]][x[2]] = l}
  <2>3. <<c, p>> \in S
    BY <2>2 DEF Positions
  <2>4. IsFiniteSet(S)
    BY FinitePositions, FS_Subset
  <2>5. Cardinality(S) \in Nat /\ Cardinality(S) # 0
    BY <2>3, <2>4, FS_CardinalityType, FS_EmptySet
  <2>6. score[l] = Cardinality(S) * Unit
    BY DEF Init, Occurrences
  <2> HIDE DEF S
  <2>7. \A n \in Nat : n # 0 => n * Unit > 0
    BY Bounds1Assumption
  <2>8. QED
    BY <2>5, <2>6, <2>7
<1>2. ASSUME NEW v \in Vars, Occurs(v) PROVE score[v] > 0 \/ score[-v] > 0
  BY <1>1, <1>2, LitFacts DEF Occurs
<1>3. QED
  BY <1>2 DEF Init, ScoreInv

\* The program starts with an empty table and all variables to come.
LEMMA InitTreeInv == ASSUME Init PROVE TreeInv /\ CoverInv
<1>1. table = NULL /\ pc = "table" /\ pos = 1 /\ Running
  BY DEF Init, Running
<1>2. 1 \in Vars /\ \A v \in Vars : v >= 1
  BY NAssumption DEF Vars
<1>3. NULL # Broken
  BY DEF NULL, Broken
<1>4. QED
  BY <1>1, <1>2, <1>3, TablesFacts DEF TreeInv, CoverInv, Due

\* The table is a tree in order, for as long as the program runs: whatever is put in,
\* taken out, rotated and scored.
THEOREM TreeKept == Spec => []TreeInv
<1>1. IInv3 /\ TreeInv /\ [Next]_vars => TreeInv'
  BY Covers DEF Covering
<1>2. QED
  BY Analysed, InitTreeInv, <1>1, PTL DEF Spec

\* The table misses no variable to decide, however often literals went in and out and
\* scores were halved, down to zero.
THEOREM TableRight == Spec => []TableInv
<1>1. Init => CoverInv /\ ScoreInv
  BY InitTreeInv, InitScoreInv
<1>2. IInv3 /\ TreeInv /\ CoverInv /\ ScoreInv /\ [Next]_vars => CoverInv' /\ ScoreInv'
  BY CoverStep, ScoreStep
<1>3. TreeInv /\ CoverInv => TableInv
  <2>1. SUFFICES ASSUME TreeInv, CoverInv PROVE TableInv
    OBVIOUS
  <2>2. Ordered(table)
    BY <2>1 DEF TreeInv, Tables
  <2>3. ASSUME pc = "decide", NEW v \in Vars, value[v] = UNASSIGNED,
               OccursIn(v) \/ OccursIn(-v)
        PROVE  \E i \in DOMAIN Entries(table) : Var(Entries(table)[i].literal) = v
    <3>1. table # Broken /\ ~Taking(v) /\ ~Due(v)
      BY <2>1, <2>3 DEF TreeInv, Taking, Due
    <3>2. Offers(table, v)
      BY <2>1, <2>3, <3>1 DEF CoverInv, Occurs
    <3>3. QED
      BY <3>2 DEF Offers, Els
  <2>4. QED
    BY <2>2, <2>3 DEF TableInv, Ordered
<1>4. QED
  BY Analysed, TreeKept, <1>1, <1>2, <1>3, PTL DEF Spec

\* SAT is printed for satisfiable formulas only, whatever is learnt and forgotten.
THEOREM SatTrusted == Spec => []SatRight
<1>1. Init => AllValued
  BY DEF Init, AllValued
<1>2. IInv /\ TableInv /\ AllValued /\ [Next]_vars => AllValued'
  BY AllValuedStep
<1>3. IInv /\ AllValued => SatRight
  BY ValuedIsModel DEF SatRight, Satisfiable
<1>4. QED
  BY Invariance, TableRight, <1>1, <1>2, <1>3, PTL DEF Spec
-----------------------------------------------------------------------------
(***************************************************************************)
(* What is printed, and the promise of SatSolver about SAT                 *)
(***************************************************************************)
Answering == SaySat \/ SayUnsat \/ PrintLit \/ Finish \/ termination_handler

\* Whatever else happens the output stays; the program may crash.
LEMMA AnswerStays ==
  ASSUME [Next]_vars, ~Answering
  PROVE  /\ UNCHANGED <<F, out, said>>
         /\ \/ status' = status
            \/ status = "running" /\ status' \in {"error", "crashed"}
<1>1. CASE Begin
  BY <1>1 DEF Begin, InitTable, InitWatched, InitEmptyClause, InitDone, Running, CrashIf, output
<1>2. CASE Search
  BY <1>2 DEF Search, PlpAssign, PlpSkip, PlpDone, decide, Running, output, Answering
<1>3. CASE Propagate
  BY <1>3, Zenon DEF Propagate, BcpStart, BcpAssign, BcpSkip, BcpDone, VisitOther, VisitMove,
                     VisitUnit, VisitConflict, VisitDone, output, Answering
<1>4. CASE Resolving
  BY <1>4, ResolvingFacts DEF output
<1>5. CASE \/ get_backtracking_level \/ cancel \/ CancelLevel \/ add_learnt_clause
           \/ update_scores \/ UpdateDone \/ decaying_sum \/ LearntDone
  BY <1>5 DEF get_backtracking_level, cancel, CancelLevel, add_learnt_clause, Cancelled,
              update_scores, UpdateDone, decaying_sum, LearntDone, Running, CrashIf, output
<1>6. CASE UNCHANGED vars
  BY <1>6, Zenon DEF vars, output
<1>7. QED
  BY <1>1, <1>2, <1>3, <1>4, <1>5, <1>6 DEF Next, Step, Analyze, Resolving, Answering

\* After the answer the values stay.
LEMMA ReportStays ==
  ASSUME [Next]_vars, pc = "report"
  PROVE  UNCHANGED <<pc, value, said>>
<1>1. ~Resolving
  BY ResolvingFacts
<1>2. QED
  BY <1>1
  DEF Next, Step, Begin, Search, Propagate, Analyze, InitTable, InitWatched,
      InitEmptyClause, InitDone, PlpAssign, PlpSkip, PlpDone, decide, SaySat, BcpStart,
      BcpAssign, BcpSkip, BcpDone, VisitOther, VisitMove, VisitUnit, VisitConflict,
      SayUnsat, VisitDone, ConflictOn, Visiting, Resolving, get_backtracking_level,
      cancel, CancelLevel, add_learnt_clause, Cancelled, update_scores, UpdateDone,
      decaying_sum, LearntDone, PrintLit, Finish, termination_handler, vars, assigned,
      output

\* A literal, printed with "%u" and read as an int, is itself.
LEMMA SignedLtoa ==
  ASSUME NEW l \in Lits
  PROVE  Signed(ltoa(l)) = l
<1> DEFINE H == Word \div 2
<1>1. /\ l \in Int /\ -N <= l /\ l <= N /\ l # 0 /\ N \in Nat
      /\ Word \in Nat \ {0} /\ N < H
  BY NAssumption, Bounds1Assumption DEF Lits
<1>2. H \in Int /\ 2 * H <= Word
  BY <1>1
<1>3. Signed(l % Word) = IF l % Word < H THEN l % Word ELSE (l % Word) - Word
  BY DEF Signed
<1> HIDE DEF H
<1>4. -H < l /\ l < H /\ H < Word /\ -Word < l /\ l < Word /\ Word \in Int
  BY <1>1, <1>2
<1>5. CASE l > 0
  <2>1. l % Word = l
    <3>1. 0 <= l
      BY <1>1, <1>5
    <3>2. QED
      BY <1>1, <1>4, <3>1, ModFacts
  <2>2. QED
    BY <1>3, <1>4, <2>1 DEF ltoa
<1>6. CASE l < 0
  <2>1. l % Word = l + Word
    <3>1. -Word <= l
      BY <1>1, <1>4
    <3>2. QED
      BY <1>1, <1>6, <3>1, ModFacts
  <2>2. ~(l + Word < H) /\ (l + Word) - Word = l
    BY <1>1, <1>2, <1>4
  <2>3. QED
    BY <1>3, <2>1, <2>2 DEF ltoa
<1>7. QED
  BY <1>1, <1>5, <1>6

\* The numbers printed so far are the literals the values make true.
LitOf(v) == IF value[v] = 1 THEN v ELSE -v
AsInts == [v \in DOMAIN out |-> Signed(out[v])]

OutInv ==
  /\ out # <<>> => said = "SAT"
  /\ Len(out) <= N
  /\ \A v \in DOMAIN out : Signed(out[v]) = LitOf(v)

\* What a step of the report prints.
LEMMA PrintStep ==
  ASSUME IInv2, OutInv, PrintLit
  PROVE  /\ Len(out) + 1 \in Vars /\ LitOf(Len(out) + 1) \in Lits
         /\ Len(out') = Len(out) + 1
         /\ AsInts' = Append(AsInts, LitOf(Len(out) + 1))
         /\ UNCHANGED <<F, pc, value, said, status>>
         /\ status = "running" /\ said = "SAT" /\ Len(out) < N
<1> DEFINE v == Len(out) + 1
           x == ltoa(LitOf(v))
<1>1. /\ UNCHANGED <<F, pc, value, said, status>> /\ out' = Append(out, x)
      /\ status = "running" /\ said = "SAT" /\ Len(out) < N
  BY DEF PrintLit, Running, assigned, LitOf
<1>2. out \in Seq(0..(Word - 1)) /\ N \in Nat
  BY NAssumption DEF IInv2, MoreTypes, NumberTypes
<1>3. Len(out) \in Nat /\ v \in Vars
  BY <1>1, <1>2 DEF Vars
<1>4. LitOf(v) \in Lits
  BY <1>3, LitFacts, NAssumption DEF LitOf, Lits, Vars
<1>5. Signed(x) = LitOf(v)
  BY <1>4, SignedLtoa
<1> HIDE DEF x
<1>6. DOMAIN out = 1..Len(out) /\ DOMAIN out' = 1..v /\ Len(out') = v /\ out'[v] = x
      /\ \A i \in 1..Len(out) : out'[i] = out[i]
  BY <1>1, <1>2, <1>3
<1>7. AsInts' = Append(AsInts, LitOf(v))
  <2>1. AsInts' = [i \in 1..v |-> Signed(out'[i])]
    BY <1>6 DEF AsInts, Signed
  <2>2. AsInts = [i \in 1..Len(out) |-> Signed(out[i])] /\ Len(AsInts) = Len(out)
    BY <1>3, <1>6 DEF AsInts
  <2>3. QED
    BY <1>3, <1>5, <1>6, <2>1, <2>2
<1>8. QED
  BY <1>1, <1>3, <1>4, <1>6, <1>7

LEMMA OutInvStep ==
  ASSUME IInv2, OutInv, [Next]_vars
  PROVE  OutInv'
<1>1. CASE PrintLit
  <2>1. /\ Len(out) + 1 \in Vars /\ Len(out') = Len(out) + 1 /\ Len(out) < N
        /\ AsInts' = Append(AsInts, LitOf(Len(out) + 1))
        /\ UNCHANGED <<value, said>> /\ said = "SAT"
    BY <1>1, PrintStep
  <2>2. out \in Seq(0..(Word - 1)) /\ N \in Nat
    BY NAssumption DEF IInv2, MoreTypes, NumberTypes
  <2>3. out' = Append(out, ltoa(LitOf(Len(out) + 1)))
    BY <1>1 DEF PrintLit, LitOf
  <2>4. DOMAIN out = 1..Len(out) /\ DOMAIN out' = 1..(Len(out) + 1) /\ Len(out) \in Nat
    BY <2>2, <2>3
  <2>5. ASSUME NEW v \in DOMAIN out' PROVE Signed(out'[v]) = LitOf(v)
    <3>1. Signed(out'[v]) = AsInts'[v]
      BY DEF AsInts, Signed
    <3>2. Len(AsInts) = Len(out) /\ DOMAIN AsInts = 1..Len(out)
      BY <2>4 DEF AsInts
    <3>3. CASE v = Len(out) + 1
      <4>1. Append(AsInts, LitOf(Len(out) + 1))[v] = LitOf(Len(out) + 1)
        BY <2>4, <3>2, <3>3
      <4>2. QED
        BY <2>1, <3>1, <3>3, <4>1
    <3>4. CASE v # Len(out) + 1
      <4>1. v \in DOMAIN out
        BY <2>4, <3>4
      <4>2. Append(AsInts, LitOf(Len(out) + 1))[v] = AsInts[v]
        BY <2>4, <3>2, <4>1
      <4>3. AsInts[v] = LitOf(v)
        BY <4>1 DEF AsInts, OutInv
      <4>4. QED
        BY <2>1, <3>1, <4>2, <4>3
    <3>5. QED
      BY <3>3, <3>4
  <2>6. Len(out') <= N
    BY <2>1, <2>2, <2>4
  <2>7. \A v \in DOMAIN out' : LitOf(v)' = LitOf(v)
    BY <2>1 DEF LitOf
  <2>8. QED
    BY <2>1, <2>5, <2>6, <2>7 DEF OutInv, Signed, LitOf
<1>2. CASE ~PrintLit
  <2>1. out' = out
    <3>1. CASE SaySat \/ SayUnsat
      BY <3>1 DEF SaySat, SayUnsat
    <3>2. CASE Finish \/ termination_handler
      BY <3>2 DEF Finish, termination_handler, output
    <3>3. QED
      BY <1>2, <3>1, <3>2, AnswerStays DEF Answering
  <2>2. CASE out = <<>>
    BY <2>1, <2>2 DEF OutInv
  <2>3. CASE out # <<>>
    <3>1. said = "SAT" /\ pc = "report"
      BY <2>3 DEF OutInv, IInv2, IInv, CursorInv
    <3>2. UNCHANGED <<value, said>>
      BY <3>1, ReportStays
    <3>3. QED
      BY <2>1, <3>1, <3>2 DEF OutInv, Signed, LitOf
  <2>4. QED
    BY <2>2, <2>3
<1>3. QED
  BY <1>1, <1>2

\* SatSolver has its own copy of the definitions of Cnf: they are the same.
LEMMA SameCnf ==
  /\ Promise!Assignments = Assignments
  /\ \A tau, l : Promise!LitTrue(tau, l) <=> LitTrue(tau, l)
  /\ \A tau, f : Promise!Satisfies(tau, f) <=> Satisfies(tau, f)
  /\ \A f : Promise!Satisfiable(f) <=> Satisfiable(f)
<1>1. Promise!Assignments = Assignments
  BY DEF Promise!Assignments, Promise!Vars, Assignments, Vars
<1>2. \A tau, l : Promise!LitTrue(tau, l) <=> LitTrue(tau, l)
  BY DEF Promise!LitTrue, LitTrue
<1>3. \A tau, f : Promise!Satisfies(tau, f) <=> Satisfies(tau, f)
  BY <1>2 DEF Promise!Satisfies, Satisfies, Promise!HasTrue, HasTrue
<1>4. \A f : Promise!Satisfiable(f) <=> Satisfiable(f)
  BY <1>1, <1>3 DEF Promise!Satisfiable, Satisfiable
<1>5. QED
  BY <1>1, <1>2, <1>3, <1>4

\* What has been printed is the beginning of a model.
Printed == said = "SAT" => Satisfiable(F) /\ Promise!IsModelPrefix(AsInts, F)

\* What has been printed is the beginning of a model.
LEMMA PrintedRight ==
  ASSUME IInv2, AllValued, OutInv
  PROVE  Printed
<1> SUFFICES ASSUME said = "SAT"
             PROVE  Satisfiable(F) /\ Promise!IsModelPrefix(AsInts, F)
  BY DEF Printed
<1>1. Meant \in Assignments /\ Satisfies(Meant, F)
  BY ValuedIsModel DEF IInv2
<1>2. ASSUME NEW v \in DOMAIN AsInts
      PROVE  LitTrue(Meant, v) <=> AsInts[v] > 0
  <2>1. v \in DOMAIN out /\ AsInts[v] = LitOf(v)
    BY DEF AsInts, OutInv
  <2>2. v \in Vars /\ v \in Int /\ v > 0
    <3>1. out \in Seq(0..(Word - 1)) /\ N \in Nat /\ Len(out) <= N
      BY NAssumption DEF IInv2, MoreTypes, NumberTypes, OutInv
    <3>2. Len(out) \in Nat /\ DOMAIN out = 1..Len(out)
      BY <3>1
    <3>3. QED
      BY <2>1, <3>1, <3>2 DEF Vars
  <2>3. LitTrue(Meant, v) <=> value[v] = 1
    BY <2>2 DEF LitTrue, Meant
  <2>4. QED
    BY <2>1, <2>2, <2>3 DEF LitOf
<1>3. Promise!AgreesWith(AsInts, Meant)
  BY <1>2, SameCnf DEF Promise!AgreesWith
<1>4. QED
  BY <1>1, <1>3, SameCnf DEF Promise!IsModelPrefix, Satisfiable

\* Each step is one of SatSolver, or leaves its variables alone.
LEMMA PromiseStep ==
  ASSUME IInv2, OutInv, Printed, Printed', [Next]_vars
  PROVE  [Promise!Next]_(Promise!vars)
<1> DEFINE Stat == IF status \in {"error", "crashed"} THEN "signalled" ELSE status
<1>1. CASE UNCHANGED <<F, out, said, status>>
  <2>1. Promise!vars' = Promise!vars
    BY <1>1 DEF Promise!vars, Signed
  <2>2. QED
    BY <2>1
<1>2. CASE /\ UNCHANGED <<F, out, said>> /\ status = "running"
           /\ status' \in {"error", "crashed", "signalled"}
  BY <1>2 DEF Promise!Stop, Promise!Next, Signed
<1>3. CASE SaySat
  <2>1. /\ said = "none" /\ said' = "SAT" /\ status = "running"
        /\ UNCHANGED <<F, out, status>>
    BY <1>3 DEF SaySat, Running, IInv2, IInv, CursorInv
  <2>2. Satisfiable(F)
    BY <2>1 DEF Printed
  <2>3. QED
    BY <2>1, <2>2, SameCnf DEF Promise!SaySat, Promise!Next, Signed
<1>4. CASE SayUnsat
  <2>1. /\ said = "none" /\ said' = "UNSAT" /\ status = "running"
        /\ UNCHANGED <<F, out, status>>
    BY <1>4 DEF SayUnsat, ConflictOn, Visiting, Running, IInv2, IInv, CursorInv
  <2>2. QED
    BY <2>1 DEF Promise!SayUnsat, Promise!Next, Signed
<1>5. CASE PrintLit
  <2>1. /\ Len(out) + 1 \in Vars /\ LitOf(Len(out) + 1) \in Lits
        /\ AsInts' = Append(AsInts, LitOf(Len(out) + 1))
        /\ UNCHANGED <<F, said, status>>
        /\ status = "running" /\ said = "SAT" /\ Len(out) < N
    BY <1>5, PrintStep
  <2>2. LitOf(Len(out) + 1) \in Promise!Printable
    <3>1. \A l \in Lits : l \in -(128 * N)..(127 * N)
      BY NAssumption DEF Lits
    <3>2. QED
      BY <2>1, <3>1 DEF Promise!Printable
  <2>3. Promise!IsModelPrefix(AsInts', F)
    <3>1. F' = F /\ said' = "SAT"
      BY <2>1
    <3>2. Promise!IsModelPrefix(AsInts, F)'
      BY <3>1 DEF Printed
    <3>3. QED
      BY <3>1, <3>2 DEF Promise!IsModelPrefix, Promise!Assignments, Promise!Satisfies,
                        Promise!AgreesWith
  <2>4. Len(AsInts) < N
    <3>1. out \in Seq(0..(Word - 1))
      BY DEF IInv2, MoreTypes, NumberTypes
    <3>2. Len(AsInts) = Len(out)
      BY <3>1 DEF AsInts
    <3>3. QED
      BY <2>1, <3>2
  <2>5. Promise!PrintLit
    BY <2>1, <2>2, <2>3, <2>4 DEF Promise!PrintLit, AsInts
  <2>6. QED
    BY <2>5 DEF Promise!Next
<1>6. CASE Finish
  <2>1. /\ said = "UNSAT" \/ Len(out) = N
        /\ said \in {"SAT", "UNSAT"} /\ status = "running" /\ status' = "finished"
        /\ UNCHANGED <<F, out, said>>
    BY <1>6 DEF Finish, Running, output, IInv2, IInv, CursorInv, TypeInv
  <2>2. Len(AsInts) = Len(out)
    <3>1. out \in Seq(0..(Word - 1))
      BY DEF IInv2, MoreTypes, NumberTypes
    <3>2. QED
      BY <3>1 DEF AsInts
  <2>3. Promise!Finish
    BY <2>1, <2>2 DEF Promise!Finish, AsInts, Signed
  <2>4. QED
    BY <2>3 DEF Promise!Next
<1>7. CASE termination_handler
  BY <1>2, <1>7 DEF termination_handler, Running, output
<1>8. QED
  BY <1>1, <1>2, <1>3, <1>4, <1>5, <1>6, <1>7, AnswerStays DEF Answering

\* Every behaviour of solver1, seen through the formula, the answer and the numbers
\* printed, is one that the promise about SAT allows: a model is printed, and the reader
\* of "%u" finds its negative literals.
THEOREM Refinement == Spec => PromiseKept
<1>1. Init => AllValued /\ OutInv
  BY NAssumption DEF Init, AllValued, OutInv
<1>2. IInv2 /\ TableInv /\ AllValued /\ OutInv /\ [Next]_vars => AllValued' /\ OutInv'
  BY AllValuedStep, OutInvStep DEF IInv2
<1>3. IInv2 /\ AllValued /\ OutInv => Printed
  BY PrintedRight
<1>4. IInv2 /\ OutInv /\ Printed /\ Printed' /\ [Next]_vars => [Promise!Next]_(Promise!vars)
  BY PromiseStep
<1>5. Init => Promise!Init
  BY DEF Init, Promise!Init
<1>6. QED
  BY Typed, TableRight, <1>1, <1>2, <1>3, <1>4, <1>5, PTL DEF Spec, PromiseKept, Promise!Spec
=============================================================================
