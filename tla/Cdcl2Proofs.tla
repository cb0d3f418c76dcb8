---------------------------- MODULE Cdcl2Proofs ----------------------------
(***************************************************************************)
(* Proofs about solver2, for every set of formulas.                        *)
(***************************************************************************)
EXTENDS Cdcl2, CnfProofs, FiniteSetTheorems

-----------------------------------------------------------------------------
(***************************************************************************)
(* Literals and values                                                     *)
(***************************************************************************)
LEMMA LitFacts ==
  /\ \A l \in Lits : l \in Int /\ l # 0 /\ Abs(l) \in Vars /\ -l \in Lits /\ Abs(-l) = Abs(l)
  /\ \A l, k \in Lits : Abs(l) = Abs(k) => l = k \/ l = -k
  /\ \A v \in Vars : v \in Lits /\ -v \in Lits /\ Abs(v) = v /\ Abs(-v) = v
BY NAssumption DEF Lits, Vars, Abs

\* The value of a literal under the assignment a.
Val(a, l) == CASE a[Abs(l)] = unassigned -> unassigned
               [] l > 0 -> a[Abs(l)]
               [] OTHER -> 1 - a[Abs(l)]

LEMMA ValueIsVal ==
  \A l : value(l) = Val(assignments, l) /\ value(l)' = Val(assignments', l)
BY DEF value, Val

LEMMA ValFacts ==
  ASSUME NEW a \in [Vars -> 0..unassigned], NEW l \in Lits
  PROVE  /\ Val(a, l) \in {0, 1, unassigned} /\ unassigned = 2
         /\ Val(a, l) = unassigned <=> a[Abs(l)] = unassigned
         /\ Val(a, l) = 0 <=> Val(a, -l) = 1
         /\ Val(a, l) = 1 <=> Val(a, -l) = 0
<1>1. l \in Int /\ l # 0 /\ Abs(l) \in Vars /\ Abs(-l) = Abs(l)
  BY LitFacts
<1>2. a[Abs(l)] \in {0, 1, 2}
  BY <1>1 DEF unassigned
<1>3. QED
  BY <1>1, <1>2 DEF Val, unassigned

\* Two literals of one variable that are both false are the same.
LEMMA SameSign ==
  ASSUME NEW a \in [Vars -> 0..unassigned], NEW l \in Lits, NEW k \in Lits, Abs(l) = Abs(k)
  PROVE  /\ Val(a, l) = 1 /\ Val(a, k) = 1 => l = k
         /\ Val(a, l) = 0 /\ Val(a, k) = 0 => l = k
         /\ Val(a, l) = 1 /\ Val(a, k) = 0 => l = -k
<1>1. l = k \/ l = -k
  BY LitFacts
<1>2. QED
  BY <1>1, ValFacts

-----------------------------------------------------------------------------
(***************************************************************************)
(* The trail                                                               *)
(***************************************************************************)
\* The assignment a, the levels lv and the reasons rs are those of the literals
\* of the trail t; lim says where the levels begin on it.
TrailOK(a, lv, rs, t, lim) ==
  /\ a \in [Vars -> 0..unassigned] /\ lv \in [Vars -> Int] /\ rs \in [Vars -> Nat]
  /\ t \in Seq(Lits) /\ lim \in Seq(Nat)
  /\ \A v \in Vars : a[v] = unassigned => lv[v] = -1 /\ rs[v] = NULL
  /\ \A v \in Vars : a[v] # unassigned => \E k \in 1..Len(t) : Abs(t[k]) = v
  /\ \A k \in 1..Len(t) : Val(a, t[k]) = 1
  /\ \A j, k \in 1..Len(t) : Abs(t[j]) = Abs(t[k]) => j = k
  /\ \A k \in 1..Len(t) : lv[Abs(t[k])] \in 0..Len(lim)
  /\ \A k \in 1..Len(t), d \in 1..Len(lim) : lim[d] < k <=> d <= lv[Abs(t[k])]
  /\ \A d \in 1..Len(lim) : lim[d] <= Len(t) /\ lim[d] < N
  /\ \A d, e \in 1..Len(lim) : d < e => lim[d] < lim[e]

LEMMA TrailLit ==
  ASSUME NEW a, NEW lv, NEW rs, NEW t, NEW lim, TrailOK(a, lv, rs, t, lim)
  PROVE  /\ \A k \in 1..Len(t) : t[k] \in Lits /\ Abs(t[k]) \in Vars /\ a[Abs(t[k])] # unassigned
         /\ \A l \in Lits : Val(a, l) = 0 <=> \E k \in 1..Len(t) : t[k] = -l
         /\ \A l \in Lits : Val(a, l) = 1 <=> \E k \in 1..Len(t) : t[k] = l
<1>1. /\ t \in Seq(Lits) /\ a \in [Vars -> 0..unassigned]
      /\ \A k \in 1..Len(t) : Val(a, t[k]) = 1
      /\ \A v \in Vars : a[v] # unassigned => \E k \in 1..Len(t) : Abs(t[k]) = v
  BY DEF TrailOK
<1>2. ASSUME NEW k \in 1..Len(t)
      PROVE  t[k] \in Lits /\ Abs(t[k]) \in Vars /\ a[Abs(t[k])] # unassigned
  <2>1. t[k] \in Lits /\ Abs(t[k]) \in Vars
    BY <1>1, LitFacts
  <2>2. Val(a, t[k]) # unassigned
    BY <1>1 DEF unassigned
  <2>3. QED
    BY <1>1, <2>1, <2>2, ValFacts
<1>3. ASSUME NEW l \in Lits, Val(a, l) \in {0, 1}
      PROVE  \E k \in 1..Len(t) : t[k] = IF Val(a, l) = 1 THEN l ELSE -l
  <2>1. Abs(l) \in Vars /\ a[Abs(l)] # unassigned
    BY <1>1, <1>3, ValFacts, LitFacts
  <2>2. PICK k \in 1..Len(t) : Abs(t[k]) = Abs(l)
    BY <1>1, <2>1
  <2>3. t[k] \in Lits /\ Val(a, t[k]) = 1
    BY <1>1, <1>2
  <2>4. t[k] = IF Val(a, l) = 1 THEN l ELSE -l
    BY <1>1, <1>3, <2>2, <2>3, SameSign
  <2>5. QED
    BY <2>4
<1>4. ASSUME NEW l \in Lits, NEW k \in 1..Len(t)
      PROVE  /\ t[k] = -l => Val(a, l) = 0
             /\ t[k] = l => Val(a, l) = 1
  BY <1>1, <1>4, ValFacts
<1>5. QED
  BY <1>2, <1>3, <1>4

\* There are no more literals on the trail than variables.
LEMMA TrailLength ==
  ASSUME NEW a, NEW lv, NEW rs, NEW t, NEW lim, TrailOK(a, lv, rs, t, lim)
  PROVE  /\ Len(t) <= N /\ Len(lim) <= N
         /\ \A v \in Vars : a[v] = unassigned => Len(t) < N
<1> DEFINE n == Len(t)
           m == Len(lim)
<1>1. /\ n \in Nat /\ m \in Nat /\ N \in Nat
      /\ \A j, k \in 1..n : Abs(t[j]) = Abs(t[k]) => j = k
      /\ \A d \in 1..m : lim[d] \in 0..(N - 1)
      /\ \A d, e \in 1..m : d < e => lim[d] < lim[e]
      /\ \A k \in 1..n : Abs(t[k]) \in Vars /\ a[Abs(t[k])] # unassigned
  <2>1. \A k \in 1..n : Abs(t[k]) \in Vars /\ a[Abs(t[k])] # unassigned
    BY TrailLit
  <2>2. /\ \A j, k \in 1..n : Abs(t[j]) = Abs(t[k]) => j = k
        /\ \A d \in 1..m : lim[d] < N
        /\ \A d, e \in 1..m : d < e => lim[d] < lim[e]
        /\ t \in Seq(Lits) /\ lim \in Seq(Nat)
    BY DEF TrailOK
  <2>3. QED
    BY <2>1, <2>2, NAssumption
<1> HIDE DEF n, m
<1>2. ASSUME NEW x \in Nat, NEW T, IsFiniteSet(T), NEW f \in [1..x -> T],
             \A j, k \in 1..x : f[j] = f[k] => j = k
      PROVE  x <= Cardinality(T)
  <2>1. Cardinality(1..x) = x
    BY FS_Interval
  <2>2. Cardinality(1..x) <= Cardinality(T)
    BY <1>2, OneToOne
  <2>3. QED
    BY <2>1, <2>2
<1>3. IsFiniteSet(Vars) /\ Cardinality(Vars) = N
  BY <1>1, FS_Interval DEF Vars
<1>4. n <= N
  <2> DEFINE f == [k \in 1..n |-> Abs(t[k])]
  <2>1. f \in [1..n -> Vars] /\ \A j, k \in 1..n : f[j] = f[k] => j = k
    BY <1>1
  <2> HIDE DEF f
  <2>2. QED
    BY <1>1, <1>2, <1>3, <2>1
<1>5. m <= N
  <2> DEFINE f == [k \in 1..m |-> lim[k]]
  <2>1. f \in [1..m -> 0..(N - 1)] /\ \A j, k \in 1..m : f[j] = f[k] => j = k
    BY <1>1
  <2>2. IsFiniteSet(0..(N - 1)) /\ Cardinality(0..(N - 1)) = N
    BY <1>1, NAssumption, FS_Interval
  <2> HIDE DEF f
  <2>3. QED
    BY <1>1, <1>2, <2>1, <2>2
<1>6. ASSUME NEW v \in Vars, a[v] = unassigned
      PROVE  n < N
  <2> DEFINE f == [k \in 1..n |-> Abs(t[k])]
  <2>1. f \in [1..n -> Vars \ {v}] /\ \A j, k \in 1..n : f[j] = f[k] => j = k
    BY <1>1, <1>6
  <2>2. IsFiniteSet(Vars \ {v}) /\ Cardinality(Vars \ {v}) = N - 1
    BY <1>3, FS_RemoveElement
  <2> HIDE DEF f
  <2>3. n <= N - 1
    BY <1>1, <1>2, <2>1, <2>2
  <2>4. QED
    BY <1>1, <2>3
<1>7. QED
  BY <1>4, <1>5, <1>6 DEF n, m

\* Every reason in the trail is a clause of cl with the literal in front, whose
\* other literals became false before it.
ReasonOK(cl, rs, t) ==
  \A k \in 1..Len(t) :
    LET c == rs[Abs(t[k])] IN
      c # NULL => /\ c \in 1..Len(cl) /\ cl[c][1] = t[k]
                  /\ \A i \in 2..Len(cl[c]) : \E j \in 1..(k - 1) : t[j] = -cl[c][i]

\* One more literal at the end of the trail.
Push(l, from, a, lv, rs, t, lim, a1, lv1, rs1, t1) ==
  /\ l \in Lits /\ a[Abs(l)] = unassigned /\ from \in Nat
  /\ a1 = [a EXCEPT ![Abs(l)] = IF l > 0 THEN 1 ELSE 0]
  /\ lv1 = [lv EXCEPT ![Abs(l)] = Len(lim)]
  /\ rs1 = [rs EXCEPT ![Abs(l)] = from]
  /\ t1 = Append(t, l)

LEMMA Pushed ==
  ASSUME NEW a, NEW lv, NEW rs, NEW t, NEW lim, TrailOK(a, lv, rs, t, lim),
         NEW l, NEW from, NEW a1, NEW lv1, NEW rs1, NEW t1,
         Push(l, from, a, lv, rs, t, lim, a1, lv1, rs1, t1)
  PROVE  /\ TrailOK(a1, lv1, rs1, t1, lim)
         /\ Val(a1, l) = 1 /\ Val(a1, -l) = 0
         /\ \A x \in Lits : Abs(x) # Abs(l) => Val(a1, x) = Val(a, x)
         /\ \A x \in Lits : Val(a, x) # unassigned => Val(a1, x) = Val(a, x)
         /\ \A k \in 1..Len(t) : rs1[Abs(t[k])] = rs[Abs(t[k])]
<1> DEFINE n == Len(t)
<1>0. /\ l \in Lits /\ a[Abs(l)] = unassigned /\ from \in Nat
      /\ a1 = [a EXCEPT ![Abs(l)] = IF l > 0 THEN 1 ELSE 0]
      /\ lv1 = [lv EXCEPT ![Abs(l)] = Len(lim)]
      /\ rs1 = [rs EXCEPT ![Abs(l)] = from]
      /\ t1 = Append(t, l)
  BY DEF Push
<1> USE <1>0
<1>1. Abs(l) \in Vars /\ l \in Int /\ l # 0
  BY LitFacts
<1>2. /\ a \in [Vars -> 0..unassigned] /\ lv \in [Vars -> Int] /\ rs \in [Vars -> Nat]
      /\ t \in Seq(Lits) /\ lim \in Seq(Nat) /\ n \in Nat
  BY DEF TrailOK
<1>3. /\ a1 \in [Vars -> 0..unassigned] /\ lv1 \in [Vars -> Int] /\ rs1 \in [Vars -> Nat]
      /\ t1 \in Seq(Lits) /\ Len(t1) = n + 1
      /\ t1[n + 1] = l /\ \A k \in 1..n : t1[k] = t[k]
  BY <1>1, <1>2 DEF unassigned
<1>4. ASSUME NEW x \in Lits, Abs(x) # Abs(l)
      PROVE  Val(a1, x) = Val(a, x)
  <2>1. Abs(x) \in Vars
    BY LitFacts
  <2>2. a1[Abs(x)] = a[Abs(x)]
    BY <1>1, <1>2, <1>4, <2>1
  <2>3. QED
    BY <2>2 DEF Val
<1>5. Val(a1, l) = 1
  <2>1. a1[Abs(l)] = IF l > 0 THEN 1 ELSE 0
    BY <1>1, <1>2
  <2>2. QED
    BY <1>1, <2>1 DEF Val, unassigned
<1>6. Val(a1, -l) = 0
  BY <1>3, <1>5, ValFacts
<1>7. \A x \in Lits : Val(a, x) # unassigned => Abs(x) # Abs(l)
  BY <1>2, ValFacts
<1>8. ASSUME NEW k \in 1..n
      PROVE  /\ t[k] \in Lits /\ Abs(t[k]) \in Vars /\ Abs(t[k]) # Abs(l)
             /\ a1[Abs(t[k])] = a[Abs(t[k])] /\ lv1[Abs(t[k])] = lv[Abs(t[k])]
             /\ rs1[Abs(t[k])] = rs[Abs(t[k])]
  <2>1. t[k] \in Lits /\ Abs(t[k]) \in Vars /\ a[Abs(t[k])] # unassigned
    BY TrailLit
  <2>2. QED
    BY <1>1, <1>2, <2>1
<1>9. TrailOK(a1, lv1, rs1, t1, lim)
  <2>1. ASSUME NEW v \in Vars, a1[v] = unassigned PROVE lv1[v] = -1 /\ rs1[v] = NULL
    <3>1. v # Abs(l) /\ a[v] = unassigned
      BY <1>1, <1>2, <2>1 DEF unassigned
    <3>2. QED
      BY <1>2, <3>1 DEF TrailOK
  <2>2. ASSUME NEW v \in Vars, a1[v] # unassigned
        PROVE  \E k \in 1..Len(t1) : Abs(t1[k]) = v
    <3>1. CASE v = Abs(l)
      <4>1. n + 1 \in 1..Len(t1) /\ Abs(t1[n + 1]) = v
        BY <1>2, <1>3, <3>1
      <4>2. QED
        BY <4>1
    <3>2. CASE v # Abs(l)
      <4>1. a[v] # unassigned
        BY <1>1, <1>2, <2>2, <3>2
      <4>2. PICK k \in 1..n : Abs(t[k]) = v
        BY <4>1 DEF TrailOK
      <4>3. k \in 1..Len(t1) /\ Abs(t1[k]) = v
        BY <1>2, <1>3, <4>2
      <4>4. QED
        BY <4>3
    <3>3. QED
      BY <3>1, <3>2
  <2>3. ASSUME NEW k \in 1..Len(t1) PROVE Val(a1, t1[k]) = 1
    <3>1. CASE k = n + 1
      BY <1>3, <1>5, <3>1
    <3>2. CASE k \in 1..n
      <4>1. Val(a, t[k]) = 1
        BY <3>2 DEF TrailOK
      <4>2. QED
        BY <1>3, <1>4, <1>8, <3>2, <4>1
    <3>3. QED
      BY <1>2, <1>3, <3>1, <3>2
  <2>4. ASSUME NEW j \in 1..Len(t1), NEW k \in 1..Len(t1), Abs(t1[j]) = Abs(t1[k])
        PROVE  j = k
    <3>1. \A i, m \in 1..n : Abs(t[i]) = Abs(t[m]) => i = m
      BY DEF TrailOK
    <3>2. QED
      BY <1>2, <1>3, <1>8, <2>4, <3>1
  <2>5. ASSUME NEW k \in 1..Len(t1)
        PROVE  /\ lv1[Abs(t1[k])] \in 0..Len(lim)
               /\ \A d \in 1..Len(lim) : lim[d] < k <=> d <= lv1[Abs(t1[k])]
    <3>1. CASE k = n + 1
      <4>1. lv1[Abs(t1[k])] = Len(lim)
        BY <1>1, <1>2, <1>3, <3>1
      <4>2. \A d \in 1..Len(lim) : lim[d] \in Nat /\ lim[d] <= n
        BY DEF TrailOK
      <4>3. QED
        BY <1>2, <3>1, <4>1, <4>2
    <3>2. CASE k \in 1..n
      <4>1. /\ lv[Abs(t[k])] \in 0..Len(lim)
            /\ \A d \in 1..Len(lim) : lim[d] < k <=> d <= lv[Abs(t[k])]
        BY <3>2 DEF TrailOK
      <4>2. QED
        BY <1>3, <1>8, <3>2, <4>1
    <3>3. QED
      BY <1>2, <1>3, <3>1, <3>2
  <2>6. \A d \in 1..Len(lim) : lim[d] <= Len(t1) /\ lim[d] < N
    <3>1. \A d \in 1..Len(lim) : lim[d] \in Nat /\ lim[d] <= n /\ lim[d] < N
      BY DEF TrailOK
    <3>2. QED
      BY <1>2, <1>3, <3>1
  <2>7. \A d, e \in 1..Len(lim) : d < e => lim[d] < lim[e]
    BY DEF TrailOK
  <2>8. QED
    BY <1>2, <1>3, <2>1, <2>2, <2>3, <2>4, <2>5, <2>6, <2>7 DEF TrailOK
<1>10. QED
  BY <1>4, <1>5, <1>6, <1>7, <1>8, <1>9

\* A new level begins at the end of the trail.
LEMMA Opened ==
  ASSUME NEW a, NEW lv, NEW rs, NEW t, NEW lim, TrailOK(a, lv, rs, t, lim),
         Len(t) < N, \A d \in 1..Len(lim) : lim[d] < Len(t)
  PROVE  TrailOK(a, lv, rs, t, Append(lim, Len(t)))
<1> DEFINE m == Len(lim)
           lim1 == Append(lim, Len(t))
<1>1. /\ t \in Seq(Lits) /\ lim \in Seq(Nat) /\ m \in Nat /\ Len(t) \in Nat
      /\ \A d \in 1..m : lim[d] \in Nat
  BY DEF TrailOK
<1>2. /\ lim1 \in Seq(Nat) /\ Len(lim1) = m + 1 /\ lim1[m + 1] = Len(t)
      /\ \A d \in 1..m : lim1[d] = lim[d]
  BY <1>1
<1>a. \A d \in 1..Len(lim1) : d = m + 1 \/ d \in 1..m
  BY <1>1, <1>2
<1>b. \A d \in 1..m : lim[d] < Len(t)
  OBVIOUS
<1> HIDE DEF lim1, m
<1>3. ASSUME NEW k \in 1..Len(t)
      PROVE  /\ lv[Abs(t[k])] \in 0..Len(lim1)
             /\ \A d \in 1..Len(lim1) : lim1[d] < k <=> d <= lv[Abs(t[k])]
  <2>1. /\ lv[Abs(t[k])] \in 0..m
        /\ \A d \in 1..m : lim[d] < k <=> d <= lv[Abs(t[k])]
    BY DEF TrailOK, m
  <2>2. lv[Abs(t[k])] \in 0..Len(lim1)
    BY <1>1, <1>2, <2>1
  <2>3. ASSUME NEW d \in 1..Len(lim1) PROVE lim1[d] < k <=> d <= lv[Abs(t[k])]
    BY <1>1, <1>2, <1>a, <2>1
  <2>4. QED
    BY <2>2, <2>3
<1>4. ASSUME NEW d \in 1..Len(lim1) PROVE lim1[d] <= Len(t) /\ lim1[d] < N
  <2>1. \A x \in 1..m : lim[x] <= Len(t) /\ lim[x] < N
    BY DEF TrailOK, m
  <2>2. CASE d = m + 1
    BY <1>1, <1>2, <2>2
  <2>3. CASE d \in 1..m
    BY <1>2, <2>1, <2>3
  <2>4. QED
    BY <1>a, <2>2, <2>3
<1>5. ASSUME NEW d \in 1..Len(lim1), NEW e \in 1..Len(lim1), d < e
      PROVE  lim1[d] < lim1[e]
  <2>1. \A x, y \in 1..m : x < y => lim[x] < lim[y]
    BY DEF TrailOK, m
  <2>2. d \in 1..m
    BY <1>1, <1>2, <1>5
  <2>3. CASE e = m + 1
    BY <1>2, <1>b, <2>2, <2>3
  <2>4. CASE e \in 1..m
    BY <1>2, <1>5, <2>1, <2>2, <2>4
  <2>5. QED
    BY <1>a, <2>3, <2>4
<1>6. TrailOK(a, lv, rs, t, lim1)
  BY <1>2, <1>3, <1>4, <1>5 DEF TrailOK
<1>7. QED
  BY <1>6 DEF lim1

\* What UndoTo(k) makes of f, a function of the variables: x where the variable
\* is on the trail t after k.
Cut(f, t, k, x) ==
  [v \in Vars |-> IF v \in {Abs(t[i]) : i \in (k + 1)..Len(t)} THEN x ELSE f[v]]

\* The literals after k are taken off the trail, and the levels after b.
Undo(k, b, a, lv, rs, t, lim, a1, lv1, rs1, t1, lim1) ==
  /\ k \in 0..Len(t) /\ b \in 0..Len(lim)
  /\ \A d \in 1..b : lim[d] <= k
  /\ \A d \in 1..Len(lim) : d > b => lim[d] >= k
  /\ a1 = Cut(a, t, k, unassigned) /\ lv1 = Cut(lv, t, k, -1)
  /\ rs1 = Cut(rs, t, k, NULL)
  /\ t1 = SubSeq(t, 1, k) /\ lim1 = SubSeq(lim, 1, b)

LEMMA Undone ==
  ASSUME NEW a, NEW lv, NEW rs, NEW t, NEW lim, TrailOK(a, lv, rs, t, lim),
         NEW k, NEW b, NEW a1, NEW lv1, NEW rs1, NEW t1, NEW lim1,
         Undo(k, b, a, lv, rs, t, lim, a1, lv1, rs1, t1, lim1)
  PROVE  /\ TrailOK(a1, lv1, rs1, t1, lim1)
         /\ Len(t1) = k /\ \A j \in 1..k : t1[j] = t[j]
         /\ Len(lim1) = b /\ \A d \in 1..b : lim1[d] = lim[d]
         /\ \A j \in 1..k : /\ a1[Abs(t[j])] = a[Abs(t[j])]
                            /\ lv1[Abs(t[j])] = lv[Abs(t[j])]
                            /\ rs1[Abs(t[j])] = rs[Abs(t[j])]
         /\ \A j \in 1..Len(t) : j > k => a1[Abs(t[j])] = unassigned
         /\ \A v \in Vars : a1[v] # unassigned => \E j \in 1..k : Abs(t[j]) = v
         /\ \A v \in Vars : a[v] = unassigned => a1[v] = unassigned
<1> DEFINE n == Len(t)
<1>0. /\ k \in 0..Len(t) /\ b \in 0..Len(lim)
      /\ \A d \in 1..b : lim[d] <= k
      /\ \A d \in 1..Len(lim) : d > b => lim[d] >= k
      /\ a1 = Cut(a, t, k, unassigned) /\ lv1 = Cut(lv, t, k, -1)
      /\ rs1 = Cut(rs, t, k, NULL)
      /\ t1 = SubSeq(t, 1, k) /\ lim1 = SubSeq(lim, 1, b)
  BY DEF Undo
<1> USE <1>0
<1>1. /\ a \in [Vars -> 0..unassigned] /\ lv \in [Vars -> Int] /\ rs \in [Vars -> Nat]
      /\ t \in Seq(Lits) /\ lim \in Seq(Nat) /\ n \in Nat /\ Len(lim) \in Nat
      /\ \A d \in 1..Len(lim) : lim[d] \in Nat
      /\ \A j \in 1..n : Abs(t[j]) \in Vars /\ a[Abs(t[j])] # unassigned
      /\ \A j, i \in 1..n : Abs(t[j]) = Abs(t[i]) => j = i
  <2>1. \A j \in 1..n : Abs(t[j]) \in Vars /\ a[Abs(t[j])] # unassigned
    BY TrailLit
  <2>2. QED
    BY <2>1 DEF TrailOK
<1>2. /\ t1 \in Seq(Lits) /\ Len(t1) = k /\ \A j \in 1..k : t1[j] = t[j]
      /\ lim1 \in Seq(Nat) /\ Len(lim1) = b /\ \A d \in 1..b : lim1[d] = lim[d]
  BY <1>1
<1>3. /\ a1 \in [Vars -> 0..unassigned] /\ lv1 \in [Vars -> Int] /\ rs1 \in [Vars -> Nat]
  BY <1>1 DEF Cut, unassigned, NULL
<1>4. ASSUME NEW j \in 1..n, j > k
      PROVE  /\ a1[Abs(t[j])] = unassigned /\ lv1[Abs(t[j])] = -1 /\ rs1[Abs(t[j])] = NULL
  <2>1. j \in (k + 1)..n /\ Abs(t[j]) \in Vars
    BY <1>1, <1>4
  <2>2. Abs(t[j]) \in {Abs(t[i]) : i \in (k + 1)..n}
    BY <2>1
  <2>3. QED
    BY <2>1, <2>2 DEF Cut
<1>5. ASSUME NEW v \in Vars, \A j \in 1..n : j > k => Abs(t[j]) # v
      PROVE  a1[v] = a[v] /\ lv1[v] = lv[v] /\ rs1[v] = rs[v]
  <2>1. v \notin {Abs(t[i]) : i \in (k + 1)..n}
    BY <1>1, <1>5
  <2>2. QED
    BY <2>1 DEF Cut
<1>6. ASSUME NEW j \in 1..k
      PROVE  /\ j \in 1..n /\ Abs(t[j]) \in Vars
             /\ a1[Abs(t[j])] = a[Abs(t[j])] /\ lv1[Abs(t[j])] = lv[Abs(t[j])]
             /\ rs1[Abs(t[j])] = rs[Abs(t[j])]
  <2>1. j \in 1..n /\ Abs(t[j]) \in Vars
    BY <1>1
  <2>2. \A i \in 1..n : i > k => Abs(t[i]) # Abs(t[j])
    BY <1>1, <2>1
  <2>3. QED
    BY <1>5, <2>1, <2>2
<1>7. ASSUME NEW v \in Vars, a1[v] # unassigned
      PROVE  a[v] # unassigned /\ \E j \in 1..k : Abs(t[j]) = v
  <2>1. \A j \in 1..n : j > k => Abs(t[j]) # v
    BY <1>4, <1>7
  <2>2. a[v] # unassigned
    BY <1>5, <1>7, <2>1
  <2>3. PICK j \in 1..n : Abs(t[j]) = v
    BY <2>2 DEF TrailOK
  <2>4. j \in 1..k
    BY <1>1, <2>1, <2>3
  <2>5. QED
    BY <2>2, <2>3, <2>4
<1>8. TrailOK(a1, lv1, rs1, t1, lim1)
  <2>1. ASSUME NEW v \in Vars, a1[v] = unassigned PROVE lv1[v] = -1 /\ rs1[v] = NULL
    <3>1. CASE \E j \in 1..n : j > k /\ Abs(t[j]) = v
      BY <1>4, <3>1
    <3>2. CASE \A j \in 1..n : j > k => Abs(t[j]) # v
      <4>1. a[v] = unassigned /\ lv1[v] = lv[v] /\ rs1[v] = rs[v]
        BY <1>5, <2>1, <3>2
      <4>2. QED
        BY <4>1 DEF TrailOK
    <3>3. QED
      BY <3>1, <3>2
  <2>2. ASSUME NEW v \in Vars, a1[v] # unassigned
        PROVE  \E j \in 1..Len(t1) : Abs(t1[j]) = v
    <3>1. PICK j \in 1..k : Abs(t[j]) = v
      BY <1>7, <2>2
    <3>2. j \in 1..Len(t1) /\ Abs(t1[j]) = v
      BY <1>2, <3>1
    <3>3. QED
      BY <3>2
  <2>3. ASSUME NEW j \in 1..Len(t1)
        PROVE  /\ Val(a1, t1[j]) = 1 /\ lv1[Abs(t1[j])] \in 0..Len(lim1)
               /\ \A d \in 1..Len(lim1) : lim1[d] < j <=> d <= lv1[Abs(t1[j])]
    <3>1. /\ j \in 1..k /\ j \in 1..n /\ t1[j] = t[j]
          /\ a1[Abs(t[j])] = a[Abs(t[j])] /\ lv1[Abs(t[j])] = lv[Abs(t[j])]
      BY <1>2, <1>6
    <3>2. Val(a, t[j]) = 1 /\ lv[Abs(t[j])] \in 0..Len(lim)
          /\ \A d \in 1..Len(lim) : lim[d] < j <=> d <= lv[Abs(t[j])]
      BY <3>1 DEF TrailOK
    <3>3. Val(a1, t1[j]) = 1
      BY <3>1, <3>2 DEF Val
    <3>4. lv[Abs(t[j])] <= b
      <4>1. ASSUME lv[Abs(t[j])] > b PROVE FALSE
        <5>1. b + 1 \in 1..Len(lim) /\ b + 1 > b /\ b + 1 <= lv[Abs(t[j])]
          BY <1>1, <3>2, <4>1
        <5>2. lim[b + 1] >= k /\ lim[b + 1] < j
          BY <3>2, <5>1
        <5>3. lim[b + 1] \in Nat
          BY <1>1, <5>1
        <5>4. QED
          BY <3>1, <5>2, <5>3
      <4>2. QED
        BY <3>2, <4>1
    <3>5. \A d \in 1..b : lim1[d] < j <=> d <= lv[Abs(t[j])]
      BY <1>1, <1>2, <3>2
    <3>6. lv[Abs(t[j])] \in 0..b
      BY <3>2, <3>4
    <3>7. QED
      BY <1>2, <3>1, <3>3, <3>5, <3>6
  <2>4. ASSUME NEW j \in 1..Len(t1), NEW i \in 1..Len(t1), Abs(t1[j]) = Abs(t1[i])
        PROVE  j = i
    BY <1>1, <1>2, <1>6, <2>4
  <2>5. \A d \in 1..Len(lim1) : lim1[d] <= Len(t1) /\ lim1[d] < N
    <3>1. \A d \in 1..Len(lim) : lim[d] < N
      BY DEF TrailOK
    <3>2. QED
      BY <1>1, <1>2, <3>1
  <2>6. ASSUME NEW d \in 1..Len(lim1), NEW e \in 1..Len(lim1), d < e
        PROVE  lim1[d] < lim1[e]
    <3>1. \A x, y \in 1..Len(lim) : x < y => lim[x] < lim[y]
      BY DEF TrailOK
    <3>2. d \in 1..b /\ e \in 1..b
      BY <1>2
    <3>3. lim1[d] = lim[d] /\ lim1[e] = lim[e]
      BY <1>2, <3>2
    <3>4. d \in 1..Len(lim) /\ e \in 1..Len(lim)
      BY <1>1, <3>2
    <3>5. QED
      BY <2>6, <3>1, <3>3, <3>4
  <2>7. QED
    BY <1>2, <1>3, <2>1, <2>2, <2>3, <2>4, <2>5, <2>6 DEF TrailOK
<1>9. QED
  BY <1>2, <1>4, <1>6, <1>7, <1>8

\* A prefix of the trail keeps its reasons, and so does a trail with a literal
\* more that has none or a good one.
LEMMA ReasonPrefix ==
  ASSUME NEW cl, NEW rs, NEW t, ReasonOK(cl, rs, t),
         NEW k \in 0..Len(t), NEW rs1, NEW t1, Len(t1) = k,
         \A j \in 1..k : t1[j] = t[j] /\ rs1[Abs(t[j])] = rs[Abs(t[j])]
  PROVE  ReasonOK(cl, rs1, t1)
<1> SUFFICES ASSUME NEW m \in 1..k, rs1[Abs(t1[m])] # NULL
             PROVE  LET c == rs1[Abs(t1[m])] IN
                      /\ c \in 1..Len(cl) /\ cl[c][1] = t1[m]
                      /\ \A i \in 2..Len(cl[c]) : \E j \in 1..(m - 1) : t1[j] = -cl[c][i]
  BY DEF ReasonOK
<1> DEFINE c == rs[Abs(t[m])]
<1>1. m \in 1..Len(t) /\ t1[m] = t[m] /\ rs1[Abs(t1[m])] = c /\ c # NULL
  OBVIOUS
<1>2. /\ c \in 1..Len(cl) /\ cl[c][1] = t[m]
      /\ \A i \in 2..Len(cl[c]) : \E j \in 1..(m - 1) : t[j] = -cl[c][i]
  BY <1>1 DEF ReasonOK
<1>3. \A j \in 1..(m - 1) : t1[j] = t[j]
  OBVIOUS
<1> HIDE DEF c
<1>4. QED
  BY <1>1, <1>2, <1>3

\* from is NULL or a reason for l after the trail t.
Explains(cl, from, l, t) ==
  from # NULL => /\ from \in 1..Len(cl) /\ cl[from][1] = l
                 /\ \A i \in 2..Len(cl[from]) : \E j \in 1..Len(t) : t[j] = -cl[from][i]

LEMMA ReasonPushed ==
  ASSUME NEW cl, NEW rs, NEW t \in Seq(Lits), ReasonOK(cl, rs, t),
         NEW l \in Lits, NEW from, Explains(cl, from, l, t),
         NEW rs1, NEW t1, t1 = Append(t, l),
         rs1[Abs(l)] = from,
         \A j \in 1..Len(t) : rs1[Abs(t[j])] = rs[Abs(t[j])]
  PROVE  ReasonOK(cl, rs1, t1)
<1> DEFINE n == Len(t)
<1>1. n \in Nat /\ Len(t1) = n + 1 /\ t1[n + 1] = l /\ \A j \in 1..n : t1[j] = t[j]
  OBVIOUS
<1> SUFFICES ASSUME NEW m \in 1..Len(t1), rs1[Abs(t1[m])] # NULL
             PROVE  LET c == rs1[Abs(t1[m])] IN
                      /\ c \in 1..Len(cl) /\ cl[c][1] = t1[m]
                      /\ \A i \in 2..Len(cl[c]) : \E j \in 1..(m - 1) : t1[j] = -cl[c][i]
  BY DEF ReasonOK
<1>2. CASE m = n + 1
  <2>1. t1[m] = l /\ rs1[Abs(t1[m])] = from /\ from # NULL /\ m - 1 = n
    BY <1>1, <1>2
  <2>2. QED
    BY <1>1, <2>1 DEF Explains
<1>3. CASE m \in 1..n
  <2> DEFINE c == rs[Abs(t[m])]
  <2>1. t1[m] = t[m] /\ rs1[Abs(t1[m])] = c /\ c # NULL
    BY <1>1, <1>3
  <2>2. /\ c \in 1..Len(cl) /\ cl[c][1] = t[m]
        /\ \A i \in 2..Len(cl[c]) : \E j \in 1..(m - 1) : t[j] = -cl[c][i]
    BY <1>3, <2>1 DEF ReasonOK
  <2>3. \A j \in 1..(m - 1) : t1[j] = t[j]
    BY <1>1, <1>3
  <2> HIDE DEF c
  <2>4. QED
    BY <2>1, <2>2, <2>3
<1>4. m = n + 1 \/ m \in 1..n
  BY <1>1
<1>5. QED
  BY <1>2, <1>3, <1>4

\* Clauses whose first literal is not true may change, others may be added.
LEMMA ReasonKept ==
  ASSUME NEW cl, NEW rs, NEW t, ReasonOK(cl, rs, t), NEW cl1,
         Len(cl) \in Nat, Len(cl1) \in Nat, Len(cl) <= Len(cl1),
         \A c \in 1..Len(cl) : (\E k \in 1..Len(t) : t[k] = cl[c][1]) => cl1[c] = cl[c]
  PROVE  ReasonOK(cl1, rs, t)
<1> SUFFICES ASSUME NEW m \in 1..Len(t), rs[Abs(t[m])] # NULL
             PROVE  LET c == rs[Abs(t[m])] IN
                      /\ c \in 1..Len(cl1) /\ cl1[c][1] = t[m]
                      /\ \A i \in 2..Len(cl1[c]) : \E j \in 1..(m - 1) : t[j] = -cl1[c][i]
  BY DEF ReasonOK
<1> DEFINE c == rs[Abs(t[m])]
<1>1. /\ c \in 1..Len(cl) /\ cl[c][1] = t[m]
      /\ \A i \in 2..Len(cl[c]) : \E j \in 1..(m - 1) : t[j] = -cl[c][i]
  BY DEF ReasonOK
<1>2. cl1[c] = cl[c] /\ c \in 1..Len(cl1)
  BY <1>1
<1> HIDE DEF c
<1>3. /\ c \in 1..Len(cl1) /\ cl1[c][1] = t[m]
      /\ \A i \in 2..Len(cl1[c]) : \E j \in 1..(m - 1) : t[j] = -cl1[c][i]
  BY <1>1, <1>2
<1>4. QED
  BY <1>3 DEF c

-----------------------------------------------------------------------------
(***************************************************************************)
(* The clauses the parser makes                                            *)
(***************************************************************************)
\* Every element of a sequence occurs a first time.
LEMMA FirstOccurs ==
  ASSUME NEW S, NEW s \in Seq(S), NEW i \in 1..Len(s)
  PROVE  \E j \in 1..Len(s) : s[j] = s[i] /\ First(s, j)
<1> DEFINE T == {j \in 1..Len(s) : s[j] = s[i]}
<1>1. T \subseteq Nat /\ T # {}
  OBVIOUS
<1>2. PICK j \in T : \A k \in T : j <= k
  BY <1>1, Least
<1>3. j \in 1..Len(s) /\ s[j] = s[i]
  OBVIOUS
<1>4. ASSUME NEW k \in 1..(j - 1) PROVE s[k] # s[j]
  <2>1. k \in 1..Len(s) /\ k < j
    BY <1>3
  <2>2. CASE s[k] = s[j]
    <3>1. k \in T
      BY <1>3, <2>1, <2>2
    <3>2. QED
      BY <1>2, <1>3, <2>1, <3>1
  <2>3. QED
    BY <2>2
<1>5. QED
  BY <1>3, <1>4 DEF First

\* A clause of the parser has literals of the line, each once, and all that were
\* not false.
LEMMA ShortenedClause ==
  ASSUME NEW c \in Seq(Lits)
  PROVE  /\ Shortened(c) \in Seq(Lits)
         /\ ~Repeats(Shortened(c))
         /\ \A i \in 1..Len(c) : value(c[i]) # 0 =>
              \E k \in 1..Len(Shortened(c)) : Shortened(c)[k] = c[i]
<1> DEFINE ps == DOMAIN c \ Deleted(c)
           s == CLAUSEclean(c)
           qs == {i \in DOMAIN s : First(s, i)}
           r == Shortened(c)
<1>1. ps \subseteq 1..Len(c) /\ s = At(c, ps) /\ DOMAIN c = 1..Len(c)
  BY DEF CLAUSEclean
<1>2. s \in Seq(Lits) /\ \A i \in ps : \E k \in 1..Len(s) : s[k] = c[i]
  <2> DEFINE q == At(c, ps)
  <2> HIDE DEF ps
  <2>1. q \in Seq(Lits) /\ \A i \in ps : \E k \in 1..Len(q) : q[k] = c[i]
    BY <1>1, AtPositions, Zenon
  <2>2. s = q
    BY <1>1
  <2> HIDE DEF s, q
  <2>3. QED
    BY <2>1, <2>2, Zenon
<1> HIDE DEF s
<1>3. qs \subseteq 1..Len(s) /\ r = At(s, qs)
  BY <1>2 DEF Shortened, CLAUSEremoveDuplicates, s
<1>4. /\ r \in Seq(Lits) /\ \A i \in qs : \E k \in 1..Len(r) : r[k] = s[i]
      /\ (\A i, j \in qs : s[i] = s[j] => i = j)
           => \A j, k \in 1..Len(r) : r[j] = r[k] => j = k
  <2> HIDE DEF qs, r
  <2> DEFINE q == At(s, qs)
  <2>1. (\A i, j \in qs : s[i] = s[j] => i = j)
           => \A j, k \in 1..Len(q) : q[j] = q[k] => j = k
    BY <1>2, <1>3, AtPositions
  <2>2. q \in Seq(Lits) /\ \A i \in qs : \E k \in 1..Len(q) : q[k] = s[i]
    BY <1>2, <1>3, AtPositions
  <2>3. r = q
    BY <1>3
  <2> HIDE DEF q
  <2>4. QED
    BY <2>1, <2>2, <2>3
<1>7. ASSUME NEW j \in qs, NEW k \in qs, s[j] = s[k] PROVE j = k
  <2>1. j \in 1..Len(s) /\ k \in 1..Len(s) /\ First(s, j) /\ First(s, k)
    BY <1>2
  <2>2. ~(j < k) /\ ~(k < j)
    BY <1>7, <2>1 DEF First
  <2>3. QED
    BY <2>1, <2>2
<1> HIDE DEF r
<1>8. ~Repeats(r)
  <2>1. ASSUME NEW j \in 1..Len(r), NEW k \in 1..Len(r), r[j] = r[k] PROVE j = k
    BY <1>4, <1>7, <2>1
  <2>2. DOMAIN r = 1..Len(r)
    BY <1>4
  <2>3. QED
    BY <2>1, <2>2 DEF Repeats
<1>9. ASSUME NEW i \in 1..Len(c), value(c[i]) # 0
      PROVE  \E k \in 1..Len(r) : r[k] = c[i]
  <2>1. i \notin Deleted(c)
    <3>1. ASSUME i \in Deleted(c) PROVE FALSE
      <4>1. PICK m \in 1..i : \A j \in m..i : value(c[j]) = 0
        BY <3>1 DEF Deleted
      <4>2. i \in m..i
        OBVIOUS
      <4>3. QED
        BY <1>9, <4>1, <4>2
    <3>2. QED
      BY <3>1
  <2>2. i \in ps
    BY <1>1, <2>1
  <2>3. PICK k \in 1..Len(s) : s[k] = c[i]
    BY <1>2, <2>2
  <2>4. PICK j \in 1..Len(s) : s[j] = c[i] /\ First(s, j)
    BY <1>2, <2>3, FirstOccurs
  <2>5. j \in qs
    BY <1>2, <2>4
  <2>6. QED
    BY <1>4, <2>4, <2>5
<1>10. QED
  BY <1>4, <1>8, <1>9 DEF r
-----------------------------------------------------------------------------
(***************************************************************************)
(* The inductive invariants                                                *)
(***************************************************************************)
TypeInv ==
  /\ F \in Formulas /\ pos \in 1..(Len(F) + 1)
  /\ clauses \in Seq(Seq(Lits)) /\ \A c \in ClauseIds : Len(clauses[c]) >= 2
  /\ watchers \in [Lits -> Seq(ClauseIds)] /\ propagationQ \in Seq(Lits)
  /\ pc \in {"parse", "propagate", "visit", "decide", "conflict", "analyze",
             "backtrack", "learn"} \cup Ended
  /\ cur \in Lits \cup {NULL} /\ todo \in Seq(ClauseIds)
  /\ conflict \in 0..Len(clauses)
  /\ p \in Lits \cup {NULL} /\ seen \subseteq Vars /\ count \in Int
  /\ learnt \in Seq(Lits \cup {NULL}) /\ backtrackLevel \in 0..N
  /\ said \in {"none", "SAT", "UNSAT"}

\* The trail is right, and each level has a literal of its own, but for the last
\* one while analyze takes it off.
Trail == /\ TrailOK(assignments, level, reason, trail, trail_lim)
         /\ pc \notin {"analyze", "backtrack", "stopped"} =>
              \A d \in 1..Len(trail_lim) : trail_lim[d] < Len(trail)

Reasons == ReasonOK(clauses, reason, trail)

\* A true literal of the last level.
Current(l) == l \in Lits /\ value(l) = 1 /\ level[Abs(l)] = currentDecisionLevel

\* What is still to be propagated belongs to the last level; the queue is empty
\* before a decision and after a conflict.
QueueInv ==
  /\ pc = "parse" => trail_lim = <<>> /\ propagationQ = trail
  /\ pc \in {"parse", "propagate", "visit"} =>
       \A i \in 1..Len(propagationQ) : Current(propagationQ[i])
  /\ pc \in {"decide", "conflict", "analyze", "backtrack", "learn"} => propagationQ = <<>>
  /\ pc = "visit" => Current(cur)
  /\ pc \notin {"visit", "stopped"} => todo = <<>>

\* How often the first two literals of c are -l.
Watches(c, l) == (IF c[1] = -l THEN 1 ELSE 0) + (IF c[2] = -l THEN 1 ELSE 0)

\* WatchInv, the clauses still to be visited included.
WatchAll ==
  \A l \in Lits : \A c \in ClauseIds :
    Times(watchers[l], c) + (IF l = cur THEN Times(todo, c) ELSE 0) = Watches(clauses[c], l)

\* The literals of c are false, and the second became so at the last level.
Conflicting(c) == /\ c \in ClauseIds
                  /\ \A i \in 1..Len(clauses[c]) : value(clauses[c][i]) = 0
                  /\ level[Abs(clauses[c][2])] = currentDecisionLevel

\* The literals found so far, but for the first, are false and of the levels up to
\* backtrackLevel, which one of them has.
LearntBelow ==
  /\ Len(learnt) >= 1
  /\ \A i \in 2..Len(learnt) : /\ learnt[i] \in Lits /\ value(learnt[i]) = 0
                               /\ level[Abs(learnt[i])] \in 1..backtrackLevel
  /\ backtrackLevel > 0 => \E i \in 2..Len(learnt) : level[Abs(learnt[i])] = backtrackLevel

\* The places of the last level whose variables were seen and are still to be
\* expanded.
SeenHere == {k \in (Limit + 1)..Len(trail) : Abs(trail[k]) \in seen}

\* analyze between two turns.
Analyzing ==
  /\ currentDecisionLevel > 0 /\ backtrackLevel < currentDecisionLevel
  /\ LearntBelow
  /\ count = Cardinality(SeenHere)
  /\ p # NULL => value(p) = unassigned
  /\ pc = "backtrack" => p # NULL /\ count = 0
  /\ pc = "analyze" /\ p = NULL => Conflicting(conflict) /\ seen = {}
  /\ pc = "analyze" /\ p # NULL =>
       /\ count > 0
       /\ conflict # NULL => /\ clauses[conflict][1] = p
                             /\ \A i \in 2..Len(clauses[conflict]) : value(clauses[conflict][i]) = 0

AnalysisInv ==
  /\ pc = "conflict" => Conflicting(conflict)
  /\ pc \in {"analyze", "backtrack"} => Analyzing
  /\ pc = "learn" => /\ LearntBelow /\ backtrackLevel = currentDecisionLevel
                     /\ learnt[1] \in Lits /\ value(learnt[1]) = unassigned

Core == TypeInv /\ Trail /\ Reasons /\ QueueInv /\ WatchAll /\ AnalysisInv

\* The literal l of the clause c may be false while l and o are watched: o has been
\* true as long, or -l is still to be propagated, or l goes with the level of the
\* conflict.
Excused(l, o, c) ==
  \/ value(o) = 1 /\ level[Abs(o)] <= level[Abs(l)]
  \/ /\ pc \in {"parse", "propagate", "visit"}
     /\ \E i \in 1..Len(propagationQ) : propagationQ[i] = -l
  \/ pc = "visit" /\ cur = -l /\ \E i \in 1..Len(todo) : todo[i] = c
  \/ /\ pc \in {"conflict", "analyze", "backtrack"}
     /\ level[Abs(l)] = currentDecisionLevel

Settled(l, o, c) == value(l) = 0 => Excused(l, o, c)

\* Both watched literals of d, which is the clause c, are settled.
Guarded(d, c) == Settled(d[1], d[2], c) /\ Settled(d[2], d[1], c)

FalseWatchInv ==
  pc \notin Ended => \A c \in ClauseIds : ~Repeats(clauses[c]) => Guarded(clauses[c], c)

Model(tau) == tau \in Assignments /\ Satisfies(tau, F)

\* The literals of level 0 are true in every model.
ForcedTrue ==
  \A l \in Lits : value(l) = 1 /\ level[Abs(l)] = 0 =>
    \A tau : Model(tau) => LitTrue(tau, l)

\* A variable found on a level below the last one is in the clause to be learnt.
SeenKept ==
  \A v \in seen : level[v] \in 1..(currentDecisionLevel - 1) =>
    \E i \in 2..Len(learnt) : Abs(learnt[i]) = v

\* In every model one of the literals learnt is true, or one that is still to be
\* expanded is false.
Resolvent ==
  p # NULL => \A tau : Model(tau) =>
    \/ \E i \in 2..Len(learnt) : LitTrue(tau, learnt[i])
    \/ LitTrue(tau, -p)
    \/ \E k \in SeenHere : LitTrue(tau, -trail[k])

SoundInv ==
  ClausesImplied => /\ ForcedTrue
                    /\ pc \in {"analyze", "backtrack"} => SeenKept /\ Resolvent
                    /\ pc = "learn" => Implied(learnt)
-----------------------------------------------------------------------------
(***************************************************************************)
(* Counting                                                                *)
(***************************************************************************)
LEMMA TimesConcat ==
  ASSUME NEW S, NEW s \in Seq(S), NEW t \in Seq(S), NEW x
  PROVE  /\ Times(s, x) \in Nat /\ Times(s \o t, x) = Times(s, x) + Times(t, x)
         /\ Times(s, x) > 0 <=> \E i \in 1..Len(s) : s[i] = x
<1> DEFINE m == Len(s)
           n == Len(t)
           u == s \o t
           A == {i \in 1..m : s[i] = x}
           B == {i \in 1..n : t[i] = x}
           C == {i \in 1..(m + n) : u[i] = x}
           D == {i \in (m + 1)..(m + n) : u[i] = x}
<1>1. /\ m \in Nat /\ n \in Nat /\ Len(u) = m + n
      /\ \A i \in 1..m : u[i] = s[i]
      /\ \A i \in (m + 1)..(m + n) : u[i] = t[i - m]
      /\ DOMAIN s = 1..m /\ DOMAIN t = 1..n /\ DOMAIN u = 1..(m + n)
  OBVIOUS
<1>2. Times(s, x) = Cardinality(A) /\ Times(t, x) = Cardinality(B)
      /\ Times(u, x) = Cardinality(C)
  BY <1>1 DEF Times
<1> HIDE DEF u, m, n
<1>3. IsFiniteSet(A) /\ IsFiniteSet(B) /\ IsFiniteSet(D)
  <2>1. IsFiniteSet(1..m) /\ IsFiniteSet(1..n) /\ IsFiniteSet((m + 1)..(m + n))
    BY <1>1, FS_Interval
  <2>2. A \in SUBSET (1..m) /\ B \in SUBSET (1..n) /\ D \in SUBSET ((m + 1)..(m + n))
    OBVIOUS
  <2> HIDE DEF A, B, D
  <2>3. QED
    BY <2>1, <2>2, FS_Subset
<1>4. Cardinality(A) \in Nat /\ Cardinality(B) \in Nat /\ Cardinality(D) \in Nat
      /\ (Cardinality(A) = 0 <=> A = {})
  <2> HIDE DEF A, B, D
  <2>1. QED
    BY <1>3, FS_CardinalityType, FS_EmptySet
<1>5. C = A \cup D /\ A \cap D = {}
  <2>1. \A i \in 1..(m + n) : i \in 1..m \/ i \in (m + 1)..(m + n)
    BY <1>1
  <2>2. \A i \in 1..m : i \in 1..(m + n) /\ i \notin (m + 1)..(m + n)
    BY <1>1
  <2>3. \A i \in (m + 1)..(m + n) : i \in 1..(m + n)
    BY <1>1
  <2>4. QED
    BY <1>1, <2>1, <2>2, <2>3
<1>6. Cardinality(C) = Cardinality(A) + Cardinality(D)
  <2>1. Cardinality({}) = 0
    BY FS_EmptySet
  <2> HIDE DEF A, C, D
  <2>2. Cardinality(A \cup D) = Cardinality(A) + Cardinality(D) - Cardinality(A \cap D)
    BY <1>3, FS_Union
  <2>3. Cardinality(A \cap D) = 0 /\ Cardinality(A \cup D) = Cardinality(C)
    BY <1>5, <2>1
  <2>4. QED
    BY <1>4, <2>2, <2>3
<1>7. Cardinality(B) = Cardinality(D)
  <2> DEFINE f == [i \in B |-> i + m]
  <2>1. ASSUME NEW i \in B PROVE i + m \in D
    <3>1. i + m \in (m + 1)..(m + n) /\ (i + m) - m = i
      BY <1>1
    <3>2. QED
      BY <1>1, <3>1
  <2>2. f \in [B -> D]
    BY <2>1
  <2>3. \A i, j \in B : f[i] = f[j] => i = j
    BY <1>1
  <2>4. ASSUME NEW j \in D PROVE \E i \in B : f[i] = j
    <3>1. j - m \in 1..n /\ (j - m) + m = j
      BY <1>1
    <3>2. j - m \in B
      BY <1>1, <3>1
    <3>3. f[j - m] = j
      BY <3>1, <3>2
    <3>4. QED
      BY <3>2, <3>3
  <2> HIDE DEF f, B, D
  <2>5. QED
    BY <1>3, <2>2, <2>3, <2>4, OneToOne
<1>8. Cardinality(A) > 0 <=> \E i \in 1..m : s[i] = x
  BY <1>4
<1> HIDE DEF A, B, C, D
<1>9. QED
  BY <1>2, <1>4, <1>6, <1>7, <1>8 DEF u, m

LEMMA TimesOne ==
  ASSUME NEW x, NEW y
  PROVE  Times(<<x>>, y) = IF x = y THEN 1 ELSE 0
<1> DEFINE A == {i \in DOMAIN <<x>> : <<x>>[i] = y}
<1>1. A = IF x = y THEN {1} ELSE {}
  OBVIOUS
<1>2. Cardinality({1}) = 1 /\ Cardinality({}) = 0
  BY FS_Singleton, FS_EmptySet
<1>3. QED
  BY <1>1, <1>2 DEF Times

LEMMA TimesNone ==
  ASSUME NEW y
  PROVE  Times(<<>>, y) = 0
<1>1. {i \in DOMAIN <<>> : <<>>[i] = y} = {}
  OBVIOUS
<1>2. QED
  BY <1>1, FS_EmptySet DEF Times

LEMMA TimesFacts ==
  ASSUME NEW S, NEW s \in Seq(S), NEW x \in S, NEW y
  PROVE  /\ Times(Append(s, x), y) = Times(s, y) + IF x = y THEN 1 ELSE 0
         /\ s # <<>> => Times(s, y) = Times(Tail(s), y) + IF Head(s) = y THEN 1 ELSE 0
         /\ Times(<<>>, y) = 0
<1>1. Append(s, x) = s \o <<x>> /\ <<x>> \in Seq(S)
  OBVIOUS
<1>2. ASSUME s # <<>>
      PROVE  s = <<Head(s)>> \o Tail(s) /\ <<Head(s)>> \in Seq(S) /\ Tail(s) \in Seq(S)
  BY <1>2
<1>3. Times(Append(s, x), y) = Times(s, y) + IF x = y THEN 1 ELSE 0
  <2> DEFINE a == <<x>>
  <2>1. a \in Seq(S) /\ Append(s, x) = s \o a
    BY <1>1
  <2>2. Times(a, y) = IF x = y THEN 1 ELSE 0
    BY TimesOne
  <2> HIDE DEF a
  <2>3. Times(s \o a, y) = Times(s, y) + Times(a, y)
    BY <2>1, TimesConcat
  <2>4. QED
    BY <2>1, <2>2, <2>3
<1>4. ASSUME s # <<>>
      PROVE  Times(s, y) = Times(Tail(s), y) + IF Head(s) = y THEN 1 ELSE 0
  <2> DEFINE a == <<Head(s)>>
             b == Tail(s)
  <2>1. a \in Seq(S) /\ b \in Seq(S) /\ s = a \o b
    BY <1>2, <1>4
  <2>2. Times(a, y) = IF Head(s) = y THEN 1 ELSE 0
    BY TimesOne
  <2> HIDE DEF a, b
  <2>3. Times(a \o b, y) = Times(a, y) + Times(b, y) /\ Times(b, y) \in Nat
    BY <2>1, TimesConcat
  <2>4. Times(s, y) = Times(a, y) + Times(b, y)
    BY <2>1, <2>3
  <2>a. Times(s, y) = Times(b, y) + IF Head(s) = y THEN 1 ELSE 0
    BY <2>2, <2>3, <2>4
  <2>5. QED
    BY <2>a DEF b
<1>5. Times(<<>>, y) = 0
  BY TimesNone
<1>6. QED
  BY <1>3, <1>4, <1>5

LEMMA WatchesCount ==
  ASSUME NEW c \in Seq(Lits), NEW l \in Lits
  PROVE  Watches(c, l) = Cardinality({i \in 1..2 : c[i] = -l})
<1> DEFINE A == {i \in 1..2 : c[i] = -l}
<1>1. A = (IF c[1] = -l THEN {1} ELSE {}) \cup (IF c[2] = -l THEN {2} ELSE {})
  OBVIOUS
<1>2. /\ Cardinality({1}) = 1 /\ Cardinality({2}) = 1 /\ Cardinality({}) = 0
      /\ IsFiniteSet({1}) /\ IsFiniteSet({2}) /\ {1} \cap {2} = {}
  <2>1. {1} \cap {2} = {}
    OBVIOUS
  <2>2. /\ Cardinality({1}) = 1 /\ Cardinality({2}) = 1
        /\ IsFiniteSet({1}) /\ IsFiniteSet({2})
    BY FS_Singleton
  <2>3. QED
    BY <2>1, <2>2, FS_EmptySet
<1>3. Cardinality({1} \cup {2}) = 2
  <2>1. Cardinality({1} \cup {2}) = Cardinality({1}) + Cardinality({2}) - Cardinality({1} \cap {2})
    BY <1>2, FS_Union
  <2>2. Cardinality({1} \cup {2}) = 1 + 1 - 0
    BY <1>2, <2>1, Zenon
  <2>3. 1 + 1 - 0 = 2
    OBVIOUS
  <2>4. QED
    BY <2>2, <2>3, Zenon
<1>4. Cardinality(A) = (IF c[1] = -l THEN 1 ELSE 0) + (IF c[2] = -l THEN 1 ELSE 0)
  <2>1. A = IF c[1] = -l THEN IF c[2] = -l THEN {1} \cup {2} ELSE {1}
                         ELSE IF c[2] = -l THEN {2} ELSE {}
    BY <1>1
  <2> HIDE DEF A
  <2>2. CASE c[1] = -l /\ c[2] = -l
    BY <1>3, <2>1, <2>2
  <2>3. CASE c[1] = -l /\ c[2] # -l
    BY <1>2, <2>1, <2>3
  <2>4. CASE c[1] # -l /\ c[2] = -l
    BY <1>2, <2>1, <2>4
  <2>5. CASE c[1] # -l /\ c[2] # -l
    BY <1>2, <2>1, <2>5
  <2>6. QED
    BY <2>2, <2>3, <2>4, <2>5
<1> HIDE DEF A
<1>5. Watches(c, l) = Cardinality(A)
  BY <1>4 DEF Watches
<1>6. QED
  BY <1>5 DEF A
-----------------------------------------------------------------------------
(***************************************************************************)
(* What the operations do                                                  *)
(***************************************************************************)
LEMMA Enqueued ==
  ASSUME TrailOK(assignments, level, reason, trail, trail_lim),
         NEW l \in Lits, NEW from \in Nat, enqueue(l, from), trail_lim' = trail_lim
  PROVE  /\ TrailOK(assignments', level', reason', trail', trail_lim')
         /\ \A x \in Lits : value(x) # unassigned =>
              value(x)' = value(x) /\ level'[Abs(x)] = level[Abs(x)]
         /\ value(l) # unassigned => UNCHANGED assigned
         /\ value(l) = unassigned =>
              /\ trail' = Append(trail, l) /\ propagationQ' = Append(propagationQ, l)
              /\ value(l)' = 1 /\ level'[Abs(l)] = Len(trail_lim)
              /\ reason'[Abs(l)] = from
              /\ \A j \in 1..Len(trail) : reason'[Abs(trail[j])] = reason[Abs(trail[j])]
              /\ \A x \in Lits : value(x)' = 0 => value(x) = 0 \/ x = -l
<1>1. /\ assignments \in [Vars -> 0..unassigned] /\ level \in [Vars -> Int]
      /\ reason \in [Vars -> Nat] /\ Abs(l) \in Vars
  BY LitFacts DEF TrailOK
<1>2. CASE value(l) # unassigned
  <2>1. UNCHANGED assigned
    BY <1>2 DEF enqueue
  <2>2. /\ assignments' = assignments /\ level' = level /\ reason' = reason
        /\ trail' = trail /\ propagationQ' = propagationQ
    BY <2>1 DEF assigned
  <2>3. \A x : value(x)' = value(x)
    BY <2>2, ValueIsVal
  <2>4. QED
    BY <1>2, <2>1, <2>2, <2>3
<1>3. CASE value(l) = unassigned
  <2>1. /\ assignments' = [assignments EXCEPT ![Abs(l)] = IF l > 0 THEN 1 ELSE 0]
        /\ level' = [level EXCEPT ![Abs(l)] = Len(trail_lim)]
        /\ reason' = [reason EXCEPT ![Abs(l)] = from]
        /\ trail' = Append(trail, l) /\ propagationQ' = Append(propagationQ, l)
    BY <1>3 DEF enqueue, currentDecisionLevel
  <2>2. assignments[Abs(l)] = unassigned
    BY <1>1, <1>3, ValueIsVal, ValFacts
  <2>3. /\ TrailOK(assignments', level', reason', trail', trail_lim)
        /\ Val(assignments', l) = 1 /\ Val(assignments', -l) = 0
        /\ \A x \in Lits : Abs(x) # Abs(l) => Val(assignments', x) = Val(assignments, x)
        /\ \A x \in Lits : Val(assignments, x) # unassigned
                             => Val(assignments', x) = Val(assignments, x)
        /\ \A k \in 1..Len(trail) : reason'[Abs(trail[k])] = reason[Abs(trail[k])]
    <3> DEFINE a1 == assignments'
               lv1 == level'
               rs1 == reason'
               t1 == trail'
    <3>1. Push(l, from, assignments, level, reason, trail, trail_lim, a1, lv1, rs1, t1)
      BY <2>1, <2>2 DEF Push
    <3> HIDE DEF a1, lv1, rs1, t1
    <3>2. /\ TrailOK(a1, lv1, rs1, t1, trail_lim)
          /\ Val(a1, l) = 1 /\ Val(a1, -l) = 0
          /\ \A x \in Lits : Abs(x) # Abs(l) => Val(a1, x) = Val(assignments, x)
          /\ \A x \in Lits : Val(assignments, x) # unassigned
                               => Val(a1, x) = Val(assignments, x)
          /\ \A k \in 1..Len(trail) : rs1[Abs(trail[k])] = reason[Abs(trail[k])]
      BY <2>2, <3>1, Pushed
    <3>3. QED
      BY <3>2 DEF a1, lv1, rs1, t1
  <2>4. \A x \in Lits : value(x) # unassigned =>
              value(x)' = value(x) /\ level'[Abs(x)] = level[Abs(x)]
    <3>1. \A x \in Lits : value(x) # unassigned => Abs(x) # Abs(l) /\ Abs(x) \in Vars
      BY <1>1, <2>2, ValueIsVal, ValFacts, LitFacts
    <3>2. QED
      BY <1>1, <2>1, <2>3, <3>1, ValueIsVal
  <2>5. ASSUME NEW x \in Lits, value(x)' = 0 PROVE value(x) = 0 \/ x = -l
    <3>1. CASE Abs(x) # Abs(l)
      BY <2>3, <2>5, <3>1, ValueIsVal
    <3>2. CASE Abs(x) = Abs(l)
      <4>1. x = l \/ x = -l
        BY <3>2, LitFacts
      <4>2. x # l
        BY <2>3, <2>5, ValueIsVal
      <4>3. QED
        BY <4>1, <4>2
    <3>3. QED
      BY <3>1, <3>2
  <2>6. value(l)' = 1 /\ level'[Abs(l)] = Len(trail_lim) /\ reason'[Abs(l)] = from
    BY <1>1, <2>1, <2>3, ValueIsVal
  <2>7. QED
    BY <1>3, <2>1, <2>3, <2>4, <2>5, <2>6
<1>4. QED
  BY <1>2, <1>3

LEMMA Decided ==
  ASSUME Trail, pc = "decide", NEW v \in Selectable,
         trail_lim' = Append(trail_lim, Len(trail)),
         assignments' = [assignments EXCEPT ![v] = 1],
         level' = [level EXCEPT ![v] = currentDecisionLevel + 1],
         reason' = reason, trail' = Append(trail, v)
  PROVE  /\ TrailOK(assignments', level', reason', trail', trail_lim')
         /\ Len(trail_lim') = Len(trail_lim) + 1
         /\ \A x \in Lits : value(x) # unassigned =>
              value(x)' = value(x) /\ level'[Abs(x)] = level[Abs(x)]
         /\ v \in Lits /\ Abs(v) = v /\ value(v)' = 1 /\ level'[v] = Len(trail_lim')
         /\ \A x \in Lits : value(x)' = 0 => value(x) = 0 \/ x = -v
         /\ reason'[v] = NULL
         /\ \A d \in 1..Len(trail_lim') : trail_lim'[d] < Len(trail')
<1>1. /\ TrailOK(assignments, level, reason, trail, trail_lim)
      /\ \A d \in 1..Len(trail_lim) : trail_lim[d] < Len(trail)
  BY DEF Trail
<1>2. /\ assignments \in [Vars -> 0..unassigned] /\ level \in [Vars -> Int]
      /\ reason \in [Vars -> Nat] /\ trail \in Seq(Lits) /\ trail_lim \in Seq(Nat)
      /\ v \in Vars /\ assignments[v] = unassigned /\ reason[v] = NULL
  BY <1>1 DEF TrailOK, Selectable
<1>3. v \in Lits /\ Abs(v) = v /\ v > 0
  BY <1>2, LitFacts DEF Vars
<1>4. Len(trail) < N
  BY <1>1, <1>2, TrailLength
<1>5. TrailOK(assignments, level, reason, trail, trail_lim')
  BY <1>1, <1>4, Opened
<1>6. /\ Len(trail_lim') = Len(trail_lim) + 1
      /\ trail_lim'[Len(trail_lim) + 1] = Len(trail)
      /\ \A d \in 1..Len(trail_lim) : trail_lim'[d] = trail_lim[d]
      /\ Len(trail_lim) \in Nat /\ Len(trail) \in Nat /\ Len(trail') = Len(trail) + 1
      /\ \A d \in 1..Len(trail_lim) : trail_lim[d] \in Nat
  BY <1>2
<1>7. /\ assignments' = [assignments EXCEPT ![Abs(v)] = IF v > 0 THEN 1 ELSE 0]
      /\ level' = [level EXCEPT ![Abs(v)] = Len(trail_lim')]
      /\ reason' = [reason EXCEPT ![Abs(v)] = NULL]
      /\ NULL \in Nat
  BY <1>2, <1>3, <1>6 DEF currentDecisionLevel, NULL
<1>8. /\ TrailOK(assignments', level', reason', trail', trail_lim')
      /\ Val(assignments', v) = 1 /\ Val(assignments', -v) = 0
      /\ \A x \in Lits : Abs(x) # Abs(v) => Val(assignments', x) = Val(assignments, x)
      /\ \A x \in Lits : Val(assignments, x) # unassigned
                           => Val(assignments', x) = Val(assignments, x)
  <2> DEFINE a1 == assignments'
             lv1 == level'
             rs1 == reason'
             t1 == trail'
             lim1 == trail_lim'
  <2>1. /\ Push(v, NULL, assignments, level, reason, trail, lim1, a1, lv1, rs1, t1)
        /\ TrailOK(assignments, level, reason, trail, lim1)
    BY <1>2, <1>3, <1>5, <1>7 DEF Push
  <2> HIDE DEF a1, lv1, rs1, t1, lim1
  <2>2. /\ TrailOK(a1, lv1, rs1, t1, lim1)
        /\ Val(a1, v) = 1 /\ Val(a1, -v) = 0
        /\ \A x \in Lits : Abs(x) # Abs(v) => Val(a1, x) = Val(assignments, x)
        /\ \A x \in Lits : Val(assignments, x) # unassigned
                             => Val(a1, x) = Val(assignments, x)
        /\ \A k \in 1..Len(trail) : rs1[Abs(trail[k])] = reason[Abs(trail[k])]
    BY <2>1, Pushed
  <2>3. QED
    BY <2>2 DEF a1, lv1, rs1, t1, lim1
<1>9. \A x \in Lits : value(x) # unassigned =>
            value(x)' = value(x) /\ level'[Abs(x)] = level[Abs(x)]
  <2>1. \A x \in Lits : value(x) # unassigned => Abs(x) # v /\ Abs(x) \in Vars
    BY <1>2, ValueIsVal, ValFacts, LitFacts
  <2>2. QED
    BY <1>2, <1>8, <2>1, ValueIsVal
<1>10. ASSUME NEW x \in Lits, value(x)' = 0 PROVE value(x) = 0 \/ x = -v
  <2>1. CASE Abs(x) # Abs(v)
    BY <1>8, <1>10, <2>1, ValueIsVal
  <2>2. CASE Abs(x) = Abs(v)
    <3>1. x = v \/ x = -v
      BY <1>3, <2>2, LitFacts
    <3>2. x # v
      <4>1. Val(assignments', x) = 0 /\ Val(assignments', v) = 1
        BY <1>8, <1>10, ValueIsVal
      <4>2. QED
        BY <4>1
    <3>3. QED
      BY <3>1, <3>2
  <2>3. QED
    BY <2>1, <2>2
<1>11. \A d \in 1..Len(trail_lim') : trail_lim'[d] < Len(trail')
  <2>1. \A d \in 1..Len(trail_lim') : d = Len(trail_lim) + 1 \/ d \in 1..Len(trail_lim)
    BY <1>6
  <2>2. QED
    BY <1>1, <1>6, <2>1
<1>12. value(v)' = 1 /\ level'[v] = Len(trail_lim') /\ reason'[v] = NULL
  BY <1>2, <1>3, <1>7, <1>8, ValueIsVal
<1>13. QED
  BY <1>3, <1>6, <1>8, <1>9, <1>10, <1>11, <1>12

\* UndoTo(k), with the levels after b taken away.
LEMMA TakenOff ==
  ASSUME TrailOK(assignments, level, reason, trail, trail_lim),
         NEW k \in 0..Len(trail), NEW b \in 0..Len(trail_lim),
         \A d \in 1..b : trail_lim[d] <= k,
         \A d \in 1..Len(trail_lim) : d > b => trail_lim[d] >= k,
         UndoTo(k), trail_lim' = SubSeq(trail_lim, 1, b)
  PROVE  /\ TrailOK(assignments', level', reason', trail', trail_lim')
         /\ Len(trail') = k /\ \A j \in 1..k : trail'[j] = trail[j]
         /\ Len(trail_lim') = b /\ \A d \in 1..b : trail_lim'[d] = trail_lim[d]
         /\ \A j \in 1..k : reason'[Abs(trail[j])] = reason[Abs(trail[j])]
         /\ \A j \in 1..Len(trail) : j > k => Val(assignments', trail[j]) = unassigned
         /\ \A x \in Lits : value(x) = unassigned => value(x)' = unassigned
         /\ \A x \in Lits : value(x)' # unassigned =>
              value(x)' = value(x) /\ level'[Abs(x)] = level[Abs(x)]
         /\ \A d \in 1..Len(trail_lim) : trail_lim[d] <= k =>
              \A x \in Lits : value(x) # unassigned /\ level[Abs(x)] < d =>
                value(x)' = value(x) /\ level'[Abs(x)] = level[Abs(x)]
<1> DEFINE a1 == assignments'
           lv1 == level'
           rs1 == reason'
           t1 == trail'
           lim1 == trail_lim'
           n == Len(trail)
<1>1. Undo(k, b, assignments, level, reason, trail, trail_lim, a1, lv1, rs1, t1, lim1)
  <2>1. /\ a1 = Cut(assignments, trail, k, unassigned) /\ lv1 = Cut(level, trail, k, -1)
        /\ rs1 = Cut(reason, trail, k, NULL)
        /\ t1 = SubSeq(trail, 1, k) /\ lim1 = SubSeq(trail_lim, 1, b)
    BY Zenon DEF UndoTo, Cut
  <2>2. QED
    BY <2>1 DEF Undo
<1> HIDE DEF a1, lv1, rs1, t1, lim1
<1>2. /\ TrailOK(a1, lv1, rs1, t1, lim1)
      /\ Len(t1) = k /\ \A j \in 1..k : t1[j] = trail[j]
      /\ Len(lim1) = b /\ \A d \in 1..b : lim1[d] = trail_lim[d]
      /\ \A j \in 1..k : /\ a1[Abs(trail[j])] = assignments[Abs(trail[j])]
                         /\ lv1[Abs(trail[j])] = level[Abs(trail[j])]
                         /\ rs1[Abs(trail[j])] = reason[Abs(trail[j])]
      /\ \A j \in 1..Len(trail) : j > k => a1[Abs(trail[j])] = unassigned
      /\ \A v \in Vars : a1[v] # unassigned => \E j \in 1..k : Abs(trail[j]) = v
      /\ \A v \in Vars : assignments[v] = unassigned => a1[v] = unassigned
  BY <1>1, Undone
<1>3. /\ assignments \in [Vars -> 0..unassigned] /\ a1 \in [Vars -> 0..unassigned]
      /\ \A v \in Vars : assignments[v] # unassigned => \E j \in 1..n : Abs(trail[j]) = v
      /\ \A j \in 1..n, d \in 1..Len(trail_lim) :
           trail_lim[d] < j <=> d <= level[Abs(trail[j])]
      /\ \A j \in 1..n : level[Abs(trail[j])] \in 0..Len(trail_lim)
      /\ \A d \in 1..Len(trail_lim) : trail_lim[d] \in Nat
      /\ trail_lim \in Seq(Nat) /\ n \in Nat
  BY <1>2 DEF TrailOK
<1> HIDE DEF n
<1>4. \A x : Abs(x) \in Vars /\ a1[Abs(x)] = assignments[Abs(x)]
               => Val(a1, x) = Val(assignments, x)
  BY DEF Val
<1>5. ASSUME NEW x \in Lits, Val(a1, x) # unassigned
      PROVE  Val(a1, x) = Val(assignments, x) /\ lv1[Abs(x)] = level[Abs(x)]
  <2>1. Abs(x) \in Vars /\ a1[Abs(x)] # unassigned
    BY <1>3, <1>5, ValFacts, LitFacts
  <2>2. PICK j \in 1..k : Abs(trail[j]) = Abs(x)
    BY <1>2, <2>1
  <2>3. QED
    BY <1>2, <1>4, <2>1, <2>2
<1>6. ASSUME NEW x \in Lits, Val(assignments, x) = unassigned
      PROVE  Val(a1, x) = unassigned
  <2>a. assignments \in [Vars -> 0..unassigned]
    BY <1>3
  <2>1. Abs(x) \in Vars /\ assignments[Abs(x)] = unassigned
    BY <1>6, <2>a, ValFacts, LitFacts
  <2>2. a1[Abs(x)] = unassigned
    BY <1>2, <2>1
  <2>3. QED
    BY <1>3, <2>2, ValFacts
<1>7. ASSUME NEW d \in 1..Len(trail_lim), trail_lim[d] <= k,
             NEW x \in Lits, Val(assignments, x) # unassigned, level[Abs(x)] < d
      PROVE  Val(a1, x) = Val(assignments, x) /\ lv1[Abs(x)] = level[Abs(x)]
  <2>1. Abs(x) \in Vars /\ assignments[Abs(x)] # unassigned
    BY <1>3, <1>7, ValFacts, LitFacts
  <2>2. PICK j \in 1..n : Abs(trail[j]) = Abs(x)
    BY <1>3, <2>1
  <2>3. ~(trail_lim[d] < j)
    BY <1>3, <1>7, <2>2
  <2>4. j \in 1..k
    BY <1>3, <1>7, <2>3
  <2>5. QED
    BY <1>2, <1>4, <2>1, <2>2, <2>4
<1>8. \A j \in 1..n : j > k => Val(a1, trail[j]) = unassigned
  BY <1>2 DEF Val, n
<1>9. \A x : value(x) = Val(assignments, x) /\ value(x)' = Val(a1, x)
  BY ValueIsVal DEF a1
<1>10. /\ TrailOK(assignments', level', reason', trail', trail_lim')
       /\ Len(trail') = k /\ \A j \in 1..k : trail'[j] = trail[j]
       /\ Len(trail_lim') = b /\ \A d \in 1..b : trail_lim'[d] = trail_lim[d]
       /\ \A j \in 1..k : reason'[Abs(trail[j])] = reason[Abs(trail[j])]
  BY <1>2 DEF a1, lv1, rs1, t1, lim1
<1>11. QED
  BY <1>5, <1>6, <1>7, <1>8, <1>9, <1>10 DEF a1, lv1, n

\* The clause propagate visits: its second literal is the false one, and it is
\* the old clause or has its first two literals swapped.
LEMMA VisitFacts ==
  ASSUME TypeInv, QueueInv, WatchAll, TrailOK(assignments, level, reason, trail, trail_lim),
         Visiting
  PROVE  LET h == Head(todo)
             c == clauses[h]
         IN /\ h \in ClauseIds /\ cur \in Lits /\ value(cur) = 1 /\ value(-cur) = 0
            /\ level[Abs(cur)] = currentDecisionLevel
            /\ c \in Seq(Lits) /\ Len(c) >= 2
            /\ Visited \in Seq(Lits) /\ Len(Visited) = Len(c) /\ Visited[2] = -cur
            /\ \A i \in 3..Len(c) : Visited[i] = c[i]
            /\ \/ Visited = c
               \/ c[1] = -cur /\ Visited[1] = c[2]
            /\ \A l \in Lits : Watches(Visited, l) = Watches(c, l)
<1> DEFINE h == Head(todo)
           c == clauses[h]
<1>1. pc = "visit" /\ todo # <<>> /\ todo \in Seq(ClauseIds)
  BY DEF Visiting, TypeInv
<1>2. h \in ClauseIds
  BY <1>1
<1>3. c \in Seq(Lits) /\ Len(c) >= 2
  BY <1>2 DEF TypeInv, ClauseIds
<1>4. cur \in Lits /\ value(cur) = 1 /\ level[Abs(cur)] = currentDecisionLevel
  BY <1>1 DEF QueueInv, Current
<1>5. value(-cur) = 0 /\ -cur \in Lits /\ cur \in Int
  BY <1>4, ValueIsVal, ValFacts, LitFacts DEF TrailOK
<1>6. Times(todo, h) > 0
  <2>1. \E i \in 1..Len(todo) : todo[i] = h
    BY <1>1
  <2> DEFINE S == ClauseIds
             t == todo
  <2>2. t \in Seq(S) /\ \E i \in 1..Len(t) : t[i] = h
    BY <1>1, <2>1
  <2> HIDE DEF S, t, h
  <2>3. Times(t, h) > 0
    BY <2>2, TimesConcat
  <2>4. QED
    BY <2>3 DEF t
<1>7. c[1] = -cur \/ c[2] = -cur
  <2>1. Times(watchers[cur], h) + Times(todo, h) = Watches(c, cur)
    BY <1>2, <1>4 DEF WatchAll
  <2>2. Times(watchers[cur], h) \in Nat /\ Times(todo, h) \in Nat
    <3>1. watchers[cur] \in Seq(ClauseIds)
      BY <1>4 DEF TypeInv
    <3>2. QED
      BY <1>1, <3>1, TimesConcat
  <2>3. Watches(c, cur) > 0
    BY <1>6, <2>1, <2>2
  <2>4. QED
    BY <2>3 DEF Watches
<1> HIDE DEF h, c
<1>8. /\ Visited \in Seq(Lits) /\ Len(Visited) = Len(c) /\ Visited[2] = -cur
      /\ \A i \in 3..Len(c) : Visited[i] = c[i]
      /\ \/ Visited = c
         \/ c[1] = -cur /\ Visited[1] = c[2]
  <2>1. Visited = Turned(c)
    BY DEF Visited, h, c
  <2>2. CASE c[1] = -cur
    <3>1. Visited = [c EXCEPT ![1] = c[2], ![2] = -cur]
      BY <2>1, <2>2 DEF Turned
    <3>2. c[2] \in Lits
      BY <1>3
    <3> HIDE DEF c
    <3>3. QED
      BY <1>3, <1>5, <2>2, <3>1, <3>2
  <2>3. CASE c[1] # -cur
    BY <1>3, <1>7, <2>1, <2>3 DEF Turned
  <2>4. QED
    BY <2>2, <2>3
<1>9. \A l \in Lits : Watches(Visited, l) = Watches(c, l)
  BY <1>7, <1>8 DEF Watches
<1>10. QED
  BY <1>2, <1>3, <1>4, <1>5, <1>8, <1>9 DEF h, c

\* Every variable of a sequence of literals is found a first time.
LEMMA FirstVarOccurs ==
  ASSUME NEW s \in Seq(Lits), NEW i \in 1..Len(s)
  PROVE  \E j \in 1..Len(s) : Abs(s[j]) = Abs(s[i]) /\ FirstVar(s, j)
<1> DEFINE T == {j \in 1..Len(s) : Abs(s[j]) = Abs(s[i])}
<1>1. T \subseteq Nat /\ T # {}
  OBVIOUS
<1>2. PICK j \in T : \A k \in T : j <= k
  BY <1>1, Least
<1>3. j \in 1..Len(s) /\ Abs(s[j]) = Abs(s[i])
  OBVIOUS
<1>4. ASSUME NEW k \in 1..(j - 1) PROVE Abs(s[k]) # Abs(s[j])
  <2>1. k \in 1..Len(s) /\ k < j
    BY <1>3
  <2>2. CASE Abs(s[k]) = Abs(s[j])
    <3>1. k \in T
      BY <1>3, <2>1, <2>2
    <3>2. QED
      BY <1>2, <1>3, <2>1, <3>1
  <2>3. QED
    BY <2>2
<1>5. QED
  BY <1>3, <1>4 DEF FirstVar

\* What analyze expands: false literals, whose negations are on the trail.
LEMMA Expanded ==
  ASSUME TypeInv, TrailOK(assignments, level, reason, trail, trail_lim), AnalysisInv,
         pc = "analyze", conflict # NULL
  PROVE  /\ ReasonFor \in Seq(Lits) /\ currentDecisionLevel \in 1..Len(trail_lim)
         /\ currentDecisionLevel = Len(trail_lim)
         /\ \A i \in 1..Len(ReasonFor) :
              /\ ReasonFor[i] \in Lits /\ Abs(ReasonFor[i]) \in Vars
              /\ value(ReasonFor[i]) = 0 /\ LevelAt(i) \in 0..currentDecisionLevel
              /\ \E k \in 1..Len(trail) : trail[k] = -ReasonFor[i]
         /\ p = NULL => \E i \in 1..Len(ReasonFor) : LevelAt(i) = currentDecisionLevel
<1>1. Analyzing
  BY DEF AnalysisInv
<1>2. conflict \in ClauseIds
  BY DEF TypeInv, ClauseIds, NULL
<1>3. clauses[conflict] \in Seq(Lits) /\ Len(clauses[conflict]) >= 2
  BY <1>2 DEF TypeInv, ClauseIds
<1> DEFINE c == clauses[conflict]
<1>4. /\ currentDecisionLevel = Len(trail_lim) /\ currentDecisionLevel \in 1..Len(trail_lim)
  BY <1>1 DEF Analyzing, currentDecisionLevel, TrailOK
<1>5. /\ ReasonFor \in Seq(Lits)
      /\ \A i \in 1..Len(ReasonFor) : ReasonFor[i] \in Lits /\ value(ReasonFor[i]) = 0
      /\ p = NULL => \E i \in 1..Len(ReasonFor) : LevelAt(i) = currentDecisionLevel
  <2>1. CASE p = NULL
    <3>1. ReasonFor = c
      BY <2>1 DEF ReasonFor
    <3>2. Conflicting(conflict)
      BY <1>1, <2>1 DEF Analyzing
    <3>3. /\ \A i \in 1..Len(c) : value(c[i]) = 0
          /\ level[Abs(c[2])] = currentDecisionLevel
      BY <3>2 DEF Conflicting
    <3> HIDE DEF c
    <3>4. c \in Seq(Lits) /\ Len(c) >= 2 /\ 2 \in 1..Len(c)
      BY <1>3 DEF c
    <3>5. LevelAt(2) = currentDecisionLevel
      BY <3>1, <3>3 DEF LevelAt
    <3>6. QED
      BY <3>1, <3>3, <3>4, <3>5
  <2>2. CASE p # NULL
    <3>1. ReasonFor = Tail(c)
      BY <2>2 DEF ReasonFor
    <3>2. \A i \in 2..Len(c) : value(c[i]) = 0
      BY <1>1, <2>2 DEF Analyzing
    <3>3. c \in Seq(Lits) /\ Len(c) >= 2
      BY <1>3
    <3> HIDE DEF c
    <3>4. /\ Tail(c) \in Seq(Lits)
          /\ \A i \in 1..Len(Tail(c)) : Tail(c)[i] = c[i + 1] /\ i + 1 \in 2..Len(c)
      BY <3>3
    <3>5. \A i \in 1..Len(Tail(c)) : Tail(c)[i] \in Lits
      BY <3>4
    <3>6. QED
      BY <2>2, <3>1, <3>2, <3>4, <3>5
  <2>3. QED
    BY <2>1, <2>2
<1>6. ASSUME NEW i \in 1..Len(ReasonFor)
      PROVE  /\ Abs(ReasonFor[i]) \in Vars /\ LevelAt(i) \in 0..currentDecisionLevel
             /\ \E k \in 1..Len(trail) : trail[k] = -ReasonFor[i]
  <2> DEFINE x == ReasonFor[i]
  <2>1. x \in Lits /\ Val(assignments, x) = 0
    BY <1>5, ValueIsVal
  <2> HIDE DEF x
  <2>2. PICK k \in 1..Len(trail) : trail[k] = -x
    BY <2>1, TrailLit
  <2>3. Abs(trail[k]) = Abs(x) /\ Abs(x) \in Vars
    BY <2>1, <2>2, LitFacts
  <2>4. level[Abs(trail[k])] \in 0..Len(trail_lim)
    BY DEF TrailOK
  <2>5. QED
    BY <1>4, <2>2, <2>3, <2>4 DEF x, LevelAt
<1>7. QED
  BY <1>4, <1>5, <1>6

\* The literals of the level still to be expanded: those there were, and one for
\* each literal of the level found now.
LEMMA SeenGrows ==
  ASSUME TypeInv, TrailOK(assignments, level, reason, trail, trail_lim), AnalysisInv,
         pc = "analyze", conflict # NULL
  PROVE  /\ SeenOnTrail \subseteq 1..Len(trail) /\ SeenOnTrail # {}
         /\ Limit \in 0..Len(trail)
         /\ Cardinality(SeenOnTrail) = count + Cardinality(Here)
         /\ Cardinality(Here) \in Nat
<1> DEFINE C == ReasonFor
           n == Len(trail)
           L == currentDecisionLevel
           Places == {k \in (Limit + 1)..n : \E i \in Here : Abs(trail[k]) = Abs(C[i])}
<1>1. /\ C \in Seq(Lits) /\ L \in 1..Len(trail_lim) /\ L = Len(trail_lim)
      /\ \A i \in 1..Len(C) :
           /\ C[i] \in Lits /\ Abs(C[i]) \in Vars
           /\ LevelAt(i) \in 0..L
           /\ \E k \in 1..n : trail[k] = -C[i]
      /\ p = NULL => \E i \in 1..Len(C) : LevelAt(i) = L
  BY Expanded
<1>2. /\ n \in Nat /\ Limit \in 0..n
      /\ \A k \in 1..n : (Limit < k <=> L <= level[Abs(trail[k])])
                         /\ level[Abs(trail[k])] \in 0..L
      /\ \A j, k \in 1..n : Abs(trail[j]) = Abs(trail[k]) => j = k
  <2>1. /\ trail \in Seq(Lits) /\ trail_lim \in Seq(Nat)
        /\ \A d \in 1..Len(trail_lim) : trail_lim[d] <= n
        /\ \A k \in 1..n, d \in 1..Len(trail_lim) :
             trail_lim[d] < k <=> d <= level[Abs(trail[k])]
        /\ \A k \in 1..n : level[Abs(trail[k])] \in 0..Len(trail_lim)
        /\ \A j, k \in 1..n : Abs(trail[j]) = Abs(trail[k]) => j = k
    BY DEF TrailOK
  <2>2. trail_lim[L] \in Nat
    BY <1>1, <2>1
  <2>3. QED
    BY <1>1, <2>1, <2>2 DEF Limit
<1>3. /\ count = Cardinality(SeenHere)
      /\ p # NULL => count > 0
      /\ p = NULL => seen = {}
      /\ seen \subseteq Vars
  BY DEF AnalysisInv, Analyzing, TypeInv
<1>4. /\ Here \subseteq 1..Len(C)
      /\ \A i \in Here : FirstVar(C, i) /\ Abs(C[i]) \notin seen /\ LevelAt(i) = L
      /\ \A i \in 1..Len(C) : FirstVar(C, i) /\ Abs(C[i]) \notin seen /\ LevelAt(i) = L
                                => i \in Here
  BY <1>1 DEF Here, Fresh
<1>5. \A k \in 1..n, i \in 1..Len(C) :
         Abs(trail[k]) = Abs(C[i]) => level[Abs(trail[k])] = LevelAt(i)
  BY DEF LevelAt
<1> HIDE DEF C, n, L
<1>6. SeenOnTrail = SeenHere \cup Places
  <2>1. ASSUME NEW k \in (Limit + 1)..n
        PROVE  Abs(trail[k]) \in Seen <=>
                 Abs(trail[k]) \in seen \/ \E i \in Here : Abs(trail[k]) = Abs(C[i])
    <3>1. ASSUME Abs(trail[k]) \in Seen, Abs(trail[k]) \notin seen
          PROVE  \E i \in Here : Abs(trail[k]) = Abs(C[i])
      <4>1. PICK i \in Fresh : Abs(trail[k]) = Abs(C[i])
        BY <3>1 DEF Seen, C
      <4>2. i \in 1..Len(C)
        BY <1>1 DEF Fresh, C
      <4>3. k \in 1..n /\ Limit < k
        BY <1>2, <2>1
      <4>4. LevelAt(i) = L
        BY <1>1, <1>2, <1>5, <4>1, <4>2, <4>3
      <4>5. i \in Here
        BY <4>1, <4>4 DEF Here, L
      <4>6. QED
        BY <4>1, <4>5
    <3>2. QED
      BY <3>1 DEF Seen, Here, C
  <2>2. QED
    BY <2>1 DEF SeenOnTrail, SeenHere, n
<1>7. SeenHere \cap Places = {}
  BY <1>4 DEF SeenHere, n
<1>8. /\ SeenHere \subseteq 1..n /\ Places \subseteq 1..n
      /\ IsFiniteSet(SeenHere) /\ IsFiniteSet(Places)
  <2>1. SeenHere \subseteq 1..n /\ Places \subseteq 1..n
    BY <1>2 DEF SeenHere, n
  <2>2. IsFiniteSet(1..n)
    BY <1>2, FS_Interval
  <2> DEFINE I == 1..n
  <2>3. SeenHere \subseteq I /\ Places \subseteq I /\ IsFiniteSet(I)
    BY <2>1, <2>2
  <2> HIDE DEF I, Places
  <2>4. IsFiniteSet(SeenHere) /\ IsFiniteSet(Places)
    BY <2>3, FS_Subset
  <2>5. QED
    BY <2>1, <2>4
<1>9. \A i \in Here : \E k \in Places : Abs(trail[k]) = Abs(C[i])
  <2>1. ASSUME NEW i \in Here
        PROVE  \E k \in Places : Abs(trail[k]) = Abs(C[i])
    <3>1. i \in 1..Len(C) /\ LevelAt(i) = L
      BY <1>4
    <3>2. PICK k \in 1..n : trail[k] = -C[i]
      BY <1>1, <3>1
    <3>3. Abs(trail[k]) = Abs(C[i])
      BY <1>1, <3>1, <3>2, LitFacts
    <3>4. Limit < k
      BY <1>1, <1>2, <1>5, <3>1, <3>3
    <3>5. k \in Places
      BY <1>2, <3>3, <3>4
    <3>6. QED
      BY <3>3, <3>5
  <2>2. QED
    BY <2>1
<1>10. Cardinality(Here) = Cardinality(Places)
  <2> DEFINE f == [i \in Here |-> CHOOSE k \in Places : Abs(trail[k]) = Abs(C[i])]
  <2>1. \A i \in Here : f[i] \in Places /\ Abs(trail[f[i]]) = Abs(C[i])
    BY <1>9
  <2>2. ASSUME NEW i \in Here, NEW j \in Here, f[i] = f[j] PROVE i = j
    <3>1. Abs(C[i]) = Abs(C[j])
      BY <2>1, <2>2
    <3>2. i \in 1..Len(C) /\ j \in 1..Len(C) /\ FirstVar(C, i) /\ FirstVar(C, j)
      BY <1>4
    <3>3. ~(i < j) /\ ~(j < i)
      BY <3>1, <3>2 DEF FirstVar
    <3>4. QED
      BY <3>2, <3>3
  <2>3. ASSUME NEW k \in Places PROVE \E i \in Here : f[i] = k
    <3>1. PICK i \in Here : Abs(trail[k]) = Abs(C[i])
      OBVIOUS
    <3>2. f[i] \in 1..n /\ k \in 1..n /\ Abs(trail[f[i]]) = Abs(trail[k])
      BY <1>8, <2>1, <3>1
    <3>3. QED
      BY <1>2, <3>2
  <2>4. f \in [Here -> Places]
    BY <2>1
  <2> HIDE DEF f, Places
  <2>5. QED
    BY <1>8, <2>2, <2>3, <2>4, OneToOne
<1> HIDE DEF Places
<1>11. Cardinality(SeenHere \cup Places) = Cardinality(SeenHere) + Cardinality(Places)
  <2>1. Cardinality(SeenHere \cup Places)
          = Cardinality(SeenHere) + Cardinality(Places) - Cardinality(SeenHere \cap Places)
    BY <1>8, FS_Union
  <2>2. Cardinality(SeenHere) \in Nat /\ Cardinality(Places) \in Nat
    BY <1>8, FS_CardinalityType
  <2>3. Cardinality(SeenHere \cap Places) = 0
    BY <1>7, FS_EmptySet
  <2>4. QED
    BY <2>1, <2>2, <2>3
<1>12. SeenOnTrail # {}
  <2>1. CASE p = NULL
    <3>1. PICK i \in 1..Len(C) : LevelAt(i) = L
      BY <1>1, <2>1
    <3>2. PICK j \in 1..Len(C) : Abs(C[j]) = Abs(C[i]) /\ FirstVar(C, j)
      BY <1>1, FirstVarOccurs
    <3>3. LevelAt(j) = L
      BY <3>1, <3>2 DEF LevelAt, C
    <3>4. j \in Here
      BY <1>3, <1>4, <2>1, <3>2, <3>3
    <3>5. QED
      BY <1>6, <1>9, <3>4
  <2>2. CASE p # NULL
    <3>1. SeenHere # {}
      BY <1>3, <2>2, FS_EmptySet
    <3>2. QED
      BY <1>6, <3>1
  <2>3. QED
    BY <2>1, <2>2
<1>13. Cardinality(Here) \in Nat
  BY <1>8, <1>10, FS_CardinalityType
<1>14. QED
  BY <1>2, <1>3, <1>6, <1>8, <1>10, <1>11, <1>12, <1>13 DEF n

LEMMA HighestIs ==
  ASSUME NEW S, S \subseteq Int, NEW x, NEW y \in S, \A z \in S : z <= y
  PROVE  Highest(S, x) = y
<1> DEFINE h == CHOOSE m \in S : \A z \in S : m >= z
<1>1. \A z \in S : y >= z
  OBVIOUS
<1>2. h \in S /\ \A z \in S : h >= z
  BY <1>1
<1> HIDE DEF h
<1>3. h = y
  BY <1>2
<1>4. QED
  BY <1>3 DEF Highest, h

LEMMA HighestFacts ==
  ASSUME NEW n \in Nat, NEW S, S \subseteq 0..n, S # {}, NEW x
  PROVE  Highest(S, x) \in S /\ \A z \in S : z <= Highest(S, x)
<1>1. PICK y \in S : \A z \in S : z <= y
  BY Greatest
<1>2. S \subseteq Int
  OBVIOUS
<1>3. Highest(S, x) = y
  BY <1>1, <1>2, HighestIs
<1>4. QED
  BY <1>1, <1>3

\* One turn of analyze takes the trail off down to the literal it expands next,
\* the last of those that were seen.
LEMMA Turn ==
  ASSUME TypeInv, TrailOK(assignments, level, reason, trail, trail_lim), AnalysisInv, Analyze
  PROVE  \E k \in SeenOnTrail :
           /\ k \in 1..Len(trail) /\ Limit < k /\ \A j \in SeenOnTrail : j <= k
           /\ p' = trail[k] /\ conflict' = reason[Abs(trail[k])]
           /\ UndoTo(k - 1)
           /\ pc' = IF count' > 0 /\ k - 1 > Limit THEN "analyze" ELSE "backtrack"
<1>1. pc = "analyze" /\ conflict # NULL
  BY DEF Analyze
<1>2. /\ SeenOnTrail \subseteq 1..Len(trail) /\ SeenOnTrail # {}
      /\ Limit \in 0..Len(trail) /\ Len(trail) \in Nat
  BY <1>1, SeenGrows DEF TrailOK
<1> DEFINE k == Highest(SeenOnTrail, Limit + 1)
<1>3. k \in SeenOnTrail /\ \A j \in SeenOnTrail : j <= k
  <2> DEFINE S == SeenOnTrail
             n == Len(trail)
             x == Limit + 1
  <2>1. S \subseteq 0..n /\ S # {} /\ n \in Nat
    BY <1>2
  <2> HIDE DEF S, n, x
  <2>2. Highest(S, x) \in S /\ \A z \in S : z <= Highest(S, x)
    BY <2>1, HighestFacts
  <2>3. QED
    BY <2>2 DEF S, x
<1>4. /\ p' = IF SeenOnTrail # {} THEN trail[k]
              ELSE IF Limit > 0 THEN trail[Limit] ELSE NULL
      /\ conflict' = IF k <= Len(trail) THEN ReasonOf(trail[k]) ELSE conflict
      /\ UndoTo(k - 1)
      /\ pc' = IF count' > 0 /\ k - 1 > Limit THEN "analyze" ELSE "backtrack"
  BY Zenon DEF Analyze
<1> HIDE DEF k
<1>5. k \in 1..Len(trail) /\ Limit < k
  BY <1>2, <1>3 DEF SeenOnTrail
<1>6. p' = trail[k]
  BY <1>2, <1>4
<1>7. conflict' = reason[Abs(trail[k])]
  BY <1>2, <1>4, <1>5 DEF ReasonOf
<1>8. QED
  BY <1>3, <1>4, <1>5, <1>6, <1>7

\* What the turn finds below the level.
LEMMA Found ==
  ASSUME TypeInv, TrailOK(assignments, level, reason, trail, trail_lim), AnalysisInv, Analyze
  PROVE  /\ learnt' \in Seq(Lits \cup {NULL}) /\ Len(learnt') >= Len(learnt)
         /\ \A i \in 1..Len(learnt) : learnt'[i] = learnt[i]
         /\ \A i \in 1..Len(learnt') : i > Len(learnt) =>
              \E j \in Below : learnt'[i] = ReasonFor[j]
         /\ \A j \in Below : \E i \in 1..Len(learnt') : i > Len(learnt) /\ learnt'[i] = ReasonFor[j]
         /\ \A j \in Below : j \in 1..Len(ReasonFor) /\ LevelAt(j) \in 1..backtrackLevel'
         /\ backtrackLevel <= backtrackLevel' /\ backtrackLevel' < currentDecisionLevel
         /\ backtrackLevel' \in 0..N
         /\ backtrackLevel' # backtrackLevel =>
              \E j \in Below : LevelAt(j) = backtrackLevel'
<1>1. pc = "analyze" /\ conflict # NULL /\ Analyzing
  BY DEF Analyze, AnalysisInv
<1>2. /\ ReasonFor \in Seq(Lits) /\ currentDecisionLevel \in Nat
      /\ \A i \in 1..Len(ReasonFor) : LevelAt(i) \in 0..currentDecisionLevel
  BY <1>1, Expanded
<1>3. /\ Below \subseteq 1..Len(ReasonFor)
      /\ \A j \in Below : LevelAt(j) \in 1..(currentDecisionLevel - 1)
  <2>1. \A j \in Below : j \in 1..Len(ReasonFor) /\ LevelAt(j) > 0
                         /\ LevelAt(j) # currentDecisionLevel
    BY <1>2 DEF Below, Here, Fresh
  <2>2. QED
    BY <1>2, <2>1
<1>4. /\ learnt \in Seq(Lits \cup {NULL}) /\ N \in Nat
      /\ backtrackLevel \in 0..N /\ backtrackLevel < currentDecisionLevel
  BY <1>1, NAssumption DEF TypeInv, Analyzing
<1>5. currentDecisionLevel <= N
  BY TrailLength DEF currentDecisionLevel
<1>6. /\ learnt' = learnt \o At(ReasonFor, Below)
      /\ backtrackLevel' = Highest({backtrackLevel} \cup {LevelAt(i) : i \in Below}, 0)
  BY DEF Analyze
<1> DEFINE new == At(ReasonFor, Below)
<1>7. /\ new \in Seq(Lits)
      /\ \A i \in 1..Len(new) : \E j \in Below : new[i] = ReasonFor[j]
      /\ \A j \in Below : \E i \in 1..Len(new) : new[i] = ReasonFor[j]
  <2> DEFINE C == ReasonFor
             B == Below
  <2>1. C \in Seq(Lits) /\ B \subseteq 1..Len(C)
    BY <1>2, <1>3
  <2> HIDE DEF C, B
  <2>2. /\ At(C, B) \in Seq(Lits)
        /\ \A k \in 1..Len(At(C, B)) : \E i \in B : At(C, B)[k] = C[i]
        /\ \A i \in B : \E k \in 1..Len(At(C, B)) : At(C, B)[k] = C[i]
    BY <2>1, AtPositions
  <2>3. QED
    BY <2>2 DEF C, B
<1> HIDE DEF new
<1>8. /\ learnt' \in Seq(Lits \cup {NULL})
      /\ Len(learnt) \in Nat /\ Len(new) \in Nat
      /\ Len(learnt') = Len(learnt) + Len(new)
      /\ \A i \in 1..Len(learnt) : learnt'[i] = learnt[i]
      /\ \A i \in 1..Len(learnt') : i > Len(learnt) =>
            i - Len(learnt) \in 1..Len(new) /\ learnt'[i] = new[i - Len(learnt)]
      /\ \A i \in 1..Len(new) : learnt'[i + Len(learnt)] = new[i]
  <2>1. learnt' = learnt \o new
    BY <1>6 DEF new
  <2>2. new \in Seq(Lits \cup {NULL})
    BY <1>7
  <2>3. QED
    BY <1>4, <2>1, <2>2
<1>9. ASSUME NEW j \in Below
      PROVE  \E i \in 1..Len(learnt') : i > Len(learnt) /\ learnt'[i] = ReasonFor[j]
  <2>1. PICK i \in 1..Len(new) : new[i] = ReasonFor[j]
    BY <1>7
  <2>2. /\ i + Len(learnt) \in 1..Len(learnt') /\ i + Len(learnt) > Len(learnt)
        /\ learnt'[i + Len(learnt)] = ReasonFor[j]
    BY <1>8, <2>1
  <2>3. QED
    BY <2>2
<1> DEFINE S == {backtrackLevel} \cup {LevelAt(i) : i \in Below}
<1>10. backtrackLevel' \in S /\ \A z \in S : z <= backtrackLevel'
  <2>1. S \subseteq 0..N /\ S # {}
    <3>1. \A i \in Below : LevelAt(i) \in 0..N
      BY <1>2, <1>3, <1>4, <1>5
    <3>2. QED
      BY <1>4, <3>1
  <2>2. backtrackLevel' = Highest(S, 0)
    BY <1>6
  <2> HIDE DEF S
  <2>3. QED
    BY <1>4, <2>1, <2>2, HighestFacts
<1>11. /\ backtrackLevel' \in 0..N /\ backtrackLevel' < currentDecisionLevel
       /\ backtrackLevel <= backtrackLevel'
       /\ \A j \in Below : LevelAt(j) \in 1..backtrackLevel'
       /\ backtrackLevel' # backtrackLevel => \E j \in Below : LevelAt(j) = backtrackLevel'
  <2>1. backtrackLevel' = backtrackLevel \/ \E j \in Below : LevelAt(j) = backtrackLevel'
    BY <1>10
  <2>2. /\ backtrackLevel <= backtrackLevel'
        /\ \A j \in Below : LevelAt(j) <= backtrackLevel'
    BY <1>10
  <2>3. backtrackLevel' \in 0..N /\ backtrackLevel' < currentDecisionLevel
    BY <1>2, <1>3, <1>4, <1>5, <2>1
  <2>4. QED
    BY <1>3, <2>1, <2>2, <2>3
<1>12. ASSUME NEW i \in 1..Len(learnt'), i > Len(learnt)
       PROVE  \E j \in Below : learnt'[i] = ReasonFor[j]
  <2>1. i - Len(learnt) \in 1..Len(new) /\ learnt'[i] = new[i - Len(learnt)]
    BY <1>8, <1>12
  <2>2. QED
    BY <1>7, <2>1
<1>13. Len(learnt') >= Len(learnt)
  BY <1>8
<1>14. QED
  BY <1>3, <1>8, <1>9, <1>11, <1>12, <1>13

\* The trail after a turn, and what was seen on it.
LEMMA AfterTurn ==
  ASSUME TypeInv, TrailOK(assignments, level, reason, trail, trail_lim), AnalysisInv, Analyze
  PROVE  /\ TrailOK(assignments', level', reason', trail', trail_lim')
         /\ trail_lim' = trail_lim /\ clauses' = clauses
         /\ Limit \in 0..Len(trail')
         /\ Len(trail') + 1 \in SeenOnTrail /\ p' = trail[Len(trail') + 1]
         /\ conflict' = reason[Abs(trail[Len(trail') + 1])]
         /\ Len(trail') + 1 \in 1..Len(trail)
         /\ \A j \in 1..Len(trail') : /\ trail'[j] = trail[j]
                                      /\ reason'[Abs(trail[j])] = reason[Abs(trail[j])]
         /\ SeenHere' = SeenOnTrail \ {Len(trail') + 1}
         /\ p' \in Lits /\ value(p)' = unassigned
         /\ \A x \in Lits : value(x) # unassigned /\ level[Abs(x)] < currentDecisionLevel =>
              value(x)' = value(x) /\ level'[Abs(x)] = level[Abs(x)]
         /\ \A x \in Lits : value(x)' # unassigned =>
              value(x)' = value(x) /\ level'[Abs(x)] = level[Abs(x)]
         /\ \A x \in Lits : value(x) = unassigned => value(x)' = unassigned
         /\ pc' = IF count' > 0 /\ Len(trail') > Limit THEN "analyze" ELSE "backtrack"
<1>1. pc = "analyze" /\ conflict # NULL
  BY DEF Analyze
<1>2. PICK k \in SeenOnTrail :
           /\ k \in 1..Len(trail) /\ Limit < k /\ \A j \in SeenOnTrail : j <= k
           /\ p' = trail[k] /\ conflict' = reason[Abs(trail[k])]
           /\ UndoTo(k - 1)
           /\ pc' = IF count' > 0 /\ k - 1 > Limit THEN "analyze" ELSE "backtrack"
  BY Turn
<1>3. /\ trail_lim' = trail_lim /\ clauses' = clauses /\ seen' = Seen
  BY DEF Analyze
<1>4. /\ currentDecisionLevel = Len(trail_lim) /\ currentDecisionLevel \in 1..Len(trail_lim)
      /\ Limit \in 0..Len(trail)
  BY <1>1, Expanded, SeenGrows
<1>5. /\ trail_lim \in Seq(Nat) /\ Len(trail) \in Nat
      /\ \A d, e \in 1..Len(trail_lim) : d < e => trail_lim[d] < trail_lim[e]
      /\ \A d \in 1..Len(trail_lim) : trail_lim[d] \in Nat
      /\ \A j \in 1..Len(trail) : trail[j] \in Lits
  BY TrailLit DEF TrailOK
<1>6. \A d \in 1..Len(trail_lim) : trail_lim[d] <= Limit
  BY <1>4, <1>5 DEF Limit
<1> DEFINE m == k - 1
           b == Len(trail_lim)
<1>7. /\ m \in 0..Len(trail) /\ b \in 0..Len(trail_lim) /\ Limit <= m
      /\ \A d \in 1..b : trail_lim[d] <= m
      /\ \A d \in 1..Len(trail_lim) : d > b => trail_lim[d] >= m
      /\ UndoTo(m) /\ trail_lim' = SubSeq(trail_lim, 1, b)
  <2>1. m \in 0..Len(trail) /\ b \in 0..Len(trail_lim) /\ Limit <= m
    BY <1>2, <1>4, <1>5
  <2>2. \A d \in 1..b : trail_lim[d] <= m
    BY <1>4, <1>5, <1>6, <2>1
  <2>3. SubSeq(trail_lim, 1, b) = trail_lim
    BY <1>5
  <2>4. QED
    BY <1>2, <1>3, <2>1, <2>2, <2>3
<1> HIDE DEF m, b
<1>8. /\ TrailOK(assignments', level', reason', trail', trail_lim')
      /\ Len(trail') = m /\ \A j \in 1..m : trail'[j] = trail[j]
      /\ \A j \in 1..m : reason'[Abs(trail[j])] = reason[Abs(trail[j])]
      /\ \A j \in 1..Len(trail) : j > m => Val(assignments', trail[j]) = unassigned
      /\ \A x \in Lits : value(x) = unassigned => value(x)' = unassigned
      /\ \A x \in Lits : value(x)' # unassigned =>
              value(x)' = value(x) /\ level'[Abs(x)] = level[Abs(x)]
      /\ \A d \in 1..Len(trail_lim) : trail_lim[d] <= m =>
              \A x \in Lits : value(x) # unassigned /\ level[Abs(x)] < d =>
                value(x)' = value(x) /\ level'[Abs(x)] = level[Abs(x)]
  BY <1>7, TakenOff
<1>9. \A x \in Lits : value(x) # unassigned /\ level[Abs(x)] < currentDecisionLevel =>
              value(x)' = value(x) /\ level'[Abs(x)] = level[Abs(x)]
  BY <1>4, <1>7, <1>8 DEF Limit
<1>10. Limit' = Limit
  BY <1>3 DEF Limit, currentDecisionLevel
<1>11. SeenHere' = SeenOnTrail \ {k}
  <2>1. SeenHere' = {j \in (Limit + 1)..m : Abs(trail'[j]) \in Seen}
    BY <1>3, <1>8, <1>10 DEF SeenHere
  <2>2. SeenHere' = {j \in (Limit + 1)..m : Abs(trail[j]) \in Seen}
    BY <1>4, <1>8, <2>1
  <2>3. \A j : j \in (Limit + 1)..m <=> j \in (Limit + 1)..Len(trail) /\ j < k
    BY <1>2, <1>4, <1>5 DEF m
  <2>4. \A j : j \in SeenOnTrail \ {k} <=> j \in SeenOnTrail /\ j < k
    BY <1>2, <1>4, <1>5 DEF SeenOnTrail
  <2>5. QED
    BY <2>2, <2>3, <2>4 DEF SeenOnTrail
<1>12. Len(trail') + 1 = k /\ Len(trail') = k - 1
  BY <1>2, <1>5, <1>8 DEF m
<1>13. Val(assignments', p') = unassigned /\ p' \in Lits
  <2>1. k > m
    BY <1>2, <1>5 DEF m
  <2>2. QED
    BY <1>2, <1>5, <1>8, <2>1
<1>14. value(p)' = unassigned
  <2>1. value(p)' = Val(assignments', p')
    BY DEF value, Val
  <2>2. QED
    BY <1>13, <2>1
<1>15. Limit \in 0..Len(trail')
  BY <1>4, <1>7, <1>8
<1>16. pc' = IF count' > 0 /\ Len(trail') > Limit THEN "analyze" ELSE "backtrack"
  BY <1>2, <1>12
<1>17. /\ \A j \in 1..Len(trail') : /\ trail'[j] = trail[j]
                                    /\ reason'[Abs(trail[j])] = reason[Abs(trail[j])]
       /\ Len(trail') + 1 \in SeenOnTrail /\ p' = trail[Len(trail') + 1]
       /\ conflict' = reason[Abs(trail[Len(trail') + 1])]
       /\ Len(trail') + 1 \in 1..Len(trail)
       /\ SeenHere' = SeenOnTrail \ {Len(trail') + 1}
  BY <1>2, <1>8, <1>11, <1>12
<1>18. QED
  BY <1>3, <1>8, <1>9, <1>13, <1>14, <1>15, <1>16, <1>17

\* The counter of analyze counts what is still to be expanded.
LEMMA CountKept ==
  ASSUME TypeInv, TrailOK(assignments, level, reason, trail, trail_lim), AnalysisInv, Analyze
  PROVE  /\ count' = Cardinality(SeenHere') /\ count' \in Nat
         /\ pc' = IF count' > 0 THEN "analyze" ELSE "backtrack"
<1>1. /\ SeenOnTrail \subseteq 1..Len(trail)
      /\ Cardinality(SeenOnTrail) = count + Cardinality(Here)
      /\ Cardinality(Here) \in Nat /\ count \in Int
  BY SeenGrows DEF Analyze, TypeInv
<1>2. /\ Len(trail') + 1 \in SeenOnTrail
      /\ SeenHere' = SeenOnTrail \ {Len(trail') + 1}
      /\ pc' = IF count' > 0 /\ Len(trail') > Limit THEN "analyze" ELSE "backtrack"
      /\ Limit \in 0..Len(trail') /\ trail_lim' = trail_lim
      /\ TrailOK(assignments', level', reason', trail', trail_lim')
  BY AfterTurn
<1>3. count' = count + Cardinality(Here) - 1
  BY DEF Analyze
<1>4. IsFiniteSet(SeenOnTrail)
  <2> DEFINE I == 1..Len(trail)
  <2>1. IsFiniteSet(I)
    BY FS_Interval DEF TrailOK
  <2>2. SeenOnTrail \subseteq I
    BY <1>1
  <2> HIDE DEF I
  <2>3. QED
    BY <2>1, <2>2, FS_Subset
<1>5. /\ Cardinality(SeenHere') = Cardinality(SeenOnTrail) - 1
      /\ IsFiniteSet(SeenHere') /\ Cardinality(SeenHere') \in Nat
  <2> DEFINE S == SeenOnTrail
             k == Len(trail') + 1
  <2>1. IsFiniteSet(S) /\ k \in S
    BY <1>2, <1>4
  <2> HIDE DEF S, k
  <2>2. /\ Cardinality(S \ {k}) = Cardinality(S) - 1 /\ IsFiniteSet(S \ {k})
    BY <2>1, FS_RemoveElement
  <2>3. Cardinality(S \ {k}) \in Nat
    BY <2>2, FS_CardinalityType
  <2>4. QED
    BY <1>2, <2>2, <2>3 DEF S, k
<1>6. count' = Cardinality(SeenHere') /\ count' \in Nat
  BY <1>1, <1>3, <1>5
<1>7. count' > 0 => Len(trail') > Limit
  <2>1. ASSUME count' > 0 PROVE Len(trail') > Limit
    <3>1. SeenHere' # {}
      BY <1>6, <2>1, FS_EmptySet
    <3>2. PICK j \in SeenHere' : TRUE
      BY <3>1
    <3>3. j \in (Limit' + 1)..Len(trail') /\ Limit' = Limit
      BY <1>2, <3>2 DEF SeenHere, Limit, currentDecisionLevel
    <3>4. QED
      BY <1>2, <3>3 DEF TrailOK
  <2>2. QED
    BY <2>1
<1>8. QED
  BY <1>2, <1>6, <1>7

LEMMA AnalyzeKeeps ==
  ASSUME TypeInv, TrailOK(assignments, level, reason, trail, trail_lim), Reasons,
         AnalysisInv, Analyze
  PROVE  Reasons' /\ AnalysisInv'
<1>1. /\ TrailOK(assignments', level', reason', trail', trail_lim')
      /\ trail_lim' = trail_lim /\ clauses' = clauses
      /\ p' = trail[Len(trail') + 1]
      /\ conflict' = reason[Abs(trail[Len(trail') + 1])]
      /\ Len(trail') + 1 \in 1..Len(trail)
      /\ \A j \in 1..Len(trail') : /\ trail'[j] = trail[j]
                                   /\ reason'[Abs(trail[j])] = reason[Abs(trail[j])]
      /\ p' \in Lits /\ value(p)' = unassigned
      /\ \A x \in Lits : value(x) # unassigned /\ level[Abs(x)] < currentDecisionLevel =>
              value(x)' = value(x) /\ level'[Abs(x)] = level[Abs(x)]
  BY AfterTurn
<1>2. pc = "analyze" /\ conflict # NULL /\ Analyzing
  BY DEF Analyze, AnalysisInv
<1>3. /\ count' = Cardinality(SeenHere') /\ count' \in Nat
      /\ pc' = IF count' > 0 THEN "analyze" ELSE "backtrack"
  BY CountKept
<1>4. /\ learnt' \in Seq(Lits \cup {NULL}) /\ Len(learnt') >= Len(learnt)
      /\ \A i \in 1..Len(learnt) : learnt'[i] = learnt[i]
      /\ \A i \in 1..Len(learnt') : i > Len(learnt) =>
              \E j \in Below : learnt'[i] = ReasonFor[j]
      /\ \A j \in Below : \E i \in 1..Len(learnt') : i > Len(learnt) /\ learnt'[i] = ReasonFor[j]
      /\ \A j \in Below : j \in 1..Len(ReasonFor) /\ LevelAt(j) \in 1..backtrackLevel'
      /\ backtrackLevel <= backtrackLevel' /\ backtrackLevel' < currentDecisionLevel
      /\ backtrackLevel' \in 0..N
      /\ backtrackLevel' # backtrackLevel =>
              \E j \in Below : LevelAt(j) = backtrackLevel'
  BY Found
<1>5. /\ \A i \in 1..Len(ReasonFor) : ReasonFor[i] \in Lits /\ value(ReasonFor[i]) = 0
      /\ currentDecisionLevel \in Nat
  BY <1>2, Expanded
<1>6. /\ Len(learnt) >= 1 /\ Len(learnt) \in Nat /\ Len(learnt') \in Nat
      /\ \A i \in 2..Len(learnt) : /\ learnt[i] \in Lits /\ value(learnt[i]) = 0
                                   /\ level[Abs(learnt[i])] \in 1..backtrackLevel
      /\ backtrackLevel > 0 =>
           \E i \in 2..Len(learnt) : level[Abs(learnt[i])] = backtrackLevel
      /\ backtrackLevel \in Nat
  BY <1>2, <1>4 DEF Analyzing, LearntBelow, TypeInv
<1>a. currentDecisionLevel' = currentDecisionLevel
  BY <1>1 DEF currentDecisionLevel
<1> DEFINE n == Len(learnt)
           n1 == Len(learnt')
           lv1 == level'
           ln1 == learnt'
           b1 == backtrackLevel'
           L == currentDecisionLevel
<1> HIDE DEF n, n1, lv1, ln1, b1, L
<1>7. ASSUME NEW x \in Lits, value(x) = 0, level[Abs(x)] \in 1..b1
      PROVE  value(x)' = 0 /\ lv1[Abs(x)] = level[Abs(x)]
  <2>1. value(x) # unassigned /\ level[Abs(x)] < L
    BY <1>4, <1>5, <1>7 DEF L, b1, unassigned
  <2>2. QED
    BY <1>1, <1>7, <2>1 DEF lv1, L
<1>8. ASSUME NEW i \in 2..n1
      PROVE  ln1[i] \in Lits /\ value(ln1[i]) = 0 /\ level[Abs(ln1[i])] \in 1..b1
  <2>1. CASE i \in 2..n
    <3>1. ln1[i] = learnt[i]
      BY <1>4, <1>6, <2>1 DEF n, ln1
    <3>2. learnt[i] \in Lits /\ value(learnt[i]) = 0 /\ level[Abs(learnt[i])] \in 1..backtrackLevel
      BY <1>6, <2>1 DEF n
    <3>3. b1 \in Nat /\ backtrackLevel <= b1
      BY <1>4 DEF b1
    <3>4. QED
      BY <1>6, <3>1, <3>2, <3>3
  <2>2. CASE i > n
    <3>1. PICK j \in Below : ln1[i] = ReasonFor[j]
      BY <1>4, <1>6, <2>2 DEF n, n1, ln1
    <3>2. j \in 1..Len(ReasonFor) /\ LevelAt(j) \in 1..b1
      BY <1>4 DEF b1
    <3>3. QED
      BY <1>5, <3>1, <3>2 DEF LevelAt
  <2>3. i \in 2..n \/ i > n
    BY <1>6 DEF n, n1
  <2>4. QED
    BY <2>1, <2>2, <2>3
<1>9. ASSUME NEW i \in 2..n1
      PROVE  /\ ln1[i] \in Lits /\ Val(assignments', ln1[i]) = 0
             /\ lv1[Abs(ln1[i])] \in 1..b1 /\ lv1[Abs(ln1[i])] = level[Abs(ln1[i])]
  <2>1. ln1[i] \in Lits /\ value(ln1[i]) = 0 /\ level[Abs(ln1[i])] \in 1..b1
    BY <1>8
  <2>2. Val(assignments', ln1[i]) = 0 /\ lv1[Abs(ln1[i])] = level[Abs(ln1[i])]
    BY <1>7, <2>1, ValueIsVal
  <2>3. QED
    BY <2>1, <2>2
<1>10. ASSUME b1 > 0 PROVE \E i \in 2..n1 : lv1[Abs(ln1[i])] = b1
  <2>1. CASE b1 = backtrackLevel
    <3>1. PICK i \in 2..n : level[Abs(learnt[i])] = backtrackLevel
      BY <1>6, <1>10, <2>1 DEF n
    <3>2. i \in 2..n1 /\ ln1[i] = learnt[i]
      BY <1>4, <1>6 DEF n, n1, ln1
    <3>3. QED
      BY <1>9, <2>1, <3>1, <3>2
  <2>2. CASE b1 # backtrackLevel
    <3>1. PICK j \in Below : LevelAt(j) = b1
      BY <1>4, <2>2 DEF b1
    <3>2. PICK i \in 1..n1 : i > n /\ ln1[i] = ReasonFor[j]
      BY <1>4 DEF n, n1, ln1
    <3>3. i \in 2..n1
      BY <1>6, <3>2 DEF n, n1
    <3>4. level[Abs(ln1[i])] = b1
      BY <3>1, <3>2 DEF LevelAt
    <3>5. QED
      BY <1>9, <3>3, <3>4
  <2>3. QED
    BY <2>1, <2>2
<1>11. LearntBelow'
  <2>1. \A l : value(l)' = Val(assignments', l)
    BY ValueIsVal
  <2>2. n1 >= 1
    BY <1>4, <1>6 DEF n, n1
  <2>3. \A i \in 2..Len(learnt') : value(learnt[i])' = 0
    <3>1. \A i : value(learnt[i])' = Val(assignments', learnt'[i])
      BY DEF value, Val
    <3>2. QED
      BY <1>9, <3>1 DEF n1, ln1
  <2>4. QED
    BY <1>9, <1>10, <2>2, <2>3 DEF LearntBelow, n1, lv1, ln1, b1
<1>12. Reasons'
  <2> DEFINE rs1 == reason'
             t1 == trail'
             k == Len(trail')
  <2>1. /\ ReasonOK(clauses, reason, trail)
        /\ k \in 0..Len(trail) /\ Len(t1) = k
        /\ \A j \in 1..k : t1[j] = trail[j] /\ rs1[Abs(trail[j])] = reason[Abs(trail[j])]
    <3>1. Len(trail') \in Nat /\ Len(trail) \in Nat
      BY <1>1 DEF TrailOK
    <3>2. QED
      BY <1>1, <3>1 DEF Reasons
  <2> HIDE DEF rs1, t1, k
  <2>2. ReasonOK(clauses, rs1, t1)
    BY <2>1, ReasonPrefix
  <2>3. QED
    BY <1>1, <2>2 DEF Reasons, rs1, t1
<1>13. ASSUME conflict' # NULL
       PROVE  /\ clauses'[conflict'][1] = p'
              /\ \A i \in 2..Len(clauses'[conflict']) : value(clauses[conflict][i])' = 0
  <2> DEFINE k == Len(trail') + 1
             c == reason[Abs(trail[k])]
  <2>1. /\ k \in 1..Len(trail) /\ c # NULL /\ conflict' = c /\ p' = trail[k]
        /\ ReasonOK(clauses, reason, trail)
    BY <1>1, <1>13 DEF Reasons
  <2>2. /\ c \in 1..Len(clauses) /\ clauses[c][1] = trail[k]
        /\ \A i \in 2..Len(clauses[c]) : \E j \in 1..(k - 1) : trail[j] = -clauses[c][i]
    BY <2>1 DEF ReasonOK
  <2>a. clauses[c] \in Seq(Lits)
    BY <2>2 DEF TypeInv
  <2>3. \A i \in 1..Len(clauses[c]) : clauses[c][i] \in Lits
    BY <2>a
  <2>4. Len(clauses[c]) \in Nat
    BY <2>2 DEF TypeInv
  <2>5. k - 1 = Len(trail') /\ Len(trail') \in Nat
    BY <1>1 DEF TrailOK
  <2> HIDE DEF c, k
  <2>6. ASSUME NEW i \in 2..Len(clauses[c]) PROVE Val(assignments', clauses[c][i]) = 0
    <3>1. PICK j \in 1..(k - 1) : trail[j] = -clauses[c][i]
      BY <2>2
    <3>2. j \in 1..Len(trail') /\ trail'[j] = -clauses[c][i]
      BY <1>1, <2>5, <3>1
    <3> DEFINE a1 == assignments'
               lv2 == level'
               rs1 == reason'
               t1 == trail'
               lim1 == trail_lim'
               x == clauses[c][i]
    <3>3. /\ TrailOK(a1, lv2, rs1, t1, lim1) /\ x \in Lits
          /\ \E m \in 1..Len(t1) : t1[m] = -x
      BY <1>1, <2>3, <2>4, <3>2
    <3> HIDE DEF a1, lv2, rs1, t1, lim1, x
    <3>4. Val(a1, x) = 0
      BY <3>3, TrailLit
    <3>5. QED
      BY <3>4 DEF a1, x
  <2>7. \A i : value(clauses[conflict][i])' = Val(assignments', clauses'[conflict'][i])
    BY DEF value, Val
  <2>8. QED
    BY <1>1, <2>1, <2>2, <2>6, <2>7
<1>14. p' # NULL
  BY <1>1, LitFacts DEF NULL
<1>15. Analyzing'
  <2>1. currentDecisionLevel' > 0 /\ backtrackLevel' < currentDecisionLevel'
    BY <1>2, <1>4, <1>a DEF Analyzing
  <2>2. count' > 0 \/ count' = 0
    BY <1>3
  <2>3. QED
    BY <1>1, <1>3, <1>11, <1>13, <1>14, <2>1, <2>2 DEF Analyzing
<1>16. AnalysisInv'
  BY <1>3, <1>15 DEF AnalysisInv
<1>17. QED
  BY <1>12, <1>16

\* cancelUntil leaves the literals of the levels up to backtrackLevel.
LEMMA Cancelled ==
  ASSUME TypeInv, TrailOK(assignments, level, reason, trail, trail_lim), AnalysisInv,
         cancelUntil
  PROVE  /\ TrailOK(assignments', level', reason', trail', trail_lim')
         /\ Len(trail_lim') = backtrackLevel
         /\ \A d \in 1..Len(trail_lim') : trail_lim'[d] < Len(trail')
         /\ Len(trail') \in 0..Len(trail)
         /\ \A j \in 1..Len(trail') : /\ trail'[j] = trail[j]
                                      /\ reason'[Abs(trail[j])] = reason[Abs(trail[j])]
         /\ \A x \in Lits : value(x) # unassigned /\ level[Abs(x)] <= backtrackLevel =>
              value(x)' = value(x) /\ level'[Abs(x)] = level[Abs(x)]
         /\ \A x \in Lits : value(x)' # unassigned =>
              value(x)' = value(x) /\ level'[Abs(x)] = level[Abs(x)]
         /\ \A x \in Lits : value(x) = unassigned => value(x)' = unassigned
<1>1. /\ pc = "backtrack" /\ CancelTo(backtrackLevel)
      /\ Analyzing
  BY DEF cancelUntil, AnalysisInv
<1>2. /\ trail_lim \in Seq(Nat) /\ Len(trail) \in Nat /\ Len(trail_lim) \in Nat
      /\ \A d, e \in 1..Len(trail_lim) : d < e => trail_lim[d] < trail_lim[e]
      /\ \A d \in 1..Len(trail_lim) : trail_lim[d] \in 0..Len(trail)
      /\ level \in [Vars -> Int]
  BY DEF TrailOK
<1> DEFINE b == backtrackLevel
           k == trail_lim[b + 1]
<1>3. b \in Nat /\ b < Len(trail_lim) /\ currentDecisionLevel = Len(trail_lim)
  BY <1>1, NAssumption DEF Analyzing, currentDecisionLevel, TypeInv
<1>4. UndoTo(k) /\ trail_lim' = SubSeq(trail_lim, 1, b)
  BY <1>1, <1>3, Zenon DEF CancelTo
<1>5. b + 1 \in 1..Len(trail_lim) /\ b \in 0..Len(trail_lim) /\ k \in 0..Len(trail)
  BY <1>2, <1>3
<1>6. /\ \A d \in 1..b : trail_lim[d] < k
      /\ \A d \in 1..Len(trail_lim) : d > b => trail_lim[d] >= k
  <2>1. \A d \in 1..b : d \in 1..Len(trail_lim) /\ d < b + 1
    BY <1>2, <1>3
  <2>2. \A d \in 1..b : trail_lim[d] < k
    BY <1>2, <1>5, <2>1
  <2>3. ASSUME NEW d \in 1..Len(trail_lim), d > b PROVE trail_lim[d] >= k
    <3>1. d = b + 1 \/ b + 1 < d
      BY <1>3, <2>3
    <3>2. QED
      BY <1>2, <1>5, <2>3, <3>1
  <2>4. QED
    BY <2>2, <2>3
<1>7. \A d \in 1..b : trail_lim[d] \in Nat
  BY <1>2, <1>3
<1> HIDE DEF k, b
<1>8. \A d \in 1..b : trail_lim[d] <= k
  BY <1>5, <1>6, <1>7
<1>9. /\ TrailOK(assignments', level', reason', trail', trail_lim')
      /\ Len(trail') = k /\ \A j \in 1..k : trail'[j] = trail[j]
      /\ Len(trail_lim') = b /\ \A d \in 1..b : trail_lim'[d] = trail_lim[d]
      /\ \A j \in 1..k : reason'[Abs(trail[j])] = reason[Abs(trail[j])]
      /\ \A j \in 1..Len(trail) : j > k => Val(assignments', trail[j]) = unassigned
      /\ \A x \in Lits : value(x) = unassigned => value(x)' = unassigned
      /\ \A x \in Lits : value(x)' # unassigned =>
              value(x)' = value(x) /\ level'[Abs(x)] = level[Abs(x)]
      /\ \A d \in 1..Len(trail_lim) : trail_lim[d] <= k =>
              \A x \in Lits : value(x) # unassigned /\ level[Abs(x)] < d =>
                value(x)' = value(x) /\ level'[Abs(x)] = level[Abs(x)]
  BY <1>4, <1>5, <1>6, <1>8, TakenOff
<1>10. ASSUME NEW x \in Lits, value(x) # unassigned, level[Abs(x)] <= b
       PROVE  value(x)' = value(x) /\ level'[Abs(x)] = level[Abs(x)]
  <2>1. level[Abs(x)] \in Int
    BY <1>2, LitFacts
  <2>2. level[Abs(x)] < b + 1 /\ trail_lim[b + 1] <= k
    BY <1>2, <1>3, <1>5, <1>10, <2>1 DEF b, k
  <2>3. QED
    BY <1>5, <1>9, <1>10, <2>2
<1>11. QED
  BY <1>5, <1>6, <1>9, <1>10 DEF b

LEMMA CancelKeeps ==
  ASSUME TypeInv, TrailOK(assignments, level, reason, trail, trail_lim), Reasons,
         AnalysisInv, cancelUntil
  PROVE  Reasons' /\ AnalysisInv'
<1>1. /\ TrailOK(assignments', level', reason', trail', trail_lim')
      /\ Len(trail_lim') = backtrackLevel
      /\ Len(trail') \in 0..Len(trail)
      /\ \A j \in 1..Len(trail') : /\ trail'[j] = trail[j]
                                   /\ reason'[Abs(trail[j])] = reason[Abs(trail[j])]
      /\ \A x \in Lits : value(x) # unassigned /\ level[Abs(x)] <= backtrackLevel =>
              value(x)' = value(x) /\ level'[Abs(x)] = level[Abs(x)]
      /\ \A x \in Lits : value(x) = unassigned => value(x)' = unassigned
  BY Cancelled
<1>2. /\ pc = "backtrack" /\ p # NULL /\ Analyzing
      /\ learnt' = [learnt EXCEPT ![1] = -p] /\ pc' = "learn"
      /\ clauses' = clauses /\ backtrackLevel' = backtrackLevel
  BY DEF cancelUntil, AnalysisInv
<1>3. Reasons'
  <2> DEFINE rs1 == reason'
             t1 == trail'
             k == Len(trail')
  <2>1. /\ ReasonOK(clauses, reason, trail)
        /\ k \in 0..Len(trail) /\ Len(t1) = k
        /\ \A j \in 1..k : t1[j] = trail[j] /\ rs1[Abs(trail[j])] = reason[Abs(trail[j])]
    BY <1>1 DEF Reasons
  <2> HIDE DEF rs1, t1, k
  <2>2. ReasonOK(clauses, rs1, t1)
    BY <2>1, ReasonPrefix
  <2>3. QED
    BY <1>2, <2>2 DEF Reasons, rs1, t1
<1>4. p \in Lits /\ -p \in Lits /\ value(-p) = unassigned
  <2>1. p \in Lits /\ value(p) = unassigned
    BY <1>2 DEF TypeInv, Analyzing
  <2>2. -p \in Lits /\ Abs(-p) = Abs(p) /\ Abs(p) \in Vars
    BY <2>1, LitFacts
  <2>3. assignments[Abs(p)] = unassigned
    BY <2>1, ValueIsVal, ValFacts DEF TrailOK
  <2>4. QED
    BY <2>1, <2>2, <2>3 DEF value
<1>5. /\ LearntBelow /\ learnt \in Seq(Lits \cup {NULL}) /\ backtrackLevel \in Nat
  BY <1>2, NAssumption DEF Analyzing, TypeInv
<1>6. /\ Len(learnt') = Len(learnt) /\ Len(learnt) \in Nat /\ Len(learnt) >= 1
      /\ learnt'[1] = -p /\ \A i \in 2..Len(learnt) : learnt'[i] = learnt[i]
  BY <1>2, <1>5 DEF LearntBelow
<1>7. \A i : value(learnt[i])' = Val(assignments', learnt'[i])
  BY DEF value, Val
<1>a. ASSUME NEW x \in Lits, value(x) = 0, level[Abs(x)] \in 1..backtrackLevel
      PROVE  Val(assignments', x) = 0 /\ level'[Abs(x)] = level[Abs(x)]
  <2>1. value(x) # unassigned /\ level[Abs(x)] <= backtrackLevel
    BY <1>5, <1>a DEF unassigned
  <2>2. value(x)' = 0 /\ level'[Abs(x)] = level[Abs(x)]
    BY <1>1, <1>a, <2>1
  <2>3. QED
    BY <2>2, ValueIsVal
<1>8. ASSUME NEW i \in 2..Len(learnt)
      PROVE  /\ learnt[i] \in Lits /\ Val(assignments', learnt[i]) = 0
             /\ level[Abs(learnt[i])] \in 1..backtrackLevel
             /\ level'[Abs(learnt[i])] = level[Abs(learnt[i])]
  <2>1. /\ learnt[i] \in Lits /\ value(learnt[i]) = 0
        /\ level[Abs(learnt[i])] \in 1..backtrackLevel
    BY <1>5 DEF LearntBelow
  <2>2. QED
    BY <1>a, <2>1
<1>9. LearntBelow'
  <2>1. \A i \in 2..Len(learnt') : /\ learnt'[i] \in Lits /\ value(learnt[i])' = 0
                                   /\ level'[Abs(learnt'[i])] \in 1..backtrackLevel'
    BY <1>2, <1>6, <1>7, <1>8
  <2>2. backtrackLevel > 0 => \E i \in 2..Len(learnt) : level[Abs(learnt[i])] = backtrackLevel
    BY <1>5 DEF LearntBelow
  <2>3. backtrackLevel' > 0 =>
          \E i \in 2..Len(learnt') : level'[Abs(learnt'[i])] = backtrackLevel'
    BY <1>2, <1>6, <1>8, <2>2
  <2>4. QED
    BY <1>6, <2>1, <2>3 DEF LearntBelow
<1>10. learnt'[1] \in Lits /\ value(learnt[1])' = unassigned
  <2> DEFINE y == -p
  <2>2. \A x \in Lits : value(x) = unassigned => Val(assignments', x) = unassigned
    BY <1>1, ValueIsVal
  <2>3. y \in Lits /\ value(y) = unassigned
    BY <1>4
  <2> HIDE DEF y
  <2>4. Val(assignments', y) = unassigned
    BY <2>2, <2>3
  <2>5. learnt'[1] = y
    BY <1>6 DEF y
  <2>6. QED
    BY <1>7, <2>3, <2>4, <2>5
<1>11. AnalysisInv'
  BY <1>1, <1>2, <1>9, <1>10 DEF AnalysisInv, currentDecisionLevel
<1>12. QED
  BY <1>3, <1>11

\* The clause learn makes: its first literal is to become true, the others are
\* false; when no literal was overwritten the second is of the highest level.
LEMMA Learnt ==
  ASSUME TypeInv, TrailOK(assignments, level, reason, trail, trail_lim), AnalysisInv,
         pc = "learn", Len(learnt) > 1
  PROVE  LET c == VECTORswitchPlace(learnt, 2, MaxLevelIndex(learnt)) IN
           /\ c \in Seq(Lits) /\ Len(c) = Len(learnt)
           /\ c[1] = learnt[1] /\ value(c[1]) = unassigned /\ c[1] # c[2]
           /\ \A j \in 2..Len(c) : /\ value(c[j]) = 0
                                   /\ \E i \in 2..Len(learnt) : c[j] = learnt[i]
           /\ ~Repeats(c) => c = learnt /\ level[Abs(c[2])] = currentDecisionLevel
<1>1. /\ LearntBelow /\ backtrackLevel = currentDecisionLevel
      /\ learnt[1] \in Lits /\ value(learnt[1]) = unassigned
  BY DEF AnalysisInv
<1> DEFINE n == Len(learnt)
           b == backtrackLevel
           m == MaxLevelIndex(learnt)
           c == VECTORswitchPlace(learnt, 2, m)
           S == {level[Abs(learnt[i])] : i \in DOMAIN learnt}
<1>2. /\ learnt \in Seq(Lits \cup {NULL}) /\ n \in Nat /\ n > 1 /\ b \in Nat
      /\ DOMAIN learnt = 1..n
  BY NAssumption DEF TypeInv
<1>3. /\ \A i \in 2..n : /\ learnt[i] \in Lits /\ value(learnt[i]) = 0
                         /\ level[Abs(learnt[i])] \in 1..b
      /\ b > 0 => \E i \in 2..n : level[Abs(learnt[i])] = b
  BY <1>1 DEF LearntBelow
<1>4. level[Abs(learnt[1])] = -1
  <2> DEFINE x == learnt[1]
  <2>1. x \in Lits /\ Val(assignments, x) = unassigned
    BY <1>1, ValueIsVal
  <2> HIDE DEF x
  <2>2. Abs(x) \in Vars /\ assignments[Abs(x)] = unassigned
    BY <2>1, ValFacts, LitFacts DEF TrailOK
  <2>3. level[Abs(x)] = -1
    BY <2>2 DEF TrailOK
  <2>4. QED
    BY <2>3 DEF x
<1>5. b > 0 /\ \E i \in 2..n : level[Abs(learnt[i])] = b
  <2>1. level[Abs(learnt[2])] \in 1..b
    BY <1>2, <1>3
  <2>2. QED
    BY <1>2, <1>3, <2>1
<1>6. S \subseteq Int /\ b \in S /\ \A z \in S : z <= b
  <2>1. \A i \in 1..n : level[Abs(learnt[i])] \in Int /\ level[Abs(learnt[i])] <= b
    <3>1. \A i \in 1..n : i = 1 \/ i \in 2..n
      BY <1>2
    <3>2. QED
      BY <1>2, <1>3, <1>4, <3>1
  <2>2. QED
    BY <1>2, <1>5, <2>1
<1>7. Highest(S, 0) = b
  <2> HIDE DEF S, b
  <2>1. QED
    BY <1>6, HighestIs
<1>8. m = CHOOSE i \in 1..n : /\ level[Abs(learnt[i])] = b
                              /\ \A j \in 1..(i - 1) : level[Abs(learnt[j])] # b
  <2>1. m = IF Highest(S, 0) <= 0 THEN 1
            ELSE CHOOSE i \in DOMAIN learnt :
                   /\ level[Abs(learnt[i])] = Highest(S, 0)
                   /\ \A j \in 1..(i - 1) : level[Abs(learnt[j])] # Highest(S, 0)
    BY Zenon DEF MaxLevelIndex
  <2>2. ~(b <= 0)
    BY <1>2, <1>5
  <2> HIDE DEF S, b, m
  <2>3. QED
    BY <1>2, <1>7, <2>1, <2>2
<1>9. \E i \in 1..n : /\ level[Abs(learnt[i])] = b
                      /\ \A j \in 1..(i - 1) : level[Abs(learnt[j])] # b
  <2> DEFINE T == {i \in 1..n : level[Abs(learnt[i])] = b}
  <2>1. T \subseteq Nat /\ T # {}
    BY <1>2, <1>5
  <2>2. PICK i \in T : \A j \in T : i <= j
    BY <2>1, Least
  <2>3. i \in 1..n /\ level[Abs(learnt[i])] = b
    BY <2>2
  <2>4. ASSUME NEW j \in 1..(i - 1) PROVE level[Abs(learnt[j])] # b
    <3>1. j \in 1..n /\ ~(i <= j)
      BY <1>2, <2>3
    <3>2. QED
      BY <2>2, <3>1
  <2>5. QED
    BY <2>3, <2>4
<1> HIDE DEF m
<1>10. m \in 1..n /\ level[Abs(learnt[m])] = b
  BY <1>8, <1>9
<1>11. m \in 2..n
  <2>1. m # 1
    BY <1>2, <1>4, <1>10
  <2>2. QED
    BY <1>2, <1>10, <2>1
<1>12. c = [learnt EXCEPT ![m] = learnt[2]]
  BY DEF VECTORswitchPlace
<1> HIDE DEF c
<1>13. /\ Len(c) = n /\ DOMAIN c = 1..n /\ c[1] = learnt[1]
       /\ \A j \in 2..n : c[j] = IF j = m THEN learnt[2] ELSE learnt[j]
  BY <1>2, <1>11, <1>12
<1>14. \A j \in 2..n : /\ c[j] \in Lits /\ value(c[j]) = 0
                       /\ \E i \in 2..n : c[j] = learnt[i]
  <2>1. 2 \in 2..n
    BY <1>2
  <2>2. QED
    BY <1>3, <1>13, <2>1
<1>15. c \in Seq(Lits)
  <2>1. \A j \in 1..n : j = 1 \/ j \in 2..n
    BY <1>2
  <2>2. \A j \in 1..n : c[j] \in Lits
    BY <1>1, <1>13, <1>14, <2>1
  <2>3. c \in Seq(Lits \cup {NULL})
    BY <1>2, <1>11, <1>12
  <2>4. QED
    BY <1>2, <1>13, <2>2, <2>3
<1>16. value(c[1]) = unassigned /\ c[1] # c[2]
  <2>1. value(c[1]) = unassigned /\ value(c[2]) = 0 /\ unassigned # 0
    BY <1>1, <1>2, <1>13, <1>14 DEF unassigned
  <2>2. QED
    BY <2>1
<1>17. ASSUME ~Repeats(c)
       PROVE  c = learnt /\ level[Abs(c[2])] = b
  <2>1. m = 2
    <3>1. ASSUME m # 2 PROVE FALSE
      <4>1. c[2] = learnt[2] /\ c[m] = learnt[2] /\ 2 \in DOMAIN c /\ m \in DOMAIN c
        BY <1>2, <1>11, <1>13, <3>1
      <4>2. Repeats(c)
        BY <3>1, <4>1 DEF Repeats
      <4>3. QED
        BY <1>17, <4>2
    <3>2. QED
      BY <3>1
  <2>2. c = learnt
    BY <1>2, <1>12, <2>1
  <2>3. QED
    BY <1>10, <2>1, <2>2
<1>18. QED
  BY <1>1, <1>13, <1>14, <1>15, <1>16, <1>17 DEF c, m
-----------------------------------------------------------------------------
(***************************************************************************)
(* Types                                                                   *)
(***************************************************************************)
LEMMA WatchType ==
  ASSUME NEW n \in Nat, NEW m \in Nat, n <= m, NEW w \in [Lits -> Seq(1..n)],
         NEW ls, NEW c \in 1..m
  PROVE  Watch(w, ls, c) \in [Lits -> Seq(1..m)]
<1>1. ASSUME NEW l \in Lits PROVE w[l] \in Seq(1..m) /\ Append(w[l], c) \in Seq(1..m)
  <2> DEFINE s == w[l]
  <2>1. s \in Seq(1..n)
    OBVIOUS
  <2> HIDE DEF s
  <2>2. Len(s) \in Nat /\ \A i \in 1..Len(s) : s[i] \in 1..m
    BY <2>1
  <2>3. s \in Seq(1..m)
    BY <2>1, <2>2
  <2>4. QED
    BY <2>3 DEF s
<1>2. QED
  BY <1>1 DEF Watch

\* The clause the parser reads.
LEMMA ParsedClause ==
  ASSUME TypeInv, Parsing
  PROVE  /\ F[pos] \in Seq(Lits) /\ pos \in 1..Len(F) /\ pos + 1 \in 1..(Len(F) + 1)
         /\ Shortened(F[pos]) \in Seq(Lits) /\ ~Repeats(Shortened(F[pos]))
<1>1. F[pos] \in Seq(Lits) /\ pos \in 1..Len(F) /\ pos + 1 \in 1..(Len(F) + 1)
  BY DEF TypeInv, Parsing, Formulas
<1> DEFINE c == F[pos]
<1>2. c \in Seq(Lits)
  BY <1>1
<1> HIDE DEF c
<1>3. Shortened(c) \in Seq(Lits) /\ ~Repeats(Shortened(c))
  BY <1>2, ShortenedClause
<1>4. QED
  BY <1>1, <1>3 DEF c

LEMMA ParseTypes ==
  ASSUME TypeInv, Trail, Parse
  PROVE  TypeInv'
<1>1. CASE ParseSatisfied
  BY <1>1, ParsedClause DEF ParseSatisfied, Parsing, assigned, analysis, TypeInv, ClauseIds
<1>2. CASE ParseEmpty
  BY <1>2 DEF ParseEmpty, Parsing, assigned, analysis, Ended, TypeInv, ClauseIds
<1>3. CASE ParseUnit
  <2> DEFINE s == Shortened(F[pos])
  <2>1. s \in Seq(Lits) /\ Len(s) = 1 /\ pos + 1 \in 1..(Len(F) + 1)
    BY <1>3, ParsedClause DEF ParseUnit
  <2>2. enqueue(s[1], NULL)
    BY <1>3 DEF ParseUnit
  <2> HIDE DEF s
  <2>3. s[1] \in Lits
    BY <2>1
  <2>4. propagationQ' \in Seq(Lits)
    <3>1. propagationQ' = propagationQ \/ propagationQ' = Append(propagationQ, s[1])
      BY <2>2 DEF enqueue, assigned
    <3>2. propagationQ \in Seq(Lits)
      BY DEF TypeInv
    <3>3. QED
      BY <2>3, <3>1, <3>2
  <2>5. QED
    BY <1>3, <2>1, <2>4 DEF ParseUnit, Parsing, analysis, TypeInv, ClauseIds
<1>4. CASE ParseClause
  <2> DEFINE s == Shortened(F[pos])
             n == Len(clauses)
  <2>1. /\ s \in Seq(Lits) /\ Len(s) >= 2 /\ pos + 1 \in 1..(Len(F) + 1)
        /\ clauses' = Append(clauses, s)
        /\ watchers' = Watch(watchers, {-s[1], -s[2]}, n + 1)
    BY <1>4, ParsedClause DEF ParseClause
  <2> HIDE DEF s
  <2>2. /\ n \in Nat /\ Len(clauses') = n + 1 /\ clauses' \in Seq(Seq(Lits))
        /\ clauses'[n + 1] = s /\ \A c \in 1..n : clauses'[c] = clauses[c]
    BY <2>1 DEF TypeInv
  <2>3. \A c \in 1..(n + 1) : Len(clauses'[c]) >= 2
    <3>1. \A c \in 1..(n + 1) : c = n + 1 \/ c \in 1..n
      BY <2>2
    <3>2. \A c \in 1..n : Len(clauses[c]) >= 2
      BY DEF TypeInv, ClauseIds
    <3>3. QED
      BY <2>1, <2>2, <3>1, <3>2
  <2>4. watchers' \in [Lits -> Seq(1..(n + 1))]
    <3> DEFINE m == n + 1
               ls == {-s[1], -s[2]}
    <3>1. n \in Nat /\ m \in Nat /\ n <= m /\ m \in 1..m /\ watchers \in [Lits -> Seq(1..n)]
      BY <2>2 DEF TypeInv, ClauseIds
    <3> HIDE DEF n, m, ls
    <3>2. Watch(watchers, ls, m) \in [Lits -> Seq(1..m)]
      BY <3>1, WatchType
    <3>3. QED
      BY <2>1, <3>2 DEF m, ls, n
  <2>5. todo \in Seq(1..(n + 1))
    <3>1. todo \in Seq(1..n) /\ n \in Nat
      BY <2>2 DEF TypeInv, ClauseIds
    <3> HIDE DEF n
    <3>2. \A i \in 1..Len(todo) : todo[i] \in 1..(n + 1)
      BY <3>1
    <3>3. QED
      BY <3>1, <3>2
  <2>6. conflict \in 0..(n + 1)
    BY <2>2 DEF TypeInv
  <2> HIDE DEF n
  <2>7. QED
    BY <1>4, <2>1, <2>2, <2>3, <2>4, <2>5, <2>6
    DEF ParseClause, Parsing, analysis, assigned, TypeInv, ClauseIds
<1>5. CASE ParseDone
  BY <1>5 DEF ParseDone, Parsing, assigned, analysis, Ended, TypeInv, ClauseIds
<1>6. QED
  BY <1>1, <1>2, <1>3, <1>4, <1>5 DEF Parse

\* One clause is replaced, or one added.
LEMMA Replaced ==
  ASSUME TypeInv, NEW h \in ClauseIds, NEW d \in Seq(Lits), Len(d) >= 2,
         clauses' = [clauses EXCEPT ![h] = d]
  PROVE  /\ clauses' \in Seq(Seq(Lits)) /\ Len(clauses') = Len(clauses)
         /\ ClauseIds' = ClauseIds
         /\ \A c \in ClauseIds : Len(clauses'[c]) >= 2
         /\ \A c \in ClauseIds : clauses'[c] = IF c = h THEN d ELSE clauses[c]
<1>1. clauses \in Seq(Seq(Lits)) /\ \A c \in ClauseIds : Len(clauses[c]) >= 2
  BY DEF TypeInv
<1>2. /\ clauses' \in Seq(Seq(Lits)) /\ Len(clauses') = Len(clauses)
      /\ \A c \in ClauseIds : clauses'[c] = IF c = h THEN d ELSE clauses[c]
  BY <1>1 DEF ClauseIds
<1>3. ClauseIds' = ClauseIds
  BY <1>2 DEF ClauseIds
<1>4. QED
  BY <1>1, <1>2, <1>3

LEMMA Added ==
  ASSUME TypeInv, NEW d \in Seq(Lits), Len(d) >= 2, clauses' = Append(clauses, d)
  PROVE  /\ clauses' \in Seq(Seq(Lits)) /\ Len(clauses') = Len(clauses) + 1
         /\ Len(clauses) \in Nat /\ Len(clauses) + 1 \notin ClauseIds
         /\ ClauseIds' = ClauseIds \cup {Len(clauses) + 1}
         /\ ClauseIds' = 1..(Len(clauses) + 1)
         /\ clauses'[Len(clauses) + 1] = d
         /\ \A c \in ClauseIds : clauses'[c] = clauses[c]
         /\ \A c \in ClauseIds' : Len(clauses'[c]) >= 2
<1>1. clauses \in Seq(Seq(Lits)) /\ \A c \in ClauseIds : Len(clauses[c]) >= 2
  BY DEF TypeInv
<1> DEFINE n == Len(clauses)
<1>2. /\ clauses' \in Seq(Seq(Lits)) /\ Len(clauses') = n + 1 /\ n \in Nat
      /\ clauses'[n + 1] = d /\ \A c \in ClauseIds : clauses'[c] = clauses[c]
  BY <1>1 DEF ClauseIds
<1>3. ClauseIds' = 1..(n + 1) /\ ClauseIds = 1..n
  BY <1>2 DEF ClauseIds
<1> HIDE DEF n
<1>4. n + 1 \notin ClauseIds /\ ClauseIds' = ClauseIds \cup {n + 1}
  BY <1>2, <1>3
<1>5. \A c \in ClauseIds' : Len(clauses'[c]) >= 2
  BY <1>1, <1>2, <1>4
<1>6. QED
  BY <1>2, <1>3, <1>4, <1>5 DEF n

\* A move: a literal that is not false takes the place of the false one.
LEMMA Moved ==
  ASSUME TypeInv, QueueInv, WatchAll, TrailOK(assignments, level, reason, trail, trail_lim),
         VisitMove
  PROVE  \E i \in 3..Len(Visited), d \in Seq(Lits) :
           /\ value(Visited[i]) # 0 /\ Visited[i] \in Lits
           /\ d = [Visited EXCEPT ![2] = Visited[i], ![i] = -cur]
           /\ Len(d) = Len(Visited) /\ Len(d) >= 2
           /\ d[1] = Visited[1] /\ d[2] = Visited[i] /\ d[i] = -cur
           /\ \A j \in 3..Len(Visited) : j # i => d[j] = Visited[j]
           /\ clauses' = [clauses EXCEPT ![Head(todo)] = d]
           /\ watchers' = Watch(watchers, {-Visited[i]}, Head(todo))
<1>1. Visiting
  BY DEF VisitMove
<1> DEFINE V == Visited
<1>2. V \in Seq(Lits) /\ cur \in Lits /\ Len(V) >= 2
  BY <1>1, VisitFacts
<1>3. PICK i \in Watchable(V) :
        /\ clauses' = [clauses EXCEPT
                        ![Head(todo)] = [V EXCEPT ![2] = V[i], ![i] = -cur]]
        /\ watchers' = Watch(watchers, {-V[i]}, Head(todo))
  BY DEF VisitMove
<1> HIDE DEF V
<1>4. i \in 3..Len(V) /\ value(V[i]) # 0
  BY DEF Watchable
<1> DEFINE d == [V EXCEPT ![2] = V[i], ![i] = -cur]
<1>5. V[i] \in Lits /\ -cur \in Lits
  BY <1>2, <1>4, LitFacts
<1>6. /\ d \in Seq(Lits) /\ Len(d) = Len(V) /\ Len(d) >= 2
      /\ d[1] = V[1] /\ d[2] = V[i] /\ d[i] = -cur
      /\ \A j \in 3..Len(V) : j # i => d[j] = V[j]
  BY <1>2, <1>4, <1>5
<1> HIDE DEF d
<1>7. /\ i \in 3..Len(V) /\ d \in Seq(Lits)
      /\ value(V[i]) # 0 /\ V[i] \in Lits
      /\ d = [V EXCEPT ![2] = V[i], ![i] = -cur]
      /\ Len(d) = Len(V) /\ Len(d) >= 2
      /\ d[1] = V[1] /\ d[2] = V[i] /\ d[i] = -cur
      /\ \A j \in 3..Len(V) : j # i => d[j] = V[j]
      /\ clauses' = [clauses EXCEPT ![Head(todo)] = d]
      /\ watchers' = Watch(watchers, {-V[i]}, Head(todo))
  BY <1>3, <1>4, <1>5, <1>6 DEF d
<1>8. QED
  BY <1>7 DEF V

LEMMA VisitTypes ==
  ASSUME TypeInv, QueueInv, WatchAll, TrailOK(assignments, level, reason, trail, trail_lim),
         Visiting, VisitSatisfied \/ VisitMove \/ VisitUnit \/ VisitConflict
  PROVE  TypeInv'
<1> DEFINE h == Head(todo)
           n == Len(clauses)
<1>1. /\ h \in ClauseIds /\ cur \in Lits /\ Visited \in Seq(Lits) /\ Len(Visited) >= 2
      /\ todo \in Seq(ClauseIds) /\ todo # <<>> /\ Tail(todo) \in Seq(ClauseIds)
      /\ watchers \in [Lits -> Seq(ClauseIds)] /\ n \in Nat /\ ClauseIds = 1..n
  <2>1. h \in ClauseIds /\ cur \in Lits /\ Visited \in Seq(Lits) /\ Len(Visited) >= 2
    BY VisitFacts
  <2>2. todo \in Seq(ClauseIds) /\ todo # <<>> /\ watchers \in [Lits -> Seq(ClauseIds)]
    BY DEF Visiting, TypeInv
  <2>3. n \in Nat /\ ClauseIds = 1..n
    BY DEF TypeInv, ClauseIds
  <2>4. Tail(todo) \in Seq(ClauseIds)
    BY <2>2
  <2>5. QED
    BY <2>1, <2>2, <2>3, <2>4
<1>2. \E d \in Seq(Lits) : Len(d) >= 2 /\ clauses' = [clauses EXCEPT ![h] = d]
  <2>1. CASE VisitMove
    BY <2>1, Moved
  <2>2. CASE VisitSatisfied \/ VisitUnit \/ VisitConflict
    BY <1>1, <2>2 DEF VisitSatisfied, VisitUnit, VisitConflict
  <2>3. QED
    BY <2>1, <2>2
<1>3. /\ clauses' \in Seq(Seq(Lits)) /\ Len(clauses') = n
      /\ ClauseIds' = ClauseIds /\ \A c \in ClauseIds : Len(clauses'[c]) >= 2
  BY <1>1, <1>2, Replaced
<1>4. watchers' \in [Lits -> Seq(ClauseIds)]
  <2>1. ASSUME NEW ls, watchers' = Watch(watchers, ls, h)
        PROVE  watchers' \in [Lits -> Seq(ClauseIds)]
    <3>1. n \in Nat /\ n <= n /\ watchers \in [Lits -> Seq(1..n)] /\ h \in 1..n
      BY <1>1
    <3> HIDE DEF n, h
    <3>2. Watch(watchers, ls, h) \in [Lits -> Seq(1..n)]
      BY <3>1, WatchType
    <3>3. QED
      BY <1>1, <2>1, <3>2
  <2>2. CASE VisitConflict
    <3>1. watchers' = [watchers EXCEPT ![cur] = watchers[cur] \o todo]
      BY <2>2 DEF VisitConflict
    <3>2. watchers[cur] \o todo \in Seq(ClauseIds)
      BY <1>1
    <3>3. QED
      BY <1>1, <3>1, <3>2
  <2>3. CASE VisitMove
    BY <2>1, <2>3, Moved
  <2>4. CASE VisitSatisfied \/ VisitUnit
    BY <2>1, <2>4 DEF VisitSatisfied, VisitUnit
  <2>5. QED
    BY <2>2, <2>3, <2>4
<1>5. propagationQ' \in Seq(Lits)
  <2>1. propagationQ \in Seq(Lits) /\ <<>> \in Seq(Lits)
    BY DEF TypeInv
  <2>2. CASE VisitUnit
    <3>1. enqueue(Visited[1], h)
      BY <2>2 DEF VisitUnit
    <3> DEFINE x == Visited[1]
    <3>2. x \in Lits /\ (propagationQ' = propagationQ \/ propagationQ' = Append(propagationQ, x))
      BY <1>1, <3>1 DEF enqueue, assigned
    <3> HIDE DEF x
    <3>3. QED
      BY <2>1, <3>2
  <2>3. CASE VisitSatisfied \/ VisitMove \/ VisitConflict
    BY <2>1, <2>3 DEF VisitSatisfied, VisitMove, VisitConflict, assigned
  <2>4. QED
    BY <2>2, <2>3
<1>6. /\ todo' \in Seq(ClauseIds) /\ conflict' \in 0..n /\ cur' = cur
      /\ pc' \in {"visit", "conflict"} /\ UNCHANGED <<F, pos, analysis, said>>
  <2>1. conflict \in 0..n /\ <<>> \in Seq(ClauseIds)
    BY DEF TypeInv
  <2>2. CASE VisitConflict
    BY <1>1, <2>1, <2>2 DEF VisitConflict
  <2>3. CASE VisitSatisfied \/ VisitMove \/ VisitUnit
    BY <1>1, <2>1, <2>3 DEF VisitSatisfied, VisitMove, VisitUnit, Visiting
  <2>4. QED
    BY <2>2, <2>3
<1> HIDE DEF n, h
<1>7. QED
  BY <1>3, <1>4, <1>5, <1>6 DEF TypeInv, analysis

LEMMA PropagateTypes ==
  ASSUME TypeInv, Trail, QueueInv, WatchAll, Propagate
  PROVE  TypeInv'
<1>1. TrailOK(assignments, level, reason, trail, trail_lim)
  BY DEF Trail
<1>2. CASE Dequeue
  <2>1. /\ propagationQ \in Seq(Lits) /\ propagationQ # <<>>
        /\ watchers \in [Lits -> Seq(ClauseIds)]
    BY <1>2 DEF Dequeue, TypeInv
  <2>2. cur' \in Lits /\ propagationQ' \in Seq(Lits)
    BY <1>2, <2>1 DEF Dequeue
  <2>3. todo' \in Seq(ClauseIds) /\ watchers' \in [Lits -> Seq(ClauseIds)]
    BY <1>2, <2>1, <2>2 DEF Dequeue
  <2>4. QED
    BY <1>2, <2>2, <2>3 DEF Dequeue, TypeInv, analysis, ClauseIds
<1>3. CASE VisitSatisfied \/ VisitMove \/ VisitUnit \/ VisitConflict
  <2>1. Visiting
    BY <1>3 DEF VisitSatisfied, VisitMove, VisitUnit, VisitConflict
  <2>2. QED
    BY <1>1, <1>3, <2>1, VisitTypes
<1>4. CASE VisitDone
  BY <1>4 DEF VisitDone, TypeInv, analysis, assigned, ClauseIds
<1>5. CASE PropagateDone
  BY <1>5 DEF PropagateDone, TypeInv, analysis, assigned, ClauseIds
<1>6. QED
  BY <1>2, <1>3, <1>4, <1>5 DEF Propagate

LEMMA SolveTypes ==
  ASSUME TypeInv, Trail, Reasons, AnalysisInv, Solve
  PROVE  TypeInv'
<1>1. TrailOK(assignments, level, reason, trail, trail_lim)
  BY DEF Trail
<1>2. CASE decide
  <2>1. PICK v \in Selectable : propagationQ' = Append(propagationQ, v)
    BY <1>2 DEF decide
  <2>2. v \in Lits /\ propagationQ \in Seq(Lits)
    BY LitFacts DEF Selectable, TypeInv
  <2>3. propagationQ' \in Seq(Lits)
    BY <2>1, <2>2
  <2>4. QED
    BY <1>2, <2>3 DEF decide, TypeInv, analysis, ClauseIds
<1>3. CASE SayAnswer
  BY <1>3 DEF SayAnswer, TypeInv, analysis, assigned, ClauseIds, Ended
<1>4. CASE SayUnsat
  BY <1>4 DEF SayUnsat, TypeInv, analysis, assigned, ClauseIds, Ended
<1>5. CASE StartAnalysis
  <2>1. <<NULL>> \in Seq(Lits \cup {NULL}) /\ 0 \in 0..N
    BY NAssumption
  <2>2. QED
    BY <1>5, <2>1 DEF StartAnalysis, TypeInv, assigned, ClauseIds
<1>6. CASE Analyze
  <2>1. pc = "analyze" /\ conflict # NULL
    BY <1>6 DEF Analyze
  <2>2. learnt' \in Seq(Lits \cup {NULL}) /\ backtrackLevel' \in 0..N
    BY <1>1, <1>6, Found
  <2>3. p' \in Lits
    BY <1>1, <1>6, AfterTurn
  <2>4. count' \in Nat /\ pc' \in {"analyze", "backtrack"}
    BY <1>1, <1>6, CountKept
  <2>5. conflict' \in 0..Len(clauses)
    <3>1. PICK k \in 1..Len(trail) : conflict' = reason[Abs(trail[k])]
      BY <1>1, <1>6, AfterTurn
    <3>2. conflict' # NULL => conflict' \in 1..Len(clauses)
      BY <3>1 DEF Reasons, ReasonOK
    <3>3. Len(clauses) \in Nat
      BY DEF TypeInv
    <3>4. QED
      BY <3>2, <3>3 DEF NULL
  <2>6. seen' \subseteq Vars
    <3>1. \A i \in 1..Len(ReasonFor) : Abs(ReasonFor[i]) \in Vars
      BY <1>1, <2>1, Expanded
    <3>2. ReasonFor \in Seq(Lits)
      BY <1>1, <2>1, Expanded
    <3>3. \A i \in Fresh : Abs(ReasonFor[i]) \in Vars
      BY <3>1, <3>2 DEF Fresh
    <3>4. seen' = Seen /\ seen \subseteq Vars
      BY <1>6 DEF Analyze, TypeInv
    <3>5. QED
      BY <3>3, <3>4 DEF Seen
  <2>7. UNCHANGED <<F, pos, clauses, watchers, propagationQ, cur, todo, said>>
    BY <1>6 DEF Analyze
  <2>8. QED
    BY <2>2, <2>3, <2>4, <2>5, <2>6, <2>7 DEF TypeInv, ClauseIds
<1>7. CASE cancelUntil
  <2>1. p \in Lits /\ learnt \in Seq(Lits \cup {NULL})
    BY <1>7 DEF cancelUntil, TypeInv
  <2>2. -p \in Lits
    BY <2>1, LitFacts
  <2>3. learnt' \in Seq(Lits \cup {NULL})
    <3> DEFINE S == Lits \cup {NULL}
               x == -p
    <3>1. learnt \in Seq(S) /\ x \in S /\ learnt' = [learnt EXCEPT ![1] = x]
      BY <1>7, <2>1, <2>2 DEF cancelUntil
    <3> HIDE DEF S, x
    <3>2. Len(learnt) >= 1 /\ Len(learnt) \in Nat
      BY <1>7, <2>1 DEF cancelUntil, AnalysisInv, Analyzing, LearntBelow
    <3>4. 1 \in 1..Len(learnt)
      BY <3>2
    <3>5. learnt' \in Seq(S)
      BY <3>1, <3>2, <3>4
    <3>6. QED
      BY <3>5 DEF S
  <2>4. QED
    BY <1>7, <2>3 DEF cancelUntil, TypeInv, ClauseIds
<1>8. CASE LearnUnit
  <2>1. enqueue(learnt[1], NULL) /\ learnt[1] \in Lits /\ propagationQ \in Seq(Lits)
    BY <1>8 DEF LearnUnit, AnalysisInv, TypeInv
  <2> DEFINE x == learnt[1]
  <2>2. x \in Lits /\ (propagationQ' = propagationQ \/ propagationQ' = Append(propagationQ, x))
    BY <2>1 DEF enqueue, assigned
  <2> HIDE DEF x
  <2>3. propagationQ' \in Seq(Lits)
    BY <2>1, <2>2
  <2>4. QED
    BY <1>8, <2>3 DEF LearnUnit, TypeInv, analysis, ClauseIds
<1>9. CASE LearnClause
  <2> DEFINE c == VECTORswitchPlace(learnt, 2, MaxLevelIndex(learnt))
             n == Len(clauses)
  <2>1. c \in Seq(Lits) /\ Len(c) >= 2
    <3>1. pc = "learn" /\ Len(learnt) > 1 /\ Len(learnt) \in Nat
      BY <1>9 DEF LearnClause, TypeInv
    <3>2. c \in Seq(Lits) /\ Len(c) = Len(learnt)
      BY <1>1, <3>1, Learnt
    <3>3. QED
      BY <3>1, <3>2
  <2>2. /\ clauses' = Append(clauses, c)
        /\ watchers' = Watch(watchers, {-c[1], -c[2]}, n + 1)
        /\ enqueue(c[1], n + 1)
    BY <1>9, Zenon DEF LearnClause
  <2> HIDE DEF c
  <2>3. /\ clauses' \in Seq(Seq(Lits)) /\ Len(clauses') = n + 1 /\ n \in Nat
        /\ ClauseIds' = 1..(n + 1) /\ \A d \in ClauseIds' : Len(clauses'[d]) >= 2
    BY <2>1, <2>2, Added
  <2>4. watchers' \in [Lits -> Seq(1..(n + 1))]
    <3> DEFINE m == n + 1
               ls == {-c[1], -c[2]}
    <3>1. n \in Nat /\ m \in Nat /\ n <= m /\ m \in 1..m /\ watchers \in [Lits -> Seq(1..n)]
      BY <2>3 DEF TypeInv, ClauseIds
    <3> HIDE DEF n, m, ls
    <3>2. Watch(watchers, ls, m) \in [Lits -> Seq(1..m)]
      BY <3>1, WatchType
    <3>3. QED
      BY <2>2, <3>2 DEF m, ls, n
  <2>5. todo \in Seq(1..(n + 1)) /\ conflict \in 0..(n + 1)
    <3>1. todo \in Seq(1..n) /\ n \in Nat /\ conflict \in 0..n
      BY <2>3 DEF TypeInv, ClauseIds
    <3> HIDE DEF n
    <3>2. \A i \in 1..Len(todo) : todo[i] \in 1..(n + 1)
      BY <3>1
    <3>3. QED
      BY <3>1, <3>2
  <2>6. propagationQ' \in Seq(Lits)
    <3> DEFINE x == c[1]
    <3>1. /\ x \in Lits /\ propagationQ \in Seq(Lits)
          /\ (propagationQ' = propagationQ \/ propagationQ' = Append(propagationQ, x))
      BY <2>1, <2>2 DEF enqueue, assigned, TypeInv
    <3> HIDE DEF x
    <3>2. QED
      BY <3>1
  <2> HIDE DEF n
  <2>7. QED
    BY <1>9, <2>3, <2>4, <2>5, <2>6 DEF LearnClause, TypeInv, analysis
<1>10. QED
  BY <1>2, <1>3, <1>4, <1>5, <1>6, <1>7, <1>8, <1>9 DEF Solve
-----------------------------------------------------------------------------
(***************************************************************************)
(* The trail and the reasons                                               *)
(***************************************************************************)
\* enqueue: the levels still have literals of their own.
LEMMA EnqueuedTrail ==
  ASSUME Trail, NEW l \in Lits, NEW from \in Nat, enqueue(l, from), trail_lim' = trail_lim,
         pc \notin {"analyze", "backtrack", "stopped"}
  PROVE  Trail'
<1>1. /\ TrailOK(assignments, level, reason, trail, trail_lim)
      /\ \A d \in 1..Len(trail_lim) : trail_lim[d] < Len(trail)
  BY DEF Trail
<1>2. TrailOK(assignments', level', reason', trail', trail_lim')
  BY <1>1, Enqueued
<1>3. Len(trail') = Len(trail) \/ Len(trail') = Len(trail) + 1
  BY <1>1 DEF enqueue, assigned, TrailOK
<1>4. /\ Len(trail) \in Nat /\ trail_lim \in Seq(Nat)
      /\ \A d \in 1..Len(trail_lim) : trail_lim[d] \in Nat
  BY <1>1 DEF TrailOK
<1>5. \A d \in 1..Len(trail_lim) : trail_lim[d] < Len(trail')
  BY <1>1, <1>3, <1>4
<1>6. QED
  BY <1>2, <1>5 DEF Trail

LEMMA TrailStep ==
  ASSUME TypeInv, Trail, QueueInv, WatchAll, AnalysisInv, [Next]_vars
  PROVE  Trail'
<1>1. TrailOK(assignments, level, reason, trail, trail_lim)
  BY DEF Trail
<1>2. ASSUME UNCHANGED <<assignments, level, reason, trail, trail_lim>>,
             pc' \notin {"analyze", "backtrack", "stopped"} =>
               pc \notin {"analyze", "backtrack", "stopped"}
      PROVE  Trail'
  BY <1>2 DEF Trail
<1>3. CASE ParseUnit
  <2> DEFINE x == Shortened(F[pos])[1]
  <2>1. x \in Lits
    <3> DEFINE s == Shortened(F[pos])
    <3>1. s \in Seq(Lits) /\ Len(s) = 1
      BY <1>3, ParsedClause DEF ParseUnit
    <3> HIDE DEF s
    <3>2. s[1] \in Lits
      BY <3>1
    <3>3. QED
      BY <3>2 DEF s
  <2>2. enqueue(x, NULL) /\ pc = "parse" /\ trail_lim' = trail_lim /\ NULL \in Nat
    BY <1>3 DEF ParseUnit, Parsing, NULL
  <2> HIDE DEF x
  <2>3. QED
    BY <2>1, <2>2, EnqueuedTrail
<1>4. CASE VisitUnit
  <2> DEFINE x == Visited[1]
             h == Head(todo)
  <2>1. Visiting /\ enqueue(x, h) /\ trail_lim' = trail_lim /\ pc = "visit"
    BY <1>4 DEF VisitUnit, Visiting
  <2>2. x \in Lits /\ h \in Nat
    <3>1. h \in ClauseIds /\ Visited \in Seq(Lits) /\ Len(Visited) = Len(clauses[h])
          /\ Len(clauses[h]) >= 2
      BY <1>1, <2>1, VisitFacts
    <3>2. 1 \in 1..Len(Visited)
      BY <3>1
    <3>3. QED
      BY <3>1, <3>2 DEF ClauseIds
  <2> HIDE DEF x, h
  <2>3. QED
    BY <2>1, <2>2, EnqueuedTrail
<1>5. CASE LearnUnit
  <2> DEFINE x == learnt[1]
  <2>1. /\ enqueue(x, NULL) /\ trail_lim' = trail_lim /\ pc = "learn" /\ NULL \in Nat
        /\ x \in Lits
    BY <1>5 DEF LearnUnit, NULL, AnalysisInv
  <2> HIDE DEF x
  <2>2. QED
    BY <2>1, EnqueuedTrail
<1>6. CASE LearnClause
  <2> DEFINE c == VECTORswitchPlace(learnt, 2, MaxLevelIndex(learnt))
             x == c[1]
             n == Len(clauses) + 1
  <2>1. pc = "learn" /\ Len(learnt) > 1 /\ learnt[1] \in Lits
    BY <1>6 DEF LearnClause, AnalysisInv
  <2>2. c[1] = learnt[1]
    BY <1>1, <2>1, Learnt
  <2>3. enqueue(x, n) /\ trail_lim' = trail_lim
    BY <1>6, Zenon DEF LearnClause
  <2>4. n \in Nat /\ x \in Lits
    BY <2>1, <2>2 DEF TypeInv
  <2> HIDE DEF x, n
  <2>5. QED
    BY <2>1, <2>3, <2>4, EnqueuedTrail
<1>7. CASE decide
  <2>1. PICK v \in Selectable :
          /\ trail_lim' = Append(trail_lim, Len(trail))
          /\ assignments' = [assignments EXCEPT ![v] = 1]
          /\ level' = [level EXCEPT ![v] = currentDecisionLevel + 1]
          /\ trail' = Append(trail, v)
    BY <1>7 DEF decide
  <2>2. pc = "decide" /\ reason' = reason
    BY <1>7 DEF decide
  <2>3. /\ TrailOK(assignments', level', reason', trail', trail_lim')
        /\ \A d \in 1..Len(trail_lim') : trail_lim'[d] < Len(trail')
    BY <2>1, <2>2, Decided
  <2>4. QED
    BY <2>3 DEF Trail
<1>8. CASE Analyze
  <2>1. TrailOK(assignments', level', reason', trail', trail_lim')
    BY <1>1, <1>8, AfterTurn
  <2>2. pc' \in {"analyze", "backtrack"}
    BY <1>1, <1>8, CountKept
  <2>3. QED
    BY <2>1, <2>2 DEF Trail
<1>9. CASE cancelUntil
  <2>1. /\ TrailOK(assignments', level', reason', trail', trail_lim')
        /\ \A d \in 1..Len(trail_lim') : trail_lim'[d] < Len(trail')
    BY <1>1, <1>9, Cancelled
  <2>2. QED
    BY <2>1 DEF Trail
<1>10. CASE ParseSatisfied \/ ParseEmpty \/ ParseClause \/ ParseDone
  BY <1>2, <1>10 DEF ParseSatisfied, ParseEmpty, ParseClause, ParseDone, Parsing, assigned
<1>11. CASE Dequeue \/ VisitSatisfied \/ VisitMove \/ VisitConflict \/ VisitDone \/ PropagateDone
  BY <1>2, <1>11 DEF Dequeue, VisitSatisfied, VisitMove, VisitConflict, VisitDone,
                     PropagateDone, Visiting, assigned
<1>12. CASE SayAnswer \/ SayUnsat \/ StartAnalysis \/ termination_handler
  BY <1>2, <1>12 DEF SayAnswer, SayUnsat, StartAnalysis, termination_handler, assigned
<1>13. CASE UNCHANGED vars
  BY <1>2, <1>13 DEF vars, assigned
<1>14. QED
  BY <1>3, <1>4, <1>5, <1>6, <1>7, <1>8, <1>9, <1>10, <1>11, <1>12, <1>13
  DEF Next, Step, Parse, Propagate, Solve

\* enqueue gives a good reason or none.
LEMMA EnqueuedReasons ==
  ASSUME TrailOK(assignments, level, reason, trail, trail_lim), trail_lim' = trail_lim,
         NEW cl, ReasonOK(cl, reason, trail),
         NEW l \in Lits, NEW from \in Nat, enqueue(l, from),
         Explains(cl, from, l, trail)
  PROVE  ReasonOK(cl, reason', trail')
<1>1. CASE value(l) # unassigned
  <2>1. reason' = reason /\ trail' = trail
    BY <1>1 DEF enqueue, assigned
  <2>2. QED
    BY <2>1
<1>2. CASE value(l) = unassigned
  <2> DEFINE rs1 == reason'
             t1 == trail'
  <2>1. /\ t1 = Append(trail, l) /\ rs1[Abs(l)] = from
        /\ \A j \in 1..Len(trail) : rs1[Abs(trail[j])] = reason[Abs(trail[j])]
    BY <1>2, Enqueued
  <2>2. trail \in Seq(Lits)
    BY DEF TrailOK
  <2> HIDE DEF rs1, t1
  <2>3. ReasonOK(cl, rs1, t1)
    BY <2>1, <2>2, ReasonPushed
  <2>4. QED
    BY <2>3 DEF rs1, t1
<1>3. QED
  BY <1>1, <1>2

\* A visit changes no clause that is a reason: its first literal would be true.
LEMMA VisitReasons ==
  ASSUME TypeInv, QueueInv, WatchAll, TrailOK(assignments, level, reason, trail, trail_lim),
         Reasons, Visiting, VisitSatisfied \/ VisitMove \/ VisitUnit \/ VisitConflict
  PROVE  ReasonOK(clauses', reason, trail)
<1> DEFINE h == Head(todo)
           c == clauses[h]
           V == Visited
<1>1. /\ h \in ClauseIds /\ value(-cur) = 0 /\ c \in Seq(Lits) /\ Len(c) >= 2
      /\ V \in Seq(Lits) /\ Len(V) = Len(c)
      /\ V = c \/ c[1] = -cur
  BY VisitFacts
<1>2. \E d \in Seq(Lits) :
        /\ clauses' = [clauses EXCEPT ![h] = d] /\ Len(d) >= 2
        /\ d = V \/ value(V[1]) # 1
  <2>1. CASE VisitMove
    <3>1. value(Visited[1]) # 1
      BY <2>1 DEF VisitMove
    <3>2. \E d \in Seq(Lits) : clauses' = [clauses EXCEPT ![h] = d] /\ Len(d) >= 2
      BY <2>1, Moved
    <3>3. QED
      BY <3>1, <3>2
  <2>2. CASE VisitSatisfied \/ VisitUnit \/ VisitConflict
    BY <1>1, <2>2 DEF VisitSatisfied, VisitUnit, VisitConflict
  <2>3. QED
    BY <2>1, <2>2
<1>3. PICK d \in Seq(Lits) :
        /\ clauses' = [clauses EXCEPT ![h] = d] /\ Len(d) >= 2
        /\ d = V \/ value(V[1]) # 1
  BY <1>2
<1>4. \A x \in ClauseIds : clauses'[x] = IF x = h THEN d ELSE clauses[x]
  BY <1>1, <1>3, Replaced
<1>5. Len(clauses') = Len(clauses) /\ Len(clauses) \in Nat
  BY <1>1, <1>3, Replaced DEF TypeInv
<1>6. c = d \/ value(c[1]) # 1
  <2>1. V = c \/ value(c[1]) = 0
    BY <1>1
  <2>2. QED
    BY <1>3, <2>1
<1> HIDE DEF h, c, V
<1>7. ASSUME NEW x \in 1..Len(clauses), \E k \in 1..Len(trail) : trail[k] = clauses[x][1]
      PROVE  clauses'[x] = clauses[x]
  <2>1. x \in ClauseIds
    BY DEF ClauseIds
  <2>2. CASE x = h
    <3>1. c = clauses[x]
      BY <2>2 DEF c
    <3>2. PICK k \in 1..Len(trail) : trail[k] = clauses[x][1]
      BY <1>7
    <3>3. Val(assignments, trail[k]) = 1
      BY DEF TrailOK
    <3>4. value(c[1]) = 1
      BY <3>1, <3>2, <3>3, ValueIsVal
    <3>5. QED
      BY <1>4, <1>6, <2>1, <2>2, <3>1, <3>4
  <2>3. CASE x # h
    BY <1>4, <2>1, <2>3
  <2>4. QED
    BY <2>2, <2>3
<1> DEFINE cl1 == clauses'
<1>8. /\ ReasonOK(clauses, reason, trail) /\ Len(clauses) \in Nat /\ Len(cl1) \in Nat
      /\ Len(clauses) <= Len(cl1)
      /\ \A x \in 1..Len(clauses) : (\E k \in 1..Len(trail) : trail[k] = clauses[x][1])
                                       => cl1[x] = clauses[x]
  BY <1>5, <1>7 DEF Reasons
<1> HIDE DEF cl1
<1>9. ReasonOK(cl1, reason, trail)
  BY <1>8, ReasonKept
<1>10. QED
  BY <1>9 DEF cl1

\* A clause added changes no reason.
LEMMA AddedReasons ==
  ASSUME TypeInv, Reasons, NEW d \in Seq(Lits), Len(d) >= 2, clauses' = Append(clauses, d)
  PROVE  ReasonOK(clauses', reason, trail)
<1> DEFINE cl1 == clauses'
<1>1. /\ Len(cl1) = Len(clauses) + 1 /\ Len(clauses) \in Nat
      /\ \A c \in ClauseIds : cl1[c] = clauses[c]
  BY Added
<1>2. /\ ReasonOK(clauses, reason, trail) /\ Len(clauses) \in Nat /\ Len(cl1) \in Nat
      /\ Len(clauses) <= Len(cl1)
      /\ \A c \in 1..Len(clauses) : (\E k \in 1..Len(trail) : trail[k] = clauses[c][1])
                                       => cl1[c] = clauses[c]
  BY <1>1 DEF Reasons, ClauseIds
<1> HIDE DEF cl1
<1>3. ReasonOK(cl1, reason, trail)
  BY <1>2, ReasonKept
<1>4. QED
  BY <1>3 DEF cl1

\* The other literals of a clause that is unit are false.
LEMMA UnitExplains ==
  ASSUME TypeInv, QueueInv, WatchAll, TrailOK(assignments, level, reason, trail, trail_lim),
         VisitUnit
  PROVE  Explains(clauses', Head(todo), Visited[1], trail)
<1> DEFINE h == Head(todo)
           V == Visited
<1>1. Visiting /\ Watchable(V) = {} /\ clauses' = [clauses EXCEPT ![h] = V]
  BY DEF VisitUnit
<1>2. /\ h \in ClauseIds /\ cur \in Lits /\ value(-cur) = 0
      /\ V \in Seq(Lits) /\ Len(V) >= 2 /\ V[2] = -cur
  BY <1>1, VisitFacts
<1>3. clauses'[h] = V /\ Len(clauses') = Len(clauses)
  BY <1>1, <1>2, Replaced
<1> HIDE DEF h, V
<1>4. ASSUME NEW i \in 2..Len(V) PROVE \E j \in 1..Len(trail) : trail[j] = -V[i]
  <2>1. V[i] \in Lits
    BY <1>2
  <2>2. CASE i = 2
    BY <1>2, <2>1, <2>2, ValueIsVal, TrailLit
  <2>3. CASE i \in 3..Len(V)
    <3>1. value(V[i]) = 0
      BY <1>1, <2>3 DEF Watchable
    <3>2. QED
      BY <2>1, <3>1, ValueIsVal, TrailLit
  <2>4. QED
    BY <1>2, <2>2, <2>3
<1>5. Explains(clauses', h, V[1], trail)
  BY <1>2, <1>3, <1>4 DEF Explains, ClauseIds
<1>6. QED
  BY <1>5 DEF h, V

LEMMA ReasonStep ==
  ASSUME TypeInv, Trail, Reasons, QueueInv, WatchAll, AnalysisInv, [Next]_vars
  PROVE  Reasons'
<1>1. TrailOK(assignments, level, reason, trail, trail_lim)
  BY DEF Trail
<1>2. ASSUME UNCHANGED <<reason, trail, clauses>> PROVE Reasons'
  BY <1>2 DEF Reasons
<1>3. CASE ParseUnit
  <2> DEFINE s == Shortened(F[pos])
             x == s[1]
  <2>1. s \in Seq(Lits) /\ Len(s) = 1
    BY <1>3, ParsedClause DEF ParseUnit
  <2>2. enqueue(x, NULL) /\ trail_lim' = trail_lim /\ NULL \in Nat /\ clauses' = clauses
    BY <1>3 DEF ParseUnit, NULL
  <2>3. Explains(clauses, NULL, x, trail)
    BY DEF Explains
  <2> HIDE DEF s
  <2>4. x \in Lits
    BY <2>1
  <2> HIDE DEF x
  <2>5. ReasonOK(clauses, reason', trail')
    BY <1>1, <2>2, <2>3, <2>4, EnqueuedReasons DEF Reasons
  <2>6. QED
    BY <2>2, <2>5 DEF Reasons
<1>4. CASE ParseClause
  <2> DEFINE s == Shortened(F[pos])
  <2>1. s \in Seq(Lits) /\ Len(s) >= 2 /\ clauses' = Append(clauses, s)
    BY <1>4, ParsedClause DEF ParseClause
  <2>2. reason' = reason /\ trail' = trail
    BY <1>4 DEF ParseClause, assigned
  <2> HIDE DEF s
  <2>3. QED
    BY <2>1, <2>2, AddedReasons DEF Reasons
<1>5. CASE VisitSatisfied \/ VisitMove \/ VisitConflict
  <2>1. Visiting /\ reason' = reason /\ trail' = trail
    BY <1>5 DEF VisitSatisfied, VisitMove, VisitConflict, assigned
  <2>2. ReasonOK(clauses', reason, trail)
    BY <1>1, <1>5, <2>1, VisitReasons
  <2>3. QED
    BY <2>1, <2>2 DEF Reasons
<1>6. CASE VisitUnit
  <2> DEFINE x == Visited[1]
             h == Head(todo)
             cl1 == clauses'
  <2>1. Visiting /\ enqueue(x, h) /\ trail_lim' = trail_lim
    BY <1>6 DEF VisitUnit
  <2>2. x \in Lits /\ h \in Nat
    <3>1. h \in ClauseIds /\ Visited \in Seq(Lits) /\ Len(Visited) = Len(clauses[h])
          /\ Len(clauses[h]) >= 2
      BY <1>1, <2>1, VisitFacts
    <3>2. 1 \in 1..Len(Visited)
      BY <3>1
    <3>3. QED
      BY <3>1, <3>2 DEF ClauseIds
  <2>3. ReasonOK(cl1, reason, trail)
    BY <1>1, <1>6, <2>1, VisitReasons
  <2>4. Explains(cl1, h, x, trail)
    BY <1>1, <1>6, UnitExplains
  <2> HIDE DEF x, h, cl1
  <2>5. ReasonOK(cl1, reason', trail')
    BY <1>1, <2>1, <2>2, <2>3, <2>4, EnqueuedReasons
  <2>6. QED
    BY <2>5 DEF Reasons, cl1
<1>7. CASE decide
  <2>1. PICK v \in Selectable :
          /\ trail_lim' = Append(trail_lim, Len(trail))
          /\ assignments' = [assignments EXCEPT ![v] = 1]
          /\ level' = [level EXCEPT ![v] = currentDecisionLevel + 1]
          /\ trail' = Append(trail, v)
    BY <1>7 DEF decide
  <2>2. pc = "decide" /\ reason' = reason /\ clauses' = clauses
    BY <1>7 DEF decide
  <2>3. v \in Lits /\ Abs(v) = v /\ reason'[v] = NULL
    BY <2>1, <2>2, Decided
  <2> DEFINE t1 == trail'
             from == NULL
  <2>4. /\ t1 = Append(trail, v) /\ reason[Abs(v)] = from
        /\ trail \in Seq(Lits) /\ ReasonOK(clauses, reason, trail)
        /\ \A j \in 1..Len(trail) : reason[Abs(trail[j])] = reason[Abs(trail[j])]
        /\ Explains(clauses, from, v, trail)
    BY <1>1, <2>1, <2>2, <2>3 DEF Explains, Reasons, TrailOK
  <2> HIDE DEF t1, from
  <2>5. ReasonOK(clauses, reason, t1)
    BY <2>3, <2>4, ReasonPushed
  <2>6. QED
    BY <2>2, <2>5 DEF Reasons, t1
<1>8. CASE Analyze
  BY <1>1, <1>8, AnalyzeKeeps
<1>9. CASE cancelUntil
  BY <1>1, <1>9, CancelKeeps
<1>10. CASE LearnUnit
  <2> DEFINE x == learnt[1]
  <2>1. /\ enqueue(x, NULL) /\ trail_lim' = trail_lim /\ NULL \in Nat /\ clauses' = clauses
        /\ x \in Lits
    BY <1>10 DEF LearnUnit, NULL, AnalysisInv
  <2>2. Explains(clauses, NULL, x, trail)
    BY DEF Explains
  <2> HIDE DEF x
  <2>3. ReasonOK(clauses, reason', trail')
    BY <1>1, <2>1, <2>2, EnqueuedReasons DEF Reasons
  <2>4. QED
    BY <2>1, <2>3 DEF Reasons
<1>11. CASE LearnClause
  <2> DEFINE c == VECTORswitchPlace(learnt, 2, MaxLevelIndex(learnt))
             n == Len(clauses) + 1
             x == c[1]
             cl1 == clauses'
  <2>1. /\ pc = "learn" /\ Len(learnt) > 1 /\ Len(learnt) \in Nat
        /\ learnt[1] \in Lits
    BY <1>11 DEF LearnClause, AnalysisInv, TypeInv
  <2>2. /\ c \in Seq(Lits) /\ Len(c) = Len(learnt) /\ c[1] = learnt[1]
        /\ \A j \in 2..Len(c) : value(c[j]) = 0
    BY <1>1, <2>1, Learnt
  <2>3. enqueue(x, n) /\ trail_lim' = trail_lim /\ clauses' = Append(clauses, c)
    BY <1>11, Zenon DEF LearnClause
  <2> HIDE DEF c
  <2>4. ReasonOK(cl1, reason, trail)
    BY <2>1, <2>2, <2>3, AddedReasons
  <2>5. cl1[n] = c /\ n \in 1..Len(cl1) /\ n \in Nat
    BY <2>1, <2>2, <2>3, Added
  <2>6. \A j \in 2..Len(c) : \E k \in 1..Len(trail) : trail[k] = -c[j]
    <3>1. \A j \in 2..Len(c) : c[j] \in Lits /\ Val(assignments, c[j]) = 0
      BY <2>2, ValueIsVal
    <3>2. QED
      BY <1>1, <3>1, TrailLit
  <2>7. Explains(cl1, n, x, trail) /\ x \in Lits
    BY <2>1, <2>2, <2>5, <2>6 DEF Explains
  <2> HIDE DEF x, n, cl1
  <2>8. ReasonOK(cl1, reason', trail')
    BY <1>1, <2>3, <2>4, <2>5, <2>7, EnqueuedReasons
  <2>9. QED
    BY <2>8 DEF Reasons, cl1
<1>12. CASE ParseSatisfied \/ ParseEmpty \/ ParseDone
  BY <1>2, <1>12 DEF ParseSatisfied, ParseEmpty, ParseDone, assigned
<1>13. CASE Dequeue \/ VisitDone \/ PropagateDone
  BY <1>2, <1>13 DEF Dequeue, VisitDone, PropagateDone, assigned
<1>14. CASE SayAnswer \/ SayUnsat \/ StartAnalysis \/ termination_handler
  BY <1>2, <1>14 DEF SayAnswer, SayUnsat, StartAnalysis, termination_handler, assigned
<1>15. CASE UNCHANGED vars
  BY <1>2, <1>15 DEF vars, assigned
<1>16. QED
  BY <1>3, <1>4, <1>5, <1>6, <1>7, <1>8, <1>9, <1>10, <1>11, <1>12, <1>13, <1>14, <1>15
  DEF Next, Step, Parse, Propagate, Solve
-----------------------------------------------------------------------------
(***************************************************************************)
(* The queue                                                               *)
(***************************************************************************)
\* Current, of an assignment and levels.
IsCurrent(a, lv, n, l) == l \in Lits /\ Val(a, l) = 1 /\ lv[Abs(l)] = n

LEMMA CurrentIs ==
  /\ \A i : Current(propagationQ[i])
              <=> IsCurrent(assignments, level, Len(trail_lim), propagationQ[i])
  /\ \A i : Current(propagationQ[i])'
              <=> IsCurrent(assignments', level', Len(trail_lim'), propagationQ'[i])
  /\ Current(cur) <=> IsCurrent(assignments, level, Len(trail_lim), cur)
  /\ Current(cur)' <=> IsCurrent(assignments', level', Len(trail_lim'), cur')
BY DEF Current, IsCurrent, value, Val, currentDecisionLevel

\* What enqueue adds is current, and what was current remains so.
LEMMA EnqueuedQueue ==
  ASSUME TrailOK(assignments, level, reason, trail, trail_lim), trail_lim' = trail_lim,
         propagationQ \in Seq(Lits),
         NEW l \in Lits, NEW from \in Nat, enqueue(l, from),
         \A i \in 1..Len(propagationQ) : Current(propagationQ[i])
  PROVE  /\ \A i \in 1..Len(propagationQ') : Current(propagationQ[i])'
         /\ \A x \in Lits : IsCurrent(assignments, level, Len(trail_lim), x)
                              => IsCurrent(assignments', level', Len(trail_lim'), x)
<1>1. /\ \A x \in Lits : value(x) # unassigned =>
           value(x)' = value(x) /\ level'[Abs(x)] = level[Abs(x)]
      /\ value(l) # unassigned => UNCHANGED assigned
      /\ value(l) = unassigned =>
           /\ propagationQ' = Append(propagationQ, l)
           /\ value(l)' = 1 /\ level'[Abs(l)] = Len(trail_lim)
  BY Enqueued
<1>2. ASSUME NEW x \in Lits, IsCurrent(assignments, level, Len(trail_lim), x)
      PROVE  IsCurrent(assignments', level', Len(trail_lim'), x)
  <2>1. Val(assignments, x) = 1 /\ level[Abs(x)] = Len(trail_lim)
    BY <1>2 DEF IsCurrent
  <2>2. value(x) # unassigned
    BY <2>1, ValueIsVal DEF unassigned
  <2>3. value(x)' = value(x) /\ level'[Abs(x)] = level[Abs(x)]
    BY <1>1, <2>2
  <2>4. Val(assignments', x) = 1
    BY <2>1, <2>3, ValueIsVal
  <2>5. QED
    BY <2>1, <2>3, <2>4 DEF IsCurrent
<1>3. \A i \in 1..Len(propagationQ) :
         IsCurrent(assignments, level, Len(trail_lim), propagationQ[i])
  BY CurrentIs
<1>4. ASSUME NEW i \in 1..Len(propagationQ')
      PROVE  IsCurrent(assignments', level', Len(trail_lim'), propagationQ'[i])
  <2>1. CASE value(l) # unassigned
    <3>1. propagationQ' = propagationQ
      BY <1>1, <2>1 DEF assigned
    <3>2. propagationQ'[i] \in Lits
             /\ IsCurrent(assignments, level, Len(trail_lim), propagationQ'[i])
      BY <1>3, <3>1
    <3>3. QED
      BY <1>2, <3>2
  <2>2. CASE value(l) = unassigned
    <3>1. propagationQ' = Append(propagationQ, l)
      BY <1>1, <2>2
    <3>2. CASE i \in 1..Len(propagationQ)
      <4>1. propagationQ'[i] = propagationQ[i] /\ propagationQ[i] \in Lits
        BY <3>1, <3>2
      <4>2. IsCurrent(assignments, level, Len(trail_lim), propagationQ[i])
        BY <1>3, <3>2
      <4>3. QED
        BY <1>2, <4>1, <4>2
    <3>3. CASE i = Len(propagationQ) + 1
      <4>1. propagationQ'[i] = l
        BY <3>1, <3>3
      <4>2. Val(assignments', l) = 1 /\ level'[Abs(l)] = Len(trail_lim')
        BY <1>1, <2>2, ValueIsVal
      <4>3. QED
        BY <4>1, <4>2 DEF IsCurrent
    <3>4. i \in 1..Len(propagationQ) \/ i = Len(propagationQ) + 1
      BY <3>1
    <3>5. QED
      BY <3>2, <3>3, <3>4
  <2>3. QED
    BY <2>1, <2>2
<1>5. QED
  BY <1>2, <1>4, CurrentIs

LEMMA QueueStep ==
  ASSUME TypeInv, Trail, QueueInv, WatchAll, AnalysisInv, [Next]_vars
  PROVE  QueueInv'
<1>1. TrailOK(assignments, level, reason, trail, trail_lim) /\ propagationQ \in Seq(Lits)
  BY DEF Trail, TypeInv
<1>2. ASSUME UNCHANGED <<assignments, level, trail, trail_lim, propagationQ, cur, todo>>,
             pc' = pc
      PROVE  QueueInv'
  BY <1>2, CurrentIs DEF QueueInv
<1>3. CASE ParseUnit
  <2> DEFINE s == Shortened(F[pos])
             x == s[1]
  <2>1. s \in Seq(Lits) /\ Len(s) = 1
    BY <1>3, ParsedClause DEF ParseUnit
  <2>2. /\ enqueue(x, NULL) /\ trail_lim' = trail_lim /\ NULL \in Nat
        /\ pc = "parse" /\ pc' = "parse" /\ todo' = todo
    BY <1>3 DEF ParseUnit, Parsing, NULL
  <2> HIDE DEF s
  <2>3. x \in Lits
    BY <2>1
  <2> HIDE DEF x
  <2>4. /\ trail_lim = <<>> /\ propagationQ = trail /\ todo = <<>>
        /\ \A i \in 1..Len(propagationQ) : Current(propagationQ[i])
    BY <2>2 DEF QueueInv
  <2>5. \A i \in 1..Len(propagationQ') : Current(propagationQ[i])'
    BY <1>1, <2>2, <2>3, <2>4, EnqueuedQueue
  <2>6. propagationQ' = trail'
    BY <2>2, <2>4 DEF enqueue, assigned
  <2>7. QED
    BY <2>2, <2>4, <2>5, <2>6 DEF QueueInv
<1>4. CASE VisitUnit
  <2> DEFINE x == Visited[1]
             h == Head(todo)
  <2>1. /\ Visiting /\ enqueue(x, h) /\ trail_lim' = trail_lim
        /\ pc = "visit" /\ pc' = "visit" /\ cur' = cur
    BY <1>4 DEF VisitUnit, Visiting
  <2>2. x \in Lits /\ h \in Nat
    <3>1. h \in ClauseIds /\ Visited \in Seq(Lits) /\ Len(Visited) = Len(clauses[h])
          /\ Len(clauses[h]) >= 2
      BY <1>1, <2>1, VisitFacts
    <3>2. 1 \in 1..Len(Visited)
      BY <3>1
    <3>3. QED
      BY <3>1, <3>2 DEF ClauseIds
  <2> HIDE DEF x, h
  <2>3. /\ \A i \in 1..Len(propagationQ) : Current(propagationQ[i])
        /\ Current(cur)
    BY <2>1 DEF QueueInv
  <2>4. /\ \A i \in 1..Len(propagationQ') : Current(propagationQ[i])'
        /\ \A y \in Lits : IsCurrent(assignments, level, Len(trail_lim), y)
                             => IsCurrent(assignments', level', Len(trail_lim'), y)
    BY <1>1, <2>1, <2>2, <2>3, EnqueuedQueue
  <2>5. cur \in Lits /\ IsCurrent(assignments, level, Len(trail_lim), cur)
    BY <2>3, CurrentIs DEF Current
  <2>6. Current(cur)'
    BY <2>1, <2>4, <2>5, CurrentIs
  <2>7. QED
    BY <2>1, <2>4, <2>6 DEF QueueInv
<1>5. CASE LearnUnit \/ LearnClause
  <2>1. /\ pc = "learn" /\ propagationQ = <<>> /\ todo = <<>> /\ todo' = todo
        /\ pc' = "propagate" /\ trail_lim' = trail_lim
    BY <1>5 DEF LearnUnit, LearnClause, QueueInv
  <2>2. \E x \in Lits, from \in Nat : enqueue(x, from)
    <3>1. CASE LearnUnit
      BY <3>1 DEF LearnUnit, NULL, AnalysisInv
    <3>2. CASE LearnClause
      <4> DEFINE c == VECTORswitchPlace(learnt, 2, MaxLevelIndex(learnt))
      <4>1. Len(learnt) > 1 /\ learnt[1] \in Lits /\ Len(clauses) + 1 \in Nat
        BY <3>2 DEF LearnClause, AnalysisInv, TypeInv
      <4>2. c[1] = learnt[1]
        BY <1>1, <2>1, <4>1, Learnt
      <4>3. enqueue(c[1], Len(clauses) + 1)
        BY <3>2, Zenon DEF LearnClause
      <4> HIDE DEF c
      <4>4. QED
        BY <4>1, <4>2, <4>3
    <3>3. QED
      BY <1>5, <3>1, <3>2
  <2>3. PICK x \in Lits, from \in Nat : enqueue(x, from)
    BY <2>2
  <2>4. \A i \in 1..Len(propagationQ) : Current(propagationQ[i])
    BY <2>1
  <2>5. \A i \in 1..Len(propagationQ') : Current(propagationQ[i])'
    BY <1>1, <2>1, <2>3, <2>4, EnqueuedQueue
  <2>6. QED
    BY <2>1, <2>5 DEF QueueInv
<1>6. CASE decide
  <2>1. PICK v \in Selectable :
          /\ trail_lim' = Append(trail_lim, Len(trail))
          /\ assignments' = [assignments EXCEPT ![v] = 1]
          /\ level' = [level EXCEPT ![v] = currentDecisionLevel + 1]
          /\ trail' = Append(trail, v)
          /\ propagationQ' = Append(propagationQ, v)
    BY <1>6 DEF decide
  <2>2. /\ pc = "decide" /\ reason' = reason /\ pc' = "propagate" /\ todo' = todo
        /\ propagationQ = <<>> /\ todo = <<>>
    BY <1>6 DEF decide, QueueInv
  <2>3. v \in Lits /\ Abs(v) = v /\ value(v)' = 1 /\ level'[v] = Len(trail_lim')
    BY <2>1, <2>2, Decided
  <2>4. Val(assignments', v) = 1
    BY <2>3, ValueIsVal
  <2>5. IsCurrent(assignments', level', Len(trail_lim'), v)
    BY <2>3, <2>4 DEF IsCurrent
  <2>6. \A i \in 1..Len(propagationQ') : propagationQ'[i] = v
    BY <2>1, <2>2
  <2>7. \A i \in 1..Len(propagationQ') : Current(propagationQ[i])'
    BY <2>5, <2>6, CurrentIs
  <2>8. QED
    BY <2>2, <2>7 DEF QueueInv
<1>7. CASE Dequeue
  <2>1. /\ pc = "propagate" /\ pc' = "visit" /\ propagationQ # <<>>
        /\ cur' = Head(propagationQ) /\ propagationQ' = Tail(propagationQ)
        /\ UNCHANGED <<assignments, level, trail_lim>>
    BY <1>7 DEF Dequeue
  <2>2. \A i \in 1..Len(propagationQ) : Current(propagationQ[i])
    BY <2>1 DEF QueueInv
  <2>3. \A i \in 1..Len(propagationQ) :
           IsCurrent(assignments, level, Len(trail_lim), propagationQ[i])
    BY <2>2, CurrentIs
  <2>4. /\ cur' = propagationQ[1] /\ 1 \in 1..Len(propagationQ)
        /\ \A i \in 1..Len(propagationQ') :
             propagationQ'[i] = propagationQ[i + 1] /\ i + 1 \in 1..Len(propagationQ)
    BY <1>1, <2>1
  <2>5. IsCurrent(assignments', level', Len(trail_lim'), cur')
    BY <2>1, <2>3, <2>4
  <2>6. \A i \in 1..Len(propagationQ') :
           IsCurrent(assignments', level', Len(trail_lim'), propagationQ'[i])
    BY <2>1, <2>3, <2>4
  <2>7. Current(cur)' /\ \A i \in 1..Len(propagationQ') : Current(propagationQ[i])'
    BY <2>5, <2>6, CurrentIs
  <2>8. QED
    BY <2>1, <2>7 DEF QueueInv
<1>8. CASE VisitSatisfied \/ VisitMove
  <2>1. /\ pc = "visit" /\ pc' = pc /\ cur' = cur
        /\ UNCHANGED <<assignments, level, trail_lim, propagationQ>>
    BY <1>8 DEF VisitSatisfied, VisitMove, Visiting, assigned
  <2>2. Current(cur) /\ \A i \in 1..Len(propagationQ) : Current(propagationQ[i])
    BY <2>1 DEF QueueInv
  <2>3. Current(cur)' /\ \A i \in 1..Len(propagationQ') : Current(propagationQ[i])'
    BY <2>1, <2>2, CurrentIs
  <2>4. QED
    BY <2>1, <2>3 DEF QueueInv
<1>9. CASE VisitConflict
  <2>1. pc' = "conflict" /\ propagationQ' = <<>> /\ todo' = <<>>
    BY <1>9 DEF VisitConflict
  <2>2. QED
    BY <2>1 DEF QueueInv
<1>10. CASE VisitDone
  <2>1. /\ pc = "visit" /\ pc' = "propagate" /\ todo' = <<>>
        /\ UNCHANGED <<assignments, level, trail_lim, propagationQ>>
    BY <1>10 DEF VisitDone, assigned
  <2>2. \A i \in 1..Len(propagationQ') : Current(propagationQ[i])'
    BY <2>1, CurrentIs DEF QueueInv
  <2>3. QED
    BY <2>1, <2>2 DEF QueueInv
<1>11. CASE ParseDone
  <2>1. /\ pc = "parse" /\ pc' \in {"propagate", "exit"} /\ todo' = todo
        /\ UNCHANGED <<assignments, level, trail_lim, propagationQ>>
    BY <1>11 DEF ParseDone, assigned
  <2>2. \A i \in 1..Len(propagationQ') : Current(propagationQ[i])'
    BY <2>1, CurrentIs DEF QueueInv
  <2>3. QED
    BY <2>1, <2>2 DEF QueueInv
<1>12. CASE PropagateDone
  <2>1. pc = "propagate" /\ pc' = "decide" /\ propagationQ' = <<>> /\ todo' = todo
    BY <1>12 DEF PropagateDone, assigned
  <2>2. QED
    BY <2>1 DEF QueueInv
<1>13. CASE StartAnalysis \/ Analyze \/ cancelUntil
  <2>1. pc' \in {"analyze", "backtrack", "learn"}
    BY <1>1, <1>13, CountKept DEF StartAnalysis, cancelUntil
  <2>2. /\ pc \in {"conflict", "analyze", "backtrack"}
        /\ propagationQ' = propagationQ /\ todo' = todo
    BY <1>13 DEF StartAnalysis, Analyze, cancelUntil, assigned
  <2>3. propagationQ = <<>> /\ todo = <<>>
    BY <2>2 DEF QueueInv
  <2>4. QED
    BY <2>1, <2>2, <2>3 DEF QueueInv
<1>14. CASE ParseEmpty \/ SayAnswer \/ SayUnsat
  <2>1. pc \in {"parse", "decide", "conflict"} /\ pc' = "exit" /\ todo' = todo
    BY <1>14 DEF ParseEmpty, SayAnswer, SayUnsat, Parsing
  <2>2. QED
    BY <2>1 DEF QueueInv
<1>15. CASE termination_handler
  <2>1. pc' = "stopped"
    BY <1>15 DEF termination_handler
  <2>2. QED
    BY <2>1 DEF QueueInv
<1>16. CASE ParseSatisfied \/ ParseClause
  BY <1>2, <1>16 DEF ParseSatisfied, ParseClause, assigned
<1>17. CASE UNCHANGED vars
  BY <1>2, <1>17 DEF vars, assigned
<1>18. QED
  BY <1>3, <1>4, <1>5, <1>6, <1>7, <1>8, <1>9, <1>10, <1>11, <1>12, <1>13, <1>14,
     <1>15, <1>16, <1>17
  DEF Next, Step, Parse, Propagate, Solve
-----------------------------------------------------------------------------
(***************************************************************************)
(* The watchers                                                            *)
(***************************************************************************)
\* The clause c is added to the watchers of the literals ls; d is there once more.
More(ls, c, l, d) == IF l \in ls /\ c = d THEN 1 ELSE 0

Adds(S, w, ls, c, w1) == /\ c \in S /\ \A l \in Lits : w[l] \in Seq(S)
                         /\ w1 = Watch(w, ls, c)

LEMMA WatchTimes ==
  ASSUME NEW S, NEW w, NEW ls, NEW c, NEW w1, Adds(S, w, ls, c, w1)
  PROVE  \A l \in Lits : \A d : Times(w1[l], d) = Times(w[l], d) + More(ls, c, l, d)
<1> SUFFICES ASSUME NEW l \in Lits, NEW d
             PROVE  Times(w1[l], d) = Times(w[l], d) + More(ls, c, l, d)
  OBVIOUS
<1> DEFINE s == w[l]
<1>1. s \in Seq(S) /\ c \in S /\ w1[l] = IF l \in ls THEN Append(s, c) ELSE s
  BY DEF Watch, Adds
<1> HIDE DEF s
<1>2. Times(Append(s, c), d) = Times(s, d) + IF c = d THEN 1 ELSE 0
  BY <1>1, TimesFacts
<1>3. Times(s, d) \in Nat
  BY <1>1, TimesConcat
<1>4. Times(w1[l], d) = Times(s, d) + IF l \in ls /\ c = d THEN 1 ELSE 0
  <2>1. CASE l \in ls
    BY <1>1, <1>2, <2>1
  <2>2. CASE l \notin ls
    BY <1>1, <1>3, <2>2
  <2>3. QED
    BY <2>1, <2>2
<1>5. QED
  BY <1>4 DEF s, More

\* All counts are natural numbers, and 0 for what is no clause.
LEMMA TimesTypes ==
  ASSUME TypeInv
  PROVE  /\ \A l \in Lits : \A c : Times(watchers[l], c) \in Nat /\ Times(todo, c) \in Nat
         /\ \A l \in Lits : \A c : c \notin ClauseIds => Times(watchers[l], c) = 0
<1>1. watchers \in [Lits -> Seq(ClauseIds)] /\ todo \in Seq(ClauseIds)
  BY DEF TypeInv
<1> DEFINE S == ClauseIds
<1> HIDE DEF S
<1>2. ASSUME NEW s \in Seq(S), NEW c
      PROVE  Times(s, c) \in Nat /\ (c \notin S => Times(s, c) = 0)
  <2>1. Times(s, c) \in Nat /\ (Times(s, c) > 0 <=> \E i \in 1..Len(s) : s[i] = c)
    BY TimesConcat
  <2>2. \A i \in 1..Len(s) : s[i] \in S
    OBVIOUS
  <2>3. QED
    BY <2>1, <2>2
<1>3. QED
  BY <1>1, <1>2 DEF S

\* A clause is added, watched by its first two literals.
LEMMA AddedWatches ==
  ASSUME TypeInv, WatchAll, todo = <<>>,
         NEW d \in Seq(Lits), Len(d) >= 2, d[1] # d[2],
         clauses' = Append(clauses, d),
         watchers' = Watch(watchers, {-d[1], -d[2]}, Len(clauses) + 1),
         cur' = cur, todo' = todo
  PROVE  WatchAll'
<1> DEFINE n == Len(clauses)
           cl1 == clauses'
           ls == {-d[1], -d[2]}
<1>1. /\ n \in Nat /\ n + 1 \notin ClauseIds /\ ClauseIds' = ClauseIds \cup {n + 1}
      /\ ClauseIds' = 1..(n + 1) /\ ClauseIds = 1..n
      /\ cl1[n + 1] = d /\ \A c \in ClauseIds : cl1[c] = clauses[c]
  BY Added DEF ClauseIds
<1>2. watchers \in [Lits -> Seq(1..(n + 1))]
  <2>1. watchers \in [Lits -> Seq(1..n)]
    BY <1>1 DEF TypeInv
  <2>2. ASSUME NEW l \in Lits PROVE watchers[l] \in Seq(1..(n + 1))
    <3> DEFINE s == watchers[l]
    <3>1. s \in Seq(1..n)
      BY <2>1
    <3> DEFINE T == 1..(n + 1)
               U == 1..n
    <3>2. s \in Seq(U) /\ \A i \in U : i \in T
      BY <1>1, <3>1
    <3> HIDE DEF s, n, T, U
    <3>3. Len(s) \in Nat /\ \A i \in 1..Len(s) : s[i] \in T
      BY <3>2
    <3>4. s \in Seq(T)
      BY <3>2, <3>3
    <3>5. QED
      BY <3>4 DEF s, T
  <2>3. QED
    BY <2>1, <2>2
<1>3. \A c : Times(todo, c) = 0
  BY TimesNone
<1>4. \A l \in Lits : \A c \in ClauseIds : Times(watchers[l], c) = Watches(clauses[c], l)
  <2>1. \A l \in Lits : \A c \in ClauseIds : Times(watchers[l], c) \in Nat
    BY TimesTypes
  <2>2. QED
    BY <1>3, <2>1 DEF WatchAll
<1>5. \A l \in Lits : Times(watchers[l], n + 1) = 0
  BY <1>1, TimesTypes
<1>6. \A l \in Lits : \A c : Times(watchers'[l], c)
                           = Times(watchers[l], c) + IF l \in ls /\ n + 1 = c THEN 1 ELSE 0
  <2> DEFINE m == n + 1
             S == 1..(n + 1)
  <2>1. /\ m \in S /\ watchers' = Watch(watchers, ls, m)
        /\ \A l \in Lits : watchers[l] \in Seq(S)
    BY <1>1, <1>2
  <2> HIDE DEF m, S, ls
  <2>2. Adds(S, watchers, ls, m, watchers')
    BY <2>1 DEF Adds
  <2>3. \A l \in Lits : \A c : Times(watchers'[l], c) = Times(watchers[l], c) + More(ls, m, l, c)
    BY <2>2, WatchTimes
  <2>4. QED
    BY <2>3 DEF m, More
<1>7. ASSUME NEW l \in Lits PROVE (IF l \in ls THEN 1 ELSE 0) = Watches(d, l)
  <2>1. d[1] \in Int /\ d[2] \in Int /\ l \in Int
    <3>1. d[1] \in Lits /\ d[2] \in Lits
      OBVIOUS
    <3>2. QED
      BY <3>1, LitFacts
  <2>2. (l = -d[1] <=> d[1] = -l) /\ (l = -d[2] <=> d[2] = -l)
    BY <2>1
  <2>3. ~(d[1] = -l /\ d[2] = -l)
    BY <2>1
  <2>4. QED
    BY <2>2, <2>3 DEF Watches
<1> HIDE DEF n, cl1, ls
<1>8. ASSUME NEW l \in Lits, NEW c \in ClauseIds'
      PROVE  Times(watchers'[l], c) = Watches(cl1[c], l)
  <2>1. CASE c = n + 1
    <3>1. Times(watchers'[l], c) = 0 + IF l \in ls THEN 1 ELSE 0
      BY <1>5, <1>6, <2>1
    <3>2. cl1[c] = d
      BY <1>1, <2>1
    <3>3. QED
      BY <1>7, <3>1, <3>2
  <2>2. CASE c \in ClauseIds
    <3>1. Times(watchers'[l], c) = Times(watchers[l], c) + 0
      BY <1>1, <1>6, <2>2
    <3>2. Times(watchers[l], c) \in Nat
      BY TimesTypes
    <3>3. QED
      BY <1>1, <1>4, <2>2, <3>1, <3>2
  <2>3. QED
    BY <1>1, <2>1, <2>2
<1>9. \A l \in Lits : \A c \in ClauseIds' : Times(watchers'[l], c) \in Nat
  <2>1. \A l \in Lits, c \in ClauseIds' : Watches(cl1[c], l) \in Nat
    BY DEF Watches
  <2>2. QED
    BY <1>8, <2>1
<1>10. \A c : Times(todo', c) = 0
  BY <1>3
<1>11. WatchAll'
  <2>1. ASSUME NEW l \in Lits, NEW c \in ClauseIds'
        PROVE  Times(watchers'[l], c) + (IF l = cur' THEN Times(todo', c) ELSE 0)
                 = Watches(clauses'[c], l)
    <3>1. /\ Times(watchers'[l], c) = Watches(clauses'[c], l)
          /\ Times(watchers'[l], c) \in Nat
      BY <1>8, <1>9 DEF cl1
    <3>2. (IF l = cur' THEN Times(todo', c) ELSE 0) = 0
      BY <1>10
    <3> DEFINE a == Times(watchers'[l], c)
               b == IF l = cur' THEN Times(todo', c) ELSE 0
    <3> HIDE DEF a, b
    <3>3. a + b = a
      BY <3>1, <3>2 DEF a, b
    <3>4. QED
      BY <3>1, <3>3 DEF a, b
  <2>2. QED
    BY <2>1 DEF WatchAll
<1>12. QED
  BY <1>11

\* One clause to visit less, which is watched again.
LEMMA VisitedWatches ==
  ASSUME TypeInv, WatchAll, todo # <<>>, cur \in Lits, cur' = cur, todo' = Tail(todo),
         NEW d \in Seq(Lits), Len(d) >= 2, clauses' = [clauses EXCEPT ![Head(todo)] = d],
         NEW m \in Lits, watchers' = Watch(watchers, {m}, Head(todo)),
         \A l \in Lits : Watches(d, l) + (IF l = cur THEN 1 ELSE 0)
                           = Watches(clauses[Head(todo)], l) + (IF l = m THEN 1 ELSE 0)
  PROVE  WatchAll'
<1> DEFINE h == Head(todo)
           cl1 == clauses'
<1>1. todo \in Seq(ClauseIds) /\ watchers \in [Lits -> Seq(ClauseIds)]
  BY DEF TypeInv
<1>2. h \in ClauseIds
  BY <1>1
<1>3. /\ ClauseIds' = ClauseIds
      /\ \A c \in ClauseIds : cl1[c] = IF c = h THEN d ELSE clauses[c]
  BY <1>2, Replaced
<1>4. \A l \in Lits : \A c : Times(watchers'[l], c)
                           = Times(watchers[l], c) + IF l = m /\ h = c THEN 1 ELSE 0
  <2> DEFINE S == ClauseIds
             ls == {m}
  <2>1. /\ h \in S /\ watchers' = Watch(watchers, ls, h)
        /\ \A l \in Lits : watchers[l] \in Seq(S)
    BY <1>1, <1>2
  <2>2. \A l : l \in ls <=> l = m
    OBVIOUS
  <2> HIDE DEF S, ls, h
  <2>3. Adds(S, watchers, ls, h, watchers')
    BY <2>1 DEF Adds
  <2>4. \A l \in Lits : \A c : Times(watchers'[l], c) = Times(watchers[l], c) + More(ls, h, l, c)
    BY <2>3, WatchTimes
  <2>5. QED
    BY <2>2, <2>4 DEF More
<1>5. \A c : Times(todo, c) = Times(Tail(todo), c) + IF h = c THEN 1 ELSE 0
  <2> DEFINE S == ClauseIds
             t == todo
  <2>1. t \in Seq(S) /\ t # <<>>
    BY <1>1
  <2>2. Head(t) \in S
    BY <1>2
  <2> HIDE DEF S, t
  <2>3. \A c : Times(t, c) = Times(Tail(t), c) + IF Head(t) = c THEN 1 ELSE 0
    BY <2>1, <2>2, TimesFacts
  <2>4. QED
    BY <2>3 DEF t
<1>6. /\ \A l \in Lits : \A c : Times(watchers[l], c) \in Nat
      /\ \A c : Times(Tail(todo), c) \in Nat
  <2>1. Tail(todo) \in Seq(ClauseIds)
    BY <1>1
  <2> DEFINE t == Tail(todo)
             S == ClauseIds
  <2>2. t \in Seq(S)
    BY <2>1
  <2> HIDE DEF t, S
  <2>3. \A c : Times(t, c) \in Nat
    BY <2>2, TimesConcat
  <2>4. QED
    BY <2>3, TimesTypes DEF t
<1> HIDE DEF h, cl1
<1>7. ASSUME NEW l \in Lits, NEW c \in ClauseIds
      PROVE  Times(watchers'[l], c) + (IF l = cur THEN Times(Tail(todo), c) ELSE 0)
               = Watches(cl1[c], l)
  <2>1. Times(watchers[l], c) + (IF l = cur THEN Times(todo, c) ELSE 0) = Watches(clauses[c], l)
    BY DEF WatchAll
  <2>a. Times(watchers[l], c) \in Nat /\ Times(Tail(todo), c) \in Nat
    BY <1>6
  <2>b. Watches(d, l) \in Nat /\ Watches(clauses[c], l) \in Nat
    BY DEF Watches
  <2>2. /\ Times(watchers[l], c) \in Nat /\ Times(Tail(todo), c) \in Nat
        /\ Watches(d, l) \in Nat /\ Watches(clauses[c], l) \in Nat
    BY <2>a, <2>b
  <2>3. CASE c = h
    <3>1. Watches(d, l) + (IF l = cur THEN 1 ELSE 0)
            = Watches(clauses[c], l) + (IF l = m THEN 1 ELSE 0)
      BY <2>3 DEF h
    <3>2. cl1[c] = d
      BY <1>3, <2>3
    <3>3. /\ Times(watchers'[l], c) = Times(watchers[l], c) + IF l = m THEN 1 ELSE 0
          /\ Times(todo, c) = Times(Tail(todo), c) + 1
      BY <1>4, <1>5, <2>3
    <3> DEFINE a == Times(watchers[l], c)
               b == Times(Tail(todo), c)
               v == Watches(d, l)
               w == Watches(clauses[c], l)
               a1 == Times(watchers'[l], c)
               b1 == Times(todo, c)
    <3>4. /\ a \in Nat /\ b \in Nat /\ v \in Nat /\ w \in Nat
          /\ a + (IF l = cur THEN b1 ELSE 0) = w /\ b1 = b + 1
          /\ a1 = a + IF l = m THEN 1 ELSE 0
          /\ v + (IF l = cur THEN 1 ELSE 0) = w + (IF l = m THEN 1 ELSE 0)
      BY <2>1, <2>2, <3>1, <3>3
    <3> HIDE DEF a, b, v, w, a1, b1
    <3>5. a1 + (IF l = cur THEN b ELSE 0) = v
      BY <3>4
    <3>6. QED
      BY <3>2, <3>5 DEF a1, b, v
  <2>4. CASE c # h
    <3>1. /\ Times(watchers'[l], c) = Times(watchers[l], c) + 0
          /\ Times(todo, c) = Times(Tail(todo), c) + 0
          /\ cl1[c] = clauses[c]
      BY <1>3, <1>4, <1>5, <2>4
    <3>2. QED
      BY <2>1, <2>2, <3>1
  <2>5. QED
    BY <2>3, <2>4
<1>8. \A l \in Lits : \A c \in ClauseIds' :
         Times(watchers'[l], c) + (IF l = cur' THEN Times(todo', c) ELSE 0)
           = Watches(clauses'[c], l)
  BY <1>3, <1>7 DEF cl1
<1>9. QED
  BY <1>8 DEF WatchAll

LEMMA ParsedWatches ==
  ASSUME TypeInv, QueueInv, WatchAll, ParseClause
  PROVE  WatchAll'
<1> DEFINE s == Shortened(F[pos])
<1>1. s \in Seq(Lits) /\ ~Repeats(s)
  BY ParsedClause DEF ParseClause
<1>2. /\ Len(s) >= 2 /\ clauses' = Append(clauses, s)
      /\ watchers' = Watch(watchers, {-s[1], -s[2]}, Len(clauses) + 1)
      /\ cur' = cur /\ todo' = todo /\ pc = "parse"
  BY Zenon DEF ParseClause, Parsing
<1> HIDE DEF s
<1>3. s[1] # s[2]
  <2>1. 1 \in DOMAIN s /\ 2 \in DOMAIN s /\ 1 # 2
    BY <1>1, <1>2
  <2>2. QED
    BY <1>1, <2>1 DEF Repeats
<1>4. todo = <<>>
  BY <1>2 DEF QueueInv
<1>5. QED
  BY <1>1, <1>2, <1>3, <1>4, AddedWatches

LEMMA LearntWatches ==
  ASSUME TypeInv, TrailOK(assignments, level, reason, trail, trail_lim),
         QueueInv, WatchAll, AnalysisInv, LearnClause
  PROVE  WatchAll'
<1> DEFINE s == VECTORswitchPlace(learnt, 2, MaxLevelIndex(learnt))
<1>1. pc = "learn" /\ Len(learnt) > 1 /\ cur' = cur /\ todo' = todo
  BY DEF LearnClause
<1>2. s \in Seq(Lits) /\ Len(s) = Len(learnt) /\ s[1] # s[2]
  BY <1>1, Learnt
<1>3. /\ clauses' = Append(clauses, s)
      /\ watchers' = Watch(watchers, {-s[1], -s[2]}, Len(clauses) + 1)
  BY Zenon DEF LearnClause
<1> HIDE DEF s
<1>4. Len(s) >= 2
  <2>1. learnt \in Seq(Lits \cup {NULL})
    BY DEF TypeInv
  <2>2. Len(learnt) \in Nat
    BY <2>1
  <2>3. QED
    BY <1>1, <1>2, <2>2
<1>5. todo = <<>>
  BY <1>1 DEF QueueInv
<1>6. QED
  BY <1>1, <1>2, <1>3, <1>4, <1>5, AddedWatches

LEMMA KeptWatches ==
  ASSUME TypeInv, TrailOK(assignments, level, reason, trail, trail_lim),
         QueueInv, WatchAll, VisitSatisfied \/ VisitUnit
  PROVE  WatchAll'
<1>1. /\ Visiting /\ clauses' = [clauses EXCEPT ![Head(todo)] = Visited]
      /\ watchers' = Watch(watchers, {cur}, Head(todo))
      /\ cur' = cur /\ todo' = Tail(todo) /\ todo # <<>>
  BY DEF VisitSatisfied, VisitUnit, Visiting
<1> DEFINE V == Visited
<1>2. /\ V \in Seq(Lits) /\ Len(V) = Len(clauses[Head(todo)]) /\ cur \in Lits
      /\ Len(clauses[Head(todo)]) >= 2
      /\ \A l \in Lits : Watches(V, l) = Watches(clauses[Head(todo)], l)
  BY <1>1, VisitFacts
<1>3. clauses' = [clauses EXCEPT ![Head(todo)] = V]
  BY <1>1
<1> HIDE DEF V
<1>4. \A l \in Lits : Watches(V, l) + (IF l = cur THEN 1 ELSE 0)
                        = Watches(clauses[Head(todo)], l) + (IF l = cur THEN 1 ELSE 0)
  BY <1>2
<1>5. QED
  BY <1>1, <1>2, <1>3, <1>4, VisitedWatches

LEMMA MovedWatches ==
  ASSUME TypeInv, TrailOK(assignments, level, reason, trail, trail_lim),
         QueueInv, WatchAll, VisitMove
  PROVE  WatchAll'
<1> DEFINE V == Visited
           h == Head(todo)
<1>1. Visiting /\ cur' = cur /\ todo' = Tail(todo) /\ todo # <<>>
  BY DEF VisitMove, Visiting
<1>2. PICK i \in 3..Len(V), d \in Seq(Lits) :
        /\ V[i] \in Lits /\ Len(d) >= 2 /\ d[1] = V[1] /\ d[2] = V[i]
        /\ clauses' = [clauses EXCEPT ![h] = d]
        /\ watchers' = Watch(watchers, {-V[i]}, h)
  BY Moved
<1>3. /\ V[2] = -cur /\ cur \in Lits
      /\ \A l \in Lits : Watches(V, l) = Watches(clauses[h], l)
  BY <1>1, VisitFacts
<1> HIDE DEF V, h
<1> DEFINE m == -V[i]
<1>4. m \in Lits
  BY <1>2, LitFacts
<1>5. ASSUME NEW l \in Lits
      PROVE  Watches(d, l) + (IF l = cur THEN 1 ELSE 0)
               = Watches(clauses[h], l) + (IF l = m THEN 1 ELSE 0)
  <2>1. (V[2] = -l <=> l = cur) /\ (d[2] = -l <=> l = m)
    <3>1. l \in Int /\ cur \in Int /\ V[i] \in Int
      BY <1>2, <1>3, LitFacts
    <3>2. QED
      BY <1>2, <1>3, <3>1
  <2>2. /\ Watches(d, l) = (IF d[1] = -l THEN 1 ELSE 0) + (IF l = m THEN 1 ELSE 0)
        /\ Watches(clauses[h], l) = (IF d[1] = -l THEN 1 ELSE 0) + (IF l = cur THEN 1 ELSE 0)
    BY <1>2, <1>3, <2>1 DEF Watches
  <2> HIDE DEF m
  <2>3. QED
    BY <2>2
<1> HIDE DEF m
<1>6. watchers' = Watch(watchers, {m}, h)
  BY <1>2 DEF m
<1>7. QED
  BY <1>1, <1>2, <1>3, <1>4, <1>5, <1>6, VisitedWatches DEF h

LEMMA ConflictWatches ==
  ASSUME TypeInv, TrailOK(assignments, level, reason, trail, trail_lim),
         QueueInv, WatchAll, VisitConflict
  PROVE  WatchAll'
<1> DEFINE V == Visited
           h == Head(todo)
<1>1. /\ Visiting /\ cur' = cur /\ todo' = <<>>
      /\ clauses' = [clauses EXCEPT ![h] = V]
      /\ watchers' = [watchers EXCEPT ![cur] = watchers[cur] \o todo]
  BY DEF VisitConflict
<1>2. /\ h \in ClauseIds /\ V \in Seq(Lits) /\ Len(V) >= 2 /\ cur \in Lits
      /\ \A l \in Lits : Watches(V, l) = Watches(clauses[h], l)
  BY <1>1, VisitFacts
<1> HIDE DEF V, h
<1>3. /\ ClauseIds' = ClauseIds
      /\ \A c \in ClauseIds : clauses'[c] = IF c = h THEN V ELSE clauses[c]
  BY <1>1, <1>2, Replaced
<1>4. \A l \in Lits, c \in ClauseIds : Watches(clauses'[c], l) = Watches(clauses[c], l)
  BY <1>2, <1>3
<1>5. \A c : Times(todo', c) = 0
  BY <1>1, TimesNone
<1>6. watchers \in [Lits -> Seq(ClauseIds)] /\ todo \in Seq(ClauseIds)
  BY DEF TypeInv
<1>7. \A c : Times(watchers[cur] \o todo, c) = Times(watchers[cur], c) + Times(todo, c)
  <2> DEFINE S == ClauseIds
             s == watchers[cur]
             t == todo
  <2>1. s \in Seq(S) /\ t \in Seq(S)
    BY <1>2, <1>6
  <2> HIDE DEF S, s, t
  <2>2. \A c : Times(s \o t, c) = Times(s, c) + Times(t, c)
    BY <2>1, TimesConcat
  <2>3. QED
    BY <2>2 DEF s, t
<1>8. ASSUME NEW l \in Lits, NEW c \in ClauseIds
      PROVE  Times(watchers'[l], c) + (IF l = cur THEN Times(todo', c) ELSE 0)
               = Watches(clauses'[c], l)
  <2>1. Times(watchers[l], c) + (IF l = cur THEN Times(todo, c) ELSE 0) = Watches(clauses[c], l)
    BY DEF WatchAll
  <2>2. Times(watchers[l], c) \in Nat /\ Times(todo, c) \in Nat
    BY TimesTypes
  <2>3. CASE l = cur
    <3>1. Times(watchers'[l], c) = Times(watchers[l], c) + Times(todo, c)
      BY <1>1, <1>6, <1>7, <2>3
    <3>2. Times(todo', c) = 0
      BY <1>5
    <3>3. QED
      BY <1>4, <2>1, <2>2, <2>3, <3>1, <3>2
  <2>4. CASE l # cur
    <3>1. watchers'[l] = watchers[l]
      BY <1>1, <1>6, <2>4
    <3>2. QED
      BY <1>4, <2>1, <2>2, <2>4, <3>1
  <2>5. QED
    BY <2>3, <2>4
<1>9. QED
  BY <1>1, <1>3, <1>8 DEF WatchAll

LEMMA DequeuedWatches ==
  ASSUME TypeInv, QueueInv, WatchAll, Dequeue
  PROVE  WatchAll'
<1>1. /\ cur' \in Lits /\ clauses' = clauses /\ todo' = watchers[cur']
      /\ watchers' = [watchers EXCEPT ![cur'] = <<>>] /\ pc = "propagate"
  BY DEF Dequeue, TypeInv
<1>2. watchers \in [Lits -> Seq(ClauseIds)] /\ ClauseIds' = ClauseIds
  BY <1>1 DEF TypeInv, ClauseIds
<1>3. todo = <<>>
  BY <1>1 DEF QueueInv
<1>4. \A c : Times(<<>>, c) = 0
  BY TimesNone
<1>5. ASSUME NEW l \in Lits, NEW c \in ClauseIds
      PROVE  Times(watchers'[l], c) + (IF l = cur' THEN Times(todo', c) ELSE 0)
               = Watches(clauses[c], l)
  <2>1. Times(watchers[l], c) + (IF l = cur THEN Times(todo, c) ELSE 0) = Watches(clauses[c], l)
    BY DEF WatchAll
  <2>2. Times(watchers[l], c) \in Nat
    BY TimesTypes
  <2>3. Times(todo, c) = 0
    BY <1>3, <1>4
  <2>4. Times(watchers[l], c) = Watches(clauses[c], l)
    BY <2>1, <2>2, <2>3
  <2>5. CASE l = cur'
    <3>1. watchers'[l] = <<>> /\ todo' = watchers[l]
      BY <1>1, <1>2, <2>5
    <3>2. Times(watchers'[l], c) = 0
      BY <1>4, <3>1
    <3>3. Times(todo', c) = Times(watchers[l], c)
      BY <3>1
    <3>4. QED
      BY <2>2, <2>4, <2>5, <3>2, <3>3
  <2>6. CASE l # cur'
    <3>1. watchers'[l] = watchers[l]
      BY <1>1, <1>2, <2>6
    <3>2. QED
      BY <2>2, <2>4, <2>6, <3>1
  <2>7. QED
    BY <2>5, <2>6
<1>6. QED
  BY <1>1, <1>2, <1>5 DEF WatchAll

LEMMA WatchStep ==
  ASSUME TypeInv, Trail, QueueInv, WatchAll, AnalysisInv, [Next]_vars
  PROVE  WatchAll'
<1>1. TrailOK(assignments, level, reason, trail, trail_lim)
  BY DEF Trail
<1>2. ASSUME UNCHANGED <<clauses, watchers, cur, todo>> PROVE WatchAll'
  BY <1>2 DEF WatchAll, ClauseIds
<1>3. CASE ParseClause
  BY <1>3, ParsedWatches
<1>4. CASE LearnClause
  BY <1>1, <1>4, LearntWatches
<1>5. CASE VisitSatisfied \/ VisitUnit
  BY <1>1, <1>5, KeptWatches
<1>6. CASE VisitMove
  BY <1>1, <1>6, MovedWatches
<1>7. CASE VisitConflict
  BY <1>1, <1>7, ConflictWatches
<1>8. CASE Dequeue
  BY <1>8, DequeuedWatches
<1>9. CASE ParseSatisfied \/ ParseEmpty \/ ParseUnit \/ ParseDone \/ VisitDone \/ PropagateDone
  BY <1>2, <1>9 DEF ParseSatisfied, ParseEmpty, ParseUnit, ParseDone, VisitDone, PropagateDone
<1>10. CASE \/ decide \/ SayAnswer \/ SayUnsat \/ StartAnalysis \/ Analyze \/ cancelUntil
            \/ LearnUnit \/ termination_handler
  BY <1>2, <1>10 DEF decide, SayAnswer, SayUnsat, StartAnalysis, Analyze, cancelUntil,
     LearnUnit, termination_handler
<1>11. CASE UNCHANGED vars
  BY <1>2, <1>11 DEF vars
<1>12. QED
  BY <1>3, <1>4, <1>5, <1>6, <1>7, <1>8, <1>9, <1>10, <1>11
  DEF Next, Step, Parse, Propagate, Solve
-----------------------------------------------------------------------------
(***************************************************************************)
(* The analysis                                                            *)
(***************************************************************************)
LEMMA ConflictFound ==
  ASSUME TypeInv, TrailOK(assignments, level, reason, trail, trail_lim),
         QueueInv, WatchAll, VisitConflict
  PROVE  AnalysisInv'
<1> DEFINE V == Visited
           h == Head(todo)
<1>1. /\ Visiting /\ conflict' = h /\ pc' = "conflict"
      /\ clauses' = [clauses EXCEPT ![h] = V]
      /\ assignments' = assignments /\ level' = level /\ trail_lim' = trail_lim
      /\ value(V[1]) = 0 /\ Watchable(V) = {}
  BY DEF VisitConflict
<1>2. /\ h \in ClauseIds /\ V \in Seq(Lits) /\ Len(V) >= 2 /\ V[2] = -cur
      /\ cur \in Lits /\ value(-cur) = 0 /\ level[Abs(cur)] = currentDecisionLevel
  BY <1>1, VisitFacts
<1> HIDE DEF V, h
<1>3. ClauseIds' = ClauseIds /\ clauses'[h] = V
  BY <1>1, <1>2, Replaced
<1>4. \A i \in 1..Len(V) : value(V[i]) = 0
  <2>1. \A i \in 1..Len(V) : i = 1 \/ i = 2 \/ i \in 3..Len(V)
    BY <1>2
  <2>2. \A i \in 3..Len(V) : value(V[i]) = 0
    BY <1>1 DEF Watchable
  <2>3. QED
    BY <1>1, <1>2, <2>1, <2>2
<1>5. level[Abs(V[2])] = currentDecisionLevel
  BY <1>2, LitFacts
<1>6. currentDecisionLevel' = currentDecisionLevel
  BY <1>1 DEF currentDecisionLevel
<1>7. Conflicting(conflict)'
  <2>1. conflict' \in ClauseIds' /\ clauses'[conflict'] = V
    BY <1>1, <1>2, <1>3
  <2>2. level'[Abs(V[2])] = currentDecisionLevel'
    BY <1>1, <1>5, <1>6
  <2>3. QED
    BY <1>1, <1>4, <2>1, <2>2 DEF Conflicting, value
<1>8. QED
  BY <1>1, <1>7 DEF AnalysisInv

LEMMA AnalysisStarted ==
  ASSUME TypeInv, AnalysisInv, StartAnalysis
  PROVE  AnalysisInv'
<1>1. /\ pc = "conflict" /\ pc' = "analyze" /\ currentDecisionLevel > 0
      /\ p' = NULL /\ seen' = {} /\ count' = 0 /\ backtrackLevel' = 0
      /\ learnt' = <<NULL>> /\ conflict' = conflict /\ clauses' = clauses
      /\ assignments' = assignments /\ level' = level /\ trail_lim' = trail_lim
      /\ trail' = trail
  BY DEF StartAnalysis, assigned
<1>2. Conflicting(conflict)'
  BY <1>1 DEF AnalysisInv, Conflicting, ClauseIds, currentDecisionLevel, value
<1>3. LearntBelow'
  <2>1. Len(learnt') = 1 /\ ~(backtrackLevel' > 0)
    BY <1>1
  <2>2. \A i \in 2..1 : FALSE
    OBVIOUS
  <2>3. QED
    BY <2>1, <2>2 DEF LearntBelow
<1>4. count' = Cardinality(SeenHere')
  <2>1. SeenHere' = {}
    BY <1>1 DEF SeenHere
  <2>2. QED
    BY <1>1, <2>1, FS_EmptySet
<1>5. currentDecisionLevel' > 0 /\ backtrackLevel' < currentDecisionLevel'
  BY <1>1 DEF currentDecisionLevel
<1>6. Analyzing'
  BY <1>1, <1>2, <1>3, <1>4, <1>5 DEF Analyzing
<1>7. QED
  BY <1>1, <1>6 DEF AnalysisInv

LEMMA AnalysisStep ==
  ASSUME TypeInv, Trail, Reasons, QueueInv, WatchAll, AnalysisInv, [Next]_vars
  PROVE  AnalysisInv'
<1>1. TrailOK(assignments, level, reason, trail, trail_lim)
  BY DEF Trail
<1>2. ASSUME pc' \notin {"conflict", "analyze", "backtrack", "learn"} PROVE AnalysisInv'
  BY <1>2 DEF AnalysisInv
<1>3. CASE VisitConflict
  BY <1>1, <1>3, ConflictFound
<1>4. CASE StartAnalysis
  BY <1>4, AnalysisStarted
<1>5. CASE Analyze
  BY <1>1, <1>5, AnalyzeKeeps
<1>6. CASE cancelUntil
  BY <1>1, <1>6, CancelKeeps
<1>7. CASE Parse
  <2>1. pc' \in {"parse", "exit", "propagate"}
    BY <1>7 DEF Parse, ParseSatisfied, ParseEmpty, ParseUnit, ParseClause, ParseDone, Parsing
  <2>2. QED
    BY <1>2, <2>1
<1>8. CASE \/ Dequeue \/ VisitSatisfied \/ VisitMove \/ VisitUnit \/ VisitDone
           \/ PropagateDone \/ decide
  <2>1. pc' \in {"visit", "propagate", "decide"}
    BY <1>8 DEF Dequeue, VisitSatisfied, VisitMove, VisitUnit, VisitDone, PropagateDone,
       Visiting, decide
  <2>2. QED
    BY <1>2, <2>1
<1>9. CASE SayAnswer \/ SayUnsat \/ LearnUnit \/ LearnClause \/ termination_handler
  <2>1. pc' \in {"exit", "propagate", "stopped"}
    BY <1>9 DEF SayAnswer, SayUnsat, LearnUnit, LearnClause, termination_handler
  <2>2. QED
    BY <1>2, <2>1
<1>10. CASE UNCHANGED vars
  BY <1>10 DEF vars, assigned, analysis, AnalysisInv, Conflicting, Analyzing, LearntBelow,
     SeenHere, Limit, ClauseIds, currentDecisionLevel, value
<1>11. QED
  BY <1>3, <1>4, <1>5, <1>6, <1>7, <1>8, <1>9, <1>10
  DEF Next, Step, Propagate, Solve
-----------------------------------------------------------------------------
(***************************************************************************)
(* The theorems                                                            *)
(***************************************************************************)
LEMMA TypeStep ==
  ASSUME TypeInv, Trail, Reasons, QueueInv, WatchAll, AnalysisInv, [Next]_vars
  PROVE  TypeInv'
<1>1. CASE Parse
  BY <1>1, ParseTypes
<1>2. CASE Propagate
  BY <1>2, PropagateTypes
<1>3. CASE Solve
  BY <1>3, SolveTypes
<1>4. CASE termination_handler
  BY <1>4 DEF termination_handler, assigned, analysis, Ended, TypeInv, ClauseIds
<1>5. CASE UNCHANGED vars
  BY <1>5 DEF vars, assigned, analysis, Ended, TypeInv, ClauseIds
<1>6. QED
  BY <1>1, <1>2, <1>3, <1>4, <1>5 DEF Next, Step

LEMMA InitCore ==
  ASSUME Init
  PROVE  Core
<1>1. TypeInv
  <2>1. F \in Formulas /\ pos = 1
    BY Inputs2Assumption DEF Init
  <2>2. Len(F) \in Nat /\ pos \in 1..(Len(F) + 1)
    BY <2>1 DEF Formulas
  <2>3. N \in Nat /\ 0 \in 0..N
    BY NAssumption
  <2>4. clauses = <<>> /\ clauses \in Seq(Seq(Lits)) /\ Len(clauses) = 0 /\ ClauseIds = {}
    BY DEF Init, ClauseIds
  <2>5. /\ watchers \in [Lits -> Seq(ClauseIds)] /\ propagationQ \in Seq(Lits)
        /\ todo \in Seq(ClauseIds) /\ learnt \in Seq(Lits \cup {NULL})
    BY DEF Init
  <2>6. /\ cur \in Lits \cup {NULL} /\ p \in Lits \cup {NULL} /\ seen \subseteq Vars
        /\ count \in Int /\ backtrackLevel \in 0..N
        /\ conflict = 0 /\ 0 \in 0..Len(clauses)
    BY <2>3, <2>4 DEF Init, NULL
  <2>7. pc = "parse" /\ said = "none"
    BY DEF Init
  <2>8. QED
    BY <2>1, <2>2, <2>4, <2>5, <2>6, <2>7 DEF TypeInv
<1>2. Trail
  <2>1. TrailOK(assignments, level, reason, trail, trail_lim)
    BY DEF Init, TrailOK, unassigned, NULL
  <2>2. QED
    BY <2>1 DEF Init, Trail
<1>3. Reasons
  BY DEF Init, Reasons, ReasonOK
<1>4. QueueInv
  BY DEF Init, QueueInv
<1>5. WatchAll
  BY DEF Init, WatchAll, ClauseIds
<1>6. AnalysisInv
  BY DEF Init, AnalysisInv
<1>7. QED
  BY <1>1, <1>2, <1>3, <1>4, <1>5, <1>6 DEF Core

LEMMA CoreStep ==
  ASSUME Core, [Next]_vars
  PROVE  Core'
<1>1. TypeInv /\ Trail /\ Reasons /\ QueueInv /\ WatchAll /\ AnalysisInv
  BY DEF Core
<1>2. QED
  BY <1>1, TypeStep, TrailStep, ReasonStep, QueueStep, WatchStep, AnalysisStep DEF Core

\* The trail, the reasons, the queue, the watchers and the analysis stay right
\* together.
THEOREM Invariance == Spec => []Core
<1>1. Init => Core
  BY InitCore
<1>2. Core /\ [Next]_vars => Core'
  BY CoreStep
<1>3. QED
  BY <1>1, <1>2, PTL DEF Spec

LEMMA CoreTypes ==
  ASSUME Core
  PROVE  TypeOK
<1>1. /\ TypeInv /\ TrailOK(assignments, level, reason, trail, trail_lim)
      /\ ReasonOK(clauses, reason, trail)
  BY DEF Core, Trail, Reasons
<1>2. Len(trail_lim) \in Nat /\ Len(trail_lim) <= N /\ N \in Nat /\ Len(clauses) \in Nat
  <2>1. Len(trail_lim) <= N
    BY <1>1, TrailLength
  <2>2. trail_lim \in Seq(Nat) /\ clauses \in Seq(Seq(Lits))
    BY <1>1 DEF TrailOK, TypeInv
  <2>3. QED
    BY <2>1, <2>2, NAssumption
<1>3. ASSUME NEW v \in Vars PROVE level[v] \in -1..N /\ reason[v] \in 0..Len(clauses)
  <2>1. CASE assignments[v] = unassigned
    <3>1. level[v] = -1 /\ reason[v] = 0
      BY <1>1, <2>1 DEF TrailOK, NULL
    <3>2. QED
      BY <1>2, <3>1
  <2>2. CASE assignments[v] # unassigned
    <3>1. PICK k \in 1..Len(trail) : Abs(trail[k]) = v
      BY <1>1, <2>2 DEF TrailOK
    <3>2. level[v] \in 0..Len(trail_lim)
      BY <1>1, <3>1 DEF TrailOK
    <3>3. reason[v] # NULL => reason[v] \in 1..Len(clauses)
      BY <1>1, <3>1 DEF ReasonOK
    <3>4. QED
      BY <1>2, <3>2, <3>3 DEF NULL
  <2>3. QED
    BY <2>1, <2>2
<1>4. level \in [Vars -> -1..N] /\ reason \in [Vars -> 0..Len(clauses)]
  <2>1. level \in [Vars -> Int] /\ reason \in [Vars -> Nat]
    BY <1>1 DEF TrailOK
  <2>2. QED
    BY <1>3, <2>1
<1>5. trail_lim \in Seq(0..N)
  <2>1. trail_lim \in Seq(Nat) /\ \A d \in 1..Len(trail_lim) : trail_lim[d] < N
    BY <1>1 DEF TrailOK
  <2> DEFINE T == 0..N
  <2>2. \A d \in 1..Len(trail_lim) : trail_lim[d] \in T
    BY <1>2, <2>1
  <2> HIDE DEF T
  <2>3. trail_lim \in Seq(T)
    BY <2>1, <2>2
  <2>4. QED
    BY <2>3 DEF T
<1>6. assignments \in [Vars -> 0..unassigned] /\ trail \in Seq(Lits)
  BY <1>1 DEF TrailOK
<1>7. QED
  BY <1>1, <1>4, <1>5, <1>6, Zenon DEF TypeInv, TypeOK

LEMMA CoreTrail ==
  ASSUME Core
  PROVE  TrailInv
<1>1. TrailOK(assignments, level, reason, trail, trail_lim)
  BY DEF Core, Trail
<1>2. /\ trail \in Seq(Lits) /\ trail_lim \in Seq(Nat)
      /\ DOMAIN trail = 1..Len(trail) /\ Len(trail) \in Nat
      /\ DOMAIN trail_lim = 1..Len(trail_lim) /\ Len(trail_lim) \in Nat
  BY <1>1 DEF TrailOK
<1>3. ASSUME NEW v \in Vars
      PROVE  (assignments[v] # unassigned) <=> \E k \in DOMAIN trail : Abs(trail[k]) = v
  <2>1. \A k \in 1..Len(trail) : assignments[Abs(trail[k])] # unassigned
    BY <1>1, TrailLit
  <2>2. assignments[v] # unassigned => \E k \in 1..Len(trail) : Abs(trail[k]) = v
    BY <1>1 DEF TrailOK
  <2>3. QED
    BY <1>2, <2>1, <2>2
<1>4. ASSUME NEW k \in DOMAIN trail
      PROVE  /\ value(trail[k]) = 1 /\ FirstVar(trail, k)
             /\ level[Abs(trail[k])]
                  = Cardinality({d \in DOMAIN trail_lim : trail_lim[d] < k})
  <2>1. k \in 1..Len(trail)
    BY <1>2
  <2>2. value(trail[k]) = 1
    BY <1>1, <2>1, ValueIsVal DEF TrailOK
  <2>3. FirstVar(trail, k)
    <3>1. ASSUME NEW j \in 1..(k - 1) PROVE Abs(trail[j]) # Abs(trail[k])
      <4>1. j \in 1..Len(trail) /\ j # k
        BY <1>2, <2>1
      <4>2. QED
        BY <1>1, <2>1, <4>1 DEF TrailOK
    <3>2. QED
      BY <3>1 DEF FirstVar
  <2> DEFINE x == level[Abs(trail[k])]
             S == {d \in DOMAIN trail_lim : trail_lim[d] < k}
  <2>4. x \in 0..Len(trail_lim) /\ \A d \in 1..Len(trail_lim) : trail_lim[d] < k <=> d <= x
    BY <1>1, <2>1 DEF TrailOK
  <2> HIDE DEF x
  <2>5. S = 1..x
    BY <1>2, <2>4
  <2> HIDE DEF S
  <2>6. Cardinality(1..x) = x
    <3>1. Cardinality(1..x) = IF 1 > x THEN 0 ELSE x - 1 + 1
      BY <1>2, <2>4, FS_Interval
    <3>2. QED
      BY <1>2, <2>4, <3>1
  <2>7. QED
    BY <2>2, <2>3, <2>5, <2>6 DEF S, x
<1>5. QED
  BY <1>3, <1>4 DEF TrailInv

LEMMA CoreWatches ==
  ASSUME Core
  PROVE  WatchInv
<1>1. TypeInv /\ QueueInv /\ WatchAll
  BY DEF Core
<1>2. ASSUME pc \notin {"visit", "stopped"}, NEW l \in Lits, NEW c \in ClauseIds
      PROVE  Times(watchers[l], c) = Cardinality({i \in 1..2 : clauses[c][i] = -l})
  <2>1. todo = <<>>
    BY <1>1, <1>2 DEF QueueInv
  <2>2. Times(todo, c) = 0
    BY <2>1, TimesNone
  <2>3. Times(watchers[l], c) \in Nat
    BY <1>1, TimesTypes
  <2>4. Times(watchers[l], c) + (IF l = cur THEN Times(todo, c) ELSE 0) = Watches(clauses[c], l)
    BY <1>1 DEF WatchAll
  <2>5. Times(watchers[l], c) = Watches(clauses[c], l)
    BY <2>2, <2>3, <2>4
  <2>6. clauses[c] \in Seq(Lits)
    BY <1>1 DEF TypeInv, ClauseIds
  <2> DEFINE d == clauses[c]
  <2>7. d \in Seq(Lits) /\ Times(watchers[l], c) = Watches(d, l)
    BY <2>5, <2>6
  <2> HIDE DEF d
  <2>8. Watches(d, l) = Cardinality({i \in 1..2 : d[i] = -l})
    BY <2>7, WatchesCount
  <2>9. QED
    BY <2>7, <2>8 DEF d
<1>3. QED
  BY <1>2 DEF WatchInv

\* Every variable holds a value of its type.
THEOREM TypeCorrect == Spec => []TypeOK
<1>1. Core => TypeOK
  BY CoreTypes
<1>2. QED
  BY <1>1, Invariance, PTL

\* enqueue, UndoTo and trail_lim: the trail, the assignments and the levels agree
\* after every propagation, undoing and backjump.
THEOREM TrailRight == Spec => []TrailInv
<1>1. Core => TrailInv
  BY CoreTrail
<1>2. QED
  BY <1>1, Invariance, PTL

\* CLAUSEpropagate and learn: the clause given as the reason of a literal has it
\* in the first place and the others were false before, though visits reorder
\* clauses and backjumps undo assignments.
THEOREM ReasonsRight == Spec => []ReasonInv
<1>1. Core => ReasonInv
  <2>1. ASSUME Core PROVE ReasonInv
    <3>1. ReasonOK(clauses, reason, trail) /\ trail \in Seq(Lits)
      BY <2>1 DEF Core, Reasons, Trail, TrailOK
    <3>2. DOMAIN trail = 1..Len(trail)
      BY <3>1
    <3>3. QED
      BY <3>1, <3>2 DEF ReasonOK, ReasonInv
  <2>2. QED
    BY <2>1
<1>2. QED
  BY <1>1, Invariance, PTL

\* addToWatchersOf and propagate: no clause is lost from the lists of watchers or
\* listed twice.
THEOREM WatchesRight == Spec => []WatchInv
<1>1. Core => WatchInv
  BY CoreWatches
<1>2. QED
  BY <1>1, Invariance, PTL

\* analyze and cancelUntil: the clause learnt is asserting.
THEOREM LearntAsserting == Spec => []LearntAsserts
<1>1. Core => LearntAsserts
  BY DEF Core, AnalysisInv, LearntBelow, LearntAsserts
<1>2. QED
  BY <1>1, Invariance, PTL
-----------------------------------------------------------------------------
(***************************************************************************)
(* The queue is the end of the trail                                       *)
(***************************************************************************)
\* The sequence t ends with q.
EndsWith(t, q) ==
  /\ Len(t) - Len(q) >= 0
  /\ \A i \in 1..Len(q) : q[i] = t[Len(t) - Len(q) + i]

\* The literals of q were assigned at the level n.
AllAt(lv, n, q) == \A i \in 1..Len(q) : lv[Abs(q[i])] = n

LEMMA QueueParts ==
  /\ QueueIsTail <=> /\ EndsWith(trail, propagationQ)
                     /\ AllAt(level, Len(trail_lim), propagationQ)
  /\ QueueIsTail' <=> /\ EndsWith(trail', propagationQ')
                      /\ AllAt(level', Len(trail_lim'), propagationQ')
BY DEF QueueIsTail, EndsWith, AllAt, currentDecisionLevel

LEMMA EndsWithNothing ==
  ASSUME NEW t \in Seq(Lits)
  PROVE  EndsWith(t, <<>>)
BY DEF EndsWith

LEMMA EndsWithPushed ==
  ASSUME NEW t \in Seq(Lits), NEW q \in Seq(Lits), NEW l \in Lits, EndsWith(t, q)
  PROVE  EndsWith(Append(t, l), Append(q, l))
<1> DEFINE u == Append(t, l)
           r == Append(q, l)
<1>1. /\ Len(t) \in Nat /\ Len(q) \in Nat /\ Len(t) - Len(q) >= 0
      /\ Len(u) = Len(t) + 1 /\ Len(r) = Len(q) + 1
      /\ \A i \in 1..Len(q) : q[i] = t[Len(t) - Len(q) + i]
  BY DEF EndsWith
<1> HIDE DEF u, r
<1>2. ASSUME NEW i \in 1..Len(r) PROVE r[i] = u[Len(u) - Len(r) + i]
  <2>1. Len(u) - Len(r) + i = Len(t) - Len(q) + i
    BY <1>1
  <2>2. CASE i = Len(q) + 1
    <3>1. Len(t) - Len(q) + i = Len(t) + 1
      BY <1>1, <2>2
    <3>2. r[i] = l /\ u[Len(t) + 1] = l
      BY <1>1, <2>2 DEF u, r
    <3>3. QED
      BY <2>1, <3>1, <3>2
  <2>3. CASE i \in 1..Len(q)
    <3> DEFINE j == Len(t) - Len(q) + i
    <3>1. j \in 1..Len(t)
      BY <1>1, <2>3
    <3>2. r[i] = q[i] /\ u[j] = t[j]
      BY <2>3, <3>1 DEF u, r
    <3>3. QED
      BY <1>1, <2>1, <2>3, <3>2
  <2>4. i = Len(q) + 1 \/ i \in 1..Len(q)
    BY <1>1
  <2>5. QED
    BY <2>2, <2>3, <2>4
<1>3. Len(u) - Len(r) >= 0
  BY <1>1
<1>4. EndsWith(u, r)
  BY <1>2, <1>3 DEF EndsWith
<1>5. QED
  BY <1>4 DEF u, r

LEMMA EndsWithTail ==
  ASSUME NEW t \in Seq(Lits), NEW q \in Seq(Lits), q # <<>>, EndsWith(t, q)
  PROVE  EndsWith(t, Tail(q))
<1>1. /\ Len(t) \in Nat /\ Len(q) \in Nat /\ Len(q) > 0 /\ Len(Tail(q)) = Len(q) - 1
      /\ Len(t) - Len(q) >= 0 /\ \A i \in 1..Len(q) : q[i] = t[Len(t) - Len(q) + i]
  BY DEF EndsWith
<1>2. ASSUME NEW i \in 1..Len(Tail(q)) PROVE Tail(q)[i] = t[Len(t) - Len(Tail(q)) + i]
  <2>1. i + 1 \in 1..Len(q) /\ Tail(q)[i] = q[i + 1]
    BY <1>1
  <2>2. Len(t) - Len(Tail(q)) + i = Len(t) - Len(q) + (i + 1)
    BY <1>1
  <2>3. q[i + 1] = t[Len(t) - Len(q) + (i + 1)]
    BY <1>1, <2>1
  <2>4. QED
    BY <2>1, <2>2, <2>3
<1>3. QED
  BY <1>1, <1>2 DEF EndsWith

LEMMA EndsWithEnqueued ==
  ASSUME TrailOK(assignments, level, reason, trail, trail_lim), trail_lim' = trail_lim,
         propagationQ \in Seq(Lits), EndsWith(trail, propagationQ),
         NEW l \in Lits, NEW from \in Nat, enqueue(l, from)
  PROVE  EndsWith(trail', propagationQ')
<1>1. /\ value(l) # unassigned => UNCHANGED assigned
      /\ value(l) = unassigned =>
           trail' = Append(trail, l) /\ propagationQ' = Append(propagationQ, l)
  BY Enqueued
<1>2. trail \in Seq(Lits)
  BY DEF TrailOK
<1>3. CASE value(l) # unassigned
  BY <1>1, <1>3 DEF assigned
<1>4. CASE value(l) = unassigned
  BY <1>1, <1>2, <1>4, EndsWithPushed
<1>5. QED
  BY <1>3, <1>4

\* The steps that enqueue a literal.
LEMMA StepEnqueues ==
  ASSUME Core, ParseUnit \/ VisitUnit \/ LearnUnit \/ LearnClause
  PROVE  trail_lim' = trail_lim /\ \E l \in Lits, from \in Nat : enqueue(l, from)
<1>1. /\ TypeInv /\ QueueInv /\ WatchAll /\ AnalysisInv
      /\ TrailOK(assignments, level, reason, trail, trail_lim)
  BY DEF Core, Trail
<1>2. CASE ParseUnit
  <2> DEFINE s == Shortened(F[pos])
  <2>1. s \in Seq(Lits) /\ Len(s) = 1
    BY <1>1, <1>2, ParsedClause DEF ParseUnit
  <2>2. enqueue(s[1], NULL) /\ trail_lim' = trail_lim /\ NULL \in Nat
    BY <1>2 DEF ParseUnit, NULL
  <2> HIDE DEF s
  <2>3. s[1] \in Lits
    BY <2>1
  <2>4. QED
    BY <2>2, <2>3
<1>3. CASE VisitUnit
  <2> DEFINE h == Head(todo)
             x == Visited[1]
  <2>1. Visiting /\ enqueue(x, h) /\ trail_lim' = trail_lim
    BY <1>3 DEF VisitUnit
  <2>2. h \in ClauseIds /\ Visited \in Seq(Lits) /\ Len(Visited) = Len(clauses[h])
        /\ Len(clauses[h]) >= 2
    BY <1>1, <2>1, VisitFacts
  <2>3. 1 \in 1..Len(Visited)
    BY <2>2
  <2>4. x \in Lits /\ h \in Nat
    BY <2>2, <2>3 DEF ClauseIds
  <2> HIDE DEF h, x
  <2>5. QED
    BY <2>1, <2>4
<1>4. CASE LearnUnit
  BY <1>1, <1>4 DEF LearnUnit, NULL, AnalysisInv
<1>5. CASE LearnClause
  <2> DEFINE c == VECTORswitchPlace(learnt, 2, MaxLevelIndex(learnt))
  <2>1. /\ pc = "learn" /\ Len(learnt) > 1 /\ trail_lim' = trail_lim
        /\ learnt[1] \in Lits /\ Len(clauses) + 1 \in Nat
    BY <1>1, <1>5 DEF LearnClause, AnalysisInv, TypeInv
  <2>2. c[1] = learnt[1]
    BY <1>1, <2>1, Learnt
  <2>3. enqueue(c[1], Len(clauses) + 1)
    BY <1>5, Zenon DEF LearnClause
  <2> HIDE DEF c
  <2>4. QED
    BY <2>1, <2>2, <2>3
<1>6. QED
  BY <1>2, <1>3, <1>4, <1>5

LEMMA EndsWithStep ==
  ASSUME Core, Core', EndsWith(trail, propagationQ), [Next]_vars
  PROVE  EndsWith(trail', propagationQ')
<1>1. /\ TypeInv /\ QueueInv /\ TrailOK(assignments, level, reason, trail, trail_lim)
      /\ propagationQ \in Seq(Lits) /\ trail \in Seq(Lits)
  BY DEF Core, Trail, TypeInv, TrailOK
<1>2. ASSUME pc' \in {"conflict", "analyze", "backtrack", "learn"}
      PROVE  EndsWith(trail', propagationQ')
  <2>1. propagationQ' = <<>> /\ trail' \in Seq(Lits)
    BY <1>2 DEF Core, QueueInv, Trail, TrailOK
  <2>2. QED
    BY <2>1, EndsWithNothing
<1>3. CASE ParseUnit \/ VisitUnit \/ LearnUnit \/ LearnClause
  <2>1. PICK l \in Lits, from \in Nat : trail_lim' = trail_lim /\ enqueue(l, from)
    BY <1>3, StepEnqueues
  <2>2. QED
    BY <1>1, <2>1, EndsWithEnqueued
<1>4. CASE decide
  <2>1. PICK v \in Selectable :
          trail' = Append(trail, v) /\ propagationQ' = Append(propagationQ, v)
    BY <1>4 DEF decide
  <2>2. v \in Lits
    BY LitFacts DEF Selectable
  <2>3. QED
    BY <1>1, <2>1, <2>2, EndsWithPushed
<1>5. CASE Dequeue
  <2>1. trail' = trail /\ propagationQ # <<>> /\ propagationQ' = Tail(propagationQ)
    BY <1>5 DEF Dequeue
  <2>2. QED
    BY <1>1, <2>1, EndsWithTail
<1>6. CASE VisitConflict \/ StartAnalysis \/ Analyze \/ cancelUntil
  <2>1. pc' \in {"conflict", "analyze", "backtrack", "learn"}
    BY <1>6 DEF VisitConflict, StartAnalysis, Analyze, cancelUntil
  <2>2. QED
    BY <1>2, <2>1
<1>7. CASE ParseSatisfied \/ ParseEmpty \/ ParseClause \/ ParseDone
  BY <1>7 DEF ParseSatisfied, ParseEmpty, ParseClause, ParseDone, assigned
<1>8. CASE VisitSatisfied \/ VisitMove \/ VisitDone \/ PropagateDone
  BY <1>8 DEF VisitSatisfied, VisitMove, VisitDone, PropagateDone, assigned
<1>9. CASE SayAnswer \/ SayUnsat \/ termination_handler
  BY <1>9 DEF SayAnswer, SayUnsat, termination_handler, assigned
<1>10. CASE UNCHANGED vars
  BY <1>10 DEF vars, assigned
<1>11. QED
  BY <1>3, <1>4, <1>5, <1>6, <1>7, <1>8, <1>9, <1>10
  DEF Next, Step, Parse, Propagate, Solve

\* A step that ends the program, or the parser, changes neither the queue nor the
\* levels.
LEMMA AllAtStep ==
  ASSUME Core, Core', AllAt(level, Len(trail_lim), propagationQ), [Next]_vars
  PROVE  AllAt(level', Len(trail_lim'), propagationQ')
<1>1. QueueInv' /\ TypeInv'
  BY DEF Core
<1>2. CASE pc' \in {"parse", "propagate", "visit"}
  <2>1. \A i \in 1..Len(propagationQ') : Current(propagationQ[i])'
    BY <1>1, <1>2 DEF QueueInv
  <2>2. \A i \in 1..Len(propagationQ') :
           IsCurrent(assignments', level', Len(trail_lim'), propagationQ'[i])
    BY <2>1, CurrentIs
  <2>3. QED
    BY <2>2 DEF IsCurrent, AllAt
<1>3. CASE pc' \in {"decide", "conflict", "analyze", "backtrack", "learn"}
  <2>1. propagationQ' = <<>>
    BY <1>1, <1>3 DEF QueueInv
  <2>2. QED
    BY <2>1 DEF AllAt
<1>4. CASE pc' \in Ended
  <2>1. CASE ParseEmpty \/ ParseDone \/ SayAnswer \/ SayUnsat \/ termination_handler
             \/ UNCHANGED vars
    BY <2>1 DEF ParseEmpty, ParseDone, SayAnswer, SayUnsat, termination_handler, vars,
                assigned
  <2>2. CASE ParseSatisfied \/ ParseUnit \/ ParseClause
    BY <1>4, <2>2 DEF ParseSatisfied, ParseUnit, ParseClause, Parsing, Ended
  <2>3. CASE Propagate
    BY <1>4, <2>3 DEF Propagate, Dequeue, VisitSatisfied, VisitMove, VisitUnit,
                      VisitConflict, VisitDone, PropagateDone, Visiting, Ended
  <2>4. CASE decide \/ StartAnalysis \/ Analyze \/ cancelUntil \/ LearnUnit \/ LearnClause
    BY <1>4, <2>4 DEF decide, StartAnalysis, Analyze, cancelUntil, LearnUnit, LearnClause,
                      Ended
  <2>5. QED
    BY <2>1, <2>2, <2>3, <2>4 DEF Next, Step, Parse, Solve
<1>5. QED
  BY <1>1, <1>2, <1>3, <1>4 DEF TypeInv

\* enqueue, VECTORclear of the queue after a conflict and cancelUntil: whatever was
\* propagated, undone or learnt, the queue is the end of the trail, at its level.
THEOREM QueueRight == Spec => []QueueIsTail
<1>1. Init => QueueIsTail
  <2>1. ASSUME Init PROVE trail = <<>> /\ propagationQ = <<>>
    BY <2>1 DEF Init
  <2>2. QED
    BY <2>1 DEF QueueIsTail
<1>2. Core /\ Core' /\ QueueIsTail /\ [Next]_vars => QueueIsTail'
  BY QueueParts, EndsWithStep, AllAtStep
<1>3. QED
  BY <1>1, <1>2, Invariance, PTL DEF Spec
-----------------------------------------------------------------------------
(***************************************************************************)
(* The false literals that are watched                                     *)
(***************************************************************************)
LEMMA Permuted ==
  ASSUME NEW c \in Seq(Lits), NEW i \in 1..Len(c), NEW j \in 1..Len(c),
         NEW d \in Seq(Lits), Len(d) = Len(c), d[i] = c[j], d[j] = c[i],
         \A k \in 1..Len(c) : k # i /\ k # j => d[k] = c[k],
         Repeats(c)
  PROVE  Repeats(d)
<1>1. PICK a \in 1..Len(c), b \in 1..Len(c) : a # b /\ c[a] = c[b]
  BY DEF Repeats
<1> DEFINE s(k) == IF k = i THEN j ELSE IF k = j THEN i ELSE k
<1>2. \A k \in 1..Len(c) : s(k) \in DOMAIN d /\ d[s(k)] = c[k]
  OBVIOUS
<1>3. s(a) # s(b)
  BY <1>1
<1> HIDE DEF s
<1>4. QED
  BY <1>1, <1>2, <1>3 DEF Repeats

LEMMA VisitedRepeats ==
  ASSUME TypeInv, TrailOK(assignments, level, reason, trail, trail_lim),
         QueueInv, WatchAll, Visiting, Repeats(clauses[Head(todo)])
  PROVE  Repeats(Visited)
<1> DEFINE V == Visited
           c == clauses[Head(todo)]
<1>1. /\ c \in Seq(Lits) /\ Len(c) >= 2 /\ V \in Seq(Lits) /\ Len(V) = Len(c) /\ V[2] = -cur
      /\ \A k \in 3..Len(c) : V[k] = c[k]
      /\ V = c \/ (c[1] = -cur /\ V[1] = c[2])
  BY VisitFacts
<1>2. Repeats(c)
  OBVIOUS
<1> HIDE DEF V, c
<1>3. CASE V = c
  BY <1>2, <1>3 DEF V
<1>4. CASE c[1] = -cur /\ V[1] = c[2]
  <2>1. 1 \in 1..Len(c) /\ 2 \in 1..Len(c)
    BY <1>1
  <2>2. \A k \in 1..Len(c) : k # 1 /\ k # 2 => V[k] = c[k]
    BY <1>1
  <2>3. Repeats(V)
    BY <1>1, <1>2, <1>4, <2>1, <2>2, Permuted
  <2>4. QED
    BY <2>3 DEF V
<1>5. QED
  BY <1>1, <1>3, <1>4

\* The invariant of the next state, clause by clause.
LEMMA AllGuarded ==
  ASSUME \A c \in ClauseIds' : \A d : d = clauses'[c] /\ ~Repeats(d) => Guarded(d, c)'
  PROVE  FalseWatchInv'
BY DEF FalseWatchInv, Guarded, Settled, Excused, value

\* A clause keeps its literals; what excused them still does.
LEMMA GuardKept ==
  ASSUME TypeInv, FalseWatchInv, pc \notin Ended, NEW c \in ClauseIds, NEW d,
         d = clauses[c], ~Repeats(d),
         \A l, o \in Lits : (l = d[1] \/ l = d[2]) /\ Settled(l, o, c) => Settled(l, o, c)'
  PROVE  Guarded(d, c)'
<1>1. d[1] \in Lits /\ d[2] \in Lits
  <2>1. d \in Seq(Lits) /\ Len(d) >= 2
    BY DEF TypeInv, ClauseIds
  <2>2. QED
    BY <2>1
<1>2. Guarded(d, c)
  BY DEF FalseWatchInv
<1>3. Settled(d[1], d[2], c)' /\ Settled(d[2], d[1], c)'
  BY <1>1, <1>2 DEF Guarded
<1>4. QED
  BY <1>3 DEF Guarded, Settled, Excused, value

LEMMA EnqueueSettles ==
  ASSUME TypeInv, TrailOK(assignments, level, reason, trail, trail_lim),
         NEW x \in Lits, NEW from \in Nat, enqueue(x, from), trail_lim' = trail_lim,
         pc \in {"parse", "visit", "learn"}, pc' \in {"parse", "propagate", "visit"},
         NEW l \in Lits, NEW o \in Lits, NEW c, Settled(l, o, c),
         pc = "visit" => /\ pc' = "visit" /\ cur' = cur
                         /\ (\E i \in 1..Len(todo) : todo[i] = c)
                              => \E i \in 1..Len(todo') : todo'[i] = c
  PROVE  Settled(l, o, c)'
<1>1. propagationQ \in Seq(Lits)
  BY DEF TypeInv
<1>2. ASSUME value(l)' = 0 PROVE Excused(l, o, c)'
  <2>1. CASE value(x) = unassigned
    <3>1. /\ propagationQ' = Append(propagationQ, x)
          /\ value(l) = 0 \/ l = -x
          /\ \A y \in Lits : value(y) # unassigned =>
               value(y)' = value(y) /\ level'[Abs(y)] = level[Abs(y)]
      BY <1>2, <2>1, Enqueued
    <3>2. /\ Len(propagationQ') = Len(propagationQ) + 1 /\ Len(propagationQ) \in Nat
          /\ propagationQ'[Len(propagationQ) + 1] = x
          /\ \A i \in 1..Len(propagationQ) : propagationQ'[i] = propagationQ[i]
      BY <1>1, <3>1
    <3>3. CASE l = -x
      <4>1. x = -l
        BY <3>3, LitFacts
      <4>2. \E i \in 1..Len(propagationQ') : propagationQ'[i] = -l
        BY <3>2, <4>1
      <4>3. QED
        BY <4>2 DEF Excused
    <3>4. CASE value(l) = 0
      <4>1. Excused(l, o, c)
        BY <3>4 DEF Settled
      <4>2. value(l) # unassigned /\ level'[Abs(l)] = level[Abs(l)]
        BY <3>1, <3>4 DEF unassigned
      <4>3. CASE value(o) = 1 /\ level[Abs(o)] <= level[Abs(l)]
        <5>1. value(o)' = 1 /\ level'[Abs(o)] <= level'[Abs(l)]
          BY <3>1, <4>2, <4>3 DEF unassigned
        <5>2. QED
          BY <5>1 DEF Excused
      <4>4. CASE \E i \in 1..Len(propagationQ) : propagationQ[i] = -l
        <5>1. \E i \in 1..Len(propagationQ') : propagationQ'[i] = -l
          BY <3>2, <4>4
        <5>2. QED
          BY <5>1 DEF Excused
      <4>5. CASE pc = "visit" /\ cur = -l /\ \E i \in 1..Len(todo) : todo[i] = c
        BY <4>5 DEF Excused
      <4>6. QED
        BY <4>1, <4>3, <4>4, <4>5 DEF Excused
    <3>5. QED
      BY <3>1, <3>3, <3>4
  <2>2. CASE value(x) # unassigned
    <3>1. /\ propagationQ' = propagationQ /\ assignments' = assignments /\ level' = level
      BY <2>2, Enqueued DEF assigned
    <3>2. value(l) = 0
      BY <1>2, <3>1 DEF value
    <3>3. Excused(l, o, c)
      BY <3>2 DEF Settled
    <3>4. QED
      BY <3>1, <3>3 DEF Excused, value
  <2>3. QED
    BY <2>1, <2>2
<1>3. QED
  BY <1>2 DEF Settled

LEMMA ValueLevel ==
  ASSUME NEW a, NEW lv, NEW rs, NEW t, NEW lim, TrailOK(a, lv, rs, t, lim),
         NEW l \in Lits, Val(a, l) # unassigned
  PROVE  lv[Abs(l)] \in 0..Len(lim)
<1>1. Val(a, l) \in {0, 1} /\ Abs(l) \in Vars /\ a[Abs(l)] # unassigned
  <2>1. a \in [Vars -> 0..unassigned]
    BY DEF TrailOK
  <2>2. QED
    BY <2>1, ValFacts, LitFacts
<1>2. PICK k \in 1..Len(t) : Abs(t[k]) = Abs(l)
  BY <1>1 DEF TrailOK
<1>3. QED
  BY <1>2 DEF TrailOK

LEMMA TailHas ==
  ASSUME NEW S, NEW s \in Seq(S), s # <<>>, NEW x, x # Head(s), \E i \in 1..Len(s) : s[i] = x
  PROVE  \E i \in 1..Len(Tail(s)) : Tail(s)[i] = x
<1>1. PICK i \in 1..Len(s) : s[i] = x
  OBVIOUS
<1>2. i # 1 /\ i - 1 \in 1..Len(Tail(s)) /\ Tail(s)[i - 1] = s[i]
  BY <1>1
<1>3. QED
  BY <1>1, <1>2

\* While the file is read every false literal is still to be propagated.
LEMMA ParseGuards ==
  ASSUME TypeInv, QueueInv, Parse, TypeInv', Trail', QueueInv'
  PROVE  FalseWatchInv'
<1>1. pc = "parse" /\ pc' \in {"parse", "propagate", "exit"}
  BY DEF Parse, ParseSatisfied, ParseEmpty, ParseUnit, ParseClause, ParseDone, Parsing
<1>2. CASE pc' = "exit"
  BY <1>2 DEF FalseWatchInv, Ended
<1>3. CASE pc' # "exit"
  <2>1. propagationQ' = trail'
    <3>1. CASE pc' = "parse"
      BY <3>1 DEF QueueInv
    <3>2. CASE pc' = "propagate"
      <4>1. UNCHANGED <<propagationQ, trail>>
        BY <3>2, <1>1 DEF Parse, ParseSatisfied, ParseEmpty, ParseUnit, ParseClause,
           ParseDone, assigned
      <4>2. QED
        BY <1>1, <4>1 DEF QueueInv
    <3>3. QED
      BY <1>1, <1>3, <3>1, <3>2
  <2>2. TrailOK(assignments', level', reason', trail', trail_lim')
    BY DEF Trail
  <2>3. \A l \in Lits : value(l)' = 0 => \E i \in 1..Len(propagationQ') : propagationQ'[i] = -l
    <3>1. \A l \in Lits : Val(assignments', l) = 0
                            => \E k \in 1..Len(trail') : trail'[k] = -l
      BY <2>2, TrailLit
    <3>2. QED
      BY <2>1, <3>1, ValueIsVal
  <2>4. \A l \in Lits : \A o, c : Settled(l, o, c)'
    BY <1>1, <1>3, <2>3 DEF Settled, Excused
  <2>5. \A c \in ClauseIds' : \A d : d = clauses'[c] => Guarded(d, c)'
    <3>1. ASSUME NEW c \in ClauseIds', NEW d, d = clauses'[c]
          PROVE  Guarded(d, c)'
      <4>1. clauses' \in Seq(Seq(Lits)) /\ \A e \in ClauseIds' : Len(clauses'[e]) >= 2
        BY DEF TypeInv
      <4>2. d \in Seq(Lits) /\ Len(d) >= 2
        BY <3>1, <4>1 DEF ClauseIds
      <4>3. d[1] \in Lits /\ d[2] \in Lits
        BY <4>2
      <4>4. Settled(d[1], d[2], c)' /\ Settled(d[2], d[1], c)'
        BY <2>4, <4>3
      <4>5. QED
        BY <4>4 DEF Guarded, Settled, Excused, value
    <3>2. QED
      BY <3>1
  <2>6. QED
    BY <2>5, AllGuarded
<1>4. QED
  BY <1>2, <1>3

\* What cur has to visit are the clauses that watch -cur.
LEMMA DequeueGuards ==
  ASSUME TypeInv, QueueInv, WatchAll, FalseWatchInv, Dequeue
  PROVE  FalseWatchInv'
<1>1. /\ pc = "propagate" /\ pc' = "visit" /\ propagationQ # <<>>
      /\ cur' = Head(propagationQ) /\ propagationQ' = Tail(propagationQ)
      /\ todo' = watchers[cur'] /\ clauses' = clauses
      /\ assignments' = assignments /\ level' = level
  BY DEF Dequeue
<1>2. propagationQ \in Seq(Lits) /\ watchers \in [Lits -> Seq(ClauseIds)]
  BY DEF TypeInv
<1>3. todo = <<>> /\ pc \notin Ended
  BY <1>1 DEF QueueInv, Ended
<1>4. ASSUME NEW c \in ClauseIds, NEW d, d = clauses[c], ~Repeats(d),
             NEW l \in Lits, NEW o \in Lits, l = d[1] \/ l = d[2], Settled(l, o, c)
      PROVE  Settled(l, o, c)'
  <2>1. ASSUME value(l)' = 0 PROVE Excused(l, o, c)'
    <3>1. Excused(l, o, c)
      BY <1>1, <1>4, <2>1 DEF Settled, value
    <3>2. CASE value(o) = 1 /\ level[Abs(o)] <= level[Abs(l)]
      BY <1>1, <3>2 DEF Excused, value
    <3>3. CASE \E i \in 1..Len(propagationQ) : propagationQ[i] = -l
      <4>1. CASE cur' = -l
        <5> DEFINE m == -l
        <5>1. m \in Lits /\ -m = l
          BY <1>4, LitFacts
        <5> HIDE DEF m
        <5>2. Watches(clauses[c], m) > 0
          BY <1>4, <5>1 DEF Watches
        <5>3. Times(watchers[m], c) = Watches(clauses[c], m)
          <6>1. Times(watchers[m], c) + (IF m = cur THEN Times(todo, c) ELSE 0)
                  = Watches(clauses[c], m)
            BY <5>1 DEF WatchAll
          <6>2. Times(todo, c) = 0 /\ Times(watchers[m], c) \in Nat
            BY <1>3, <5>1, TimesNone, TimesTypes
          <6>3. QED
            BY <6>1, <6>2
        <5> DEFINE S == ClauseIds
                   s == watchers[m]
        <5>4. s \in Seq(S) /\ Times(s, c) > 0
          BY <1>2, <5>1, <5>2, <5>3
        <5> HIDE DEF S, s
        <5>5. \E i \in 1..Len(s) : s[i] = c
          BY <5>4, TimesConcat
        <5>6. todo' = s /\ cur' = m
          BY <1>1, <4>1 DEF s, m
        <5>7. \E i \in 1..Len(todo') : todo'[i] = c
          BY <5>5, <5>6
        <5>8. QED
          BY <1>1, <4>1, <5>7 DEF Excused
      <4>2. CASE cur' # -l
        <5>1. \E i \in 1..Len(Tail(propagationQ)) : Tail(propagationQ)[i] = -l
          BY <1>1, <1>2, <3>3, <4>2, TailHas
        <5>2. QED
          BY <1>1, <5>1 DEF Excused
      <4>3. QED
        BY <4>1, <4>2
    <3>4. QED
      BY <1>1, <3>1, <3>2, <3>3 DEF Excused
  <2>2. QED
    BY <2>1 DEF Settled
<1>5. ASSUME NEW c \in ClauseIds, NEW d, d = clauses[c], ~Repeats(d)
      PROVE  Guarded(d, c)'
  <2>1. \A l, o \in Lits : (l = d[1] \/ l = d[2]) /\ Settled(l, o, c) => Settled(l, o, c)'
    BY <1>4, <1>5
  <2>2. QED
    BY <1>3, <1>5, <2>1, GuardKept
<1>6. ClauseIds' = ClauseIds
  BY <1>1 DEF ClauseIds
<1>7. QED
  BY <1>1, <1>5, <1>6, AllGuarded

\* A clause visited is watched by a true literal and by -cur, which is false since
\* the last level.
LEMMA KeptGuards ==
  ASSUME TypeInv, TrailOK(assignments, level, reason, trail, trail_lim),
         QueueInv, WatchAll, FalseWatchInv, VisitSatisfied \/ VisitUnit
  PROVE  FalseWatchInv'
<1> DEFINE V == Visited
           h == Head(todo)
<1>1. /\ Visiting /\ clauses' = [clauses EXCEPT ![h] = V] /\ trail_lim' = trail_lim
      /\ pc = "visit" /\ pc' = "visit" /\ cur' = cur /\ todo' = Tail(todo) /\ todo # <<>>
      /\ todo \in Seq(ClauseIds) /\ pc \notin Ended
  BY DEF VisitSatisfied, VisitUnit, Visiting, TypeInv, Ended
<1>2. /\ V \in Seq(Lits) /\ Len(V) >= 2 /\ cur \in Lits /\ value(-cur) = 0 /\ V[2] = -cur
      /\ h \in ClauseIds /\ level[Abs(cur)] = currentDecisionLevel
  BY <1>1, VisitFacts
<1>3. \/ UNCHANGED assigned /\ value(V[1]) = 1
      \/ enqueue(V[1], h) /\ value(V[1]) = unassigned
  BY DEF VisitSatisfied, VisitUnit
<1>4. h \in Nat
  BY <1>2 DEF ClauseIds
<1>5. Repeats(clauses[h]) => Repeats(V)
  BY <1>1, VisitedRepeats
<1> HIDE DEF V, h
<1>6. PICK x \in Lits, y \in Lits : x = V[1] /\ y = V[2]
  BY <1>2
<1>7. /\ value(y) = 0 /\ level[Abs(y)] = currentDecisionLevel
      /\ \/ UNCHANGED assigned /\ value(x) = 1
         \/ enqueue(x, h) /\ value(x) = unassigned
  <2>1. y = -cur /\ Abs(y) = Abs(cur)
    BY <1>2, <1>6, LitFacts
  <2>2. QED
    BY <1>2, <1>3, <1>6, <2>1
<1>8. /\ value(x)' = 1 /\ value(y)' = 0
      /\ level'[Abs(x)] <= currentDecisionLevel
      /\ level'[Abs(y)] = currentDecisionLevel
  <2>2. trail_lim \in Seq(Nat)
    BY DEF TrailOK
  <2>3. CASE UNCHANGED assigned /\ value(x) = 1
    <3>1. value(x)' = 1 /\ value(y)' = 0 /\ level' = level
      BY <1>7, <2>3 DEF value, assigned
    <3>2. Val(assignments, x) # unassigned
      BY <2>3, ValueIsVal DEF unassigned
    <3>3. level[Abs(x)] \in 0..Len(trail_lim)
      BY <3>2, ValueLevel
    <3>4. level[Abs(x)] <= currentDecisionLevel
      BY <2>2, <3>3 DEF currentDecisionLevel
    <3>5. QED
      BY <1>7, <3>1, <3>4
  <2>4. CASE enqueue(x, h) /\ value(x) = unassigned
    <3>1. /\ value(x)' = 1 /\ level'[Abs(x)] = Len(trail_lim)
          /\ \A z \in Lits : value(z) # unassigned =>
               value(z)' = value(z) /\ level'[Abs(z)] = level[Abs(z)]
      BY <1>1, <1>4, <2>4, Enqueued
    <3>2. value(y) # unassigned
      BY <1>7 DEF unassigned
    <3>3. QED
      BY <1>7, <2>2, <3>1, <3>2 DEF currentDecisionLevel
  <2>5. QED
    BY <1>7, <2>3, <2>4
<1>9. ASSUME NEW c \in ClauseIds, c # h, NEW l \in Lits, NEW o \in Lits, Settled(l, o, c)
      PROVE  Settled(l, o, c)'
  <2>1. (\E i \in 1..Len(todo) : todo[i] = c) => \E i \in 1..Len(todo') : todo'[i] = c
    <3> DEFINE S == ClauseIds
               s == todo
    <3>1. s \in Seq(S) /\ s # <<>> /\ c # Head(s)
      BY <1>1, <1>9 DEF h
    <3> HIDE DEF S, s
    <3>2. (\E i \in 1..Len(s) : s[i] = c) => \E i \in 1..Len(Tail(s)) : Tail(s)[i] = c
      BY <3>1, TailHas
    <3>3. QED
      BY <1>1, <3>2 DEF s
  <2>2. CASE UNCHANGED assigned
    <3>1. value(l)' = value(l) /\ value(o)' = value(o) /\ level' = level
          /\ propagationQ' = propagationQ
      BY <2>2 DEF assigned, value
    <3>2. QED
      BY <1>1, <1>9, <2>1, <3>1 DEF Settled, Excused
  <2>3. CASE enqueue(x, h)
    BY <1>1, <1>4, <1>9, <2>1, <2>3, EnqueueSettles
  <2>4. QED
    BY <1>7, <2>2, <2>3
<1>10. ClauseIds' = ClauseIds /\ \A c \in ClauseIds : clauses'[c] = IF c = h THEN V ELSE clauses[c]
  BY <1>1, <1>2, Replaced
<1>11. ASSUME NEW c \in ClauseIds, NEW d, d = clauses'[c], ~Repeats(d)
       PROVE  Guarded(d, c)'
  <2>1. CASE c = h
    <3>1. d[1] = x /\ d[2] = y
      BY <1>10, <1>11, <1>6, <2>1
    <3>2. value(x)' # 0 /\ level'[Abs(x)] <= level'[Abs(y)]
      BY <1>8
    <3>3. Settled(x, y, c)' /\ Settled(y, x, c)'
      BY <1>8, <3>2 DEF Settled, Excused
    <3>4. QED
      BY <3>1, <3>3 DEF Guarded
  <2>2. CASE c # h
    <3>1. d = clauses[c]
      BY <1>10, <1>11, <2>2
    <3>2. \A l, o \in Lits : (l = d[1] \/ l = d[2]) /\ Settled(l, o, c) => Settled(l, o, c)'
      BY <1>9, <2>2
    <3>3. QED
      BY <1>1, <1>11, <3>1, <3>2, GuardKept
  <2>3. QED
    BY <2>1, <2>2
<1>12. QED
  BY <1>10, <1>11, AllGuarded

LEMMA MovedRepeats ==
  ASSUME NEW V \in Seq(Lits), NEW d \in Seq(Lits), NEW i \in 3..Len(V), Len(d) = Len(V),
         d[1] = V[1], d[2] = V[i], d[i] = V[2],
         \A j \in 3..Len(V) : j # i => d[j] = V[j], Repeats(V)
  PROVE  Repeats(d)
<1>1. /\ 2 \in 1..Len(V) /\ i \in 1..Len(V)
      /\ \A k \in 1..Len(V) : k # 2 /\ k # i => d[k] = V[k]
  OBVIOUS
<1>2. QED
  BY <1>1, Permuted

\* The literal watched instead is not false; the other one may be, if it is still
\* to be propagated.
LEMMA MovedGuards ==
  ASSUME TypeInv, TrailOK(assignments, level, reason, trail, trail_lim),
         QueueInv, WatchAll, FalseWatchInv, VisitMove
  PROVE  FalseWatchInv'
<1> DEFINE V == Visited
           h == Head(todo)
<1>1. /\ Visiting /\ UNCHANGED assigned /\ trail_lim' = trail_lim
      /\ pc = "visit" /\ pc' = "visit" /\ cur' = cur /\ todo' = Tail(todo) /\ todo # <<>>
      /\ todo \in Seq(ClauseIds) /\ pc \notin Ended
  BY DEF VisitMove, Visiting, TypeInv, Ended
<1>2. /\ V \in Seq(Lits) /\ Len(V) >= 2 /\ cur \in Lits /\ value(-cur) = 0 /\ V[2] = -cur
      /\ h \in ClauseIds /\ level[Abs(cur)] = currentDecisionLevel
      /\ V = clauses[h] \/ (clauses[h][1] = -cur /\ V[1] = clauses[h][2])
  BY <1>1, VisitFacts
<1>3. PICK i \in 3..Len(V), e \in Seq(Lits) :
        /\ value(V[i]) # 0 /\ e[i] = -cur
        /\ Len(e) = Len(V) /\ Len(e) >= 2 /\ e[1] = V[1] /\ e[2] = V[i]
        /\ \A j \in 3..Len(V) : j # i => e[j] = V[j]
        /\ clauses' = [clauses EXCEPT ![h] = e]
  BY Moved
<1>4. Repeats(clauses[h]) => Repeats(V)
  BY <1>1, VisitedRepeats
<1> HIDE DEF V, h
<1>5. Repeats(V) => Repeats(e)
  BY <1>2, <1>3, MovedRepeats
<1>6. ClauseIds' = ClauseIds /\ \A c \in ClauseIds : clauses'[c] = IF c = h THEN e ELSE clauses[c]
  BY <1>2, <1>3, Replaced
<1>7. /\ \A l : value(l)' = value(l)
      /\ level' = level /\ propagationQ' = propagationQ
  BY <1>1 DEF assigned, value
<1>8. ASSUME NEW c \in ClauseIds, c # h, NEW l \in Lits, NEW o \in Lits, Settled(l, o, c)
      PROVE  Settled(l, o, c)'
  <2>1. (\E j \in 1..Len(todo) : todo[j] = c) => \E j \in 1..Len(todo') : todo'[j] = c
    <3> DEFINE S == ClauseIds
               s == todo
    <3>1. s \in Seq(S) /\ s # <<>> /\ c # Head(s)
      BY <1>1, <1>8 DEF h
    <3> HIDE DEF S, s
    <3>2. (\E j \in 1..Len(s) : s[j] = c) => \E j \in 1..Len(Tail(s)) : Tail(s)[j] = c
      BY <3>1, TailHas
    <3>3. QED
      BY <1>1, <3>2 DEF s
  <2>2. QED
    BY <1>1, <1>7, <1>8, <2>1 DEF Settled, Excused
<1>9. PICK x \in Lits, y \in Lits : x = e[1] /\ y = e[2]
  BY <1>3
<1>10. ASSUME NEW c
       PROVE  ~Repeats(e) => Settled(x, y, c)' /\ Settled(y, x, c)'
  <2>1. Settled(y, x, c)'
    <3>1. value(y) # 0
      BY <1>3, <1>9
    <3>2. value(y)' # 0
      BY <1>7, <3>1
    <3>3. QED
      BY <3>2 DEF Settled
  <2>2. ASSUME ~Repeats(e), value(x)' = 0 PROVE Excused(x, y, c)'
    <3>1. value(x) = 0 /\ x = V[1]
      BY <1>3, <1>7, <1>9, <2>2
    <3>2. Guarded(clauses[h], h)
      BY <1>1, <1>2, <1>4, <1>5, <2>2 DEF FalseWatchInv
    <3>3. Settled(x, -cur, h)
      <4>1. \/ clauses[h][1] = x /\ clauses[h][2] = -cur
            \/ clauses[h][2] = x /\ clauses[h][1] = -cur
        BY <1>2, <3>1
      <4>2. QED
        BY <3>2, <4>1 DEF Guarded
    <3>4. Excused(x, -cur, h)
      BY <3>1, <3>3 DEF Settled
    <3>5. cur # -x
      <4>1. e[1] # e[i] /\ 1 # i /\ 1 \in DOMAIN e /\ i \in DOMAIN e
        BY <1>3, <2>2 DEF Repeats
      <4>2. x # -cur
        BY <1>3, <1>9, <4>1
      <4>3. QED
        BY <1>2, <4>2, LitFacts
    <3>6. \E j \in 1..Len(propagationQ) : propagationQ[j] = -x
      BY <1>1, <1>2, <3>4, <3>5 DEF Excused
    <3>7. QED
      BY <1>1, <1>7, <3>6 DEF Excused
  <2>3. QED
    BY <2>1, <2>2 DEF Settled
<1>11. ASSUME NEW c \in ClauseIds, NEW d, d = clauses'[c], ~Repeats(d)
       PROVE  Guarded(d, c)'
  <2>1. CASE c = h
    <3>1. d = e /\ d[1] = x /\ d[2] = y
      BY <1>6, <1>9, <1>11, <2>1
    <3>2. Settled(x, y, c)' /\ Settled(y, x, c)'
      BY <1>10, <1>11, <3>1
    <3>3. QED
      BY <3>1, <3>2 DEF Guarded
  <2>2. CASE c # h
    <3>1. d = clauses[c]
      BY <1>6, <1>11, <2>2
    <3>2. \A l, o \in Lits : (l = d[1] \/ l = d[2]) /\ Settled(l, o, c) => Settled(l, o, c)'
      BY <1>8, <2>2
    <3>3. QED
      BY <1>1, <1>11, <3>1, <3>2, GuardKept
  <2>3. QED
    BY <2>1, <2>2
<1>12. QED
  BY <1>6, <1>11, AllGuarded

\* What was to be propagated or visited goes with the last level.
LEMMA ConflictGuards ==
  ASSUME TypeInv, TrailOK(assignments, level, reason, trail, trail_lim),
         QueueInv, WatchAll, FalseWatchInv, VisitConflict
  PROVE  FalseWatchInv'
<1> DEFINE V == Visited
           h == Head(todo)
<1>1. /\ Visiting /\ assignments' = assignments /\ level' = level /\ trail_lim' = trail_lim
      /\ clauses' = [clauses EXCEPT ![h] = V]
      /\ pc = "visit" /\ pc' = "conflict" /\ pc \notin Ended
  BY DEF VisitConflict, Visiting, Ended
<1>2. /\ V \in Seq(Lits) /\ Len(V) >= 2 /\ cur \in Lits /\ value(cur) = 1 /\ V[2] = -cur
      /\ h \in ClauseIds /\ level[Abs(cur)] = currentDecisionLevel
      /\ V = clauses[h] \/ (clauses[h][1] = -cur /\ V[1] = clauses[h][2])
  BY <1>1, VisitFacts
<1>3. Repeats(clauses[h]) => Repeats(V)
  BY <1>1, VisitedRepeats
<1> HIDE DEF V, h
<1>4. ClauseIds' = ClauseIds /\ \A c \in ClauseIds : clauses'[c] = IF c = h THEN V ELSE clauses[c]
  BY <1>1, <1>2, Replaced
<1>5. /\ \A l : value(l)' = value(l)
      /\ currentDecisionLevel' = currentDecisionLevel
  BY <1>1 DEF value, currentDecisionLevel
<1>6. ASSUME NEW c, NEW l \in Lits, NEW o \in Lits, Settled(l, o, c)
      PROVE  Settled(l, o, c)'
  <2>1. ASSUME value(l)' = 0 PROVE Excused(l, o, c)'
    <3>1. Excused(l, o, c)
      BY <1>5, <1>6, <2>1 DEF Settled
    <3>2. CASE value(o) = 1 /\ level[Abs(o)] <= level[Abs(l)]
      BY <1>1, <1>5, <3>2 DEF Excused
    <3>3. CASE cur = -l \/ \E i \in 1..Len(propagationQ) : propagationQ[i] = -l
      <4>1. Current(-l)
        <5>1. \A i \in 1..Len(propagationQ) : Current(propagationQ[i])
          BY <1>1 DEF QueueInv
        <5>2. Current(cur)
          BY <1>2 DEF Current
        <5>3. QED
          BY <3>3, <5>1, <5>2
      <4>2. level[Abs(l)] = currentDecisionLevel
        BY <4>1, LitFacts DEF Current
      <4>3. QED
        BY <1>1, <1>5, <4>2 DEF Excused
    <3>4. QED
      BY <1>1, <3>1, <3>2, <3>3 DEF Excused
  <2>2. QED
    BY <2>1 DEF Settled
<1>7. ASSUME NEW c \in ClauseIds, NEW d, d = clauses'[c], ~Repeats(d)
      PROVE  Guarded(d, c)'
  <2>1. /\ ~Repeats(clauses[c])
        /\ \/ d[1] = clauses[c][1] /\ d[2] = clauses[c][2]
           \/ d[1] = clauses[c][2] /\ d[2] = clauses[c][1]
    BY <1>2, <1>3, <1>4, <1>7
  <2>2. Settled(d[1], d[2], c) /\ Settled(d[2], d[1], c)
    BY <1>1, <2>1 DEF FalseWatchInv, Guarded
  <2>3. d[1] \in Lits /\ d[2] \in Lits
    <3>1. clauses[c] \in Seq(Lits) /\ Len(clauses[c]) >= 2
      BY DEF TypeInv, ClauseIds
    <3>2. clauses[c][1] \in Lits /\ clauses[c][2] \in Lits
      BY <3>1
    <3>3. QED
      BY <2>1, <3>2
  <2>4. QED
    BY <1>6, <2>2, <2>3 DEF Guarded
<1>8. QED
  BY <1>4, <1>7, AllGuarded

\* A step that changes no clause, and after which what excused a literal still does.
LEMMA SettledGuards ==
  ASSUME TypeInv, FalseWatchInv, pc \notin Ended, clauses' = clauses,
         \A l, o \in Lits : \A c : Settled(l, o, c) => Settled(l, o, c)'
  PROVE  FalseWatchInv'
<1>1. ClauseIds' = ClauseIds
  BY DEF ClauseIds
<1>2. ASSUME NEW c \in ClauseIds, NEW d, d = clauses[c], ~Repeats(d)
      PROVE  Guarded(d, c)'
  BY <1>2, GuardKept
<1>3. QED
  BY <1>1, <1>2, AllGuarded

LEMMA DecideGuards ==
  ASSUME TypeInv, Trail, QueueInv, FalseWatchInv, decide
  PROVE  FalseWatchInv'
<1>1. PICK v \in Selectable :
        /\ trail_lim' = Append(trail_lim, Len(trail))
        /\ assignments' = [assignments EXCEPT ![v] = 1]
        /\ level' = [level EXCEPT ![v] = currentDecisionLevel + 1]
        /\ trail' = Append(trail, v)
        /\ propagationQ' = Append(propagationQ, v)
  BY DEF decide
<1>2. /\ pc = "decide" /\ pc' = "propagate" /\ reason' = reason /\ clauses' = clauses
      /\ pc \notin Ended
  BY DEF decide, Ended
<1>3. propagationQ \in Seq(Lits)
  BY DEF TypeInv
<1>4. /\ v \in Lits
      /\ \A x \in Lits : value(x) # unassigned =>
           value(x)' = value(x) /\ level'[Abs(x)] = level[Abs(x)]
      /\ \A x \in Lits : value(x)' = 0 => value(x) = 0 \/ x = -v
  BY <1>1, <1>2, Decided
<1>5. \E i \in 1..Len(propagationQ') : propagationQ'[i] = v
  <2>1. Len(propagationQ') \in 1..Len(propagationQ') /\ propagationQ'[Len(propagationQ')] = v
    BY <1>1, <1>3, <1>4
  <2>2. QED
    BY <2>1
<1>6. ASSUME NEW l \in Lits, NEW o \in Lits, NEW c, Settled(l, o, c)
      PROVE  Settled(l, o, c)'
  <2>1. ASSUME value(l)' = 0 PROVE Excused(l, o, c)'
    <3>1. CASE l = -v
      <4>1. v = -l
        BY <1>4, <3>1, LitFacts
      <4>2. QED
        BY <1>2, <1>5, <4>1 DEF Excused
    <3>2. CASE value(l) = 0
      <4>1. value(o) = 1 /\ level[Abs(o)] <= level[Abs(l)]
        BY <1>2, <1>6, <3>2 DEF Settled, Excused
      <4>2. value(o)' = 1 /\ level'[Abs(o)] <= level'[Abs(l)]
        BY <1>4, <3>2, <4>1 DEF unassigned
      <4>3. QED
        BY <4>2 DEF Excused
    <3>3. QED
      BY <1>4, <2>1, <3>1, <3>2
  <2>2. QED
    BY <2>1 DEF Settled
<1>7. QED
  BY <1>2, <1>6, SettledGuards

LEMMA AnalyzeGuards ==
  ASSUME TypeInv, TrailOK(assignments, level, reason, trail, trail_lim),
         AnalysisInv, FalseWatchInv, Analyze
  PROVE  FalseWatchInv'
<1>1. /\ pc = "analyze" /\ clauses' = clauses /\ trail_lim' = trail_lim /\ pc \notin Ended
      /\ pc' \in {"analyze", "backtrack"}
  BY CountKept DEF Analyze, Ended
<1>2. /\ \A x \in Lits : value(x) # unassigned /\ level[Abs(x)] < currentDecisionLevel =>
           value(x)' = value(x) /\ level'[Abs(x)] = level[Abs(x)]
      /\ \A x \in Lits : value(x)' # unassigned =>
           value(x)' = value(x) /\ level'[Abs(x)] = level[Abs(x)]
  BY AfterTurn
<1>3. currentDecisionLevel' = currentDecisionLevel
  BY <1>1 DEF currentDecisionLevel
<1>4. currentDecisionLevel \in Nat
  BY DEF TrailOK, currentDecisionLevel
<1>5. ASSUME NEW l \in Lits, NEW o \in Lits, NEW c, Settled(l, o, c)
      PROVE  Settled(l, o, c)'
  <2>1. ASSUME value(l)' = 0 PROVE Excused(l, o, c)'
    <3>1. value(l) = 0 /\ level'[Abs(l)] = level[Abs(l)]
      BY <1>2, <2>1 DEF unassigned
    <3>2. CASE level[Abs(l)] = currentDecisionLevel
      BY <1>1, <1>3, <3>1, <3>2 DEF Excused
    <3>3. CASE level[Abs(l)] # currentDecisionLevel
      <4>1. value(o) = 1 /\ level[Abs(o)] <= level[Abs(l)]
        BY <1>1, <1>5, <3>1, <3>3 DEF Settled, Excused
      <4>2. level[Abs(o)] < currentDecisionLevel
        <5>1. Val(assignments, l) # unassigned /\ Val(assignments, o) # unassigned
          BY <3>1, <4>1, ValueIsVal DEF unassigned
        <5>2. level[Abs(l)] \in 0..currentDecisionLevel /\ level[Abs(o)] \in 0..currentDecisionLevel
          BY <5>1, ValueLevel DEF currentDecisionLevel
        <5>3. QED
          BY <1>4, <3>3, <4>1, <5>2
      <4>3. value(o)' = 1 /\ level'[Abs(o)] <= level'[Abs(l)]
        BY <1>2, <3>1, <4>1, <4>2 DEF unassigned
      <4>4. QED
        BY <4>3 DEF Excused
    <3>4. QED
      BY <3>2, <3>3
  <2>2. QED
    BY <2>1 DEF Settled
<1>6. QED
  BY <1>1, <1>5, SettledGuards

LEMMA CancelGuards ==
  ASSUME TypeInv, TrailOK(assignments, level, reason, trail, trail_lim),
         AnalysisInv, FalseWatchInv, cancelUntil
  PROVE  FalseWatchInv'
<1>1. pc = "backtrack" /\ clauses' = clauses /\ pc' = "learn" /\ pc \notin Ended
  BY DEF cancelUntil, Ended
<1>2. /\ TrailOK(assignments', level', reason', trail', trail_lim')
      /\ Len(trail_lim') = backtrackLevel
      /\ \A x \in Lits : value(x) # unassigned /\ level[Abs(x)] <= backtrackLevel =>
           value(x)' = value(x) /\ level'[Abs(x)] = level[Abs(x)]
      /\ \A x \in Lits : value(x)' # unassigned =>
           value(x)' = value(x) /\ level'[Abs(x)] = level[Abs(x)]
  BY Cancelled
<1>3. /\ backtrackLevel \in Nat /\ currentDecisionLevel \in Nat
      /\ backtrackLevel < currentDecisionLevel
  <2>1. backtrackLevel \in 0..N /\ N \in Nat
    BY NAssumption DEF TypeInv
  <2>2. backtrackLevel < currentDecisionLevel
    BY <1>1 DEF AnalysisInv, Analyzing
  <2>3. currentDecisionLevel \in Nat
    BY DEF TrailOK, currentDecisionLevel
  <2>4. QED
    BY <2>1, <2>2, <2>3
<1>4. ASSUME NEW l \in Lits, NEW o \in Lits, NEW c, Settled(l, o, c)
      PROVE  Settled(l, o, c)'
  <2>1. ASSUME value(l)' = 0 PROVE Excused(l, o, c)'
    <3>1. value(l) = 0 /\ level'[Abs(l)] = level[Abs(l)]
      BY <1>2, <2>1 DEF unassigned
    <3>2. level[Abs(l)] <= backtrackLevel /\ level[Abs(l)] \in Nat
      <4>1. Val(assignments', l) # unassigned
        BY <2>1, ValueIsVal DEF unassigned
      <4>2. level'[Abs(l)] \in 0..backtrackLevel
        BY <1>2, <4>1, ValueLevel
      <4>3. QED
        BY <1>3, <3>1, <4>2
    <3>3. value(o) = 1 /\ level[Abs(o)] <= level[Abs(l)]
      BY <1>1, <1>3, <1>4, <3>1, <3>2 DEF Settled, Excused
    <3>4. level[Abs(o)] <= backtrackLevel
      <4>1. Val(assignments, o) # unassigned
        BY <3>3, ValueIsVal DEF unassigned
      <4>2. level[Abs(o)] \in 0..currentDecisionLevel
        BY <4>1, ValueLevel DEF currentDecisionLevel
      <4>3. QED
        BY <1>3, <3>2, <3>3, <4>2
    <3>5. value(o)' = 1 /\ level'[Abs(o)] <= level'[Abs(l)]
      BY <1>2, <3>1, <3>3, <3>4 DEF unassigned
    <3>6. QED
      BY <3>5 DEF Excused
  <2>2. QED
    BY <2>1 DEF Settled
<1>5. QED
  BY <1>1, <1>4, SettledGuards

LEMMA LearnUnitGuards ==
  ASSUME TypeInv, TrailOK(assignments, level, reason, trail, trail_lim),
         AnalysisInv, FalseWatchInv, LearnUnit
  PROVE  FalseWatchInv'
<1>1. /\ pc = "learn" /\ pc' = "propagate" /\ enqueue(learnt[1], NULL)
      /\ trail_lim' = trail_lim /\ clauses' = clauses /\ pc \notin Ended
  BY DEF LearnUnit, Ended
<1>2. PICK x \in Lits : x = learnt[1]
  BY <1>1 DEF AnalysisInv
<1>3. enqueue(x, 0)
  BY <1>1, <1>2 DEF NULL
<1>4. ASSUME NEW l \in Lits, NEW o \in Lits, NEW c, Settled(l, o, c)
      PROVE  Settled(l, o, c)'
  BY <1>1, <1>3, <1>4, EnqueueSettles
<1>5. QED
  BY <1>1, <1>4, SettledGuards

\* Of a learnt clause that is not damaged the first literal becomes true at the
\* last level, of which the second one is false.
LEMMA LearnClauseGuards ==
  ASSUME TypeInv, TrailOK(assignments, level, reason, trail, trail_lim),
         AnalysisInv, FalseWatchInv, LearnClause
  PROVE  FalseWatchInv'
<1> DEFINE s == VECTORswitchPlace(learnt, 2, MaxLevelIndex(learnt))
           n == Len(clauses)
<1>1. /\ pc = "learn" /\ pc' = "propagate" /\ trail_lim' = trail_lim /\ pc \notin Ended
      /\ Len(learnt) > 1
  BY DEF LearnClause, Ended
<1>2. /\ s \in Seq(Lits) /\ Len(s) = Len(learnt) /\ value(s[1]) = unassigned
      /\ \A j \in 2..Len(s) : value(s[j]) = 0
      /\ ~Repeats(s) => level[Abs(s[2])] = currentDecisionLevel
  BY <1>1, Learnt
<1>3. clauses' = Append(clauses, s) /\ enqueue(s[1], n + 1)
  BY Zenon DEF LearnClause
<1>4. PICK e \in Seq(Lits) : e = s
  BY <1>2
<1>5. Len(e) >= 2
  <2>1. Len(learnt) \in Nat
    BY DEF TypeInv
  <2>2. QED
    BY <1>1, <1>2, <1>4, <2>1
<1> HIDE DEF s
<1>6. PICK x \in Lits, y \in Lits : x = e[1] /\ y = e[2]
  BY <1>5
<1>7. /\ n \in Nat /\ ClauseIds' = ClauseIds \cup {n + 1}
      /\ clauses'[n + 1] = e /\ \A c \in ClauseIds : clauses'[c] = clauses[c]
  BY <1>3, <1>4, <1>5, Added
<1> HIDE DEF n
<1>8. PICK from \in Nat : enqueue(x, from)
  BY <1>3, <1>4, <1>6, <1>7
<1>9. /\ value(x)' = 1 /\ level'[Abs(x)] = Len(trail_lim)
      /\ value(y)' = 0 /\ level'[Abs(y)] = level[Abs(y)]
  <2>1. value(x) = unassigned /\ value(y) = 0
    BY <1>2, <1>4, <1>5, <1>6
  <2>2. /\ value(x)' = 1 /\ level'[Abs(x)] = Len(trail_lim)
        /\ \A z \in Lits : value(z) # unassigned =>
             value(z)' = value(z) /\ level'[Abs(z)] = level[Abs(z)]
    BY <1>1, <1>8, <2>1, Enqueued
  <2>3. QED
    BY <2>1, <2>2 DEF unassigned
<1>10. ASSUME NEW l \in Lits, NEW o \in Lits, NEW c, Settled(l, o, c)
       PROVE  Settled(l, o, c)'
  BY <1>1, <1>8, <1>10, EnqueueSettles
<1>11. ASSUME NEW c \in ClauseIds', NEW d, d = clauses'[c], ~Repeats(d)
       PROVE  Guarded(d, c)'
  <2>1. CASE c = n + 1
    <3>1. d = e
      BY <1>7, <1>11, <2>1
    <3>2. level[Abs(y)] = Len(trail_lim) /\ Len(trail_lim) \in Nat
      BY <1>2, <1>4, <1>6, <1>11, <3>1 DEF currentDecisionLevel, TrailOK
    <3>3. Settled(x, y, c)' /\ Settled(y, x, c)'
      BY <1>9, <3>2 DEF Settled, Excused
    <3>4. QED
      BY <1>6, <3>1, <3>3 DEF Guarded
  <2>2. CASE c \in ClauseIds
    <3>1. d = clauses[c]
      BY <1>7, <1>11, <2>2
    <3>2. QED
      BY <1>1, <1>10, <1>11, <2>2, <3>1, GuardKept
  <2>3. QED
    BY <1>7, <2>1, <2>2
<1>12. QED
  BY <1>11, AllGuarded

LEMMA GuardStep ==
  ASSUME Core, Core', FalseWatchInv, [Next]_vars
  PROVE  FalseWatchInv'
<1>1. /\ TypeInv /\ Trail /\ Reasons /\ QueueInv /\ WatchAll /\ AnalysisInv
      /\ TrailOK(assignments, level, reason, trail, trail_lim)
      /\ TypeInv' /\ Trail' /\ QueueInv'
  BY DEF Core, Trail
<1>2. CASE Parse
  BY <1>1, <1>2, ParseGuards
<1>3. CASE Dequeue
  BY <1>1, <1>3, DequeueGuards
<1>4. CASE VisitSatisfied \/ VisitUnit
  BY <1>1, <1>4, KeptGuards
<1>5. CASE VisitMove
  BY <1>1, <1>5, MovedGuards
<1>6. CASE VisitConflict
  BY <1>1, <1>6, ConflictGuards
<1>7. CASE decide
  BY <1>1, <1>7, DecideGuards
<1>8. CASE Analyze
  BY <1>1, <1>8, AnalyzeGuards
<1>9. CASE cancelUntil
  BY <1>1, <1>9, CancelGuards
<1>10. CASE LearnUnit
  BY <1>1, <1>10, LearnUnitGuards
<1>11. CASE LearnClause
  BY <1>1, <1>11, LearnClauseGuards
<1>12. CASE VisitDone \/ PropagateDone \/ StartAnalysis
  <2>1. /\ UNCHANGED <<clauses, assignments, level, trail_lim, propagationQ, cur, todo>>
        /\ pc \notin Ended
        /\ \/ pc = "visit" /\ pc' = "propagate" /\ todo = <<>>
           \/ pc = "propagate" /\ pc' = "decide" /\ propagationQ = <<>>
           \/ pc = "conflict" /\ pc' = "analyze"
    BY <1>12 DEF VisitDone, PropagateDone, StartAnalysis, assigned, Ended
  <2>2. ASSUME NEW l \in Lits, NEW o \in Lits, NEW c, Settled(l, o, c)
        PROVE  Settled(l, o, c)'
    BY <2>1, <2>2 DEF Settled, Excused, value, currentDecisionLevel
  <2>3. QED
    BY <1>1, <2>1, <2>2, SettledGuards
<1>13. CASE SayAnswer \/ SayUnsat \/ termination_handler
  <2>1. pc' \in Ended
    BY <1>13 DEF SayAnswer, SayUnsat, termination_handler, Ended
  <2>2. QED
    BY <2>1 DEF FalseWatchInv
<1>14. CASE UNCHANGED vars
  BY <1>14 DEF vars, assigned, FalseWatchInv, Guarded, Settled, Excused, value, ClauseIds,
     currentDecisionLevel
<1>15. QED
  BY <1>2, <1>3, <1>4, <1>5, <1>6, <1>7, <1>8, <1>9, <1>10, <1>11, <1>12, <1>13, <1>14
  DEF Next, Step, Propagate, Solve

\* CLAUSEpropagate: before a decision a clause that learning has not damaged is
\* true or has two literals without a value, for a false watched literal is
\* always excused and nothing excuses it then but a true one.
THEOREM PropagatesAll == Spec => []PropagationComplete
<1>1. Init => Core /\ FalseWatchInv
  <2>1. Init => FalseWatchInv
    BY DEF Init, FalseWatchInv, ClauseIds
  <2>2. QED
    BY <2>1, InitCore
<1>2. Core /\ FalseWatchInv /\ [Next]_vars => (Core /\ FalseWatchInv)'
  <2>1. ASSUME Core, FalseWatchInv, [Next]_vars PROVE Core' /\ FalseWatchInv'
    BY <2>1, CoreStep, GuardStep
  <2>2. QED
    BY <2>1
<1>3. Core /\ FalseWatchInv => PropagationComplete
  <2> SUFFICES ASSUME Core, FalseWatchInv, pc = "decide", NEW c \in ClauseIds,
                      ~Repeats(clauses[c]),
                      \A i \in DOMAIN clauses[c] : value(clauses[c][i]) # 1
               PROVE  Cardinality({i \in DOMAIN clauses[c] :
                                       value(clauses[c][i]) = unassigned}) >= 2
    BY DEF PropagationComplete
  <2> DEFINE d == clauses[c]
             S == {i \in DOMAIN d : value(d[i]) = unassigned}
  <2>1. d \in Seq(Lits) /\ Len(d) >= 2
    BY DEF Core, TypeInv, ClauseIds
  <2>2. assignments \in [Vars -> 0..unassigned]
    BY DEF Core, Trail, TrailOK
  <2>3. Guarded(d, c)
    BY DEF FalseWatchInv, Ended
  <2>4. \A i \in DOMAIN d : value(d[i]) # 1
    OBVIOUS
  <2> HIDE DEF d
  <2>5. 1 \in DOMAIN d /\ 2 \in DOMAIN d /\ d[1] \in Lits /\ d[2] \in Lits
    BY <2>1
  <2>6. value(d[1]) # 0 /\ value(d[2]) # 0
    BY <2>3, <2>4, <2>5 DEF Guarded, Settled, Excused
  <2>7. value(d[1]) = unassigned /\ value(d[2]) = unassigned
    BY <2>2, <2>4, <2>5, <2>6, ValFacts, ValueIsVal
  <2>8. {1, 2} \subseteq S /\ IsFiniteSet(S)
    <3>1. S \subseteq 1..Len(d) /\ Len(d) \in Nat
      BY <2>1
    <3>2. IsFiniteSet(1..Len(d))
      BY <3>1, FS_Interval
    <3>3. QED
      BY <2>5, <2>7, <3>1, <3>2, FS_Subset
  <2> HIDE DEF S
  <2>9. Cardinality({1, 2}) = 2 /\ Cardinality({1, 2}) <= Cardinality(S)
    <3>1. Cardinality({1, 2}) = 2
      <4> DEFINE T == {1}
      <4>1. Cardinality(T) = 1 /\ IsFiniteSet(T) /\ 2 \notin T
        BY FS_Singleton
      <4>2. {1, 2} = T \cup {2}
        OBVIOUS
      <4> HIDE DEF T
      <4>3. Cardinality(T \cup {2}) = Cardinality(T) + 1
        BY <4>1, FS_AddElement
      <4>4. QED
        BY <4>1, <4>2, <4>3
    <3>2. QED
      BY <2>8, <3>1, FS_Subset
  <2>10. Cardinality(S) \in Nat
    BY <2>8, FS_CardinalityType
  <2>11. QED
    BY <2>9, <2>10 DEF S, d
<1>4. QED
  BY <1>1, <1>2, <1>3, PTL DEF Spec
-----------------------------------------------------------------------------
(***************************************************************************)
(* What follows from the formula                                           *)
(***************************************************************************)
LEMMA TrueFacts ==
  ASSUME NEW tau \in Assignments, NEW l \in Lits
  PROVE  LitTrue(tau, -l) <=> ~LitTrue(tau, l)
<1>1. l \in Int /\ l # 0 /\ (l > 0 => l \in Vars) /\ (l < 0 => -l \in Vars)
  BY NAssumption DEF Lits, Vars
<1>2. CASE l > 0
  <2>1. tau[l] \in {-1, 1} /\ ~(-l > 0) /\ -(-l) = l
    BY <1>1, <1>2 DEF Assignments
  <2>2. QED
    BY <1>2, <2>1 DEF LitTrue
<1>3. CASE l < 0
  <2>1. tau[-l] \in {-1, 1} /\ -l > 0 /\ ~(l > 0)
    BY <1>1, <1>3 DEF Assignments
  <2>2. QED
    BY <2>1 DEF LitTrue
<1>4. QED
  BY <1>1, <1>2, <1>3

LEMMA VisitedLits ==
  ASSUME TypeInv, TrailOK(assignments, level, reason, trail, trail_lim),
         QueueInv, WatchAll, Visiting
  PROVE  \A i \in 1..Len(Visited) : \E j \in 1..Len(clauses[Head(todo)]) :
           Visited[i] = clauses[Head(todo)][j]
<1> DEFINE V == Visited
           c == clauses[Head(todo)]
<1>1. /\ c \in Seq(Lits) /\ Len(c) >= 2 /\ V \in Seq(Lits) /\ Len(V) = Len(c) /\ V[2] = -cur
      /\ \A k \in 3..Len(c) : V[k] = c[k]
      /\ V = c \/ (c[1] = -cur /\ V[1] = c[2])
  BY VisitFacts
<1> HIDE DEF V, c
<1>2. ASSUME NEW i \in 1..Len(V) PROVE \E j \in 1..Len(c) : V[i] = c[j]
  <2>1. CASE V = c
    BY <1>1, <2>1
  <2>2. CASE c[1] = -cur /\ V[1] = c[2]
    <3>1. i = 1 \/ i = 2 \/ i \in 3..Len(c)
      BY <1>1
    <3>2. 1 \in 1..Len(c) /\ 2 \in 1..Len(c)
      BY <1>1
    <3>3. QED
      BY <1>1, <2>2, <3>1, <3>2
  <2>3. QED
    BY <1>1, <2>1, <2>2
<1>3. QED
  BY <1>2 DEF V, c

LEMMA MovedLits ==
  ASSUME NEW V \in Seq(Lits), NEW d \in Seq(Lits), NEW i \in 3..Len(V), Len(d) = Len(V),
         d[1] = V[1], d[2] = V[i], d[i] = V[2],
         \A j \in 3..Len(V) : j # i => d[j] = V[j]
  PROVE  \A k \in 1..Len(d) : \E j \in 1..Len(V) : d[k] = V[j]
<1>1. ASSUME NEW k \in 1..Len(d) PROVE \E j \in 1..Len(V) : d[k] = V[j]
  <2>1. k = 1 \/ k = 2 \/ k = i \/ (k \in 3..Len(V) /\ k # i)
    OBVIOUS
  <2>2. 1 \in 1..Len(V) /\ 2 \in 1..Len(V) /\ i \in 1..Len(V) /\ k \in 1..Len(V)
    OBVIOUS
  <2>3. QED
    BY <2>1, <2>2
<1>2. QED
  BY <1>1

\* A clause that has all the literals of one that follows from the formula follows
\* from it too.
LEMMA ImpliedMore ==
  ASSUME NEW c \in Seq(Lits), NEW d \in Seq(Lits), Implied(d),
         \A i \in 1..Len(d) : \E j \in 1..Len(c) : d[i] = c[j]
  PROVE  Implied(c)
<1>1. DOMAIN c = 1..Len(c) /\ DOMAIN d = 1..Len(d)
  OBVIOUS
<1>2. ASSUME NEW tau \in Assignments, HasTrue(tau, d, DOMAIN d)
      PROVE  HasTrue(tau, c, DOMAIN c)
  BY <1>1, <1>2 DEF HasTrue
<1>3. QED
  BY <1>2 DEF Implied

LEMMA NextClauses ==
  ASSUME ClausesImplied', F' = F
  PROVE  \A c \in ClauseIds' : \A d : d = clauses'[c] => Implied(d)
BY DEF ClausesImplied, Implied

\* Clauses are added, or their literals move: if all clauses follow from the
\* formula after a step, they did before.
LEMMA ImpliedBefore ==
  ASSUME TypeInv, TrailOK(assignments, level, reason, trail, trail_lim),
         QueueInv, WatchAll, AnalysisInv, [Next]_vars, ClausesImplied'
  PROVE  ClausesImplied /\ F' = F
<1>1. F' = F
  BY Zenon DEF Next, Step, Parse, Propagate, Solve, vars,
     ParseSatisfied, ParseEmpty, ParseUnit, ParseClause, ParseDone,
     Dequeue, VisitSatisfied, VisitMove, VisitUnit, VisitConflict, VisitDone, PropagateDone,
     decide, SayAnswer, SayUnsat, StartAnalysis, Analyze, cancelUntil, LearnUnit,
     LearnClause, termination_handler
<1>2. \A c \in ClauseIds' : \A d : d = clauses'[c] => Implied(d)
  BY <1>1, NextClauses
<1>3. \A c \in ClauseIds : clauses[c] \in Seq(Lits)
  BY DEF TypeInv, ClauseIds
<1>4. CASE clauses' = clauses
  <2>1. ClauseIds' = ClauseIds /\ \A c \in ClauseIds : clauses'[c] = clauses[c]
    BY <1>4 DEF ClauseIds
  <2>2. QED
    BY <1>1, <1>2, <2>1 DEF ClausesImplied
<1>5. CASE \E d \in Seq(Lits) : Len(d) >= 2 /\ clauses' = Append(clauses, d)
  <2>1. /\ \A c \in ClauseIds : clauses'[c] = clauses[c]
        /\ \A c \in ClauseIds : c \in ClauseIds'
    BY <1>5, Added
  <2>2. QED
    BY <1>1, <1>2, <2>1 DEF ClausesImplied
<1>6. CASE \E h \in ClauseIds, d \in Seq(Lits) :
             /\ Len(d) >= 2 /\ clauses' = [clauses EXCEPT ![h] = d]
             /\ \A i \in 1..Len(d) : \E j \in 1..Len(clauses[h]) : d[i] = clauses[h][j]
  <2>1. PICK h \in ClauseIds, d \in Seq(Lits) :
             /\ Len(d) >= 2 /\ clauses' = [clauses EXCEPT ![h] = d]
             /\ \A i \in 1..Len(d) : \E j \in 1..Len(clauses[h]) : d[i] = clauses[h][j]
    BY <1>6
  <2>2. /\ ClauseIds' = ClauseIds
        /\ \A c \in ClauseIds : clauses'[c] = IF c = h THEN d ELSE clauses[c]
    BY <2>1, Replaced
  <2>3. Implied(d)
    BY <1>2, <2>2
  <2>4. Implied(clauses[h])
    <3> DEFINE e == clauses[h]
    <3>1. e \in Seq(Lits) /\ \A i \in 1..Len(d) : \E j \in 1..Len(e) : d[i] = e[j]
      BY <1>3, <2>1
    <3> HIDE DEF e
    <3>2. Implied(e)
      BY <2>3, <3>1, ImpliedMore
    <3>3. QED
      BY <3>2 DEF e
  <2>5. ASSUME NEW c \in ClauseIds, c # h PROVE Implied(clauses[c])
    BY <1>2, <2>2, <2>5
  <2>6. QED
    BY <1>1, <2>4, <2>5 DEF ClausesImplied
<1>7. CASE ParseClause
  <2>1. \E d \in Seq(Lits) : Len(d) >= 2 /\ clauses' = Append(clauses, d)
    BY <1>7, ParsedClause DEF ParseClause
  <2>2. QED
    BY <1>1, <1>5, <2>1
<1>8. CASE LearnClause
  <2> DEFINE s == VECTORswitchPlace(learnt, 2, MaxLevelIndex(learnt))
  <2>1. pc = "learn" /\ Len(learnt) > 1
    BY <1>8 DEF LearnClause
  <2>2. s \in Seq(Lits) /\ Len(s) = Len(learnt)
    BY <2>1, Learnt
  <2>3. clauses' = Append(clauses, s)
    BY <1>8, Zenon DEF LearnClause
  <2> HIDE DEF s
  <2>4. Len(s) >= 2
    <3>1. Len(learnt) \in Nat
      BY DEF TypeInv
    <3>2. QED
      BY <2>1, <2>2, <3>1
  <2>5. QED
    BY <1>1, <1>5, <2>2, <2>3, <2>4
<1>9. CASE VisitSatisfied \/ VisitUnit \/ VisitConflict
  <2> DEFINE V == Visited
             h == Head(todo)
  <2>1. Visiting /\ clauses' = [clauses EXCEPT ![h] = V]
    BY <1>9 DEF VisitSatisfied, VisitUnit, VisitConflict
  <2>2. /\ h \in ClauseIds /\ V \in Seq(Lits) /\ Len(V) = Len(clauses[h])
        /\ Len(clauses[h]) >= 2
    BY <2>1, VisitFacts
  <2>3. \A i \in 1..Len(V) : \E j \in 1..Len(clauses[h]) : V[i] = clauses[h][j]
    BY <2>1, VisitedLits
  <2> HIDE DEF V, h
  <2>4. QED
    BY <1>1, <1>6, <2>1, <2>2, <2>3
<1>10. CASE VisitMove
  <2> DEFINE V == Visited
             h == Head(todo)
  <2>1. Visiting
    BY <1>10 DEF VisitMove
  <2>2. /\ h \in ClauseIds /\ V \in Seq(Lits) /\ V[2] = -cur
    BY <2>1, VisitFacts
  <2>3. \A i \in 1..Len(V) : \E j \in 1..Len(clauses[h]) : V[i] = clauses[h][j]
    BY <2>1, VisitedLits
  <2>4. PICK i \in 3..Len(V), d \in Seq(Lits) :
          /\ d[i] = -cur /\ Len(d) = Len(V) /\ Len(d) >= 2 /\ d[1] = V[1] /\ d[2] = V[i]
          /\ \A j \in 3..Len(V) : j # i => d[j] = V[j]
          /\ clauses' = [clauses EXCEPT ![h] = d]
    BY <1>10, Moved
  <2> HIDE DEF V, h
  <2>5. \A k \in 1..Len(d) : \E j \in 1..Len(V) : d[k] = V[j]
    BY <2>2, <2>4, MovedLits
  <2>6. \A k \in 1..Len(d) : \E j \in 1..Len(clauses[h]) : d[k] = clauses[h][j]
    BY <2>3, <2>5
  <2>7. QED
    BY <1>1, <1>6, <2>2, <2>4, <2>6
<1>11. CASE ParseSatisfied \/ ParseEmpty \/ ParseUnit \/ ParseDone \/ Dequeue \/ VisitDone
            \/ PropagateDone
  BY <1>1, <1>4, <1>11 DEF ParseSatisfied, ParseEmpty, ParseUnit, ParseDone, Dequeue,
     VisitDone, PropagateDone
<1>12. CASE \/ decide \/ SayAnswer \/ SayUnsat \/ StartAnalysis \/ Analyze \/ cancelUntil
            \/ LearnUnit \/ termination_handler
  BY <1>1, <1>4, <1>12 DEF decide, SayAnswer, SayUnsat, StartAnalysis, Analyze, cancelUntil,
     LearnUnit, termination_handler
<1>13. CASE UNCHANGED vars
  BY <1>1, <1>4, <1>13 DEF vars
<1>14. QED
  BY <1>7, <1>8, <1>9, <1>10, <1>11, <1>12, <1>13
  DEF Next, Step, Parse, Propagate, Solve

LEMMA FalseAtZero ==
  ASSUME TrailOK(assignments, level, reason, trail, trail_lim), ForcedTrue,
         NEW l \in Lits, value(l) = 0, level[Abs(l)] = 0, NEW tau, Model(tau)
  PROVE  ~LitTrue(tau, l)
<1>1. assignments \in [Vars -> 0..unassigned]
  BY DEF TrailOK
<1>2. PICK k \in Lits : k = -l /\ Abs(k) = Abs(l)
  BY LitFacts
<1>3. value(k) = 1
  BY <1>1, <1>2, ValFacts, ValueIsVal
<1>4. LitTrue(tau, k)
  BY <1>2, <1>3 DEF ForcedTrue
<1>5. QED
  BY <1>2, <1>4, TrueFacts DEF Model

\* At level 0 all literals that have a value are of level 0.
LEMMA FalseBefore ==
  ASSUME TrailOK(assignments, level, reason, trail, trail_lim), ForcedTrue,
         Len(trail_lim) = 0, NEW l \in Lits, value(l) = 0, NEW tau, Model(tau)
  PROVE  ~LitTrue(tau, l)
<1>1. Val(assignments, l) # unassigned
  BY ValueIsVal DEF unassigned
<1>2. level[Abs(l)] \in 0..0
  BY <1>1, ValueLevel
<1>3. level[Abs(l)] = 0
  BY <1>2
<1>4. QED
  BY <1>3, FalseAtZero

LEMMA ForcedKept ==
  ASSUME ForcedTrue, F' = F,
         \A l \in Lits : value(l)' = 1 /\ level'[Abs(l)] = 0 =>
           \/ value(l) = 1 /\ level[Abs(l)] = 0
           \/ \A tau : Model(tau) => LitTrue(tau, l)
  PROVE  ForcedTrue'
<1>1. ASSUME NEW l \in Lits, value(l)' = 1, level'[Abs(l)] = 0, NEW tau, Model(tau)
      PROVE  LitTrue(tau, l)
  BY <1>1 DEF ForcedTrue
<1>2. \A tau : Model(tau)' <=> Model(tau)
  BY DEF Model
<1>3. QED
  BY <1>1, <1>2 DEF ForcedTrue

LEMMA ForcedEnqueued ==
  ASSUME TrailOK(assignments, level, reason, trail, trail_lim), ForcedTrue, F' = F,
         NEW x \in Lits, NEW from \in Nat, enqueue(x, from), trail_lim' = trail_lim,
         value(x) = unassigned /\ Len(trail_lim) = 0 =>
           \A tau : Model(tau) => LitTrue(tau, x)
  PROVE  ForcedTrue'
<1>1. assignments \in [Vars -> 0..unassigned]
  BY DEF TrailOK
<1>2. CASE value(x) # unassigned
  <2>1. assignments' = assignments /\ level' = level
    BY <1>2, Enqueued DEF assigned
  <2>2. \A l : value(l)' = value(l)
    BY <2>1 DEF value
  <2>3. QED
    BY <2>1, <2>2, ForcedKept
<1>3. CASE value(x) = unassigned
  <2>1. /\ level'[Abs(x)] = Len(trail_lim)
        /\ \A y \in Lits : value(y)' = 0 => value(y) = 0 \/ y = -x
        /\ \A y \in Lits : value(y) # unassigned =>
             value(y)' = value(y) /\ level'[Abs(y)] = level[Abs(y)]
        /\ TrailOK(assignments', level', reason', trail', trail_lim')
    BY <1>3, Enqueued
  <2>2. ASSUME NEW l \in Lits, value(l)' = 1, level'[Abs(l)] = 0
        PROVE  \/ value(l) = 1 /\ level[Abs(l)] = 0
               \/ \A tau : Model(tau) => LitTrue(tau, l)
    <3>1. PICK k \in Lits : k = -l /\ l = -k
      BY LitFacts
    <3>2. assignments' \in [Vars -> 0..unassigned]
      BY <2>1 DEF TrailOK
    <3>3. value(k)' = 0
      BY <2>2, <3>1, <3>2, ValFacts, ValueIsVal
    <3>4. CASE l = x
      BY <1>3, <2>1, <2>2, <3>4
    <3>5. CASE l # x
      <4>1. value(k) = 0
        BY <2>1, <3>1, <3>3, <3>5, LitFacts
      <4>2. value(l) = 1
        BY <1>1, <3>1, <4>1, ValFacts, ValueIsVal
      <4>3. QED
        BY <2>1, <2>2, <4>2 DEF unassigned
    <3>6. QED
      BY <3>4, <3>5
  <2>3. QED
    BY <2>2, ForcedKept
<1>4. QED
  BY <1>2, <1>3

LEMMA ParseForced ==
  ASSUME TypeInv, TrailOK(assignments, level, reason, trail, trail_lim), QueueInv,
         ForcedTrue, F' = F, ParseUnit
  PROVE  ForcedTrue'
<1> DEFINE c == F[pos]
           s == Shortened(c)
<1>1. /\ Parsing /\ pc = "parse" /\ Len(s) = 1 /\ enqueue(s[1], NULL) /\ trail_lim' = trail_lim
  BY DEF ParseUnit, Parsing
<1>2. c \in Seq(Lits) /\ s \in Seq(Lits) /\ pos \in DOMAIN F
  <2>1. F[pos] \in Seq(Lits) /\ pos \in 1..Len(F)
    BY <1>1, ParsedClause
  <2>2. F \in Seq(Seq(Lits))
    BY DEF TypeInv, Formulas
  <2>3. s \in Seq(Lits)
    BY <1>1, ParsedClause
  <2>4. QED
    BY <2>1, <2>2, <2>3
<1> HIDE DEF c
<1>3. \A i \in 1..Len(c) : value(c[i]) # 0 => \E k \in 1..Len(s) : s[k] = c[i]
  BY <1>2, ShortenedClause
<1> HIDE DEF s
<1>4. PICK x \in Lits : x = s[1]
  <2>1. s \in Seq(Lits) /\ Len(s) = 1
    BY <1>1, <1>2
  <2>2. s[1] \in Lits
    BY <2>1
  <2>3. QED
    BY <2>2
<1>5. Len(trail_lim) = 0
  BY <1>1 DEF QueueInv
<1>6. ASSUME NEW tau, Model(tau) PROVE LitTrue(tau, x)
  <2>1. PICK i \in 1..Len(c) : LitTrue(tau, c[i])
    <3>1. HasTrue(tau, c, DOMAIN c)
      BY <1>2, <1>6 DEF Model, Satisfies, c
    <3>2. QED
      BY <1>2, <3>1 DEF HasTrue
  <2>2. c[i] \in Lits
    BY <1>2
  <2>3. value(c[i]) # 0
    BY <1>5, <1>6, <2>1, <2>2, FalseBefore
  <2>4. PICK k \in 1..Len(s) : s[k] = c[i]
    BY <1>3, <2>3
  <2>5. k = 1
    BY <1>1
  <2>6. QED
    BY <1>4, <2>1, <2>4, <2>5
<1>7. enqueue(x, 0)
  BY <1>1, <1>4 DEF NULL
<1>8. QED
  BY <1>1, <1>6, <1>7, ForcedEnqueued

LEMMA UnitForced ==
  ASSUME TypeInv, TrailOK(assignments, level, reason, trail, trail_lim), QueueInv,
         WatchAll, ForcedTrue, F' = F, ClausesImplied', VisitUnit
  PROVE  ForcedTrue'
<1> DEFINE V == Visited
           h == Head(todo)
<1>1. /\ Visiting /\ clauses' = [clauses EXCEPT ![h] = V] /\ enqueue(V[1], h)
      /\ trail_lim' = trail_lim /\ Watchable(V) = {}
  BY DEF VisitUnit
<1>2. /\ h \in ClauseIds /\ V \in Seq(Lits) /\ Len(V) >= 2 /\ V[2] = -cur /\ value(-cur) = 0
  BY <1>1, VisitFacts
<1> HIDE DEF V, h
<1>3. Implied(V)
  <2>1. ClauseIds' = ClauseIds /\ clauses'[h] = V
    BY <1>1, <1>2, Replaced
  <2>2. QED
    BY <1>2, <2>1, NextClauses
<1>4. PICK x \in Lits : x = V[1]
  BY <1>2
<1>5. ASSUME NEW i \in 1..Len(V), i # 1 PROVE V[i] \in Lits /\ value(V[i]) = 0
  <2>1. i = 2 \/ i \in 3..Len(V)
    BY <1>2, <1>5
  <2>2. \A j \in 3..Len(V) : value(V[j]) = 0
    BY <1>1 DEF Watchable
  <2>3. QED
    BY <1>2, <2>1, <2>2
<1>6. ASSUME Len(trail_lim) = 0, NEW tau, Model(tau) PROVE LitTrue(tau, x)
  <2>1. PICK i \in 1..Len(V) : LitTrue(tau, V[i])
    <3>1. HasTrue(tau, V, DOMAIN V)
      BY <1>3, <1>6 DEF Implied, Model
    <3>2. QED
      BY <1>2, <3>1 DEF HasTrue
  <2>2. i = 1
    BY <1>5, <1>6, <2>1, FalseBefore
  <2>3. QED
    BY <1>4, <2>1, <2>2
<1>7. PICK from \in Nat : enqueue(x, from)
  BY <1>1, <1>2, <1>4 DEF ClauseIds
<1>8. QED
  BY <1>1, <1>6, <1>7, ForcedEnqueued

LEMMA LearntForced ==
  ASSUME TypeInv, TrailOK(assignments, level, reason, trail, trail_lim), AnalysisInv,
         ForcedTrue, Implied(learnt), F' = F, LearnUnit \/ LearnClause
  PROVE  ForcedTrue'
<1>1. pc = "learn" /\ trail_lim' = trail_lim
  BY DEF LearnUnit, LearnClause
<1>2. CASE LearnUnit
  <2>1. Len(learnt) = 1 /\ enqueue(learnt[1], NULL)
    BY <1>2 DEF LearnUnit
  <2>2. PICK x \in Lits : x = learnt[1]
    BY <1>1 DEF AnalysisInv
  <2>3. ASSUME NEW tau, Model(tau) PROVE LitTrue(tau, x)
    <3>1. HasTrue(tau, learnt, DOMAIN learnt)
      BY <2>3 DEF Implied, Model
    <3>2. DOMAIN learnt = {1}
      <4>1. DOMAIN learnt = 1..Len(learnt)
        BY DEF TypeInv
      <4>2. QED
        BY <2>1, <4>1
    <3>3. QED
      BY <2>2, <3>1, <3>2 DEF HasTrue
  <2>4. enqueue(x, 0)
    BY <2>1, <2>2 DEF NULL
  <2>5. QED
    BY <1>1, <2>3, <2>4, ForcedEnqueued
<1>3. CASE LearnClause
  <2> DEFINE s == VECTORswitchPlace(learnt, 2, MaxLevelIndex(learnt))
  <2>1. Len(learnt) > 1 /\ enqueue(s[1], Len(clauses) + 1)
    BY <1>3, Zenon DEF LearnClause
  <2>2. s \in Seq(Lits) /\ Len(s) = Len(learnt)
    BY <1>1, <2>1, Learnt
  <2> HIDE DEF s
  <2>3. PICK x \in Lits : x = s[1]
    <3>1. Len(learnt) \in Nat
      BY DEF TypeInv
    <3>2. 1 \in 1..Len(s)
      BY <2>1, <2>2, <3>1
    <3>3. QED
      BY <2>2, <3>2
  <2>4. Len(trail_lim) # 0
    <3>1. LearntBelow /\ backtrackLevel = Len(trail_lim)
      BY <1>1 DEF AnalysisInv, currentDecisionLevel
    <3>2. 2 \in 2..Len(learnt)
      <4>1. Len(learnt) \in Nat
        BY DEF TypeInv
      <4>2. QED
        BY <2>1, <4>1
    <3>3. level[Abs(learnt[2])] \in 1..backtrackLevel
      BY <3>1, <3>2 DEF LearntBelow
    <3>4. QED
      BY <3>1, <3>3
  <2>5. PICK from \in Nat : enqueue(x, from)
    <3>1. Len(clauses) + 1 \in Nat
      BY DEF TypeInv
    <3>2. QED
      BY <2>1, <2>3, <3>1
  <2>6. QED
    BY <1>1, <2>4, <2>5, ForcedEnqueued
<1>4. QED
  BY <1>2, <1>3

LEMMA SeenStays ==
  ASSUME TypeInv, TrailOK(assignments, level, reason, trail, trail_lim), Reasons,
         AnalysisInv, SeenKept, Analyze
  PROVE  SeenKept'
<1> DEFINE C == ReasonFor
           L == currentDecisionLevel
<1>1. /\ pc = "analyze" /\ conflict # NULL /\ seen' = Seen /\ trail_lim' = trail_lim
  BY DEF Analyze
<1>2. /\ TrailOK(assignments', level', reason', trail', trail_lim')
      /\ \A x \in Lits : value(x)' # unassigned =>
           value(x)' = value(x) /\ level'[Abs(x)] = level[Abs(x)]
  BY AfterTurn
<1>3. /\ learnt' \in Seq(Lits \cup {NULL}) /\ Len(learnt') >= Len(learnt)
      /\ \A i \in 1..Len(learnt) : learnt'[i] = learnt[i]
      /\ \A j \in Below : \E i \in 1..Len(learnt') : i > Len(learnt) /\ learnt'[i] = ReasonFor[j]
  BY Found
<1>4. Len(learnt) >= 1 /\ Len(learnt) \in Nat /\ Len(learnt') \in Nat
  BY <1>1, <1>3 DEF AnalysisInv, Analyzing, LearntBelow, TypeInv
<1>5. currentDecisionLevel' = currentDecisionLevel
  BY <1>1 DEF currentDecisionLevel
<1>6. C \in Seq(Lits)
  BY <1>1, Expanded
<1>7. ASSUME NEW v \in seen', level'[v] \in 1..(L - 1)
      PROVE  \E i \in 2..Len(learnt') : Abs(learnt'[i]) = v
  <2>1. v \in Vars /\ v \in Lits /\ Abs(v) = v
    <3>1. \A i \in Fresh : i \in 1..Len(C)
      BY <1>6 DEF Fresh
    <3>2. \A i \in Fresh : C[i] \in Lits
      BY <1>6, <3>1
    <3>3. \A i \in Fresh : Abs(C[i]) \in Vars
      BY <3>2, LitFacts
    <3>4. v \in Vars
      BY <1>1, <1>7, <3>3 DEF Seen, TypeInv
    <3>5. QED
      BY <3>4, LitFacts
  <2>2. level'[v] = level[v]
    <3>1. assignments'[v] # unassigned /\ assignments' \in [Vars -> 0..unassigned]
      <4>1. \A u \in Vars : assignments'[u] = unassigned => level'[u] = -1
        BY <1>2 DEF TrailOK
      <4>2. level'[v] # -1
        BY <1>7
      <4>3. QED
        BY <1>2, <2>1, <4>1, <4>2 DEF TrailOK
    <3>2. Val(assignments', v) # unassigned
      BY <2>1, <3>1, ValFacts
    <3>3. value(v)' # unassigned
      BY <3>2, ValueIsVal
    <3>4. QED
      BY <1>2, <2>1, <3>3
  <2>3. CASE v \in seen
    <3>1. PICK i \in 2..Len(learnt) : Abs(learnt[i]) = v
      BY <1>7, <2>2, <2>3 DEF SeenKept
    <3>2. i \in 2..Len(learnt') /\ learnt'[i] = learnt[i]
      BY <1>3, <1>4
    <3>3. QED
      BY <3>1, <3>2
  <2>4. CASE v \notin seen
    <3>1. PICK j \in Fresh : v = Abs(C[j])
      BY <1>1, <1>7, <2>4 DEF Seen
    <3>2. LevelAt(j) \in 1..(L - 1)
      BY <1>7, <2>2, <3>1 DEF LevelAt
    <3>3. L \in Nat
      BY DEF currentDecisionLevel, TrailOK
    <3>4. j \in Below
      BY <3>2, <3>3 DEF Below, Here
    <3>5. PICK i \in 1..Len(learnt') : i > Len(learnt) /\ learnt'[i] = C[j]
      BY <1>3, <3>4
    <3>6. i \in 2..Len(learnt')
      BY <1>4, <3>5
    <3>7. QED
      BY <3>1, <3>5, <3>6
  <2>5. QED
    BY <2>3, <2>4
<1>8. QED
  BY <1>5, <1>7 DEF SeenKept

\* The resolution: in a model a literal of the reason is true.  It is not of level
\* 0; below the last level it is learnt, and at the last level it waits to be
\* expanded.
LEMMA Resolved ==
  ASSUME TypeInv, TrailOK(assignments, level, reason, trail, trail_lim), Reasons,
         AnalysisInv, ForcedTrue, SeenKept', Analyze,
         NEW i \in 1..Len(ReasonFor), NEW tau, Model(tau), LitTrue(tau, ReasonFor[i])
  PROVE  \/ \E m \in 2..Len(learnt') : LitTrue(tau, learnt'[m])
         \/ \E k \in SeenOnTrail : LitTrue(tau, -trail[k])
<1> DEFINE C == ReasonFor
           L == currentDecisionLevel
<1>1. pc = "analyze" /\ conflict # NULL /\ seen' = Seen /\ trail_lim' = trail_lim
  BY DEF Analyze
<1>2. /\ C \in Seq(Lits) /\ L \in 1..Len(trail_lim) /\ L = Len(trail_lim)
      /\ \A j \in 1..Len(C) :
           /\ C[j] \in Lits /\ Abs(C[j]) \in Vars /\ value(C[j]) = 0 /\ LevelAt(j) \in 0..L
           /\ \E k \in 1..Len(trail) : trail[k] = -C[j]
  BY <1>1, Expanded
<1>3. PICK l \in Lits : l = C[i]
  BY <1>2
<1>4. /\ value(l) = 0 /\ LitTrue(tau, l) /\ level[Abs(l)] = LevelAt(i)
      /\ level[Abs(l)] \in 0..L /\ \E k \in 1..Len(trail) : trail[k] = -l
  BY <1>2, <1>3 DEF LevelAt
<1>5. Abs(l) \in Seen
  <2>1. PICK j \in 1..Len(C) : Abs(C[j]) = Abs(C[i]) /\ FirstVar(C, j)
    BY <1>2, FirstVarOccurs
  <2>2. j \in DOMAIN C
    BY <1>2
  <2>3. QED
    BY <1>3, <2>1, <2>2 DEF Seen, Fresh
<1>6. level[Abs(l)] # 0
  BY <1>4, FalseAtZero
<1> HIDE DEF C
<1>7. CASE level[Abs(l)] = L
  <2>1. PICK k \in 1..Len(trail) : trail[k] = -l
    BY <1>4
  <2>2. Abs(trail[k]) = Abs(l) /\ -trail[k] = l
    BY <2>1, LitFacts
  <2>3. Limit < k
    <3>1. \A d \in 1..Len(trail_lim) : trail_lim[d] < k <=> d <= level[Abs(trail[k])]
      BY DEF TrailOK
    <3>2. QED
      BY <1>2, <1>7, <2>2, <3>1 DEF Limit
  <2>4. Limit \in Nat
    BY <1>2 DEF Limit, TrailOK
  <2>5. k \in SeenOnTrail
    BY <1>5, <2>2, <2>3, <2>4 DEF SeenOnTrail
  <2>6. QED
    BY <1>4, <2>2, <2>5
<1>8. CASE level[Abs(l)] # L
  <2>1. level[Abs(l)] \in 1..(L - 1)
    BY <1>2, <1>4, <1>6, <1>8
  <2>2. value(l)' = 0 /\ level'[Abs(l)] = level[Abs(l)]
    <3>1. level[Abs(l)] < L /\ value(l) # unassigned
      BY <1>2, <1>4, <2>1 DEF unassigned
    <3>2. QED
      BY <1>4, <3>1, AfterTurn
  <2>3. L' = L
    BY <1>1 DEF currentDecisionLevel
  <2>4. PICK m \in 2..Len(learnt') : Abs(learnt'[m]) = Abs(l)
    BY <1>1, <1>5, <2>1, <2>2, <2>3 DEF SeenKept
  <2>5. learnt'[m] \in Lits /\ Val(assignments', learnt'[m]) = 0
    <3>1. AnalysisInv' /\ pc' \in {"analyze", "backtrack"}
      BY <1>1, AnalyzeKeeps, CountKept
    <3>2. LearntBelow'
      BY <3>1 DEF AnalysisInv, Analyzing
    <3>3. QED
      BY <2>4, <3>2, ValueIsVal DEF LearntBelow
  <2>6. Val(assignments', l) = 0 /\ assignments' \in [Vars -> 0..unassigned]
    <3>1. TrailOK(assignments', level', reason', trail', trail_lim')
      BY AfterTurn
    <3>2. QED
      BY <2>2, <3>1, ValueIsVal DEF TrailOK
  <2>7. learnt'[m] = l
    BY <2>4, <2>5, <2>6, SameSign
  <2>8. QED
    BY <1>4, <2>7
<1>9. QED
  BY <1>7, <1>8

LEMMA ResolventStays ==
  ASSUME TypeInv, TrailOK(assignments, level, reason, trail, trail_lim), Reasons,
         AnalysisInv, ClausesImplied, ForcedTrue, SeenKept', Resolvent, F' = F, Analyze
  PROVE  Resolvent'
<1>1. pc = "analyze" /\ conflict # NULL /\ Analyzing
  BY DEF Analyze, AnalysisInv
<1>2. /\ ReasonFor \in Seq(Lits)
      /\ \A i \in 1..Len(ReasonFor) : value(ReasonFor[i]) = 0
  BY <1>1, Expanded
<1>3. conflict \in ClauseIds
  BY <1>1 DEF TypeInv, NULL, ClauseIds
<1>4. ASSUME NEW tau, Model(tau)
      PROVE  \/ \E m \in 2..Len(learnt') : LitTrue(tau, learnt'[m])
             \/ \E k \in SeenOnTrail : LitTrue(tau, -trail[k])
  <2> DEFINE c == clauses[conflict]
  <2>1. c \in Seq(Lits) /\ Len(c) >= 2
    BY <1>3 DEF TypeInv, ClauseIds
  <2>2. PICK i \in 1..Len(c) : LitTrue(tau, c[i])
    <3>1. HasTrue(tau, c, DOMAIN c)
      BY <1>3, <1>4 DEF ClausesImplied, Implied, Model
    <3>2. DOMAIN c = 1..Len(c)
      BY <2>1
    <3>3. QED
      BY <3>1, <3>2 DEF HasTrue
  <2>3. CASE p = NULL
    <3>1. ReasonFor = c
      BY <2>3 DEF ReasonFor
    <3>2. QED
      BY <1>4, <2>2, <3>1, Resolved
  <2>4. CASE p # NULL /\ i # 1
    <3>1. ReasonFor = Tail(c)
      BY <2>4 DEF ReasonFor
    <3>2. i - 1 \in 1..Len(Tail(c)) /\ Tail(c)[i - 1] = c[i]
      BY <2>1, <2>2, <2>4
    <3>3. PICK j \in 1..Len(ReasonFor) : LitTrue(tau, ReasonFor[j])
      BY <2>2, <3>1, <3>2
    <3>4. QED
      BY <1>4, <3>3, Resolved
  <2>5. CASE p # NULL /\ i = 1
    <3>1. c[1] = p /\ p \in Lits
      BY <1>1, <2>5 DEF Analyzing, TypeInv
    <3>2. ~LitTrue(tau, -p)
      BY <1>4, <2>2, <2>5, <3>1, TrueFacts DEF Model
    <3>3. \/ \E m \in 2..Len(learnt) : LitTrue(tau, learnt[m])
          \/ \E k \in SeenHere : LitTrue(tau, -trail[k])
      BY <1>4, <2>5, <3>2 DEF Resolvent
    <3>4. SeenHere \subseteq SeenOnTrail
      BY DEF SeenHere, SeenOnTrail, Seen
    <3>5. \A m \in 2..Len(learnt) : m \in 2..Len(learnt') /\ learnt'[m] = learnt[m]
      <4>1. Len(learnt) \in Nat
        BY DEF TypeInv
      <4>2. /\ Len(learnt') \in Nat /\ Len(learnt') >= Len(learnt)
            /\ \A m \in 1..Len(learnt) : learnt'[m] = learnt[m]
        BY Found
      <4>3. QED
        BY <4>1, <4>2
    <3>6. QED
      BY <3>3, <3>4, <3>5
  <2>6. QED
    BY <2>3, <2>4, <2>5
<1>5. /\ SeenHere' = SeenOnTrail \ {Len(trail') + 1} /\ p' = trail[Len(trail') + 1]
      /\ \A j \in 1..Len(trail') : trail'[j] = trail[j]
      /\ trail' \in Seq(Lits)
  <2>1. TrailOK(assignments', level', reason', trail', trail_lim')
    BY AfterTurn
  <2>2. QED
    BY <2>1, AfterTurn DEF TrailOK
<1>6. \A k \in SeenHere' : trail'[k] = trail[k]
  <2>1. Limit' \in Nat /\ Len(trail') \in Nat
    <3>1. Limit \in 0..Len(trail') /\ trail_lim' = trail_lim
      BY AfterTurn
    <3>2. QED
      BY <1>5, <3>1 DEF Limit, currentDecisionLevel
  <2>2. \A k \in SeenHere' : k \in 1..Len(trail')
    <3> DEFINE a == Limit'
               n == Len(trail')
    <3>1. a \in Nat /\ n \in Nat
      BY <2>1
    <3>2. \A k \in SeenHere' : k \in (a + 1)..n
      BY DEF SeenHere
    <3> HIDE DEF a, n
    <3>3. \A k \in (a + 1)..n : k \in 1..n
      BY <3>1
    <3>4. QED
      BY <3>2, <3>3 DEF n
  <2>3. QED
    BY <1>5, <2>2
<1>7. ASSUME NEW tau, Model(tau)
      PROVE  \/ \E m \in 2..Len(learnt') : LitTrue(tau, learnt'[m])
             \/ LitTrue(tau, -p')
             \/ \E k \in SeenHere' : LitTrue(tau, -trail'[k])
  <2>1. \A k \in SeenOnTrail : k = Len(trail') + 1 \/ k \in SeenHere'
    BY <1>5
  <2>2. QED
    BY <1>4, <1>5, <1>6, <1>7, <2>1
<1>8. \A tau : Model(tau)' <=> Model(tau)
  BY DEF Model
<1>9. QED
  BY <1>7, <1>8 DEF Resolvent

\* Before cancelUntil nothing is left to be expanded but p.
LEMMA LearntImplied ==
  ASSUME TypeInv, TrailOK(assignments, level, reason, trail, trail_lim), AnalysisInv,
         Resolvent, F' = F, cancelUntil
  PROVE  Implied(learnt)'
<1>1. /\ pc = "backtrack" /\ p # NULL /\ learnt' = [learnt EXCEPT ![1] = -p]
      /\ Analyzing /\ LearntBelow
  BY DEF cancelUntil, AnalysisInv, Analyzing
<1>2. learnt \in Seq(Lits \cup {NULL}) /\ Len(learnt) >= 1 /\ p \in Lits
  BY <1>1 DEF TypeInv, LearntBelow
<1>3. /\ DOMAIN learnt' = 1..Len(learnt) /\ learnt'[1] = -p
      /\ \A i \in 2..Len(learnt) : i \in 1..Len(learnt) /\ learnt'[i] = learnt[i]
      /\ 1 \in 1..Len(learnt)
  BY <1>1, <1>2
<1>4. SeenHere = {}
  <2>1. count = Cardinality(SeenHere) /\ count = 0
    BY <1>1 DEF Analyzing
  <2>2. IsFiniteSet(SeenHere)
    <3>1. Limit \in Nat /\ Len(trail) \in Nat
      <4>1. currentDecisionLevel > 0
        BY <1>1 DEF Analyzing
      <4>2. trail_lim \in Seq(Nat) /\ trail \in Seq(Lits)
        BY DEF TrailOK
      <4>3. QED
        BY <4>1, <4>2 DEF Limit, currentDecisionLevel
    <3>2. IsFiniteSet((Limit + 1)..Len(trail))
      BY <3>1, FS_Interval
    <3>3. SeenHere \subseteq (Limit + 1)..Len(trail)
      BY DEF SeenHere
    <3>4. QED
      BY <3>2, <3>3, FS_Subset
  <2>3. QED
    BY <2>1, <2>2, FS_EmptySet
<1>5. ASSUME NEW tau, Model(tau) PROVE \E i \in DOMAIN learnt' : LitTrue(tau, learnt'[i])
  <2>1. \/ \E i \in 2..Len(learnt) : LitTrue(tau, learnt[i])
        \/ LitTrue(tau, -p)
    BY <1>1, <1>4, <1>5 DEF Resolvent
  <2>2. QED
    BY <1>3, <2>1
<1>6. QED
  BY <1>5 DEF Implied, HasTrue, Model

LEMMA SoundStep ==
  ASSUME Core, SoundInv, [Next]_vars
  PROVE  SoundInv'
<1> SUFFICES ASSUME ClausesImplied'
             PROVE  /\ ForcedTrue'
                    /\ pc' \in {"analyze", "backtrack"} => SeenKept' /\ Resolvent'
                    /\ pc' = "learn" => Implied(learnt)'
  BY DEF SoundInv
<1>1. /\ TypeInv /\ Trail /\ Reasons /\ QueueInv /\ WatchAll /\ AnalysisInv
      /\ TrailOK(assignments, level, reason, trail, trail_lim)
  BY DEF Core, Trail
<1>2. ClausesImplied /\ F' = F
  BY <1>1, ImpliedBefore
<1>3. /\ ForcedTrue
      /\ pc \in {"analyze", "backtrack"} => SeenKept /\ Resolvent
      /\ pc = "learn" => Implied(learnt)
  BY <1>2 DEF SoundInv
<1>4. ASSUME UNCHANGED <<assignments, level>> PROVE ForcedTrue'
  <2>1. \A l : value(l)' = value(l)
    BY <1>4 DEF value
  <2>2. QED
    BY <1>2, <1>3, <1>4, <2>1, ForcedKept
<1>5. CASE Parse
  <2>1. pc' \notin {"analyze", "backtrack", "learn"}
    BY <1>5 DEF Parse, ParseSatisfied, ParseEmpty, ParseUnit, ParseClause, ParseDone, Parsing
  <2>2. CASE ParseUnit
    BY <1>1, <1>2, <1>3, <2>1, <2>2, ParseForced
  <2>3. CASE ~ParseUnit
    BY <1>4, <1>5, <2>1, <2>3 DEF Parse, ParseSatisfied, ParseEmpty, ParseClause, ParseDone,
       assigned
  <2>4. QED
    BY <2>2, <2>3
<1>6. CASE VisitUnit
  <2>1. pc' = "visit"
    BY <1>6 DEF VisitUnit, Visiting
  <2>2. QED
    BY <1>1, <1>2, <1>3, <1>6, <2>1, UnitForced
<1>7. CASE Dequeue \/ VisitSatisfied \/ VisitMove \/ VisitConflict \/ VisitDone \/ PropagateDone
  <2>1. pc' \in {"visit", "conflict", "propagate", "decide"}
    BY <1>7 DEF Dequeue, VisitSatisfied, VisitMove, VisitConflict, VisitDone, PropagateDone,
       Visiting
  <2>2. UNCHANGED <<assignments, level>>
    BY <1>7 DEF Dequeue, VisitSatisfied, VisitMove, VisitConflict, VisitDone, PropagateDone,
       assigned
  <2>3. QED
    BY <1>4, <2>1, <2>2
<1>8. CASE decide
  <2>1. PICK v \in Selectable :
          /\ trail_lim' = Append(trail_lim, Len(trail))
          /\ assignments' = [assignments EXCEPT ![v] = 1]
          /\ level' = [level EXCEPT ![v] = currentDecisionLevel + 1]
    BY <1>8 DEF decide
  <2>2. v \in Vars /\ v \in Lits /\ Abs(v) = v /\ assignments[v] = unassigned
    BY LitFacts DEF Selectable
  <2>3. /\ assignments \in [Vars -> 0..unassigned] /\ level \in [Vars -> Int]
        /\ currentDecisionLevel \in Nat
    BY <1>1 DEF TrailOK, currentDecisionLevel
  <2>4. ASSUME NEW l \in Lits, value(l)' = 1, level'[Abs(l)] = 0
        PROVE  value(l) = 1 /\ level[Abs(l)] = 0
    <3>1. Abs(l) \in Vars
      BY LitFacts
    <3>2. Abs(l) # v
      BY <2>1, <2>2, <2>3, <2>4
    <3>3. assignments'[Abs(l)] = assignments[Abs(l)] /\ level'[Abs(l)] = level[Abs(l)]
      BY <2>1, <2>2, <2>3, <3>1, <3>2
    <3>4. Val(assignments', l) = Val(assignments, l)
      BY <3>3 DEF Val
    <3>5. QED
      BY <2>4, <3>3, <3>4, ValueIsVal
  <2>5. pc' = "propagate"
    BY <1>8 DEF decide
  <2>6. QED
    BY <1>2, <1>3, <2>4, <2>5, ForcedKept
<1>9. CASE StartAnalysis
  <2>1. /\ pc' = "analyze" /\ p' = NULL /\ seen' = {}
        /\ UNCHANGED <<assignments, level>>
    BY <1>9 DEF StartAnalysis, assigned
  <2>2. SeenKept' /\ Resolvent'
    BY <2>1 DEF SeenKept, Resolvent
  <2>3. QED
    BY <1>4, <2>1, <2>2
<1>10. CASE Analyze
  <2>1. pc' \in {"analyze", "backtrack"} /\ pc = "analyze"
    BY <1>1, <1>10, CountKept DEF Analyze
  <2>2. SeenKept /\ Resolvent
    BY <1>3, <2>1
  <2>3. SeenKept'
    BY <1>1, <1>10, <2>2, SeenStays
  <2>4. Resolvent'
    BY <1>1, <1>2, <1>3, <1>10, <2>2, <2>3, ResolventStays
  <2>5. ForcedTrue'
    <3>1. \A x \in Lits : value(x)' # unassigned =>
            value(x)' = value(x) /\ level'[Abs(x)] = level[Abs(x)]
      BY <1>1, <1>10, AfterTurn
    <3>2. QED
      BY <1>2, <1>3, <3>1, ForcedKept DEF unassigned
  <2>6. QED
    BY <2>1, <2>3, <2>4, <2>5
<1>11. CASE cancelUntil
  <2>1. pc' = "learn" /\ pc = "backtrack"
    BY <1>11 DEF cancelUntil
  <2>2. Implied(learnt)'
    BY <1>1, <1>2, <1>3, <1>11, <2>1, LearntImplied
  <2>3. ForcedTrue'
    <3>1. \A x \in Lits : value(x)' # unassigned =>
            value(x)' = value(x) /\ level'[Abs(x)] = level[Abs(x)]
      BY <1>1, <1>11, Cancelled
    <3>2. QED
      BY <1>2, <1>3, <3>1, ForcedKept DEF unassigned
  <2>4. QED
    BY <2>1, <2>2, <2>3
<1>12. CASE LearnUnit \/ LearnClause
  <2>1. pc = "learn" /\ pc' = "propagate"
    BY <1>12 DEF LearnUnit, LearnClause
  <2>2. ForcedTrue'
    BY <1>1, <1>2, <1>3, <1>12, <2>1, LearntForced
  <2>3. QED
    BY <2>1, <2>2
<1>13. CASE SayAnswer \/ SayUnsat \/ termination_handler
  <2>1. pc' \in {"exit", "stopped"} /\ UNCHANGED <<assignments, level>>
    BY <1>13 DEF SayAnswer, SayUnsat, termination_handler, assigned
  <2>2. QED
    BY <1>4, <2>1
<1>14. CASE UNCHANGED vars
  <2>1. /\ UNCHANGED <<pc, assignments, level, trail_lim, trail, seen, learnt, p, F>>
    BY <1>14 DEF vars, assigned, analysis
  <2>2. /\ pc' \in {"analyze", "backtrack"} => SeenKept' /\ Resolvent'
        /\ pc' = "learn" => Implied(learnt)'
    BY <1>3, <2>1 DEF SeenKept, Resolvent, SeenHere, Limit, currentDecisionLevel, Model, Implied
  <2>3. QED
    BY <1>4, <2>1, <2>2
<1>15. QED
  BY <1>5, <1>6, <1>7, <1>8, <1>9, <1>10, <1>11, <1>12, <1>13, <1>14
  DEF Next, Step, Propagate, Solve

\* analyze: the clause learnt follows from the formula when the clauses it was
\* derived from do, for every turn of the loop is a resolution and what is left out
\* of the clause is false at level 0.
THEOREM AnalysisRight == Spec => []AnalysisSound
<1>1. Init => Core /\ SoundInv
  <2>1. Init => SoundInv
    <3>1. ASSUME Init PROVE SoundInv
      <4>1. \A v \in Vars : assignments[v] = unassigned
        BY <3>1 DEF Init
      <4>2. \A l \in Lits : value(l) # 1
        BY <4>1, LitFacts DEF value, unassigned
      <4>3. QED
        BY <3>1, <4>2 DEF Init, SoundInv, ForcedTrue
    <3>2. QED
      BY <3>1
  <2>2. QED
    BY <2>1, InitCore
<1>2. Core /\ SoundInv /\ [Next]_vars => (Core /\ SoundInv)'
  <2>1. ASSUME Core, SoundInv, [Next]_vars PROVE Core' /\ SoundInv'
    BY <2>1, CoreStep, SoundStep
  <2>2. QED
    BY <2>1
<1>3. Core /\ SoundInv => AnalysisSound
  BY DEF SoundInv, AnalysisSound, ClausesImplied
<1>4. QED
  BY <1>1, <1>2, <1>3, PTL DEF Spec
-----------------------------------------------------------------------------
(***************************************************************************)
(* analyze has a clause to expand at every turn                            *)
(***************************************************************************)
\* Of the literals of a level above 0 only the first has no reason.
OneDecision ==
  \A j, k \in 1..Len(trail) :
    j < k /\ level[Abs(trail[j])] = level[Abs(trail[k])] /\ level[Abs(trail[k])] > 0
      => reason[Abs(trail[k])] # NULL

\* CLAUSEreasonFor is never called for NULL, and learn not without a literal.
NeverNull == /\ pc = "analyze" => conflict # NULL
             /\ pc = "backtrack" => p # NULL

LEMMA DecisionPrefix ==
  ASSUME OneDecision, Len(trail') \in Nat, Len(trail) \in Nat, Len(trail') <= Len(trail),
         \A j \in 1..Len(trail') : /\ trail'[j] = trail[j]
                                   /\ level'[Abs(trail[j])] = level[Abs(trail[j])]
                                   /\ reason'[Abs(trail[j])] = reason[Abs(trail[j])]
  PROVE  OneDecision'
<1>1. \A j \in 1..Len(trail') : j \in 1..Len(trail)
  OBVIOUS
<1>2. QED
  BY <1>1 DEF OneDecision

\* A literal is put on the trail with a reason, at level 0, or first of its level.
LEMMA DecisionPushed ==
  ASSUME OneDecision, TrailOK(assignments, level, reason, trail, trail_lim),
         NEW l \in Lits, trail' = Append(trail, l),
         \A j \in 1..Len(trail) : /\ level'[Abs(trail[j])] = level[Abs(trail[j])]
                                  /\ reason'[Abs(trail[j])] = reason[Abs(trail[j])],
         \/ reason'[Abs(l)] # NULL \/ ~(level'[Abs(l)] > 0)
         \/ \A j \in 1..Len(trail) : level[Abs(trail[j])] # level'[Abs(l)]
  PROVE  OneDecision'
<1> DEFINE n == Len(trail)
<1>1. trail \in Seq(Lits) /\ n \in Nat
  BY DEF TrailOK
<1>2. /\ Len(trail') = n + 1 /\ trail'[n + 1] = l
      /\ \A j \in 1..n : trail'[j] = trail[j]
  BY <1>1
<1> SUFFICES ASSUME NEW j \in 1..(n + 1), NEW k \in 1..(n + 1), j < k,
                    level'[Abs(trail'[j])] = level'[Abs(trail'[k])],
                    level'[Abs(trail'[k])] > 0
             PROVE  reason'[Abs(trail'[k])] # NULL
  BY <1>2 DEF OneDecision, NULL
<1>3. j \in 1..n
  BY <1>1
<1>4. CASE k = n + 1
  BY <1>2, <1>3, <1>4
<1>5. CASE k # n + 1
  <2>1. k \in 1..n
    BY <1>1, <1>5
  <2>2. QED
    BY <1>2, <1>3, <2>1 DEF OneDecision
<1>6. QED
  BY <1>4, <1>5

\* enqueue gives a reason, or the level is 0.
LEMMA DecisionEnqueued ==
  ASSUME OneDecision, TrailOK(assignments, level, reason, trail, trail_lim),
         NEW l \in Lits, NEW from \in Nat, enqueue(l, from), trail_lim' = trail_lim,
         from # NULL \/ Len(trail_lim) = 0
  PROVE  OneDecision'
<1>1. CASE value(l) # unassigned
  BY <1>1 DEF enqueue, assigned, OneDecision
<1>2. CASE value(l) = unassigned
  <2>1. /\ trail' = Append(trail, l) /\ level'[Abs(l)] = Len(trail_lim)
        /\ reason'[Abs(l)] = from
        /\ \A j \in 1..Len(trail) : reason'[Abs(trail[j])] = reason[Abs(trail[j])]
        /\ \A x \in Lits : value(x) # unassigned => level'[Abs(x)] = level[Abs(x)]
    BY <1>2, Enqueued
  <2>2. \A j \in 1..Len(trail) : trail[j] \in Lits /\ value(trail[j]) # unassigned
    <3>1. \A j \in 1..Len(trail) : trail[j] \in Lits /\ Val(assignments, trail[j]) = 1
      BY DEF TrailOK
    <3>2. QED
      BY <3>1, ValueIsVal DEF unassigned
  <2>3. \A j \in 1..Len(trail) : level'[Abs(trail[j])] = level[Abs(trail[j])]
    BY <2>1, <2>2
  <2>4. reason'[Abs(l)] # NULL \/ ~(level'[Abs(l)] > 0)
    BY <2>1
  <2>5. QED
    BY <2>1, <2>3, <2>4, DecisionPushed
<1>3. QED
  BY <1>1, <1>2

\* A turn that goes on has found a literal after the decision: it has a reason.
LEMMA TurnFinds ==
  ASSUME TypeInv, TrailOK(assignments, level, reason, trail, trail_lim), AnalysisInv,
         OneDecision, Analyze
  PROVE  OneDecision' /\ NeverNull'
<1>1. PICK k \in SeenOnTrail :
        /\ k \in 1..Len(trail) /\ Limit < k
        /\ p' = trail[k] /\ conflict' = reason[Abs(trail[k])]
        /\ UndoTo(k - 1)
        /\ pc' = IF count' > 0 /\ k - 1 > Limit THEN "analyze" ELSE "backtrack"
  BY Turn
<1> DEFINE n == Len(trail)
           undone == {Abs(trail[i]) : i \in ((k - 1) + 1)..n}
<1>2. /\ trail \in Seq(Lits) /\ n \in Nat
      /\ \A i, j \in 1..n : Abs(trail[i]) = Abs(trail[j]) => i = j
      /\ \A i \in 1..n : trail[i] \in Lits /\ Abs(trail[i]) \in Vars
  <2>1. /\ trail \in Seq(Lits)
        /\ \A i, j \in 1..n : Abs(trail[i]) = Abs(trail[j]) => i = j
    BY DEF TrailOK
  <2>2. \A i \in 1..n : trail[i] \in Lits
    BY <2>1
  <2>3. QED
    BY <2>1, <2>2, LitFacts
<1>3. /\ level' = [v \in Vars |-> IF v \in undone THEN -1 ELSE level[v]]
      /\ reason' = [v \in Vars |-> IF v \in undone THEN NULL ELSE reason[v]]
      /\ trail' = SubSeq(trail, 1, k - 1)
  BY <1>1 DEF UndoTo
<1>4. OneDecision'
  <2>1. Len(trail') = k - 1 /\ \A j \in 1..(k - 1) : trail'[j] = trail[j] /\ j \in 1..n
    BY <1>1, <1>2, <1>3
  <2>2. ASSUME NEW j \in 1..(k - 1) PROVE Abs(trail[j]) \notin undone /\ Abs(trail[j]) \in Vars
    BY <1>1, <1>2, <2>1
  <2> HIDE DEF undone
  <2>3. \A j \in 1..(k - 1) : /\ level'[Abs(trail[j])] = level[Abs(trail[j])]
                              /\ reason'[Abs(trail[j])] = reason[Abs(trail[j])]
    BY <1>3, <2>2
  <2>4. Len(trail') \in Nat /\ n \in Nat /\ Len(trail') <= n
    BY <1>1, <1>2, <2>1
  <2> HIDE DEF n
  <2>5. QED
    BY <2>1, <2>3, <2>4, DecisionPrefix DEF n
<1>5. NeverNull'
  <2>1. p' # NULL
    BY <1>1, <1>2 DEF Lits, NULL
  <2>2. ASSUME pc' = "analyze" PROVE conflict' # NULL
    <3>1. currentDecisionLevel \in 1..Len(trail_lim) /\ Limit \in 0..Len(trail)
          /\ currentDecisionLevel = Len(trail_lim)
      BY Expanded, SeenGrows DEF Analyze
    <3> DEFINE d == currentDecisionLevel
               j == Limit + 1
    <3>2. /\ \A i \in 1..n : level[Abs(trail[i])] \in 0..d
          /\ \A i \in 1..n : Limit < i <=> d <= level[Abs(trail[i])]
      BY <3>1 DEF TrailOK, Limit
    <3>3. k - 1 > Limit
      BY <1>1, <2>2
    <3>4. j \in 1..n /\ j < k /\ Limit < j
      BY <1>1, <3>1, <3>3
    <3> HIDE DEF j
    <3>5. level[Abs(trail[j])] = d /\ level[Abs(trail[k])] = d /\ d > 0
      BY <1>1, <3>1, <3>2, <3>4
    <3>6. reason[Abs(trail[k])] # NULL
      BY <1>1, <3>4, <3>5 DEF OneDecision
    <3>7. QED
      BY <1>1, <3>6
  <2>3. QED
    BY <1>1, <2>1, <2>2 DEF NeverNull
<1>6. QED
  BY <1>4, <1>5

LEMMA NullStep ==
  ASSUME Core, OneDecision, NeverNull, [Next]_vars
  PROVE  OneDecision' /\ NeverNull'
<1>1. /\ TypeInv /\ QueueInv /\ WatchAll /\ AnalysisInv /\ Trail
      /\ TrailOK(assignments, level, reason, trail, trail_lim)
      /\ Len(trail_lim) \in Nat /\ Len(trail) \in Nat
  BY DEF Core, Trail, TrailOK
<1>2. ASSUME pc' \notin {"analyze", "backtrack"} PROVE NeverNull'
  BY <1>2 DEF NeverNull
<1>3. CASE ParseUnit
  <2> DEFINE x == Shortened(F[pos])[1]
  <2>1. x \in Lits
    <3> DEFINE s == Shortened(F[pos])
    <3>1. s \in Seq(Lits) /\ Len(s) = 1
      BY <1>1, <1>3, ParsedClause DEF ParseUnit
    <3> HIDE DEF s
    <3>2. s[1] \in Lits
      BY <3>1
    <3>3. QED
      BY <3>2 DEF s
  <2>2. enqueue(x, NULL) /\ pc = "parse" /\ pc' = pc /\ trail_lim' = trail_lim /\ NULL \in Nat
    BY <1>3 DEF ParseUnit, Parsing, NULL
  <2> HIDE DEF x
  <2>3. Len(trail_lim) = 0
    BY <1>1, <2>2 DEF QueueInv
  <2>4. QED
    BY <1>1, <1>2, <2>1, <2>2, <2>3, DecisionEnqueued
<1>4. CASE VisitUnit
  <2> DEFINE x == Visited[1]
             h == Head(todo)
  <2>1. Visiting /\ enqueue(x, h) /\ trail_lim' = trail_lim /\ pc = "visit" /\ pc' = pc
    BY <1>4 DEF VisitUnit, Visiting
  <2>2. x \in Lits /\ h \in Nat /\ h # NULL
    <3>1. h \in ClauseIds /\ Visited \in Seq(Lits) /\ Len(Visited) = Len(clauses[h])
          /\ Len(clauses[h]) >= 2
      BY <1>1, <2>1, VisitFacts
    <3>2. 1 \in 1..Len(Visited)
      BY <3>1
    <3>3. QED
      BY <3>1, <3>2 DEF ClauseIds, NULL
  <2> HIDE DEF x, h
  <2>3. QED
    BY <1>1, <1>2, <2>1, <2>2, DecisionEnqueued
<1>5. CASE LearnUnit
  <2> DEFINE x == learnt[1]
  <2>1. /\ enqueue(x, NULL) /\ trail_lim' = trail_lim /\ pc = "learn" /\ NULL \in Nat
        /\ x \in Lits /\ pc' = "propagate" /\ Len(learnt) = 1
        /\ LearntBelow /\ backtrackLevel = currentDecisionLevel
    BY <1>1, <1>5 DEF LearnUnit, NULL, AnalysisInv
  <2> HIDE DEF x
  <2>2. ~(backtrackLevel > 0)
    BY <2>1 DEF LearntBelow
  <2>3. Len(trail_lim) = 0
    BY <1>1, <2>1, <2>2 DEF currentDecisionLevel
  <2>4. QED
    BY <1>1, <1>2, <2>1, <2>3, DecisionEnqueued
<1>6. CASE LearnClause
  <2> DEFINE c == VECTORswitchPlace(learnt, 2, MaxLevelIndex(learnt))
             x == c[1]
             n == Len(clauses) + 1
  <2>1. pc = "learn" /\ Len(learnt) > 1 /\ learnt[1] \in Lits
    BY <1>1, <1>6 DEF LearnClause, AnalysisInv
  <2>2. c[1] = learnt[1]
    BY <1>1, <2>1, Learnt
  <2>3. enqueue(x, n) /\ trail_lim' = trail_lim /\ pc' = "propagate"
    BY <1>6, Zenon DEF LearnClause
  <2>4. n \in Nat /\ n # NULL /\ x \in Lits
    BY <1>1, <2>1, <2>2 DEF TypeInv, NULL
  <2> HIDE DEF x, n
  <2>5. QED
    BY <1>1, <1>2, <2>3, <2>4, DecisionEnqueued
<1>7. CASE decide
  <2>1. PICK v \in Selectable :
          /\ trail_lim' = Append(trail_lim, Len(trail))
          /\ assignments' = [assignments EXCEPT ![v] = 1]
          /\ level' = [level EXCEPT ![v] = currentDecisionLevel + 1]
          /\ trail' = Append(trail, v)
    BY <1>7 DEF decide
  <2>2. pc = "decide" /\ reason' = reason /\ pc' = "propagate"
    BY <1>7 DEF decide
  <2>3. /\ Len(trail_lim') = Len(trail_lim) + 1
        /\ \A x \in Lits : value(x) # unassigned => level'[Abs(x)] = level[Abs(x)]
        /\ v \in Lits /\ Abs(v) = v /\ level'[v] = Len(trail_lim')
    BY <1>1, <2>1, <2>2, Decided
  <2>4. ASSUME NEW j \in 1..Len(trail)
        PROVE  /\ level'[Abs(trail[j])] = level[Abs(trail[j])]
               /\ level[Abs(trail[j])] # level'[Abs(v)]
    <3>1. /\ trail[j] \in Lits /\ Val(assignments, trail[j]) = 1
          /\ level[Abs(trail[j])] \in 0..Len(trail_lim)
      BY <1>1 DEF TrailOK
    <3>2. value(trail[j]) # unassigned
      BY <3>1, ValueIsVal DEF unassigned
    <3>3. QED
      BY <1>1, <2>3, <3>1, <3>2
  <2>5. QED
    BY <1>1, <1>2, <2>1, <2>2, <2>3, <2>4, DecisionPushed
<1>8. CASE Analyze
  BY <1>1, <1>8, TurnFinds
<1>9. CASE cancelUntil
  <2>1. pc' = "learn"
    BY <1>9 DEF cancelUntil
  <2>2. /\ TrailOK(assignments', level', reason', trail', trail_lim')
        /\ Len(trail') \in 0..Len(trail)
        /\ \A j \in 1..Len(trail') : /\ trail'[j] = trail[j]
                                     /\ reason'[Abs(trail[j])] = reason[Abs(trail[j])]
        /\ \A x \in Lits : value(x)' # unassigned => level'[Abs(x)] = level[Abs(x)]
    BY <1>1, <1>9, Cancelled
  <2>3. ASSUME NEW j \in 1..Len(trail')
        PROVE  level'[Abs(trail[j])] = level[Abs(trail[j])]
    <3>1. trail'[j] \in Lits /\ Val(assignments', trail'[j]) = 1
      BY <2>2 DEF TrailOK
    <3>2. trail'[j] = trail[j] /\ trail[j] \in Lits /\ value(trail[j])' = Val(assignments', trail'[j])
      BY <2>2, <3>1, ValueIsVal DEF value, Val
    <3>3. QED
      BY <2>2, <3>1, <3>2 DEF unassigned
  <2>4. OneDecision'
    BY <1>1, <2>2, <2>3, DecisionPrefix
  <2>5. QED
    BY <1>2, <2>1, <2>4
<1>10. ASSUME UNCHANGED <<level, reason, trail>> PROVE OneDecision'
  BY <1>10 DEF OneDecision
<1>11. CASE StartAnalysis
  <2>1. /\ pc = "conflict" /\ pc' = "analyze" /\ conflict' = conflict
        /\ UNCHANGED <<level, reason, trail>>
    BY <1>11 DEF StartAnalysis, assigned
  <2>2. conflict \in ClauseIds
    BY <1>1, <2>1 DEF AnalysisInv, Conflicting
  <2>3. QED
    BY <1>10, <2>1, <2>2 DEF NeverNull, ClauseIds, NULL
<1>12. CASE ParseSatisfied \/ ParseEmpty \/ ParseClause \/ ParseDone
  BY <1>2, <1>10, <1>12 DEF ParseSatisfied, ParseEmpty, ParseClause, ParseDone, Parsing, assigned
<1>13. CASE Dequeue \/ VisitSatisfied \/ VisitMove \/ VisitConflict \/ VisitDone \/ PropagateDone
  BY <1>2, <1>10, <1>13 DEF Dequeue, VisitSatisfied, VisitMove, VisitConflict, VisitDone,
                     PropagateDone, Visiting, assigned
<1>14. CASE SayAnswer \/ SayUnsat \/ termination_handler
  BY <1>2, <1>10, <1>14 DEF SayAnswer, SayUnsat, termination_handler, assigned
<1>15. CASE UNCHANGED vars
  BY <1>10, <1>15 DEF vars, assigned, analysis, NeverNull
<1>16. QED
  BY <1>3, <1>4, <1>5, <1>6, <1>7, <1>8, <1>9, <1>11, <1>12, <1>13, <1>14, <1>15
  DEF Next, Step, Parse, Propagate, Solve

\* analyze never looks for the reason of a decision while literals are left to
\* expand, so it does not follow a null pointer, and always ends with a literal to
\* learn.
THEOREM NoNullReason == Spec => []NeverNull
<1>1. Init => Core /\ OneDecision /\ NeverNull
  <2>1. Init => OneDecision /\ NeverNull
    BY DEF Init, OneDecision, NeverNull
  <2>2. QED
    BY <2>1, InitCore
<1>2. Core /\ OneDecision /\ NeverNull /\ [Next]_vars => (Core /\ OneDecision /\ NeverNull)'
  <2>1. ASSUME Core, OneDecision, NeverNull, [Next]_vars
        PROVE  Core' /\ OneDecision' /\ NeverNull'
    BY <2>1, CoreStep, NullStep
  <2>2. QED
    BY <2>1
<1>3. QED
  BY <1>1, <1>2, PTL DEF Spec

\* The guard of an action holds; what the actions do then is defined.  This is what
\* ENABLED Step says: every action is a guard and one value for each variable.
GoesOn ==
  /\ pc = "parse" => \/ pos > Len(F) \/ Satisfied(F[pos])
                     \/ Len(Shortened(F[pos])) \in {0, 1} \/ Len(Shortened(F[pos])) >= 2
  /\ pc = "visit" => \/ todo = <<>> \/ value(Visited[1]) = 1
                     \/ \E i \in Watchable(Visited) : \A j \in Watchable(Visited) : i <= j
                     \/ value(Visited[1]) \in {0, unassigned} /\ Watchable(Visited) = {}
  /\ pc = "decide" => Selectable = {} \/ \E v \in Selectable : \A u \in Selectable : v <= u
  /\ pc = "conflict" => currentDecisionLevel = 0 \/ currentDecisionLevel > 0
  /\ pc = "learn" => Len(learnt) = 1 \/ Len(learnt) > 1
  /\ NeverNull

LEMMA GuardHolds ==
  ASSUME Core, NeverNull
  PROVE  GoesOn
<1>1. TypeInv /\ TrailOK(assignments, level, reason, trail, trail_lim)
  BY DEF Core, Trail
<1>2. ASSUME pc = "parse", ~(pos > Len(F))
      PROVE  Len(Shortened(F[pos])) \in {0, 1} \/ Len(Shortened(F[pos])) >= 2
  <2>1. F[pos] \in Seq(Lits)
    BY <1>1, <1>2 DEF TypeInv, Formulas
  <2>2. Shortened(F[pos]) \in Seq(Lits)
    BY <2>1, ShortenedClause
  <2>3. Len(Shortened(F[pos])) \in Nat
    BY <2>2
  <2>4. \A n \in Nat : n \in {0, 1} \/ n >= 2
    OBVIOUS
  <2>5. QED
    BY <2>3, <2>4, Zenon
<1>3. ASSUME pc = "visit", todo # <<>>, Watchable(Visited) # {}
      PROVE  \E i \in Watchable(Visited) : \A j \in Watchable(Visited) : i <= j
  <2>1. Visited \in Seq(Lits)
    BY <1>1, <1>3, VisitFacts DEF Visiting, Core
  <2>2. Watchable(Visited) \subseteq Nat
    BY <2>1 DEF Watchable
  <2>3. QED
    BY <1>3, <2>2, Least
<1>4. ASSUME pc = "visit", todo # <<>> PROVE value(Visited[1]) \in {0, 1, unassigned}
  <2>1. Visited \in Seq(Lits) /\ Len(Visited) >= 2
    BY <1>1, <1>4, VisitFacts DEF Visiting, Core
  <2>2. Visited[1] \in Lits
    BY <2>1
  <2>3. assignments \in [Vars -> 0..unassigned]
    BY <1>1 DEF TrailOK
  <2>4. QED
    BY <2>2, <2>3, ValFacts, ValueIsVal
<1>5. ASSUME Selectable # {} PROVE \E v \in Selectable : \A u \in Selectable : v <= u
  <2>1. Selectable \subseteq Nat
    BY DEF Selectable, Vars
  <2>2. QED
    BY <1>5, <2>1, Least
<1>6. currentDecisionLevel \in Nat
  BY <1>1 DEF TrailOK, currentDecisionLevel
<1>7. pc = "learn" => Len(learnt) = 1 \/ Len(learnt) > 1
  <2>1. pc = "learn" => Len(learnt) >= 1
    BY DEF Core, AnalysisInv, LearntBelow
  <2>2. Len(learnt) \in Nat
    BY <1>1 DEF TypeInv
  <2>3. \A n \in Nat : n >= 1 => n = 1 \/ n > 1
    OBVIOUS
  <2>4. QED
    BY <2>1, <2>2, <2>3, Zenon
<1>8. QED
  BY <1>2, <1>3, <1>4, <1>5, <1>6, <1>7 DEF GoesOn

\* No state of the search is a dead end, and no case of a handler is missing.
THEOREM SearchGoesOn == Spec => []GoesOn
<1>1. Core /\ NeverNull => GoesOn
  BY GuardHolds
<1>2. QED
  BY Invariance, NoNullReason, <1>1, PTL
=============================================================================
