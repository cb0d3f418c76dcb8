----------------------------- MODULE CnfProofs -----------------------------
(***************************************************************************)
(* Facts about numbers, finite sets and parts of sequences that the proofs *)
(* about the solvers share.                                                *)
(***************************************************************************)
EXTENDS Cnf, FiniteSetTheorems, WellFoundedInduction, TLAPS

-----------------------------------------------------------------------------
(***************************************************************************)
(* Sets of numbers                                                         *)
(***************************************************************************)
\* A set of natural numbers has a least element, and one in an interval has a
\* greatest.
LEMMA Least ==
  ASSUME NEW S, S \subseteq Nat, S # {}
  PROVE  \E m \in S : \A k \in S : m <= k
<1>1. PICK m \in S : \A k \in S : <<k, m>> \notin OpToRel(<, Nat)
  BY NatLessThanWellFounded, WFMin
<1>2. \A k \in S : ~(k < m)
  BY <1>1, Zenon DEF OpToRel
<1>3. QED
  BY <1>2

LEMMA Greatest ==
  ASSUME NEW n \in Nat, NEW S, S \subseteq 0..n, S # {}
  PROVE  \E m \in S : \A k \in S : k <= m
<1> DEFINE T == {n - k : k \in S}
<1>1. T \subseteq Nat /\ T # {}
  <2>1. \A k \in S : n - k \in Nat
    OBVIOUS
  <2>2. QED
    BY <2>1
<1>2. PICK i \in T : \A j \in T : i <= j
  BY <1>1, Least
<1>3. PICK m \in S : i = n - m
  BY <1>2
<1>4. ASSUME NEW k \in S PROVE k <= m
  <2>1. n - m <= n - k
    BY <1>2, <1>3
  <2>2. k \in Nat /\ m \in Nat
    OBVIOUS
  <2>3. QED
    BY <2>1, <2>2
<1>5. QED
  BY <1>4

\* A one-to-one function into a finite set.
LEMMA OneToOne ==
  ASSUME NEW S, NEW T, IsFiniteSet(T), NEW f \in [S -> T],
         \A x, y \in S : f[x] = f[y] => x = y
  PROVE  /\ IsFiniteSet(S) /\ Cardinality(S) <= Cardinality(T)
         /\ (\A y \in T : \E x \in S : f[x] = y) => Cardinality(S) = Cardinality(T)
         /\ Cardinality(S) = Cardinality(T) => \A y \in T : \E x \in S : f[x] = y
<1>1. f \in Injection(S, T)
  BY DEF Injection, IsInjective
<1>2. /\ IsFiniteSet(S) /\ Cardinality(S) <= Cardinality(T)
      /\ Cardinality(S) = Cardinality(T) <=> f \in Surjection(S, T)
  BY <1>1, FS_Injection
<1>3. f \in Surjection(S, T) <=> \A y \in T : \E x \in S : f[x] = y
  BY DEF Surjection
<1>4. QED
  BY <1>2, <1>3

LEMMA Numbered ==
  ASSUME NEW S, IsFiniteSet(S), NEW f \in [S -> 1..Cardinality(S)],
         \A x, y \in S : f[x] = f[y] => x = y
  PROVE  \A k \in 1..Cardinality(S) : \E x \in S : f[x] = k
<1>1. Cardinality(S) \in Nat
  BY FS_CardinalityType
<1>2. IsFiniteSet(1..Cardinality(S)) /\ Cardinality(1..Cardinality(S)) = Cardinality(S)
  BY <1>1, FS_Interval
<1> DEFINE T == 1..Cardinality(S)
<1>3. IsFiniteSet(T) /\ f \in [S -> T] /\ Cardinality(S) = Cardinality(T)
  BY <1>2
<1> HIDE DEF T
<1>4. \A y \in T : \E x \in S : f[x] = y
  BY <1>3, OneToOne
<1>5. QED
  BY <1>4 DEF T

-----------------------------------------------------------------------------
(***************************************************************************)
(* Induction and recursion on numbers                                      *)
(***************************************************************************)
\* Induction, for a set in place of a predicate.
LEMMA NatInduct ==
  ASSUME NEW S, 0 \in S, \A n \in Nat : n \in S => n + 1 \in S
  PROVE  \A n \in Nat : n \in S
<1> SUFFICES ASSUME NEW x \in Nat, x \notin S PROVE FALSE
  OBVIOUS
<1> DEFINE T == {n \in Nat : n \notin S}
<1>1. PICK m \in T : \A k \in T : m <= k
  <2>1. T \subseteq Nat /\ T # {}
    OBVIOUS
  <2> HIDE DEF T
  <2>2. QED
    BY <2>1, Least
<1>2. m \in Nat /\ m # 0 /\ m - 1 \in Nat /\ m - 1 \notin T
  BY <1>1
<1>3. m - 1 \in S /\ (m - 1) + 1 = m
  BY <1>2
<1>4. QED
  BY <1>1, <1>2, <1>3

\* g is defined by recursion: the step st[n] from g[n] to g[n + 1].
Recurs(g, f0, st) == g = [n \in Nat |-> IF n = 0 THEN f0 ELSE st[n - 1][g[n - 1]]]

\* A function on the numbers may be defined by recursion.
LEMMA Recursion ==
  ASSUME NEW f0, NEW st
  PROVE  \E g : Recurs(g, f0, st)
<1> DEFINE P(f, k) == f = [n \in 0..k |-> IF n = 0 THEN f0 ELSE st[n - 1][f[n - 1]]]
<1>1. ASSUME NEW k \in Nat, NEW m \in Nat, NEW f, NEW e, P(f, k), P(e, m)
      PROVE  \A n \in Nat : n <= k /\ n <= m => f[n] = e[n]
  <2> DEFINE T == {n \in Nat : n <= k /\ n <= m => f[n] = e[n]}
  <2>1. 0 \in T
    BY <1>1
  <2>2. ASSUME NEW n \in Nat, n \in T PROVE n + 1 \in T
    <3>1. SUFFICES ASSUME n + 1 <= k, n + 1 <= m PROVE f[n + 1] = e[n + 1]
      OBVIOUS
    <3>2. f[n] = e[n]
      BY <2>2, <3>1
    <3>3. n + 1 # 0 /\ (n + 1) - 1 = n /\ n + 1 \in 0..k /\ n + 1 \in 0..m
      BY <3>1
    <3>4. f[n + 1] = st[n][f[n]] /\ e[n + 1] = st[n][e[n]]
      BY <1>1, <3>3
    <3>5. QED
      BY <3>2, <3>4
  <2> HIDE DEF T
  <2>3. \A n \in Nat : n \in T
    BY <2>1, <2>2, NatInduct
  <2>4. QED
    BY <2>3 DEF T
<1>2. \A k \in Nat : \E f : P(f, k)
  <2> DEFINE T == {k \in Nat : \E f : P(f, k)}
  <2>1. 0 \in T
    <3>1. P([n \in 0..0 |-> f0], 0)
      OBVIOUS
    <3>2. QED
      BY <3>1
  <2>2. ASSUME NEW k \in Nat, k \in T PROVE k + 1 \in T
    <3>1. PICK f : P(f, k)
      BY <2>2
    <3> DEFINE e == [n \in 0..(k + 1) |-> IF n = k + 1 THEN st[k][f[k]] ELSE f[n]]
    <3>2. \A n \in 0..k : e[n] = f[n] /\ n # k + 1
      OBVIOUS
    <3>3. ASSUME NEW n \in 0..(k + 1)
          PROVE  e[n] = IF n = 0 THEN f0 ELSE st[n - 1][e[n - 1]]
      <4>1. CASE n = k + 1
        <5>1. k \in 0..k /\ n # 0 /\ n - 1 = k
          BY <4>1
        <5>2. e[n] = st[k][f[k]] /\ e[k] = f[k]
          BY <3>2, <4>1, <5>1
        <5>3. QED
          BY <5>1, <5>2
      <4>2. CASE n # k + 1 /\ n # 0
        <5>1. n \in 0..k /\ n - 1 \in 0..k
          BY <4>2
        <5>2. f[n] = st[n - 1][f[n - 1]]
          BY <3>1, <4>2, <5>1
        <5>3. QED
          BY <3>2, <4>2, <5>1, <5>2
      <4>3. CASE n = 0
        <5>1. n \in 0..k
          BY <4>3
        <5>2. QED
          BY <3>1, <3>2, <4>3, <5>1
      <4>4. QED
        BY <4>1, <4>2, <4>3
    <3>4. e = [n \in 0..(k + 1) |-> e[n]]
      OBVIOUS
    <3> HIDE DEF e
    <3>5. P(e, k + 1)
      BY <3>3, <3>4
    <3>6. QED
      BY <3>5
  <2> HIDE DEF T
  <2>3. \A k \in Nat : k \in T
    BY <2>1, <2>2, NatInduct
  <2>4. QED
    BY <2>3 DEF T
<1> DEFINE A == [k \in Nat |-> CHOOSE f : P(f, k)]
           g == [n \in Nat |-> A[n][n]]
<1>3. \A k \in Nat : P(A[k], k)
  BY <1>2
<1> HIDE DEF A
<1>4. ASSUME NEW n \in Nat PROVE g[n] = IF n = 0 THEN f0 ELSE st[n - 1][g[n - 1]]
  <2>1. n \in 0..n /\ P(A[n], n) /\ g[n] = A[n][n]
    BY <1>3
  <2>2. CASE n = 0
    BY <2>1, <2>2
  <2>3. CASE n # 0
    <3>1. n - 1 \in Nat /\ n - 1 <= n
      BY <2>3
    <3>2. P(A[n - 1], n - 1) /\ g[n - 1] = A[n - 1][n - 1]
      BY <1>3, <3>1
    <3>3. A[n][n - 1] = A[n - 1][n - 1]
      BY <1>1, <2>1, <3>1, <3>2
    <3>4. A[n][n] = st[n - 1][A[n][n - 1]]
      BY <2>1, <2>3
    <3>5. QED
      BY <2>1, <2>3, <3>2, <3>3, <3>4
  <2>4. QED
    BY <2>2, <2>3
<1>5. g = [n \in Nat |-> g[n]]
  OBVIOUS
<1> HIDE DEF g
<1>6. Recurs(g, f0, st)
  BY <1>4, <1>5 DEF Recurs
<1>7. QED
  BY <1>6

\* Induction along a function.
LEMMA StaysIn ==
  ASSUME NEW g, NEW G, g[0] \in G[0],
         \A n \in Nat : g[n] \in G[n] => g[n + 1] \in G[n + 1]
  PROVE  \A n \in Nat : g[n] \in G[n]
<1> DEFINE T == {n \in Nat : g[n] \in G[n]}
<1>1. 0 \in T
  OBVIOUS
<1>2. \A n \in Nat : n \in T => n + 1 \in T
  OBVIOUS
<1> HIDE DEF T
<1>3. \A n \in Nat : n \in T
  BY <1>1, <1>2, NatInduct
<1>4. QED
  BY <1>3 DEF T

\* If the steps stay in the sets G[n], so does what they define.
LEMMA RecursionIn ==
  ASSUME NEW f0, NEW st, NEW G, f0 \in G[0],
         \A n \in Nat : \A f \in G[n] : st[n][f] \in G[n + 1]
  PROVE  \E g : Recurs(g, f0, st) /\ \A n \in Nat : g[n] \in G[n]
<1>1. PICK g : Recurs(g, f0, st)
  BY Recursion
<1>2. g[0] = f0 /\ \A n \in Nat : g[n + 1] = st[n][g[n]]
  BY <1>1 DEF Recurs
<1>3. \A n \in Nat : g[n] \in G[n]
  BY <1>2, StaysIn
<1>4. QED
  BY <1>1, <1>3
-----------------------------------------------------------------------------
(***************************************************************************)
(* Parts of sequences                                                      *)
(***************************************************************************)
\* At(s, ps) has the elements of s at the positions ps, each once.
LEMMA AtPositions ==
  ASSUME NEW S, NEW s \in Seq(S), NEW ps, ps \subseteq 1..Len(s)
  PROVE  /\ At(s, ps) \in Seq(S)
         /\ \A k \in 1..Len(At(s, ps)) : \E i \in ps : At(s, ps)[k] = s[i]
         /\ \A i \in ps : \E k \in 1..Len(At(s, ps)) : At(s, ps)[k] = s[i]
         /\ (\A i, j \in ps : s[i] = s[j] => i = j)
              => \A j, k \in 1..Len(At(s, ps)) : At(s, ps)[j] = At(s, ps)[k] => j = k
<1> DEFINE n == Cardinality(ps)
           Up(i) == {j \in ps : j <= i}
<1>1. IsFiniteSet(ps) /\ n \in Nat /\ \A i \in ps : i \in Nat
  <2>1. IsFiniteSet(1..Len(s))
    BY FS_Interval
  <2>2. IsFiniteSet(ps)
    BY <2>1, FS_Subset
  <2>3. QED
    BY <2>2, FS_CardinalityType
<1>2. ASSUME NEW i \in ps
      PROVE  IsFiniteSet(Up(i)) /\ Cardinality(Up(i)) \in 1..n
  <2>1. /\ IsFiniteSet(Up(i)) /\ Cardinality(Up(i)) <= n
    BY <1>1, FS_Subset
  <2>2. Cardinality(Up(i)) \in Nat
    BY <2>1, FS_CardinalityType
  <2>3. i \in Up(i)
    BY <1>1
  <2>4. Cardinality(Up(i)) # 0
    BY <2>1, <2>3, FS_EmptySet
  <2>5. QED
    BY <1>1, <2>1, <2>2, <2>4
<1>3. ASSUME NEW i \in ps, NEW j \in ps, i < j
      PROVE  Cardinality(Up(i)) # Cardinality(Up(j))
  <2>0. i \in Nat /\ j \in Nat /\ \A k \in ps : k \in Nat
    BY <1>1
  <2>a. ~(j <= i) /\ j <= j
    BY <1>3, <2>0
  <2>b. \A k \in ps : k <= i => k <= j
    BY <1>3, <2>0
  <2>1. Up(i) \subseteq Up(j) /\ j \in Up(j) /\ j \notin Up(i)
    BY <2>a, <2>b
  <2>2. Up(i) # Up(j) /\ IsFiniteSet(Up(j))
    BY <1>2, <2>1
  <2> HIDE DEF Up
  <2>3. QED
    BY <2>1, <2>2, FS_Subset
<1> DEFINE r == [i \in ps |-> Cardinality(Up(i))]
<1>4. r \in [ps -> 1..n]
  BY <1>2
<1>5. \A i, j \in ps : r[i] = r[j] => i = j
  <2> SUFFICES ASSUME NEW i \in ps, NEW j \in ps, i # j PROVE r[i] # r[j]
    OBVIOUS
  <2>1. i < j \/ j < i
    BY <1>1
  <2>2. r[i] = Cardinality(Up(i)) /\ r[j] = Cardinality(Up(j))
    OBVIOUS
  <2> HIDE DEF r, Up
  <2>3. QED
    BY <1>3, <2>1, <2>2
<1>6. \A k \in 1..n : \E i \in ps : r[i] = k
  <2> HIDE DEF r
  <2>1. QED
    BY <1>1, <1>4, <1>5, Numbered
<1> DEFINE At1(k) == CHOOSE i \in ps : Cardinality({j \in ps : j <= i}) = k
           f == [k \in 1..n |-> At1(k)]
<1>7. /\ f \in [1..n -> ps] /\ \A k \in 1..n : r[f[k]] = k
  <2>1. \A k \in 1..n : \E i \in ps : Cardinality({j \in ps : j <= i}) = k
    BY <1>6
  <2>2. QED
    BY <2>1
<1>8. \A i \in ps : r[i] \in 1..n /\ f[r[i]] = i
  <2> HIDE DEF r, f
  <2>1. QED
    BY <1>4, <1>5, <1>7
<1>9. At(s, ps) = [k \in 1..n |-> s[f[k]]]
  <2>1. At(s, ps) = [k \in 1..n |-> s[At1(k)]]
    BY DEF At
  <2> HIDE DEF At1
  <2>2. \A k \in 1..n : f[k] = At1(k)
    OBVIOUS
  <2> HIDE DEF f, n
  <2>3. QED
    BY <2>1, <2>2
<1> HIDE DEF f, r
<1>10. At(s, ps) \in Seq(S) /\ Len(At(s, ps)) = n
  <2>1. \A k \in 1..n : f[k] \in 1..Len(s)
    BY <1>7
  <2>2. \A k \in 1..n : s[f[k]] \in S
    BY <2>1
  <2>3. QED
    BY <1>1, <1>9, <2>2
<1>11. /\ \A k \in 1..n : At(s, ps)[k] = s[f[k]]
       /\ \A j, k \in 1..n : f[j] = f[k] => j = k
       /\ \A i \in ps : \E k \in 1..n : f[k] = i
  BY <1>7, <1>8, <1>9
<1> DEFINE r1 == At(s, ps)
<1>12. /\ r1 \in Seq(S) /\ Len(r1) = n
       /\ \A k \in 1..n : r1[k] = s[f[k]] /\ f[k] \in ps
       /\ \A j, k \in 1..n : f[j] = f[k] => j = k
       /\ \A i \in ps : \E k \in 1..n : f[k] = i
  BY <1>7, <1>10, <1>11
<1> HIDE DEF r1, n
<1>13. /\ \A k \in 1..n : \E i \in ps : r1[k] = s[i]
       /\ \A i \in ps : \E k \in 1..n : r1[k] = s[i]
       /\ (\A i, j \in ps : s[i] = s[j] => i = j)
              => \A j, k \in 1..n : r1[j] = r1[k] => j = k
  <2>1. \A k \in 1..n : \E i \in ps : r1[k] = s[i]
    BY <1>12
  <2>2. ASSUME NEW i \in ps PROVE \E k \in 1..n : r1[k] = s[i]
    BY <1>12
  <2>3. ASSUME \A i, j \in ps : s[i] = s[j] => i = j,
               NEW j \in 1..n, NEW k \in 1..n, r1[j] = r1[k]
        PROVE  j = k
    <3>1. f[j] \in ps /\ f[k] \in ps /\ s[f[j]] = s[f[k]]
      BY <1>12, <2>3
    <3>2. QED
      BY <1>12, <2>3, <3>1
  <2>4. QED
    BY <2>1, <2>2, <2>3
<1>14. QED
  BY <1>12, <1>13 DEF r1

\* Its length, and what is missing if one position is left out.
LEMMA AtLength ==
  ASSUME NEW S, NEW s \in Seq(S), NEW ps, ps \subseteq 1..Len(s)
  PROVE  /\ Len(At(s, ps)) = Cardinality(ps)
         /\ ps = 1..Len(s) => Len(At(s, ps)) = Len(s)
         /\ \A i \in 1..Len(s) : ps = 1..Len(s) \ {i} => Len(At(s, ps)) = Len(s) - 1
<1>1. Len(s) \in Nat /\ IsFiniteSet(1..Len(s)) /\ Cardinality(1..Len(s)) = Len(s)
  BY FS_Interval
<1>2. IsFiniteSet(ps) /\ Cardinality(ps) \in Nat
  BY <1>1, FS_Subset, FS_CardinalityType
<1>3. Len(At(s, ps)) = Cardinality(ps)
  BY <1>2 DEF At
<1>4. ASSUME NEW i \in 1..Len(s)
      PROVE  Cardinality((1..Len(s)) \ {i}) = Len(s) - 1
  BY <1>1, FS_RemoveElement
<1>5. QED
  BY <1>1, <1>3, <1>4
=============================================================================
