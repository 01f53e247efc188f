------------------------------ MODULE FiniteSums ------------------------------
(* Least and greatest numbers, counting up, and sums over finite sets as      *)
(* MapThenSumSet of FiniteSetsExt computes them: element after element, in    *)
(* the order of CHOOSE.  Induction is over sets of numbers or of subsets.     *)
EXTENDS Integers, FiniteSets, FiniteSetsExt, FiniteSetTheorems, WellFoundedInduction, TLAPS

\* The least of a set of numbers is one of them.
LEMMA LeastNumber ==
  ASSUME NEW T, T \subseteq Nat, T # {}
  PROVE  \E m \in T : \A k \in T : m <= k
<1>. DEFINE Less == OpToRel(<, Nat)
<1>1. IsWellFoundedOn(Less, Nat)
  BY NatLessThanWellFounded
<1>2. \A x, y \in Nat : y < x => <<y, x>> \in Less
  BY DEF OpToRel
<1>. HIDE DEF Less
<1>3. PICK m \in T : \A k \in T : ~(<<k, m>> \in Less)
  BY <1>1, WFMin
<1>4. \A k \in T : ~(k < m) /\ k \in Nat /\ m \in Nat
  BY <1>2, <1>3
<1>5. \A k \in T : m <= k
  BY <1>4
<1>. QED
  BY <1>5

\* What holds of 0 and is handed on holds up to any number.
LEMMA CountUp ==
  ASSUME NEW N \in Nat, NEW T, 0 \in T, \A n \in 0 .. N - 1 : n \in T => n + 1 \in T
  PROVE  \A n \in 0 .. N : n \in T
<1>. DEFINE Missing == {n \in 0 .. N : n \notin T}
<1>. SUFFICES ASSUME Missing # {} PROVE FALSE
  OBVIOUS
<1>1. Missing \subseteq Nat
  OBVIOUS
<1>2. PICK m \in Missing : \A k \in Missing : m <= k
  <2>. HIDE DEF Missing
  <2>. QED
    BY <1>1, LeastNumber
<1>3. m \in 0 .. N /\ m \notin T /\ m # 0
  OBVIOUS
<1>4. m - 1 \in 0 .. N - 1 /\ m - 1 \in 0 .. N /\ ~(m <= m - 1) /\ (m - 1) + 1 = m
  BY <1>3
<1>5. m - 1 \notin Missing
  <2>. HIDE DEF Missing
  <2>. QED
    BY <1>2, <1>4
<1>. QED
  BY <1>3, <1>4, <1>5

Pick(s) == CHOOSE x \in s : TRUE
Rest(s) == s \ {Pick(s)}

\* A set that is not empty, and one element less.
LEMMA RestIs ==
  ASSUME NEW s, IsFiniteSet(s), s # {}
  PROVE  /\ Pick(s) \in s /\ Pick(s) \notin Rest(s) /\ s = Rest(s) \union {Pick(s)}
         /\ IsFiniteSet(Rest(s)) /\ Rest(s) \subseteq s
         /\ Cardinality(s) \in Nat /\ Cardinality(Rest(s)) = Cardinality(s) - 1
<1>1. Pick(s) \in s
  BY DEF Pick
<1>. QED
  BY <1>1, FS_RemoveElement, FS_CardinalityType DEF Rest

\* What holds of the empty set and of a set with what was left of it holds of
\* every subset of a finite set.
LEMMA SubsetInduction ==
  ASSUME NEW S, IsFiniteSet(S), NEW Right, {} \in Right,
         \A s \in SUBSET S : s # {} /\ Rest(s) \in Right => s \in Right
  PROVE  \A s \in SUBSET S : s \in Right
<1>. DEFINE T == {n \in Nat : \A s \in SUBSET S : Cardinality(s) = n => s \in Right}
<1>1. \A s \in SUBSET S : IsFiniteSet(s) /\ Cardinality(s) \in Nat
  BY FS_Subset, FS_CardinalityType
<1>2. 0 \in T
  BY <1>1, FS_EmptySet
<1>3. ASSUME NEW n \in Nat, n \in T PROVE n + 1 \in T
  <2>. SUFFICES ASSUME NEW s \in SUBSET S, Cardinality(s) = n + 1 PROVE s \in Right
    BY <1>3
  <2>1. s # {}
    BY FS_EmptySet
  <2>2. Rest(s) \in SUBSET S /\ Cardinality(Rest(s)) = n
    BY <1>1, <2>1, RestIs
  <2>. QED
    BY <1>3, <2>1, <2>2
<1>4. ASSUME NEW s \in SUBSET S PROVE s \in Right
  <2>. DEFINE N == Cardinality(s)
  <2>1. N \in Nat
    BY <1>1
  <2>. HIDE DEF T
  <2>2. \A n \in 0 .. N : n \in T
    BY <1>2, <1>3, <2>1, CountUp
  <2>3. N \in T
    BY <2>1, <2>2
  <2>. QED
    BY <2>3 DEF T
<1>. QED
  BY <1>4

\* f adds up what w says of the elements, for each subset of S.
Adds(f, w, S) ==
  f = [s \in SUBSET S |-> IF s = {} THEN 0 ELSE w[Pick(s)] + f[Rest(s)]]

\* There is one that does.
LEMMA SumExists ==
  ASSUME NEW S, IsFiniteSet(S), NEW w
  PROVE  \E f : Adds(f, w, S)
<1>. DEFINE Upto(f, n) == /\ f = [s \in SUBSET S |-> f[s]]
                          /\ \A s \in SUBSET S : Cardinality(s) <= n =>
                               f[s] = IF s = {} THEN 0 ELSE w[Pick(s)] + f[Rest(s)]
            T == {n \in Nat : \E f : Upto(f, n)}
            N == Cardinality(S)
<1>1. \A s \in SUBSET S : IsFiniteSet(s) /\ Cardinality(s) \in Nat /\ Cardinality(s) <= N
  BY FS_Subset, FS_CardinalityType
<1>2. 0 \in T
  <2>. DEFINE f == [s \in SUBSET S |-> 0]
  <2>1. \A s \in SUBSET S : Cardinality(s) <= 0 => s = {}
    BY <1>1, FS_EmptySet
  <2>2. Upto(f, 0)
    BY <2>1
  <2>. QED
    BY <2>2
<1>3. ASSUME NEW n \in Nat, n \in T PROVE n + 1 \in T
  <2>1. PICK f : Upto(f, n)
    BY <1>3
  <2>. DEFINE g == [s \in SUBSET S |->
                      IF Cardinality(s) = n + 1 THEN w[Pick(s)] + f[Rest(s)] ELSE f[s]]
  <2>2. ASSUME NEW s \in SUBSET S, Cardinality(s) <= n + 1
        PROVE  g[s] = IF s = {} THEN 0 ELSE w[Pick(s)] + g[Rest(s)]
    <3>1. CASE s = {}
      <4>1. Cardinality(s) = 0
        BY <3>1, FS_EmptySet
      <4>. QED
        <5>1. s \in SUBSET S /\ Cardinality(s) <= n /\ Cardinality(s) # n + 1
          BY <1>3, <4>1
        <5>2. g[s] = f[s] /\ f[s] = 0
          BY <2>1, <3>1, <5>1
        <5>. QED
          BY <3>1, <5>2
    <3>2. CASE s # {}
      <4>1. Rest(s) \in SUBSET S /\ Cardinality(Rest(s)) = Cardinality(s) - 1 /\ Cardinality(s) \in Nat
        BY <1>1, <3>2, RestIs
      <4>2. g[Rest(s)] = f[Rest(s)]
        BY <1>3, <2>2, <4>1
      <4>3. CASE Cardinality(s) = n + 1
        BY <3>2, <4>2, <4>3
      <4>4. CASE Cardinality(s) # n + 1
        <5>1. Cardinality(s) <= n
          BY <1>3, <2>2, <4>1, <4>4
        <5>2. g[s] = f[s]
          BY <4>4
        <5>. QED
          BY <2>1, <3>2, <4>2, <5>1, <5>2
      <4>. QED
        BY <4>3, <4>4
    <3>. QED
      BY <3>1, <3>2
  <2>3. Upto(g, n + 1)
    BY <2>2
  <2>. HIDE DEF g, Upto
  <2>. QED
    BY <1>3, <2>3
<1>4. N \in Nat
  BY FS_CardinalityType
<1>5. N \in T
  <2>. HIDE DEF T, N
  <2>1. \A n \in 0 .. N : n \in T
    BY <1>2, <1>3, <1>4, CountUp
  <2>. QED
    BY <1>4, <2>1
<1>6. PICK f : Upto(f, N)
  BY <1>5
<1>7. /\ f = [s \in SUBSET S |-> f[s]]
      /\ \A s \in SUBSET S : f[s] = IF s = {} THEN 0 ELSE w[Pick(s)] + f[Rest(s)]
  BY <1>1, <1>6
<1>8. [s \in SUBSET S |-> f[s]] = [s \in SUBSET S |-> IF s = {} THEN 0 ELSE w[Pick(s)] + f[Rest(s)]]
  BY <1>7
<1>. QED
  BY <1>7, <1>8 DEF Adds

\* What a sum is made of.
LEMMA SumSteps ==
  ASSUME NEW S, NEW w, NEW f, Adds(f, w, S)
  PROVE  /\ f[{}] = 0
         /\ \A s \in SUBSET S : s # {} => f[s] = w[Pick(s)] + f[Rest(s)]
<1>1. \A s \in SUBSET S : f[s] = IF s = {} THEN 0 ELSE w[Pick(s)] + f[Rest(s)]
  BY DEF Adds
<1>. QED
  BY <1>1

\* A sum of numbers, one of them k times the other or at most that.
LEMMA SumsCompare ==
  ASSUME NEW S, IsFiniteSet(S), NEW w, NEW v, NEW f, NEW g, Adds(f, w, S), Adds(g, v, S),
         NEW k \in Nat, \A x \in S : w[x] \in Nat /\ v[x] \in Nat /\ w[x] <= k * v[x]
  PROVE  \A s \in SUBSET S : f[s] \in Nat /\ g[s] \in Nat /\ f[s] <= k * g[s]
<1>. DEFINE Right == {s \in SUBSET S : f[s] \in Nat /\ g[s] \in Nat /\ f[s] <= k * g[s]}
<1>1. {} \in Right
  BY SumSteps
<1>2. ASSUME NEW s \in SUBSET S, s # {}, Rest(s) \in Right
      PROVE  s \in Right
  <2>1. f[s] = w[Pick(s)] + f[Rest(s)] /\ g[s] = v[Pick(s)] + g[Rest(s)]
    BY <1>2, SumSteps
  <2>2. Pick(s) \in S
    BY <1>2 DEF Pick
  <2>3. \A a, b, c, d \in Nat : a <= k * b /\ c <= k * d => a + c \in Nat /\ b + d \in Nat /\ a + c <= k * (b + d)
    OBVIOUS
  <2>. QED
    BY <1>2, <2>1, <2>2, <2>3
<1>. HIDE DEF Right
<1>3. \A s \in SUBSET S : s \in Right
  BY <1>1, <1>2, SubsetInduction
<1>. QED
  BY <1>3 DEF Right

\* And exactly k times.
LEMMA SumsScale ==
  ASSUME NEW S, IsFiniteSet(S), NEW w, NEW v, NEW f, NEW g, Adds(f, w, S), Adds(g, v, S),
         NEW k \in Nat, \A x \in S : v[x] \in Nat /\ w[x] = k * v[x]
  PROVE  \A s \in SUBSET S : g[s] \in Nat /\ f[s] = k * g[s]
<1>. DEFINE Right == {s \in SUBSET S : g[s] \in Nat /\ f[s] = k * g[s]}
<1>1. {} \in Right
  BY SumSteps
<1>2. ASSUME NEW s \in SUBSET S, s # {}, Rest(s) \in Right
      PROVE  s \in Right
  <2>1. f[s] = w[Pick(s)] + f[Rest(s)] /\ g[s] = v[Pick(s)] + g[Rest(s)]
    BY <1>2, SumSteps
  <2>2. Pick(s) \in S
    BY <1>2 DEF Pick
  <2>3. \A b, d \in Nat : b + d \in Nat /\ k * b + k * d = k * (b + d)
    OBVIOUS
  <2>. QED
    BY <1>2, <2>1, <2>2, <2>3
<1>. HIDE DEF Right
<1>3. \A s \in SUBSET S : s \in Right
  BY <1>1, <1>2, SubsetInduction
<1>. QED
  BY <1>3 DEF Right

\* A sum of positive numbers is positive.
LEMMA SumsArePositive ==
  ASSUME NEW S, IsFiniteSet(S), S # {}, NEW w, NEW f, Adds(f, w, S), \A x \in S : w[x] \in Nat \ {0}
  PROVE  f[S] \in Nat \ {0}
<1>1. \A s \in SUBSET S : f[s] \in Nat
  <2>1. \A x \in S : w[x] \in Nat /\ w[x] <= 1 * w[x]
    OBVIOUS
  <2>2. 1 \in Nat
    OBVIOUS
  <2>. QED
    BY <2>1, <2>2, SumsCompare
<1>2. f[S] = w[Pick(S)] + f[Rest(S)] /\ Pick(S) \in S /\ Rest(S) \in SUBSET S
  <2>1. S \in SUBSET S /\ \A s \in SUBSET S : s # {} => f[s] = w[Pick(s)] + f[Rest(s)]
    BY SumSteps
  <2>. QED
    BY <2>1 DEF Pick, Rest
<1>. QED
  BY <1>1, <1>2
-----------------------------------------------------------------------------
(* The order of a sum *)

\* Of the subsets of S, those that are right whenever what is left of them
\* without an element is.
LEMMA LessOneInduction ==
  ASSUME NEW S, IsFiniteSet(S), NEW Right, {} \in Right,
         \A s \in SUBSET S : (s # {} /\ \A x \in s : s \ {x} \in Right) => s \in Right
  PROVE  \A s \in SUBSET S : s \in Right
<1>. DEFINE T == {n \in Nat : \A s \in SUBSET S : Cardinality(s) = n => s \in Right}
<1>1. \A s \in SUBSET S : IsFiniteSet(s) /\ Cardinality(s) \in Nat
  BY FS_Subset, FS_CardinalityType
<1>2. 0 \in T
  BY <1>1, FS_EmptySet
<1>3. ASSUME NEW n \in Nat, n \in T PROVE n + 1 \in T
  <2>. SUFFICES ASSUME NEW s \in SUBSET S, Cardinality(s) = n + 1 PROVE s \in Right
    BY <1>3
  <2>0. Cardinality({}) = 0
    BY FS_EmptySet
  <2>1. s # {}
    <3>. HIDE DEF T
    <3>1. n + 1 # 0
      OBVIOUS
    <3>. QED
      BY <2>0, <3>1
  <2>2. ASSUME NEW x \in s PROVE s \ {x} \in Right
    <3>1. Cardinality(s \ {x}) = n /\ s \ {x} \in SUBSET S
      BY <1>1, FS_RemoveElement
    <3>. QED
      BY <1>3, <3>1
  <2>. QED
    BY <2>1, <2>2
<1>4. ASSUME NEW s \in SUBSET S PROVE s \in Right
  <2>. DEFINE N == Cardinality(s)
  <2>1. N \in Nat
    BY <1>1
  <2>. HIDE DEF T
  <2>2. \A n \in 0 .. N : n \in T
    BY <1>2, <1>3, <2>1, CountUp
  <2>3. N \in T
    BY <2>1, <2>2
  <2>. QED
    BY <2>3 DEF T
<1>. QED
  BY <1>4

\* A sum of numbers is a number, whichever element is taken out first.
LEMMA SumsAnyOrder ==
  ASSUME NEW S, IsFiniteSet(S), NEW w, NEW f, Adds(f, w, S), \A x \in S : w[x] \in Nat
  PROVE  \A s \in SUBSET S : /\ f[s] \in Nat
                             /\ \A x \in s : f[s] = w[x] + f[s \ {x}]
<1>1. \A s \in SUBSET S : f[s] \in Nat
  <2>1. \A x \in S : w[x] \in Nat /\ w[x] <= 1 * w[x]
    OBVIOUS
  <2>2. 1 \in Nat
    OBVIOUS
  <2>. QED
    BY <2>1, <2>2, SumsCompare
<1>. DEFINE Right == {s \in SUBSET S : \A x \in s : f[s] = w[x] + f[s \ {x}]}
<1>2. {} \in Right
  OBVIOUS
<1>3. ASSUME NEW s \in SUBSET S, s # {}, \A x \in s : s \ {x} \in Right
      PROVE  s \in Right
  <2>. SUFFICES ASSUME NEW x \in s PROVE f[s] = w[x] + f[s \ {x}]
    OBVIOUS
  <2>. DEFINE p == Pick(s)
  <2>1. p \in s /\ f[s] = w[p] + f[s \ {p}]
    BY <1>3, SumSteps DEF Pick, Rest
  <2>. HIDE DEF p
  <2>2. CASE x = p
    BY <2>1, <2>2
  <2>3. CASE x # p
    <3>1. x \in s \ {p} /\ p \in s \ {x}
      BY <2>1, <2>3
    <3>2. s \ {p} \in Right /\ s \ {x} \in Right
      BY <1>3, <2>1
    <3>3. f[s \ {p}] = w[x] + f[(s \ {p}) \ {x}] /\ f[s \ {x}] = w[p] + f[(s \ {x}) \ {p}]
      BY <3>1, <3>2
    <3>4. (s \ {p}) \ {x} = (s \ {x}) \ {p} /\ (s \ {x}) \ {p} \in SUBSET S
      OBVIOUS
    <3>5. w[p] \in Nat /\ w[x] \in Nat /\ f[(s \ {x}) \ {p}] \in Nat
      BY <1>1, <2>1, <3>4
    <3>6. \A a, b, c, d, e \in Nat : a = b + c /\ c = d + e => a = d + (b + e)
      OBVIOUS
    <3>7. /\ f[s] \in Nat /\ f[s \ {p}] \in Nat
          /\ f[s \ {p}] = w[x] + f[(s \ {x}) \ {p}] /\ f[s] = w[p] + f[s \ {p}]
      BY <1>1, <2>1, <3>3, <3>4
    <3>8. f[s] = w[x] + (w[p] + f[(s \ {x}) \ {p}])
      BY <3>5, <3>6, <3>7
    <3>. QED
      BY <3>3, <3>8
  <2>. QED
    BY <2>2, <2>3
<1>. HIDE DEF Right
<1>4. \A s \in SUBSET S : s \in Right
  BY <1>2, <1>3, LessOneInduction
<1>. QED
  BY <1>1, <1>4 DEF Right

\* A sum over a part of S is one over S that counts nothing for the rest.
LEMMA SumsPadded ==
  ASSUME NEW S, IsFiniteSet(S), NEW P \in SUBSET S, NEW w, NEW v, NEW f, NEW g,
         Adds(f, w, P), Adds(g, v, S), \A x \in P : w[x] \in Nat /\ v[x] = w[x],
         \A x \in S \ P : v[x] = 0
  PROVE  f[P] = g[S]
<1>. DEFINE Right == {s \in SUBSET S : g[s] = f[s \intersect P]}
<1>0. IsFiniteSet(P)
  BY FS_Subset
<1>1. \A s \in SUBSET P : f[s] \in Nat /\ \A x \in s : f[s] = w[x] + f[s \ {x}]
  BY <1>0, SumsAnyOrder
<1>2. {} \in Right
  <2>1. g[{}] = 0 /\ f[{}] = 0 /\ {} \intersect P = {}
    BY SumSteps
  <2>. QED
    BY <2>1
<1>3. ASSUME NEW s \in SUBSET S, s # {}, Rest(s) \in Right
      PROVE  s \in Right
  <2>. DEFINE p == Pick(s)
  <2>1. p \in s /\ g[s] = v[p] + g[s \ {p}] /\ s \ {p} \in Right
    BY <1>3, SumSteps DEF Pick, Rest
  <2>. HIDE DEF p
  <2>2. g[s \ {p}] = f[(s \ {p}) \intersect P] /\ (s \ {p}) \intersect P \in SUBSET P
    BY <2>1
  <2>3. CASE p \in P
    <3>1. (s \ {p}) \intersect P = (s \intersect P) \ {p} /\ p \in s \intersect P
      BY <2>1, <2>3
    <3>2. f[s \intersect P] = w[p] + f[(s \intersect P) \ {p}]
      BY <1>1, <3>1
    <3>. QED
      BY <2>1, <2>2, <2>3, <3>1, <3>2
  <2>4. CASE p \notin P
    <3>1. (s \ {p}) \intersect P = s \intersect P /\ s \intersect P \in SUBSET P
      BY <2>4
    <3>2. v[p] = 0 /\ f[s \intersect P] \in Nat
      BY <1>1, <2>1, <2>4, <3>1
    <3>3. g[s] = 0 + f[s \intersect P]
      BY <2>1, <2>2, <3>1, <3>2
    <3>. QED
      BY <3>2, <3>3
  <2>. QED
    BY <2>3, <2>4
<1>. HIDE DEF Right
<1>4. S \in Right
  BY <1>2, <1>3, SubsetInduction
<1>. QED
  <2>1. S \intersect P = P
    OBVIOUS
  <2>. QED
    BY <1>4, <2>1 DEF Right

-----------------------------------------------------------------------------
(* The total of a finite set *)

TotalOf(w, S) == (CHOOSE f : Adds(f, w, S))[S]

\* The total is what any function that adds up says of the whole set.
LEMMA TotalIs ==
  ASSUME NEW S, IsFiniteSet(S), NEW w
  PROVE  /\ \E f : Adds(f, w, S) /\ TotalOf(w, S) = f[S]
         /\ \A f : Adds(f, w, S) => TotalOf(w, S) = f[S]
<1>1. PICK f : Adds(f, w, S)
  BY SumExists
<1>. DEFINE g == CHOOSE h : Adds(h, w, S)
<1>2. Adds(g, w, S)
  BY <1>1
<1>. HIDE DEF g
<1>3. ASSUME NEW h, Adds(h, w, S)
      PROVE  g[S] = h[S]
  <2>. DEFINE Right == {s \in SUBSET S : g[s] = h[s]}
  <2>1. {} \in Right
    BY <1>2, <1>3, SumSteps
  <2>2. ASSUME NEW s \in SUBSET S, s # {}, Rest(s) \in Right
        PROVE  s \in Right
    <3>1. g[s] = w[Pick(s)] + g[Rest(s)] /\ h[s] = w[Pick(s)] + h[Rest(s)]
      BY <1>2, <1>3, <2>2, SumSteps
    <3>. QED
      BY <2>2, <3>1
  <2>. HIDE DEF Right
  <2>3. \A s \in SUBSET S : s \in Right
    BY <2>1, <2>2, SubsetInduction
  <2>. QED
    BY <2>3 DEF Right
<1>4. TotalOf(w, S) = g[S]
  BY DEF TotalOf, g
<1>. QED
  BY <1>2, <1>3, <1>4

\* What is nowhere more adds up to no more.
LEMMA TotalsCompare ==
  ASSUME NEW S, IsFiniteSet(S), NEW w, NEW v,
         \A x \in S : w[x] \in Nat /\ v[x] \in Nat /\ w[x] <= v[x]
  PROVE  TotalOf(w, S) \in Nat /\ TotalOf(v, S) \in Nat /\ TotalOf(w, S) <= TotalOf(v, S)
<1>1. PICK f : Adds(f, w, S) /\ TotalOf(w, S) = f[S]
  BY TotalIs
<1>2. PICK g : Adds(g, v, S) /\ TotalOf(v, S) = g[S]
  BY TotalIs
<1>3. 1 \in Nat /\ \A x \in S : w[x] \in Nat /\ v[x] \in Nat /\ w[x] <= 1 * v[x]
  OBVIOUS
<1>4. \A s \in SUBSET S : f[s] \in Nat /\ g[s] \in Nat /\ f[s] <= 1 * g[s]
  BY <1>1, <1>2, <1>3, SumsCompare
<1>5. S \in SUBSET S
  OBVIOUS
<1>. QED
  BY <1>1, <1>2, <1>4, <1>5

\* A total of numbers is a number, of positive ones a positive one.
LEMMA TotalsAreNumbers ==
  ASSUME NEW S, IsFiniteSet(S), NEW w, \A x \in S : w[x] \in Nat
  PROVE  /\ TotalOf(w, S) \in Nat
         /\ (\A x \in S : w[x] = 0) => TotalOf(w, S) = 0
         /\ (S # {} /\ \A x \in S : w[x] # 0) => TotalOf(w, S) # 0
<1>1. PICK f : Adds(f, w, S) /\ TotalOf(w, S) = f[S]
  BY TotalIs
<1>2. S \in SUBSET S /\ \A x \in S : w[x] <= w[x]
  OBVIOUS
<1>3. TotalOf(w, S) \in Nat
  BY <1>2, TotalsCompare
<1>4. ASSUME \A x \in S : w[x] = 0
      PROVE  TotalOf(w, S) = 0
  <2>1. 0 \in Nat /\ \A x \in S : w[x] \in Nat /\ w[x] = 0 * w[x]
    BY <1>4
  <2>2. \A s \in SUBSET S : f[s] \in Nat /\ f[s] = 0 * f[s]
    BY <1>1, <2>1, SumsScale
  <2>. QED
    BY <1>1, <1>2, <2>2
<1>5. ASSUME S # {}, \A x \in S : w[x] # 0
      PROVE  TotalOf(w, S) # 0
  <2>1. \A x \in S : w[x] \in Nat \ {0}
    BY <1>5
  <2>. QED
    BY <1>1, <1>5, <2>1, SumsArePositive
<1>. QED
  BY <1>3, <1>4, <1>5

\* Two totals that make up k times a third, everywhere.
LEMMA TotalsMakeUp ==
  ASSUME NEW S, IsFiniteSet(S), NEW u, NEW v, NEW w, NEW k \in Nat,
         \A x \in S : u[x] \in Nat /\ v[x] \in Nat /\ w[x] \in Nat /\ u[x] + v[x] = k * w[x]
  PROVE  TotalOf(u, S) + TotalOf(v, S) = k * TotalOf(w, S)
<1>1. PICK f : Adds(f, u, S) /\ TotalOf(u, S) = f[S]
  BY TotalIs
<1>2. PICK g : Adds(g, v, S) /\ TotalOf(v, S) = g[S]
  BY TotalIs
<1>3. PICK h : Adds(h, w, S) /\ TotalOf(w, S) = h[S]
  BY TotalIs
<1>. DEFINE Right == {s \in SUBSET S : /\ f[s] \in Nat /\ g[s] \in Nat /\ h[s] \in Nat
                                       /\ f[s] + g[s] = k * h[s]}
<1>4. {} \in Right
  BY <1>1, <1>2, <1>3, SumSteps
<1>5. ASSUME NEW s \in SUBSET S, s # {}, Rest(s) \in Right
      PROVE  s \in Right
  <2>1. /\ f[s] = u[Pick(s)] + f[Rest(s)] /\ g[s] = v[Pick(s)] + g[Rest(s)]
        /\ h[s] = w[Pick(s)] + h[Rest(s)]
    BY <1>1, <1>2, <1>3, <1>5, SumSteps
  <2>2. Pick(s) \in S
    BY <1>5 DEF Pick
  <2>3. \A a, b, c, d, e, m \in Nat : a + b = k * c /\ d + e = k * m =>
          /\ a + d \in Nat /\ b + e \in Nat /\ c + m \in Nat
          /\ (a + d) + (b + e) = k * (c + m)
    OBVIOUS
  <2>. QED
    BY <1>5, <2>1, <2>2, <2>3
<1>. HIDE DEF Right
<1>6. \A s \in SUBSET S : s \in Right
  BY <1>4, <1>5, SubsetInduction
<1>. QED
  BY <1>1, <1>2, <1>3, <1>6 DEF Right

\* The total of a part is one of the whole that counts nothing for the rest.
LEMMA TotalsPadded ==
  ASSUME NEW S, IsFiniteSet(S), NEW P \in SUBSET S, NEW w, NEW v,
         \A x \in P : w[x] \in Nat /\ v[x] = w[x], \A x \in S \ P : v[x] = 0
  PROVE  TotalOf(w, P) = TotalOf(v, S)
<1>1. IsFiniteSet(P)
  BY FS_Subset
<1>2. PICK f : Adds(f, w, P) /\ TotalOf(w, P) = f[P]
  BY <1>1, TotalIs
<1>3. PICK g : Adds(g, v, S) /\ TotalOf(v, S) = g[S]
  BY TotalIs
<1>. QED
  BY <1>2, <1>3, SumsPadded

-----------------------------------------------------------------------------
(* Totals by classes *)

\* A function takes a finite set to a finite set.
LEMMA ImagesAreFinite ==
  ASSUME NEW S, IsFiniteSet(S), NEW f
  PROVE  IsFiniteSet({f[x] : x \in S})
<1>. DEFINE T == {f[x] : x \in S}
            g == [x \in S |-> f[x]]
<1>1. g \in Surjection(S, T)
  BY DEF Surjection
<1>. HIDE DEF g, T
<1>2. IsFiniteSet(T)
  BY <1>1, FS_Surjection
<1>. QED
  BY <1>2 DEF T

\* A total is that of the others and what any one element adds.
LEMMA TotalsSplit ==
  ASSUME NEW S, IsFiniteSet(S), NEW x \in S, NEW w, \A y \in S : w[y] \in Nat
  PROVE  /\ TotalOf(w, S \ {x}) \in Nat
         /\ TotalOf(w, S) = w[x] + TotalOf(w, S \ {x})
<1>. DEFINE t == S \ {x}
<1>1. t \in SUBSET S /\ IsFiniteSet(t)
  BY FS_Subset
<1>2. PICK f : Adds(f, w, S) /\ TotalOf(w, S) = f[S]
  BY TotalIs
<1>. DEFINE g == [s \in SUBSET t |-> f[s]]
<1>3. Adds(g, w, t)
  <2>1. ASSUME NEW s \in SUBSET t, s # {}
        PROVE  Rest(s) \in SUBSET t /\ f[s] = w[Pick(s)] + f[Rest(s)]
    <3>1. s \in SUBSET S
      BY <1>1
    <3>. QED
      BY <1>2, <2>1, <3>1, SumSteps DEF Rest
  <2>2. f[{}] = 0
    BY <1>2, SumSteps
  <2>. HIDE DEF t
  <2>. QED
    BY <2>1, <2>2 DEF Adds
<1>4. TotalOf(w, t) = f[t]
  <2>. HIDE DEF t
  <2>. QED
    BY <1>1, <1>3, TotalIs
<1>5. f[S] = w[x] + f[t]
  BY <1>2, SumsAnyOrder
<1>6. TotalOf(w, t) \in Nat
  BY <1>1, TotalsAreNumbers
<1>. QED
  BY <1>2, <1>4, <1>5, <1>6

\* The same weights have the same total.
LEMMA TotalsAgree ==
  ASSUME NEW S, IsFiniteSet(S), NEW w, NEW v, \A x \in S : w[x] \in Nat /\ v[x] = w[x]
  PROVE  TotalOf(w, S) \in Nat /\ TotalOf(v, S) = TotalOf(w, S)
<1>1. /\ \A x \in S : w[x] \in Nat /\ v[x] \in Nat /\ w[x] <= v[x]
      /\ \A x \in S : v[x] \in Nat /\ w[x] \in Nat /\ v[x] <= w[x]
  OBVIOUS
<1>2. TotalOf(w, S) \in Nat /\ TotalOf(v, S) \in Nat /\ TotalOf(w, S) <= TotalOf(v, S)
  BY <1>1, TotalsCompare
<1>3. TotalOf(v, S) <= TotalOf(w, S)
  BY <1>1, TotalsCompare
<1>. QED
  BY <1>2, <1>3

\* What a single element adds up to, and none.
LEMMA TotalsOfOne ==
  ASSUME NEW x, NEW w, w[x] \in Nat
  PROVE  TotalOf(w, {x}) = w[x] /\ TotalOf(w, {}) = 0
<1>1. IsFiniteSet({x}) /\ IsFiniteSet({})
  BY FS_Singleton, FS_EmptySet
<1>2. TotalOf(w, {}) = 0
  BY <1>1, TotalsAreNumbers
<1>3. TotalOf(w, {x}) = w[x] + TotalOf(w, {x} \ {x})
  BY <1>1, TotalsSplit
<1>4. {x} \ {x} = {}
  OBVIOUS
<1>. QED
  BY <1>2, <1>3, <1>4

Class(s, h, a) == {x \in s : h[x] = a}
ByClass(w, s, h, A) == [a \in A |-> TotalOf(w, Class(s, h, a))]

\* A total is the total of its classes' totals.
LEMMA TotalsByClass ==
  ASSUME NEW S, IsFiniteSet(S), NEW A, IsFiniteSet(A), NEW w, NEW h,
         \A x \in S : w[x] \in Nat /\ h[x] \in A
  PROVE  /\ TotalOf(ByClass(w, S, h, A), A) = TotalOf(w, S)
         /\ \A a \in A : TotalOf(w, Class(S, h, a)) \in Nat
<1>. DEFINE Right == {s \in SUBSET S : TotalOf(ByClass(w, s, h, A), A) = TotalOf(w, s)}
<1>1. ASSUME NEW s \in SUBSET S
      PROVE  /\ IsFiniteSet(s) /\ \A x \in s : w[x] \in Nat
             /\ \A a \in A : /\ IsFiniteSet(Class(s, h, a))
                             /\ TotalOf(w, Class(s, h, a)) \in Nat
  <2>1. IsFiniteSet(s) /\ \A x \in s : w[x] \in Nat
    BY FS_Subset
  <2>2. ASSUME NEW a \in A
        PROVE  IsFiniteSet(Class(s, h, a)) /\ TotalOf(w, Class(s, h, a)) \in Nat
    <3>1. Class(s, h, a) \subseteq s
      BY DEF Class
    <3>2. IsFiniteSet(Class(s, h, a)) /\ \A x \in Class(s, h, a) : w[x] \in Nat
      BY <2>1, <3>1, FS_Subset
    <3>. QED
      BY <3>2, TotalsAreNumbers
  <2>. QED
    BY <2>1, <2>2
<1>2. {} \in Right
  <2>1. IsFiniteSet({}) /\ TotalOf(w, {}) = 0
    BY FS_EmptySet, TotalsAreNumbers
  <2>2. \A a \in A : ByClass(w, {}, h, A)[a] = 0
    <3>1. \A a \in A : Class({}, h, a) = {}
      BY DEF Class
    <3>. QED
      BY <2>1, <3>1 DEF ByClass
  <2>. DEFINE v == ByClass(w, {}, h, A)
  <2>3. \A a \in A : v[a] \in Nat /\ v[a] = 0
    BY <2>2
  <2>. HIDE DEF v
  <2>4. TotalOf(v, A) = 0
    BY <2>3, TotalsAreNumbers
  <2>. QED
    BY <2>1, <2>4 DEF v
<1>3. ASSUME NEW s \in SUBSET S, s # {}, Rest(s) \in Right
      PROVE  s \in Right
  <2>. DEFINE p == Pick(s)  t == Rest(s)  b == h[p]
              v == ByClass(w, s, h, A)  u == ByClass(w, t, h, A)
  <2>1. p \in s /\ p \in S /\ t = s \ {p} /\ t \in SUBSET S /\ b \in A /\ w[p] \in Nat
    BY <1>1, <1>3, RestIs DEF Rest
  <2>2. TotalOf(w, s) = w[p] + TotalOf(w, t)
    <3>. HIDE DEF p, t
    <3>1. TotalOf(w, s) = w[p] + TotalOf(w, s \ {p})
      BY <1>1, <2>1, TotalsSplit
    <3>. QED
      BY <2>1, <3>1
  <2>3. \A a \in A : /\ v[a] = TotalOf(w, Class(s, h, a)) /\ v[a] \in Nat
                     /\ u[a] = TotalOf(w, Class(t, h, a)) /\ u[a] \in Nat
    <3>1. \A a \in A : /\ v[a] = TotalOf(w, Class(s, h, a)) /\ u[a] = TotalOf(w, Class(t, h, a))
      BY DEF ByClass
    <3>2. t \in SUBSET S
      BY <2>1
    <3>. HIDE DEF v, u, t
    <3>. QED
      BY <1>1, <3>1, <3>2
  <2>4. v[b] = w[p] + u[b]
    <3>1. p \in Class(s, h, b) /\ Class(s, h, b) \ {p} = Class(t, h, b)
      BY <2>1 DEF Class
    <3>2. \A y \in Class(s, h, b) : w[y] \in Nat
      BY <1>1 DEF Class
    <3>3. IsFiniteSet(Class(s, h, b))
      BY <1>1, <2>1
    <3>4. TotalOf(w, Class(s, h, b)) = w[p] + TotalOf(w, Class(t, h, b))
      <4>. HIDE DEF p, t, b
      <4>. QED
        BY <3>1, <3>2, <3>3, TotalsSplit
    <3>. HIDE DEF v, u, t, p, b
    <3>. QED
      BY <2>1, <2>3, <3>4
  <2>5. \A a \in A \ {b} : u[a] = v[a]
    <3>1. \A a \in A \ {b} : Class(s, h, a) = Class(t, h, a)
      BY <2>1 DEF Class
    <3>. HIDE DEF v, u, t, p, b
    <3>. QED
      BY <2>3, <3>1
  <2>6. t \in Right
    BY <1>3
  <2>7. TotalOf(u, A) = TotalOf(w, t)
    BY <2>6
  <2>. HIDE DEF v, u, t, p, b
  <2>8. /\ TotalOf(v, A) = v[b] + TotalOf(v, A \ {b}) /\ TotalOf(v, A \ {b}) \in Nat
        /\ TotalOf(u, A) = u[b] + TotalOf(u, A \ {b}) /\ TotalOf(u, A \ {b}) \in Nat
    BY <2>1, <2>3, TotalsSplit
  <2>9. IsFiniteSet(A \ {b})
    BY FS_Subset
  <2>10. TotalOf(v, A \ {b}) = TotalOf(u, A \ {b})
    BY <2>3, <2>5, <2>9, TotalsAgree
  <2>11. v[b] \in Nat /\ u[b] \in Nat
    BY <2>1, <2>3
  <2>12. TotalOf(v, A) = TotalOf(w, s)
    BY <2>1, <2>2, <2>4, <2>7, <2>8, <2>10, <2>11
  <2>. QED
    BY <2>12 DEF v
<1>. HIDE DEF Right
<1>4. \A s \in SUBSET S : s \in Right
  BY <1>2, <1>3, SubsetInduction
<1>. QED
  BY <1>1, <1>4 DEF Right

-----------------------------------------------------------------------------
(* Weighted means: the marks m, out of K, of the judged J *)

MarksOf(m, W, J) == TotalOf([x \in J |-> m[x] * W[x]], J)
Pool(W, J)   == TotalOf([x \in J |-> W[x]], J)

\* Marks for some of a finite set, out of K, with their weights.
Marks(m, W, J, S, K) ==
  /\ IsFiniteSet(S) /\ J \in SUBSET S /\ K \in Nat \ {0}
  /\ \A x \in S : W[x] \in Nat \ {0}
  /\ \A x \in J : m[x] \in 0 .. K

\* What each of S adds to the sum, and what it fails to.
Gains(m, W, J, S)     == [x \in S |-> IF x \in J THEN m[x] * W[x] ELSE 0]
Losses(m, W, J, S, K) == [x \in S |-> IF x \in J THEN (K - m[x]) * W[x] ELSE 0]

\* What marks K out of K has the whole pool; no more can be had.
LEMMA MarksAre ==
  ASSUME NEW m, NEW W, NEW J, NEW S, NEW K, Marks(m, W, J, S, K)
  PROVE  /\ MarksOf(m, W, J) \in Nat /\ Pool(W, J) \in Nat
         /\ J # {} => Pool(W, J) # 0
         /\ MarksOf(m, W, J) = TotalOf(Gains(m, W, J, S), S)
         /\ TotalOf(Losses(m, W, J, S, K), S) \in Nat
         /\ MarksOf(m, W, J) + TotalOf(Losses(m, W, J, S, K), S) = K * Pool(W, J)
<1>. DEFINE u == [x \in J |-> m[x] * W[x]]
            w == [x \in J |-> W[x]]
            v == [x \in J |-> (K - m[x]) * W[x]]
            uS == Gains(m, W, J, S)
            vS == Losses(m, W, J, S, K)
<1>. IsFiniteSet(S) /\ J \in SUBSET S /\ K \in Nat
  BY DEF Marks
<1>a. (\A x \in S : W[x] \in Nat \ {0}) /\ \A x \in J : m[x] \in 0 .. K
  BY DEF Marks
<1>0. IsFiniteSet(J)
  BY FS_Subset
<1>1. \A a \in 0 .. K, b \in Nat \ {0} : /\ a * b \in Nat /\ (K - a) * b \in Nat
                                         /\ a * b + (K - a) * b = K * b
  <2>. SUFFICES ASSUME NEW a \in 0 .. K, NEW b \in Nat \ {0}
                PROVE  a * b \in Nat /\ (K - a) * b \in Nat /\ a * b + (K - a) * b = K * b
    OBVIOUS
  <2>1. PICK c \in Nat : c = K - a
    OBVIOUS
  <2>2. K = a + c
    BY <2>1
  <2>3. a * b \in Nat /\ c * b \in Nat /\ a * b + c * b = (a + c) * b
    BY <2>1
  <2>. QED
    BY <2>1, <2>2, <2>3
<1>2. \A x \in J : /\ u[x] \in Nat /\ v[x] \in Nat /\ w[x] \in Nat /\ w[x] # 0
                   /\ u[x] + v[x] = K * w[x]
  BY <1>1, <1>a
<1>3. \A x \in J : uS[x] = u[x] /\ vS[x] = v[x]
  BY DEF Gains, Losses
<1>4. \A x \in S \ J : uS[x] = 0 /\ vS[x] = 0
  BY DEF Gains, Losses
<1>5. MarksOf(m, W, J) = TotalOf(u, J) /\ Pool(W, J) = TotalOf(w, J)
  BY DEF MarksOf, Pool
<1>. HIDE DEF u, v, w, uS, vS
<1>6. TotalOf(u, J) \in Nat /\ TotalOf(v, J) \in Nat /\ TotalOf(w, J) \in Nat /\ (J # {} => TotalOf(w, J) # 0)
  <2>1. (\A x \in J : u[x] \in Nat) /\ (\A x \in J : v[x] \in Nat) /\ (\A x \in J : w[x] \in Nat)
    BY <1>2
  <2>2. TotalOf(u, J) \in Nat
    BY <1>0, <2>1, TotalsAreNumbers
  <2>3. TotalOf(v, J) \in Nat
    BY <1>0, <2>1, TotalsAreNumbers
  <2>4. TotalOf(w, J) \in Nat /\ (J # {} => TotalOf(w, J) # 0)
    BY <1>0, <1>2, <2>1, TotalsAreNumbers
  <2>. QED
    BY <2>2, <2>3, <2>4
<1>7. TotalOf(u, J) + TotalOf(v, J) = K * TotalOf(w, J)
  BY <1>0, <1>2, TotalsMakeUp
<1>8. TotalOf(u, J) = TotalOf(uS, S)
  BY <1>2, <1>3, <1>4, TotalsPadded
<1>9. TotalOf(v, J) = TotalOf(vS, S)
  BY <1>2, <1>3, <1>4, TotalsPadded
<1>. QED
  BY <1>5, <1>6, <1>7, <1>8, <1>9 DEF uS, vS

\* Marks that get better, the unmarked counted as full marks later and as none
\* before: the mean does not fall.
LEMMA MeansRise ==
  ASSUME NEW W, NEW S, NEW K, NEW m, NEW J, Marks(m, W, J, S, K),
         NEW n, NEW H, Marks(n, W, H, S, K),
         \A x \in J \intersect H : m[x] <= n[x],
         \A x \in H \ J : n[x] = K,
         \A x \in J \ H : m[x] = 0
  PROVE  /\ MarksOf(m, W, J) * Pool(W, H) <= MarksOf(n, W, H) * Pool(W, J)
         /\ J = {} => MarksOf(n, W, H) = K * Pool(W, H)
         /\ H = {} => MarksOf(m, W, J) = 0
<1>. DEFINE mS == Gains(m, W, J, S)
            lS == Losses(m, W, J, S, K)
            nS == Gains(n, W, H, S)
            kS == Losses(n, W, H, S, K)
<1>. IsFiniteSet(S) /\ K \in Nat \ {0} /\ J \in SUBSET S /\ H \in SUBSET S
  BY DEF Marks
<1>0. /\ \A x \in S : W[x] \in Nat \ {0}
      /\ \A x \in J : m[x] \in 0 .. K
      /\ \A x \in H : n[x] \in 0 .. K
  BY DEF Marks
<1>1. \A a, c \in 0 .. K, b \in Nat \ {0} : a <= c =>
        /\ a * b \in Nat /\ c * b \in Nat /\ (K - a) * b \in Nat /\ (K - c) * b \in Nat
        /\ a * b <= c * b /\ (K - c) * b <= (K - a) * b
  <2>. SUFFICES ASSUME NEW a \in 0 .. K, NEW c \in 0 .. K, NEW b \in Nat \ {0}, a <= c
                PROVE  /\ a * b \in Nat /\ c * b \in Nat /\ (K - a) * b \in Nat /\ (K - c) * b \in Nat
                       /\ a * b <= c * b /\ (K - c) * b <= (K - a) * b
    OBVIOUS
  <2>1. PICK d \in Nat, e \in Nat : c = a + d /\ K = a + d + e
    <3>1. c - a \in Nat /\ K - c \in Nat /\ c = a + (c - a) /\ K = a + (c - a) + (K - c)
      OBVIOUS
    <3>. QED
      BY <3>1
  <2>2. K - c = e /\ K - a = d + e
    BY <2>1
  <2>3. a * b \in Nat /\ d * b \in Nat /\ e * b \in Nat /\ (a + d) * b = a * b + d * b
        /\ (d + e) * b = d * b + e * b
    BY <2>1
  <2>. QED
    BY <2>1, <2>2, <2>3
<1>2. ASSUME NEW x \in S
      PROVE  /\ mS[x] \in Nat /\ nS[x] \in Nat /\ lS[x] \in Nat /\ kS[x] \in Nat
             /\ mS[x] <= nS[x] /\ kS[x] <= lS[x]
             /\ x \notin J => lS[x] = 0
             /\ x \notin H => nS[x] = 0
  <2>0. /\ mS[x] = (IF x \in J THEN m[x] * W[x] ELSE 0) /\ lS[x] = (IF x \in J THEN (K - m[x]) * W[x] ELSE 0)
        /\ nS[x] = (IF x \in H THEN n[x] * W[x] ELSE 0) /\ kS[x] = (IF x \in H THEN (K - n[x]) * W[x] ELSE 0)
        /\ W[x] \in Nat \ {0}
    BY <1>0 DEF Gains, Losses
  <2>. HIDE DEF mS, lS, nS, kS
  <2>a. 0 * W[x] = 0
    BY <2>0
  <2>1. CASE x \in J /\ x \in H
    <3>1. m[x] \in 0 .. K /\ n[x] \in 0 .. K /\ m[x] <= n[x]
      BY <1>0, <2>1
    <3>. QED
      BY <1>1, <2>0, <2>1, <3>1
  <2>2. CASE x \in J /\ x \notin H
    <3>1. m[x] \in 0 .. K /\ m[x] <= m[x] /\ m[x] = 0
      BY <1>0, <2>2
    <3>2. m[x] * W[x] \in Nat /\ (K - m[x]) * W[x] \in Nat /\ m[x] * W[x] = 0
      BY <1>1, <2>0, <2>a, <3>1
    <3>. QED
      BY <2>0, <2>2, <3>2
  <2>3. CASE x \notin J /\ x \in H
    <3>1. n[x] \in 0 .. K /\ n[x] <= n[x] /\ n[x] = K /\ K - n[x] = 0
      BY <1>0, <2>3
    <3>2. n[x] * W[x] \in Nat /\ (K - n[x]) * W[x] = 0
      BY <1>1, <2>0, <2>a, <3>1
    <3>. QED
      BY <2>0, <2>3, <3>2
  <2>4. CASE x \notin J /\ x \notin H
    BY <2>0, <2>4
  <2>. QED
    BY <2>1, <2>2, <2>3, <2>4
<1>c. /\ MarksOf(m, W, J) \in Nat /\ Pool(W, J) \in Nat /\ MarksOf(m, W, J) = TotalOf(mS, S)
      /\ TotalOf(lS, S) \in Nat /\ MarksOf(m, W, J) + TotalOf(lS, S) = K * Pool(W, J)
  BY MarksAre
<1>d. /\ MarksOf(n, W, H) \in Nat /\ Pool(W, H) \in Nat /\ MarksOf(n, W, H) = TotalOf(nS, S)
      /\ TotalOf(kS, S) \in Nat /\ MarksOf(n, W, H) + TotalOf(kS, S) = K * Pool(W, H)
  BY MarksAre
<1>. HIDE DEF mS, lS, nS, kS
<1>6. TotalOf(mS, S) <= TotalOf(nS, S) /\ TotalOf(kS, S) <= TotalOf(lS, S)
  BY <1>2, TotalsCompare
<1>7. J = {} => TotalOf(lS, S) = 0
  BY <1>2, TotalsAreNumbers
<1>8. H = {} => TotalOf(nS, S) = 0
  BY <1>2, TotalsAreNumbers
<1>9. \A a, b, c, d, p, q \in Nat :
        (a + b = K * p /\ c + d = K * q /\ a <= c /\ d <= b) => a * q <= c * p
  <2>. SUFFICES ASSUME NEW a \in Nat, NEW b \in Nat, NEW c \in Nat, NEW d \in Nat,
                       NEW p \in Nat, NEW q \in Nat,
                       a + b = K * p, c + d = K * q, a <= c, d <= b
                PROVE  a * q <= c * p
    OBVIOUS
  <2>1. PICK e \in Nat, g \in Nat : c = a + e /\ b = d + g
    <3>1. c - a \in Nat /\ b - d \in Nat /\ c = a + (c - a) /\ b = d + (b - d)
      OBVIOUS
    <3>. QED
      BY <3>1
  <2>2. a * (c + d) <= c * (a + b)
    <3>1. c * (a + b) = a * (c + d) + (a * g + (e * d + e * g))
      BY <2>1
    <3>2. a * g \in Nat /\ e * d \in Nat /\ e * g \in Nat /\ a * (c + d) \in Nat
      BY <2>1
    <3>. QED
      BY <3>1, <3>2
  <2>3. K * (a * q) <= K * (c * p)
    <3>1. K * (a * q) = a * (K * q) /\ K * (c * p) = c * (K * p)
      OBVIOUS
    <3>. QED
      BY <2>2, <3>1
  <2>4. \A x, y \in Nat : K * x <= K * y => x <= y
    OBVIOUS
  <2>5. a * q \in Nat /\ c * p \in Nat
    OBVIOUS
  <2>. QED
    BY <2>3, <2>4, <2>5
<1>. QED
  BY <1>c, <1>d, <1>6, <1>7, <1>8, <1>9

-----------------------------------------------------------------------------
(* Greatest numbers, and functions made step by step *)

\* A finite set of numbers that is not empty has a greatest.
LEMMA GreatestIs ==
  ASSUME NEW S, IsFiniteSet(S), S # {}, S \subseteq Int
  PROVE  Max(S) \in S /\ Max(S) \in Int /\ \A x \in S : x <= Max(S)
<1>. DEFINE Right == {s \in SUBSET S : s # {} => \E m \in s : \A x \in s : x <= m}
<1>1. {} \in Right
  OBVIOUS
<1>2. ASSUME NEW s \in SUBSET S, s # {}, Rest(s) \in Right
      PROVE  s \in Right
  <2>1. IsFiniteSet(s)
    BY FS_Subset
  <2>2. Pick(s) \in s /\ s = Rest(s) \union {Pick(s)} /\ Rest(s) \subseteq s
    BY <1>2, <2>1, RestIs
  <2>5. Pick(s) \in Int /\ Rest(s) \subseteq Int
    BY <2>2
  <2>6. ASSUME NEW m \in s, \A x \in s : x <= m PROVE s \in Right
    BY <2>6 DEF Right
  <2>3. CASE Rest(s) = {}
    <3>1. \A x \in s : x <= Pick(s)
      BY <2>2, <2>3, <2>5
    <3>. QED
      BY <2>2, <2>6, <3>1
  <2>4. CASE Rest(s) # {}
    <3>1. PICK m \in Rest(s) : \A x \in Rest(s) : x <= m
      BY <1>2, <2>4 DEF Right
    <3>2. CASE Pick(s) <= m
      <4>1. m \in s /\ \A x \in s : x <= m
        BY <2>2, <3>1, <3>2
      <4>. QED
        BY <2>6, <4>1
    <3>3. CASE ~(Pick(s) <= m)
      <4>0. m \in Int /\ m <= Pick(s)
        BY <2>5, <3>1, <3>3
      <4>1. \A x \in s : x <= Pick(s)
        BY <2>2, <2>5, <3>1, <4>0
      <4>. QED
        BY <2>2, <2>6, <4>1
    <3>. QED
      BY <3>2, <3>3
  <2>. QED
    BY <2>3, <2>4
<1>. HIDE DEF Right
<1>3. \A s \in SUBSET S : s \in Right
  BY <1>1, <1>2, SubsetInduction
<1>4. PICK m \in S : \A x \in S : x <= m
  BY <1>3 DEF Right
<1>5. \A x \in S : m >= x
  BY <1>4
<1>. QED
  BY <1>5 DEF Max

StaysIn(V, step, S) == \A x \in S : \A v \in V : step[<<x, v>>] \in V
FoldsBy(f, S, V, base, top, step) ==
  /\ f \in [SUBSET S -> V]
  /\ \A s \in SUBSET S : f[s] = IF s = {} THEN base ELSE step[<<top[s], f[s \ {top[s]}]>>]

\* A function that folds a finite set, element after element, by any choice.
LEMMA FoldExists ==
  ASSUME NEW S, IsFiniteSet(S), NEW V, NEW base \in V, NEW top, NEW step,
         \A s \in SUBSET S : s # {} => top[s] \in s, StaysIn(V, step, S)
  PROVE  \E f : FoldsBy(f, S, V, base, top, step)
<1>0. \A x \in S : \A v \in V : step[<<x, v>>] \in V
  BY DEF StaysIn
<1>. SUFFICES \E f \in [SUBSET S -> V] : \A s \in SUBSET S :
                f[s] = IF s = {} THEN base ELSE step[<<top[s], f[s \ {top[s]}]>>]
  BY DEF FoldsBy
<1>. DEFINE Upto(f, n) == /\ f \in [SUBSET S -> V]
                          /\ \A s \in SUBSET S : Cardinality(s) <= n =>
                               f[s] = IF s = {} THEN base ELSE step[<<top[s], f[s \ {top[s]}]>>]
            T == {n \in Nat : \E f : Upto(f, n)}
            N == Cardinality(S)
<1>1. \A s \in SUBSET S : IsFiniteSet(s) /\ Cardinality(s) \in Nat /\ Cardinality(s) <= N
  BY FS_Subset, FS_CardinalityType
<1>2. 0 \in T
  <2>. DEFINE f == [s \in SUBSET S |-> base]
  <2>1. \A s \in SUBSET S : Cardinality(s) <= 0 => s = {}
    BY <1>1, FS_EmptySet
  <2>2. Upto(f, 0)
    BY <2>1
  <2>. QED
    BY <2>2
<1>3. ASSUME NEW n \in Nat, n \in T PROVE n + 1 \in T
  <2>1. PICK f : Upto(f, n)
    BY <1>3
  <2>. DEFINE g == [s \in SUBSET S |->
                      IF Cardinality(s) = n + 1 THEN step[<<top[s], f[s \ {top[s]}]>>] ELSE f[s]]
  <2>2. ASSUME NEW s \in SUBSET S, s # {}
        PROVE  /\ top[s] \in S /\ s \ {top[s]} \in SUBSET S
               /\ Cardinality(s \ {top[s]}) = Cardinality(s) - 1 /\ Cardinality(s) # 0
    BY <1>1, <2>2, FS_RemoveElement, FS_EmptySet
  <2>3. Cardinality({}) = 0
    BY FS_EmptySet
  <2>4. g \in [SUBSET S -> V]
    <3>1. ASSUME NEW s \in SUBSET S PROVE g[s] \in V
      <4>1. CASE Cardinality(s) = n + 1
        <5>0. n + 1 # 0
          OBVIOUS
        <5>1. s # {}
          <6>. HIDE DEF T, g
          <6>. QED
            BY <2>3, <4>1, <5>0
        <5>2. f[s \ {top[s]}] \in V /\ top[s] \in S
          BY <2>1, <2>2, <5>1
        <5>. QED
          BY <1>0, <4>1, <5>2
      <4>2. CASE Cardinality(s) # n + 1
        BY <2>1, <4>2
      <4>. QED
        BY <4>1, <4>2
    <3>. QED
      BY <3>1
  <2>5. ASSUME NEW s \in SUBSET S, Cardinality(s) <= n + 1
        PROVE  g[s] = IF s = {} THEN base ELSE step[<<top[s], g[s \ {top[s]}]>>]
    <3>1. CASE s = {}
      BY <2>1, <2>3, <3>1
    <3>2. CASE s # {}
      <4>1. /\ s \ {top[s]} \in SUBSET S /\ Cardinality(s) \in Nat
            /\ Cardinality(s \ {top[s]}) = Cardinality(s) - 1
        BY <1>1, <2>2, <3>2
      <4>2. g[s \ {top[s]}] = f[s \ {top[s]}]
        <5>. DEFINE t == s \ {top[s]}
        <5>1. t \in SUBSET S /\ Cardinality(t) = Cardinality(s) - 1 /\ Cardinality(s) \in Nat
          BY <4>1
        <5>. HIDE DEF t
        <5>2. Cardinality(t) # n + 1
          BY <2>5, <5>1
        <5>3. g[t] = f[t]
          BY <5>1, <5>2
        <5>. QED
          BY <5>3 DEF t
      <4>3. CASE Cardinality(s) = n + 1
        BY <3>2, <4>2, <4>3
      <4>4. CASE Cardinality(s) # n + 1
        <5>1. Cardinality(s) <= n
          BY <2>5, <4>1, <4>4
        <5>2. f[s] = step[<<top[s], f[s \ {top[s]}]>>]
          BY <2>1, <3>2, <5>1
        <5>. QED
          BY <3>2, <4>2, <4>4, <5>2
      <4>. QED
        BY <4>3, <4>4
    <3>. QED
      BY <3>1, <3>2
  <2>6. Upto(g, n + 1)
    <3>. HIDE DEF g
    <3>. QED
      BY <2>4, <2>5
  <2>. HIDE DEF Upto, g
  <2>. QED
    BY <2>6
<1>4. N \in Nat
  BY <1>1
<1>5. N \in T
  <2>. HIDE DEF T, N
  <2>1. \A n \in 0 .. N : n \in T
    BY <1>2, <1>3, <1>4, CountUp
  <2>. QED
    BY <1>4, <2>1
<1>6. PICK f : Upto(f, N)
  BY <1>5
<1>. QED
  BY <1>1, <1>6

StepByStep(f, n, V, base, step) ==
  /\ f \in [0 .. n -> V] /\ f[0] = base
  /\ \A i \in 1 .. n : f[i] = step[<<i, f[i - 1]>>]

\* A function made step by step, from 0 to n.
LEMMA StepsExist ==
  ASSUME NEW n \in Nat, NEW V, NEW base \in V, NEW step, StaysIn(V, step, 1 .. n)
  PROVE  \E f : StepByStep(f, n, V, base, step)
<1>0. \A i \in 1 .. n : \A v \in V : step[<<i, v>>] \in V
  BY DEF StaysIn
<1>. SUFFICES \E f \in [0 .. n -> V] : f[0] = base /\ \A i \in 1 .. n : f[i] = step[<<i, f[i - 1]>>]
  BY DEF StepByStep
<1>. DEFINE Upto(f, k) == /\ f \in [0 .. n -> V] /\ f[0] = base
                          /\ \A i \in 1 .. k : f[i] = step[<<i, f[i - 1]>>]
            T == {k \in Nat : \E f : Upto(f, k)}
<1>1. 0 \in T
  <2>1. Upto([i \in 0 .. n |-> base], 0)
    OBVIOUS
  <2>. QED
    BY <2>1
<1>2. ASSUME NEW k \in 0 .. n - 1, k \in T PROVE k + 1 \in T
  <2>1. PICK f : Upto(f, k)
    BY <1>2
  <2>. DEFINE g == [f EXCEPT ![k + 1] = step[<<k + 1, f[k]>>]]
  <2>2. k \in 0 .. n /\ k + 1 \in 1 .. n /\ k + 1 \in 0 .. n /\ f[k] \in V
    BY <2>1
  <2>3. g \in [0 .. n -> V] /\ g[k + 1] = step[<<k + 1, f[k]>>]
    <3>1. step[<<k + 1, f[k]>>] \in V
      BY <1>0, <2>2
    <3>2. f \in [0 .. n -> V]
      BY <2>1
    <3>. QED
      BY <2>2, <3>1, <3>2
  <2>4. \A i \in 0 .. k : g[i] = f[i]
    BY <2>1
  <2>5. ASSUME NEW i \in 1 .. k + 1
        PROVE  g[i] = step[<<i, g[i - 1]>>]
    <3>1. i - 1 \in 0 .. k
      BY <2>5
    <3>2. g[i - 1] = f[i - 1]
      BY <2>4, <3>1
    <3>3. CASE i = k + 1
      BY <2>3, <3>2, <3>3
    <3>4. CASE i # k + 1
      <4>1. i \in 1 .. k /\ i \in 0 .. k
        BY <2>5, <3>4
      <4>. QED
        BY <2>1, <2>4, <3>2, <4>1
    <3>. QED
      BY <3>3, <3>4
  <2>6. g[0] = base
    BY <2>1, <2>4
  <2>7. Upto(g, k + 1)
    <3>. HIDE DEF g
    <3>. QED
      BY <2>3, <2>5, <2>6
  <2>8. k + 1 \in Nat
    OBVIOUS
  <2>. HIDE DEF Upto, g
  <2>. QED
    BY <2>7, <2>8
<1>3. n \in T
  <2>. HIDE DEF T
  <2>1. \A k \in 0 .. n : k \in T
    BY <1>1, <1>2, CountUp
  <2>. QED
    BY <2>1
<1>. QED
  BY <1>3

LongestOf(f, S) == Max({-1} \union {f[x] : x \in S})

\* The greatest of lengths and -1.
LEMMA LongestIs ==
  ASSUME NEW S, IsFiniteSet(S), NEW f, \A x \in S : f[x] \in Int
  PROVE  /\ LongestOf(f, S) \in Int /\ LongestOf(f, S) >= -1
         /\ LongestOf(f, S) = -1 \/ \E x \in S : f[x] = LongestOf(f, S)
         /\ \A x \in S : f[x] <= LongestOf(f, S)
<1>. DEFINE T == {f[x] : x \in S}
            M == Max({-1} \union T)
<1>1. IsFiniteSet(T) /\ T \subseteq Int
  BY ImagesAreFinite
<1>. HIDE DEF T
<1>2. IsFiniteSet({-1} \union T)
  BY <1>1, FS_Singleton, FS_Union
<1>3. {-1} \union T # {} /\ {-1} \union T \subseteq Int
  BY <1>1
<1>4. M \in {-1} \union T /\ M \in Int /\ \A x \in {-1} \union T : x <= M
  <2>. DEFINE U == {-1} \union T
  <2>1. IsFiniteSet(U) /\ U # {} /\ U \subseteq Int
    BY <1>2, <1>3
  <2>. HIDE DEF U
  <2>2. Max(U) \in U /\ Max(U) \in Int /\ \A x \in U : x <= Max(U)
    BY <2>1, GreatestIs
  <2>. QED
    BY <2>2 DEF U
<1>. HIDE DEF M
<1>5. /\ M \in Int /\ -1 <= M
      /\ M = -1 \/ \E x \in S : f[x] = M
      /\ \A x \in S : f[x] <= M
  BY <1>4 DEF T
<1>. QED
  BY <1>5 DEF M, T, LongestOf
===============================================================================
