---------------------------- MODULE NaturalFacts ----------------------------
(***************************************************************************)
(* Min and Max of sets of natural numbers, facts about multiplication that *)
(* the arithmetic of the provers needs to be told, sums over finite sets   *)
(* and over intervals, and ranks in a finite order.                        *)
(***************************************************************************)
EXTENDS Integers, FiniteSetsExt, FiniteSetTheorems, WellFoundedInduction, TLAPS

\* The natural numbers are well-founded, so a set of them has a least element.
LEMMA LeastNatural ==
  ASSUME NEW S \in SUBSET Nat, S # {}
  PROVE  \E n \in S : \A m \in S : n <= m
<1> DEFINE Less == {pair \in Nat \X Nat : pair[1] < pair[2]}
<1>1. IsWellFoundedOn(Less, Nat)
  BY NatLessThanWellFounded DEF OpToRel
<1>2. PICK n \in S : \A m \in S : <<m, n>> \notin Less
  <2> HIDE DEF Less
  <2>1. QED
    BY <1>1, WFMin
<1>3. ASSUME NEW m \in S PROVE n <= m
  <2>1. <<m, n>> \in Nat \X Nat /\ ~ (m < n)
    BY <1>2
  <2>2. QED
    BY <2>1
<1>4. QED
  BY <1>3

\* The least element that Min chooses.
LEMMA MinOfNaturals ==
  ASSUME NEW S \in SUBSET Nat, S # {}
  PROVE  Min(S) \in S /\ \A m \in S : Min(S) <= m
<1>1. \E n \in S : \A m \in S : n =< m
  BY LeastNatural
<1>2. QED
  BY <1>1, Zenon DEF Min

\* A set of naturals with a bound has a largest element.
LEMMA MaxOfNaturals ==
  ASSUME NEW S \in SUBSET Nat, S # {}, NEW b \in Nat, \A s \in S : s <= b
  PROVE  Max(S) \in S /\ \A s \in S : Max(S) >= s
<1> DEFINE Above == {u \in Nat : \A s \in S : s <= u}
<1>1. PICK u \in Above : \A v \in Above : u <= v
  <2>1. Above \in SUBSET Nat /\ b \in Above
    OBVIOUS
  <2>2. QED
    BY <2>1, LeastNatural
<1>2. u \in S
  <2>1. SUFFICES ASSUME u \notin S PROVE FALSE
    OBVIOUS
  <2>2. PICK s \in S : TRUE
    OBVIOUS
  <2>3. u > s
    BY <2>1
  <2>4. u - 1 \in Above
    BY <2>1, <2>3
  <2>5. QED
    BY <1>1, <2>4
<1>3. \E m \in S : \A s \in S : m >= s
  BY <1>1, <1>2
<1>4. QED
  BY <1>3, Zenon DEF Max

-----------------------------------------------------------------------------

\* Multiplication by a natural number keeps the order.
LEMMA TimesMonotonic ==
  ASSUME NEW a \in Int, NEW b \in Int, NEW m \in Nat, a <= b
  PROVE  a * m <= b * m
<1>1. b * m = a * m + (b - a) * m
  OBVIOUS
<1>2. (b - a) * m >= 0
  OBVIOUS
<1>3. QED
  BY <1>1, <1>2

\* A quotient rounded up is the least number of times the divisor that is enough.
LEMMA RoundedUp ==
  ASSUME NEW n \in Nat \ {0}, NEW d \in Nat \ {0},
         NEW q, q = (n + d - 1) \div d
  PROVE  q \in Nat \ {0} /\ q * d >= n /\ (q - 1) * d < n
<1>1. q \in Int
  OBVIOUS
<1>2. d * q <= n + d - 1 /\ n + d - 1 < d * q + d
  OBVIOUS
<1>3. q * d >= n /\ (q - 1) * d < n
  BY <1>1, <1>2
<1>4. q >= 1
  BY <1>1, <1>3
<1>5. QED
  BY <1>1, <1>3, <1>4

-----------------------------------------------------------------------------
(* Sums over a finite set, and over an interval *)

SumOver(f, S) == MapThenSumSet(LAMBDA t : f[t], S)
SumOf(f, a, b) == SumOver(f, a .. b)

Some(T) == CHOOSE x \in T : TRUE

Summable(f, S) == IsFiniteSet(S) /\ \A t \in S : f[t] \in Int

\* The recursion by which a fold adds up f over the subsets of S.
AddsUp(it, f, S) ==
  it = [T \in SUBSET S |-> IF T = {} THEN 0 ELSE f[Some(T)] + it[T \ {Some(T)}]]

LEMMA OneLess ==
  ASSUME NEW S, IsFiniteSet(S), NEW T \in SUBSET S, NEW x \in T
  PROVE  /\ IsFiniteSet(T) /\ Cardinality(T) \in Nat
         /\ T \ {x} \in SUBSET S /\ Cardinality(T \ {x}) \in Nat
         /\ Cardinality(T \ {x}) < Cardinality(T)
<1>1. IsFiniteSet(T)
  BY FS_Subset
<1>2. /\ IsFiniteSet(T \ {x})
      /\ Cardinality(T \ {x}) = Cardinality(T) - 1
  BY <1>1, FS_RemoveElement
<1>3. Cardinality(T) \in Nat /\ Cardinality(T \ {x}) \in Nat
  BY <1>1, <1>2, FS_CardinalityType
<1>4. QED
  BY <1>1, <1>2, <1>3

\* It has a solution, since each round takes one element away.
LEMMA SumSolution ==
  ASSUME NEW S, IsFiniteSet(S), NEW f, \A t \in S : f[t] \in Int
  PROVE  \E it \in [SUBSET S -> Int] : AddsUp(it, f, S)
<1> DEFINE n == Cardinality(S)
           Small(k) == {T \in SUBSET S : Cardinality(T) <= k}
           Solves(g, k) == \A T \in Small(k) :
              g[T] = IF T = {} THEN 0 ELSE f[Some(T)] + g[T \ {Some(T)}]
           Bad == {k \in 0 .. n : ~ \E g \in [Small(k) -> Int] : Solves(g, k)}
<1>n. n \in Nat
  BY FS_CardinalityType
<1>c. \A T \in SUBSET S : Cardinality(T) \in Nat /\ Cardinality(T) <= n
  BY FS_Subset, FS_CardinalityType
<1>s. \A T \in SUBSET S : T # {} => Some(T) \in T
  BY DEF Some
<1> HIDE DEF n
<1>1. SUFFICES Bad = {}
  <2>0. n \in 0 .. n /\ n \notin Bad
    <3>1. n \notin Bad
      BY <1>1
    <3> HIDE DEF Bad
    <3>2. QED
      BY <1>n, <3>1
  <2>1. PICK g \in [Small(n) -> Int] : Solves(g, n)
    BY <2>0
  <2>2. Small(n) = SUBSET S
    BY <1>c
  <2>3. \A T \in SUBSET S : g[T] = IF T = {} THEN 0 ELSE f[Some(T)] + g[T \ {Some(T)}]
    BY <2>1, <2>2
  <2>4. g \in [SUBSET S -> Int]
    BY <2>1, <2>2
  <2>5. g = [T \in SUBSET S |-> IF T = {} THEN 0 ELSE f[Some(T)] + g[T \ {Some(T)}]]
    BY <2>3, <2>4
  <2>6. QED
    BY <2>4, <2>5 DEF AddsUp
<1>2. SUFFICES ASSUME Bad # {} PROVE FALSE
  OBVIOUS
<1>3. PICK k \in Bad : \A m \in Bad : k <= m
  <2>1. Bad \in SUBSET Nat
    BY <1>n
  <2> HIDE DEF Bad
  <2>2. QED
    BY <1>2, <2>1, LeastNatural
<1>4. k # 0
  <2> DEFINE g == [T \in Small(0) |-> 0]
  <2>1. \A T \in Small(0) : T = {}
    BY <1>c, FS_EmptySet, FS_Subset
  <2>2. g \in [Small(0) -> Int]
    OBVIOUS
  <2>3. Solves(g, 0)
    BY <2>1
  <2>4. \E x \in [Small(0) -> Int] : Solves(x, 0)
    BY <2>2, <2>3
  <2>5. 0 \notin Bad
    BY <2>4
  <2> HIDE DEF Bad
  <2>6. QED
    BY <1>3, <2>5
<1>5. k \in Nat /\ k - 1 \in 0 .. n /\ k - 1 \notin Bad
  <2>1. k \in 0 .. n
    OBVIOUS
  <2> HIDE DEF Bad
  <2>2. k - 1 \notin Bad
    BY <1>3, <1>n, <2>1
  <2>3. QED
    BY <1>n, <1>4, <2>1, <2>2
<1>6. PICK g \in [Small(k - 1) -> Int] : Solves(g, k - 1)
  BY <1>5
<1> DEFINE h == [T \in Small(k) |-> IF T \in Small(k - 1) THEN g[T]
                                    ELSE f[Some(T)] + g[T \ {Some(T)}]]
<1>7. ASSUME NEW T \in Small(k), T # {}
      PROVE  /\ T \ {Some(T)} \in Small(k - 1) /\ T \ {Some(T)} \in Small(k)
             /\ f[Some(T)] \in Int
  <2>1. Some(T) \in T /\ T \in SUBSET S
    BY <1>s, <1>7
  <2>2. /\ T \ {Some(T)} \in SUBSET S
        /\ Cardinality(T \ {Some(T)}) < Cardinality(T)
        /\ Cardinality(T \ {Some(T)}) \in Nat /\ Cardinality(T) \in Nat
    BY <2>1, OneLess
  <2>3. Cardinality(T) <= k
    OBVIOUS
  <2>4. Cardinality(T \ {Some(T)}) <= k - 1 /\ Cardinality(T \ {Some(T)}) <= k
    BY <1>5, <2>2, <2>3
  <2>5. QED
    BY <2>1, <2>2, <2>4
<1>e. {} \in Small(k - 1) /\ {} \in Small(k)
  BY <1>5, FS_EmptySet
<1>8. h \in [Small(k) -> Int]
  <2>1. ASSUME NEW T \in Small(k) PROVE h[T] \in Int
    <3>1. CASE T \in Small(k - 1)
      BY <1>6, <3>1
    <3>2. CASE T \notin Small(k - 1)
      <4>1. T # {}
        BY <1>e, <3>2
      <4>2. g[T \ {Some(T)}] \in Int /\ f[Some(T)] \in Int
        BY <1>6, <1>7, <4>1
      <4>3. h[T] = f[Some(T)] + g[T \ {Some(T)}]
        BY <3>2
      <4>4. QED
        BY <4>2, <4>3
    <3>3. QED
      BY <3>1, <3>2
  <2>2. QED
    BY <2>1
<1>9. Solves(h, k)
  <2>1. ASSUME NEW T \in Small(k)
        PROVE  h[T] = IF T = {} THEN 0 ELSE f[Some(T)] + h[T \ {Some(T)}]
    <3>1. CASE T = {}
      BY <1>6, <1>e, <3>1
    <3>2. CASE T # {}
      <4>1. h[T \ {Some(T)}] = g[T \ {Some(T)}]
        BY <1>7, <3>2
      <4>2. CASE T \in Small(k - 1)
        BY <1>6, <3>2, <4>1, <4>2
      <4>3. CASE T \notin Small(k - 1)
        BY <3>2, <4>1, <4>3
      <4>4. QED
        BY <4>2, <4>3
    <3>3. QED
      BY <3>1, <3>2
  <2>2. QED
    BY <2>1
<1>10. QED
  BY <1>3, <1>8, <1>9

\* Whatever solves it has integers for sums.
LEMMA SumsAreIntegers ==
  ASSUME NEW S, IsFiniteSet(S), NEW f, \A t \in S : f[t] \in Int,
         NEW it, AddsUp(it, f, S)
  PROVE  it \in [SUBSET S -> Int]
<1> DEFINE Bad == {Cardinality(U) : U \in {V \in SUBSET S : it[V] \notin Int}}
<1>1. SUFFICES ASSUME Bad # {} PROVE FALSE
  <2>1. \A V \in SUBSET S : it[V] \in Int
    BY <1>1
  <2>2. it = [V \in SUBSET S |-> it[V]]
    BY DEF AddsUp
  <2>3. QED
    BY <2>1, <2>2
<1>2. PICK m \in Bad : \A k \in Bad : m <= k
  <2>1. Bad \in SUBSET Nat
    BY FS_Subset, FS_CardinalityType
  <2> HIDE DEF Bad
  <2>2. QED
    BY <1>1, <2>1, LeastNatural
<1>3. PICK U \in SUBSET S : it[U] \notin Int /\ Cardinality(U) = m
  OBVIOUS
<1> DEFINE z == Some(U)
<1>4. it[U] = IF U = {} THEN 0 ELSE f[z] + it[U \ {z}]
  BY DEF AddsUp
<1>5. U # {} /\ it[U] = f[z] + it[U \ {z}]
  BY <1>3, <1>4
<1>6. z \in U
  BY <1>5 DEF Some
<1> HIDE DEF z
<1>7. U \ {z} \in SUBSET S /\ Cardinality(U \ {z}) < m /\ Cardinality(U \ {z}) \in Nat /\ m \in Nat
  BY <1>3, <1>6, OneLess
<1>8. Cardinality(U \ {z}) \notin Bad
  <2> HIDE DEF Bad
  <2>1. QED
    BY <1>2, <1>7
<1>9. it[U \ {z}] \in Int
  BY <1>7, <1>8
<1>10. f[z] \in Int
  BY <1>6
<1>11. QED
  BY <1>3, <1>5, <1>9, <1>10

\* The order does not matter: any element can be taken first.
LEMMA AnyOrder ==
  ASSUME NEW S, NEW f, Summable(f, S), NEW it, AddsUp(it, f, S),
         NEW T \in SUBSET S, NEW x \in T
  PROVE  it[T] = f[x] + it[T \ {x}]
<1>0. IsFiniteSet(S) /\ (\A t \in S : f[t] \in Int) /\ it \in [SUBSET S -> Int]
  BY SumsAreIntegers DEF Summable
<1> DEFINE Wrong(U) == \E y \in U : it[U] # f[y] + it[U \ {y}]
           Bad == {Cardinality(U) : U \in {V \in SUBSET S : Wrong(V)}}
<1>1. SUFFICES ASSUME Bad # {} PROVE FALSE
  OBVIOUS
<1>2. PICK m \in Bad : \A k \in Bad : m <= k
  <2>1. Bad \in SUBSET Nat
    BY <1>0, FS_Subset, FS_CardinalityType
  <2> HIDE DEF Bad
  <2>2. QED
    BY <1>1, <2>1, LeastNatural
<1>3. PICK U \in SUBSET S : Wrong(U) /\ Cardinality(U) = m
  OBVIOUS
<1>4. PICK y \in U : it[U] # f[y] + it[U \ {y}]
  BY <1>3
<1> DEFINE z == Some(U)
<1>5. z \in U
  BY <1>4 DEF Some
<1>6. it[U] = f[z] + it[U \ {z}]
  BY <1>5 DEF AddsUp
<1> HIDE DEF z
<1>7. y # z
  BY <1>4, <1>6
<1>8. ASSUME NEW V \in SUBSET S, Cardinality(V) < m, NEW v \in V
      PROVE  it[V] = f[v] + it[V \ {v}]
  <2>1. Cardinality(V) \notin Bad
    <3>1. Cardinality(V) \in Nat /\ m \in Nat
      BY <1>0, <1>3, FS_Subset, FS_CardinalityType
    <3> HIDE DEF Bad
    <3>2. QED
      BY <1>2, <1>8, <3>1
  <2>2. QED
    BY <2>1
<1>9. it[U \ {z}] = f[y] + it[(U \ {z}) \ {y}]
  <2>1. U \ {z} \in SUBSET S /\ Cardinality(U \ {z}) < m /\ y \in U \ {z}
    BY <1>3, <1>5, <1>7, <1>0, OneLess
  <2>2. QED
    BY <1>8, <2>1
<1>10. it[U \ {y}] = f[z] + it[(U \ {y}) \ {z}]
  <2>1. U \ {y} \in SUBSET S /\ Cardinality(U \ {y}) < m /\ z \in U \ {y}
    BY <1>3, <1>5, <1>7, <1>0, OneLess
  <2>2. QED
    BY <1>8, <2>1
<1>11. (U \ {z}) \ {y} = (U \ {y}) \ {z} /\ (U \ {y}) \ {z} \in SUBSET S
  OBVIOUS
<1> DEFINE rest == it[(U \ {y}) \ {z}]
<1>12. f[y] \in Int /\ f[z] \in Int /\ rest \in Int
  BY <1>0, <1>5, <1>11
<1>13. it[U] = f[z] + (f[y] + rest) /\ it[U \ {y}] = f[z] + rest
  BY <1>6, <1>9, <1>10, <1>11
<1> HIDE DEF rest
<1>14. it[U] = f[y] + (f[z] + rest)
  BY <1>12, <1>13
<1>15. QED
  BY <1>4, <1>13, <1>14

LEMMA SumIsSolution ==
  ASSUME NEW S, NEW f, Summable(f, S)
  PROVE  \E it : AddsUp(it, f, S) /\ it \in [SUBSET S -> Int] /\ SumOver(f, S) = it[S]
<1> DEFINE Next1(it) == [T \in SUBSET S |->
                           IF T = {} THEN 0 ELSE f[Some(T)] + it[T \ {Some(T)}]]
           fold == CHOOSE it : it = Next1(it)
<1>1. IsFiniteSet(S) /\ \A t \in S : f[t] \in Int
  BY DEF Summable
<1>2. PICK g \in [SUBSET S -> Int] : AddsUp(g, f, S)
  BY <1>1, SumSolution
<1>3. fold = Next1(fold)
  <2>1. g = Next1(g)
    BY <1>2 DEF AddsUp
  <2>2. QED
    BY <2>1
<1>4. SumOver(f, S) = fold[S]
  BY DEF SumOver, MapThenSumSet, MapThenFoldSet, Some
<1>5. AddsUp(fold, f, S)
  BY <1>3 DEF AddsUp
<1> HIDE DEF fold
<1>6. fold \in [SUBSET S -> Int]
  BY <1>1, <1>5, SumsAreIntegers
<1>7. QED
  BY <1>4, <1>5, <1>6

\* b carries f on S to g on T.
Carries(b, f, S, g, T) ==
  /\ \A x \in S : b[x] \in T /\ f[x] = g[b[x]]
  /\ \A x, y \in S : b[x] = b[y] => x = y
  /\ \A t \in T : \E x \in S : b[x] = t

\* A sum stays the same when its terms are numbered anew.
LEMMA SumMoves ==
  ASSUME NEW S, NEW f, Summable(f, S), NEW T, NEW g, Summable(g, T),
         NEW b, Carries(b, f, S, g, T)
  PROVE  SumOver(f, S) = SumOver(g, T)
<1> DEFINE To(U) == {b[x] : x \in U}
<1>1. PICK p : AddsUp(p, f, S) /\ p \in [SUBSET S -> Int] /\ SumOver(f, S) = p[S]
  BY SumIsSolution
<1>2. PICK q : AddsUp(q, g, T) /\ q \in [SUBSET T -> Int] /\ SumOver(g, T) = q[T]
  BY SumIsSolution
<1> DEFINE Bad == {Cardinality(U) : U \in {V \in SUBSET S : p[V] # q[To(V)]}}
<1>3. SUFFICES ASSUME Bad # {} PROVE FALSE
  <2>1. p[S] = q[To(S)]
    BY <1>3
  <2>2. To(S) = T
    BY DEF Carries
  <2> HIDE DEF To
  <2>3. QED
    BY <1>1, <1>2, <2>1, <2>2
<1>0. IsFiniteSet(S) /\ \A x \in S : f[x] \in Int
  BY DEF Summable
<1>4. PICK m \in Bad : \A k \in Bad : m <= k
  <2>1. Bad \in SUBSET Nat
    BY <1>0, FS_Subset, FS_CardinalityType
  <2> HIDE DEF Bad
  <2>2. QED
    BY <1>3, <2>1, LeastNatural
<1>5. PICK U \in SUBSET S : p[U] # q[To(U)] /\ Cardinality(U) = m
  OBVIOUS
<1>6. U # {}
  <2>1. CASE U = {}
    <3>1. To(U) = {} /\ {} \in SUBSET S /\ {} \in SUBSET T
      BY <2>1
    <3>2. p[{}] = 0 /\ q[{}] = 0
      BY <1>1, <1>2, <3>1 DEF AddsUp
    <3> HIDE DEF To
    <3>3. QED
      BY <1>5, <2>1, <3>1, <3>2
  <2>2. QED
    BY <2>1
<1>7. PICK z \in U : TRUE
  BY <1>6
<1>8. p[U] = f[z] + p[U \ {z}]
  BY <1>1, AnyOrder
<1>9. /\ To(U) \in SUBSET T /\ b[z] \in To(U) /\ f[z] = g[b[z]]
      /\ To(U) \ {b[z]} = To(U \ {z})
  BY <1>7 DEF Carries
<1>10. q[To(U)] = g[b[z]] + q[To(U) \ {b[z]}]
  <2> HIDE DEF To
  <2>1. PICK V \in SUBSET T : V = To(U)
    BY <1>9
  <2>2. PICK y \in V : y = b[z]
    BY <1>9, <2>1
  <2>3. q[V] = g[y] + q[V \ {y}]
    BY <1>2, AnyOrder
  <2>4. QED
    BY <2>1, <2>2, <2>3
<1>11. p[U \ {z}] = q[To(U \ {z})]
  <2>1. U \ {z} \in SUBSET S /\ Cardinality(U \ {z}) < m /\ Cardinality(U \ {z}) \in Nat /\ m \in Nat
    BY <1>0, <1>5, OneLess
  <2>2. Cardinality(U \ {z}) \notin Bad
    <3> HIDE DEF Bad
    <3>1. QED
      BY <1>4, <2>1
  <2>3. QED
    BY <2>1, <2>2
<1> HIDE DEF To
<1>12. QED
  BY <1>5, <1>8, <1>9, <1>10, <1>11

\* The sums over the beginnings of an interval.
RunsUp(p, f, a, b) ==
  /\ p \in [a - 1 .. b -> Int]
  /\ p[a - 1] = 0
  /\ \A k \in a .. b : p[k] = p[k - 1] + f[k]

LEMMA SumRunsUp ==
  ASSUME NEW a \in Int, NEW b \in Int, a - 1 <= b, NEW f, \A t \in a .. b : f[t] \in Int
  PROVE  \E p : RunsUp(p, f, a, b) /\ SumOf(f, a, b) = p[b]
<1> DEFINE S == a .. b
<1>1. IsFiniteSet(S)
  BY FS_Interval
<1>r. \A t \in S : f[t] \in Int
  OBVIOUS
<1>2. Summable(f, S)
  BY <1>1 DEF Summable
<1>3. PICK fold : AddsUp(fold, f, S) /\ fold \in [SUBSET S -> Int] /\ SumOver(f, S) = fold[S]
  BY <1>2, SumIsSolution
<1>4. SumOf(f, a, b) = fold[S]
  BY <1>3 DEF SumOf
<1> HIDE DEF S
<1>5. AddsUp(fold, f, S)
  BY <1>3
<1>i. fold \in [SUBSET S -> Int]
  BY <1>3
<1>o. \A T \in SUBSET S : \A x \in T : fold[T] = f[x] + fold[T \ {x}]
  <2>1. Summable(f, S)
    BY <1>1, <1>r DEF Summable
  <2>2. ASSUME NEW T \in SUBSET S, NEW x \in T
        PROVE  fold[T] = f[x] + fold[T \ {x}]
    BY <1>5, <2>1, AnyOrder
  <2>3. QED
    BY <2>2
<1> USE DEF S
<1> DEFINE p == [k \in a - 1 .. b |-> fold[a .. k]]
<1>6. p[a - 1] = 0
  <2>1. a .. a - 1 = {} /\ {} \in SUBSET S /\ a - 1 \in a - 1 .. b
    OBVIOUS
  <2>2. fold[{}] = 0
    BY <1>5, <2>1 DEF AddsUp
  <2> HIDE DEF S
  <2>3. QED
    BY <2>1, <2>2
<1>7. ASSUME NEW k \in a .. b PROVE p[k] = p[k - 1] + f[k]
  <2>1. /\ a .. k \in SUBSET S /\ k \in a .. k /\ (a .. k) \ {k} = a .. k - 1
        /\ k \in a - 1 .. b /\ k - 1 \in a - 1 .. b /\ k \in S
        /\ a .. k - 1 \in SUBSET S
    OBVIOUS
  <2>2. fold[a .. k] = f[k] + fold[a .. k - 1]
    <3> DEFINE T == a .. k
    <3>1. T \in SUBSET S /\ k \in T
      BY <2>1
    <3> HIDE DEF S, T
    <3>2. fold[T] = f[k] + fold[T \ {k}]
      BY <1>o, <3>1
    <3>3. QED
      BY <2>1, <3>2 DEF T
  <2>3. f[k] \in Int /\ fold[a .. k - 1] \in Int
    BY <1>i, <2>1
  <2>4. p[k] = fold[a .. k] /\ p[k - 1] = fold[a .. k - 1]
    BY <2>1
  <2> HIDE DEF p
  <2>5. QED
    BY <2>2, <2>3, <2>4
<1>8. p \in [a - 1 .. b -> Int]
  <2>1. ASSUME NEW k \in a - 1 .. b PROVE fold[a .. k] \in Int
    <3>1. a .. k \in SUBSET S
      OBVIOUS
    <3> HIDE DEF S
    <3>2. QED
      BY <1>i, <3>1
  <2>2. QED
    BY <2>1
<1>9. b \in a - 1 .. b /\ p[b] = fold[S]
  OBVIOUS
<1> HIDE DEF p
<1>10. QED
  BY <1>4, <1>6, <1>7, <1>8, <1>9 DEF RunsUp

\* There is one row of such sums.
Agree(f, g, a, b) == \A t \in a .. b : f[t] = g[t]

LEMMA OneRunUp ==
  ASSUME NEW a \in Int, NEW b \in Int, a - 1 <= b, NEW f, NEW g, Agree(f, g, a, b),
         NEW p, NEW q, RunsUp(p, f, a, b), RunsUp(q, g, a, b)
  PROVE  p[b] = q[b]
<1> DEFINE Bad == {k \in Nat : a - 1 + k <= b /\ p[a - 1 + k] # q[a - 1 + k]}
<1>1. SUFFICES ASSUME Bad # {} PROVE FALSE
  <2> DEFINE m == b - (a - 1)
  <2>1. m \in Nat /\ a - 1 + m = b
    OBVIOUS
  <2> HIDE DEF m
  <2>2. m \notin Bad
    BY <1>1
  <2>3. QED
    BY <2>1, <2>2
<1>2. PICK k \in Bad : \A m \in Bad : k <= m
  <2>1. Bad \in SUBSET Nat
    OBVIOUS
  <2> HIDE DEF Bad
  <2>2. QED
    BY <1>1, <2>1, LeastNatural
<1> DEFINE t == a - 1 + k
<1>3. k # 0
  BY DEF RunsUp
<1>4. /\ t \in a .. b /\ k - 1 \in Nat /\ k - 1 < k
      /\ a - 1 + (k - 1) = t - 1 /\ t - 1 <= b
  BY <1>3
<1>5. p[t - 1] = q[t - 1]
  BY <1>2, <1>4
<1>6. p[t] = p[t - 1] + f[t] /\ q[t] = q[t - 1] + g[t] /\ f[t] = g[t]
  BY <1>4 DEF RunsUp, Agree
<1>7. p[t] # q[t]
  OBVIOUS
<1>8. QED
  BY <1>5, <1>6, <1>7

\* An empty interval adds up to nothing, each further element adds its own, and
\* what lies outside does not matter.
LEMMA SumFacts ==
  ASSUME NEW a \in Int, NEW b \in Int, a - 1 <= b, NEW f, \A t \in a .. b : f[t] \in Int
  PROVE  /\ SumOf(f, a, b) \in Int
         /\ b = a - 1 => SumOf(f, a, b) = 0
         /\ a <= b => SumOf(f, a, b) = SumOf(f, a, b - 1) + f[b]
         /\ \A g : (\A t \in a .. b : g[t] = f[t]) => SumOf(g, a, b) = SumOf(f, a, b)
<1>1. PICK p : RunsUp(p, f, a, b) /\ SumOf(f, a, b) = p[b]
  BY SumRunsUp
<1>2. SumOf(f, a, b) \in Int /\ (b = a - 1 => SumOf(f, a, b) = 0)
  BY <1>1 DEF RunsUp
<1>3. ASSUME a <= b PROVE SumOf(f, a, b) = SumOf(f, a, b - 1) + f[b]
  <2>1. /\ b - 1 \in Int /\ a - 1 <= b - 1 /\ a .. b - 1 \subseteq a .. b
        /\ b \in a .. b /\ a - 1 .. b - 1 \subseteq a - 1 .. b /\ b - 1 \in a - 1 .. b - 1
    BY <1>3
  <2>2. PICK q : RunsUp(q, f, a, b - 1) /\ SumOf(f, a, b - 1) = q[b - 1]
    BY <2>1, SumRunsUp
  <2> DEFINE r == [k \in a - 1 .. b - 1 |-> p[k]]
  <2>3. RunsUp(r, f, a, b - 1)
    BY <1>1, <2>1 DEF RunsUp
  <2>4. r[b - 1] = q[b - 1]
    BY <2>1, <2>2, <2>3, OneRunUp DEF Agree
  <2>5. p[b] = p[b - 1] + f[b] /\ r[b - 1] = p[b - 1]
    BY <1>1, <2>1 DEF RunsUp
  <2>6. QED
    BY <1>1, <2>2, <2>4, <2>5
<1>4. ASSUME NEW g, \A t \in a .. b : g[t] = f[t]
      PROVE  SumOf(g, a, b) = SumOf(f, a, b)
  <2>1. PICK q : RunsUp(q, g, a, b) /\ SumOf(g, a, b) = q[b]
    <3>1. \A t \in a .. b : g[t] \in Int
      BY <1>4
    <3>2. QED
      BY <3>1, SumRunsUp
  <2>2. Agree(f, g, a, b)
    BY <1>4 DEF Agree
  <2>3. p[b] = q[b]
    BY <1>1, <2>1, <2>2, OneRunUp
  <2>4. QED
    BY <1>1, <2>1, <2>3
<1>5. QED
  BY <1>2, <1>3, <1>4

-----------------------------------------------------------------------------
(* Ranks *)

\* R, a set of pairs, orders the elements of S strictly and totally.
Orders(R, S) ==
  /\ \A i \in S : <<i, i>> \notin R
  /\ \A i, j \in S : i # j => <<i, j>> \in R \/ <<j, i>> \in R
  /\ \A i, j, k \in S : <<i, j>> \in R /\ <<j, k>> \in R => <<i, k>> \in R

\* How many elements come before i.
Rank(R, S, i) == Cardinality({j \in S : <<j, i>> \in R})

\* The ranks of n elements are the numbers below n, each taken once and in order.
LEMMA RankFacts ==
  ASSUME NEW S, IsFiniteSet(S), NEW R, Orders(R, S)
  PROVE  /\ \A i \in S : Rank(R, S, i) \in 0 .. Cardinality(S) - 1
         /\ \A i, j \in S : Rank(R, S, i) < Rank(R, S, j) <=> <<i, j>> \in R
         /\ \A i, j \in S : Rank(R, S, i) = Rank(R, S, j) => i = j
         /\ \A p \in 1 .. Cardinality(S) : \E i \in S : Rank(R, S, i) = p - 1
<1> DEFINE n == Cardinality(S)
           before(i) == {j \in S : <<j, i>> \in R}
           rank == [i \in S |-> Rank(R, S, i)]
<1>1. n \in Nat
  BY FS_CardinalityType
<1>2. ASSUME NEW i \in S
      PROVE  /\ IsFiniteSet(before(i)) /\ Rank(R, S, i) = Cardinality(before(i))
             /\ Rank(R, S, i) \in Nat
  <2>1. before(i) \in SUBSET S
    OBVIOUS
  <2> HIDE DEF before
  <2>2. IsFiniteSet(before(i))
    BY <2>1, FS_Subset
  <2>3. Cardinality(before(i)) \in Nat
    BY <2>2, FS_CardinalityType
  <2>4. QED
    BY <2>2, <2>3 DEF Rank, before
<1>3. ASSUME NEW i \in S PROVE Rank(R, S, i) < n
  <2>1. before(i) \in SUBSET S /\ before(i) # S
    BY DEF Orders
  <2> HIDE DEF before
  <2>2. Cardinality(before(i)) <= n /\ Cardinality(before(i)) # n
    BY <2>1, FS_Subset
  <2> HIDE DEF n
  <2>3. QED
    BY <1>1, <1>2, <2>2
<1>r. \A i \in S : Rank(R, S, i) \in 0 .. n - 1
  <2> SUFFICES ASSUME NEW i \in S PROVE Rank(R, S, i) \in 0 .. n - 1
    OBVIOUS
  <2>1. Rank(R, S, i) \in Nat /\ Rank(R, S, i) < n
    BY <1>2, <1>3
  <2> HIDE DEF n
  <2>2. QED
    BY <1>1, <2>1
<1>4. ASSUME NEW i \in S, NEW j \in S, <<i, j>> \in R
      PROVE  Rank(R, S, i) < Rank(R, S, j)
  <2>1. before(i) \in SUBSET before(j)
    BY <1>4 DEF Orders
  <2>2. i \in before(j) /\ i \notin before(i)
    BY <1>4 DEF Orders
  <2> HIDE DEF before
  <2>3. before(i) # before(j)
    BY <2>2
  <2>4. /\ Cardinality(before(i)) <= Cardinality(before(j))
        /\ Cardinality(before(i)) # Cardinality(before(j))
    BY <1>2, <2>1, <2>3, FS_Subset
  <2>5. QED
    BY <1>2, <2>4
<1>5. ASSUME NEW i \in S, NEW j \in S
      PROVE  /\ Rank(R, S, i) < Rank(R, S, j) <=> <<i, j>> \in R
             /\ Rank(R, S, i) = Rank(R, S, j) => i = j
  <2>1. i # j => <<i, j>> \in R \/ <<j, i>> \in R
    BY DEF Orders
  <2>2. Rank(R, S, i) \in Nat /\ Rank(R, S, j) \in Nat
    BY <1>2
  <2>3. /\ <<i, j>> \in R => Rank(R, S, i) < Rank(R, S, j)
        /\ <<j, i>> \in R => Rank(R, S, j) < Rank(R, S, i)
    BY <1>4
  <2>4. QED
    BY <2>1, <2>2, <2>3
<1>6. ASSUME NEW p \in 1 .. n PROVE \E i \in S : Rank(R, S, i) = p - 1
  <2>1. rank \in [S -> 0 .. n - 1]
    BY <1>r
  <2>2. rank \in Injection(S, 0 .. n - 1)
    BY <1>5, <2>1 DEF Injection, IsInjective
  <2>3. IsFiniteSet(0 .. n - 1) /\ Cardinality(0 .. n - 1) = n
    <3> HIDE DEF n
    <3>1. IsFiniteSet(0 .. n - 1) /\ Cardinality(0 .. n - 1) = IF 0 > n - 1 THEN 0 ELSE n - 1 - 0 + 1
      BY <1>1, FS_Interval
    <3>2. QED
      BY <1>1, <3>1
  <2>4. rank \in Surjection(S, 0 .. n - 1)
    BY <2>2, <2>3, FS_Injection
  <2>5. p - 1 \in 0 .. n - 1
    <3> HIDE DEF n
    <3>1. QED
      BY <1>1
  <2>6. PICK i \in S : rank[i] = p - 1
    <3> HIDE DEF n, rank
    <3>1. QED
      BY <2>4, <2>5 DEF Surjection
  <2>7. QED
    BY <2>6
<1>7. QED
  BY <1>r, <1>5, <1>6

LEMMA RankTaken ==
  ASSUME NEW S, IsFiniteSet(S), NEW R, Orders(R, S), NEW p \in 1 .. Cardinality(S)
  PROVE  \E i \in S : Rank(R, S, i) = p - 1
BY RankFacts

\* a lists the elements of S in their order.
Ranked(a, R, S) ==
  /\ DOMAIN a = 1 .. Cardinality(S)
  /\ \A p \in DOMAIN a : a[p] \in S /\ Rank(R, S, a[p]) = p - 1

LEMMA RankedFacts ==
  ASSUME NEW S, IsFiniteSet(S), NEW R, Orders(R, S), NEW a, Ranked(a, R, S)
  PROVE  /\ \A p, q \in DOMAIN a : p < q <=> <<a[p], a[q]>> \in R
         /\ \A p, q \in DOMAIN a : a[p] = a[q] => p = q
         /\ \A i \in S : \E p \in DOMAIN a : a[p] = i
<1> DEFINE n == Cardinality(S)
           rank == [i \in S |-> Rank(R, S, i)]
<1>1. n \in Nat
  BY FS_CardinalityType
<1>2. DOMAIN a = 1 .. n /\ \A p \in 1 .. n : a[p] \in S /\ rank[a[p]] = p - 1
  BY DEF Ranked
<1>3. /\ \A i \in S : rank[i] \in 0 .. n - 1
      /\ \A i, j \in S : rank[i] < rank[j] <=> <<i, j>> \in R
      /\ \A i, j \in S : rank[i] = rank[j] => i = j
  BY RankFacts
<1> HIDE DEF n, rank
<1>4. ASSUME NEW p \in 1 .. n, NEW q \in 1 .. n
      PROVE  /\ p < q <=> <<a[p], a[q]>> \in R
             /\ a[p] = a[q] => p = q
  <2>1. a[p] \in S /\ a[q] \in S /\ rank[a[p]] = p - 1 /\ rank[a[q]] = q - 1
    BY <1>2
  <2>2. rank[a[p]] < rank[a[q]] <=> <<a[p], a[q]>> \in R
    BY <1>3, <2>1
  <2>3. p - 1 < q - 1 <=> p < q
    BY <1>1
  <2>4. a[p] = a[q] => p - 1 = q - 1
    BY <2>1
  <2>5. QED
    BY <1>1, <2>1, <2>2, <2>3, <2>4
<1>5. ASSUME NEW i \in S PROVE \E p \in 1 .. n : a[p] = i
  <2>1. PICK k \in 0 .. n - 1 : k = rank[i]
    BY <1>3
  <2>2. k + 1 \in 1 .. n /\ (k + 1) - 1 = k
    BY <1>1
  <2>3. a[k + 1] \in S /\ rank[a[k + 1]] = rank[i]
    BY <1>2, <2>1, <2>2
  <2>4. QED
    BY <1>3, <2>2, <2>3
<1>6. QED
  BY <1>2, <1>4, <1>5

\* So the last element has all others before it.
LEMMA LastOfOrder ==
  ASSUME NEW S, IsFiniteSet(S), S # {}, NEW R, Orders(R, S)
  PROVE  \E i \in S : \A j \in S \ {i} : <<j, i>> \in R
<1> DEFINE n == Cardinality(S)
<1>1. n \in Nat \ {0}
  BY FS_CardinalityType, FS_EmptySet
<1>2. PICK i \in S : Rank(R, S, i) = n - 1
  <2> HIDE DEF n
  <2>1. n \in 1 .. n
    BY <1>1
  <2>2. QED
    BY <2>1, RankFacts DEF n
<1>3. ASSUME NEW j \in S \ {i}, <<i, j>> \in R PROVE FALSE
  <2>1. Rank(R, S, i) < Rank(R, S, j) /\ Rank(R, S, j) \in 0 .. n - 1
    BY <1>3, RankFacts
  <2> HIDE DEF n
  <2>2. QED
    BY <1>1, <1>2, <2>1
<1>4. QED
  BY <1>3 DEF Orders
=============================================================================
