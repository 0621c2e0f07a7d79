-------------------------- MODULE ResultCacheProofs --------------------------
(***************************************************************************)
(* Theorems about the result cache and the lemmas they rest on.            *)
(***************************************************************************)
EXTENDS ResultCache, NaturalFacts, SequenceTheorems

-----------------------------------------------------------------------------

\* The running sums of the entries of a store.
RunningSums(p, s) ==
  /\ p \in [0 .. Len(s) -> Int]
  /\ p[0] = 0
  /\ \A k \in 1 .. Len(s) : p[k] = p[k - 1] + s[k].size

\* Entries whose sizes are integers.
Sized(s) ==
  /\ Len(s) \in Nat
  /\ DOMAIN s = 1 .. Len(s)
  /\ \A i \in 1 .. Len(s) : s[i].size \in Int

\* The largest element of a non-empty set of positions of a store.
LEMMA LastPosition ==
  ASSUME NEW n \in Nat, NEW T \in SUBSET (1 .. n), T # {}
  PROVE  Max(T) \in T /\ \A t \in T : Max(T) >= t
<1>1. T \in SUBSET Nat /\ \A t \in T : t <= n
  OBVIOUS
<1>2. QED
  BY <1>1, MaxOfNaturals

\* The recursion by which a fold takes the sizes of a set of positions, the last
\* one first, has a solution: each round takes one position away.
LEMMA FoldSolution ==
  ASSUME NEW s, Sized(s)
  PROVE  \E it \in [SUBSET (1 .. Len(s)) -> Int] :
           it = [T \in SUBSET (1 .. Len(s)) |->
                   IF T = {} THEN 0 ELSE it[T \ {Max(T)}] + s[Max(T)].size]
<1> DEFINE n == Len(s)
           Upto(k) == SUBSET (1 .. k)
           Solves(g, k) == \A T \in Upto(k) :
              g[T] = IF T = {} THEN 0 ELSE g[T \ {Max(T)}] + s[Max(T)].size
           Bad == {k \in 0 .. n : ~ \E g \in [Upto(k) -> Int] : Solves(g, k)}
<1>1. SUFFICES Bad = {}
  <2>n. n \in Nat
    BY DEF Sized
  <2>0. n \in 0 .. n /\ n \notin Bad
    <3>1. n \notin Bad
      BY <1>1
    <3> HIDE DEF Bad, n
    <3>2. QED
      BY <2>n, <3>1
  <2>1. PICK g \in [Upto(n) -> Int] : Solves(g, n)
    BY <2>0
  <2>2. g = [T \in Upto(n) |-> g[T]]
    OBVIOUS
  <2>3. g = [T \in Upto(n) |->
               IF T = {} THEN 0 ELSE g[T \ {Max(T)}] + s[Max(T)].size]
    BY <2>1, <2>2
  <2>4. QED
    BY <2>3
<1>2. SUFFICES ASSUME Bad # {} PROVE FALSE
  OBVIOUS
<1>3. PICK k \in Bad : \A m \in Bad : k <= m
  <2>1. Bad \in SUBSET Nat
    BY DEF Sized
  <2>2. QED
    BY <1>2, <2>1, LeastNatural
<1>4. k # 0
  <2> DEFINE g == [T \in Upto(0) |-> 0]
  <2>1. g \in [Upto(0) -> Int] /\ Solves(g, 0)
    OBVIOUS
  <2>2. QED
    BY <2>1
<1>5. k \in Nat /\ k - 1 \in 0 .. n /\ k - 1 \notin Bad
  <2>1. k \in 0 .. n /\ n \in Nat
    BY <1>3 DEF Sized
  <2>2. k - 1 \notin Bad
    <3> HIDE DEF Bad
    <3>1. QED
      BY <1>3, <2>1
  <2>3. QED
    <3> HIDE DEF Bad
    <3>1. QED
      BY <2>1, <2>2, <1>4
<1>6. PICK g \in [Upto(k - 1) -> Int] : Solves(g, k - 1)
  BY <1>5
<1> DEFINE Below(T) == T \in Upto(k - 1)
           h == [T \in Upto(k) |-> IF Below(T) THEN g[T]
                                   ELSE g[T \ {Max(T)}] + s[Max(T)].size]
<1>7. ASSUME NEW T \in Upto(k), T # {}
      PROVE  T \ {Max(T)} \in Upto(k - 1) /\ T \ {Max(T)} \in Upto(k)
             /\ Max(T) \in 1 .. n
  <2>1. Max(T) \in T /\ \A t \in T : Max(T) >= t
    BY <1>5, <1>7, LastPosition
  <2>2. k \in 0 .. n /\ n \in Nat
    BY <1>3 DEF Sized
  <2> HIDE DEF n, Bad
  <2>3. Max(T) \in 1 .. n /\ T \ {Max(T)} \in Upto(k)
    <3>1. Max(T) \in 1 .. k /\ T \ {Max(T)} \in Upto(k)
      BY <2>1
    <3>2. QED
      BY <2>2, <3>1
  <2>4. ASSUME NEW t \in T \ {Max(T)} PROVE t \in 1 .. k - 1
    <3>1. t \in 1 .. k /\ Max(T) \in 1 .. k /\ t <= Max(T) /\ t # Max(T)
      BY <2>1
    <3>2. QED
      BY <2>2, <3>1
  <2>5. QED
    BY <2>3, <2>4
<1>8. h \in [Upto(k) -> Int]
  <2>1. ASSUME NEW T \in Upto(k) PROVE h[T] \in Int
    <3>1. CASE Below(T)
      BY <3>1, <1>6
    <3>2. CASE ~ Below(T)
      <4>1. T # {}
        BY <3>2
      <4>2. QED
        BY <3>2, <4>1, <1>6, <1>7 DEF Sized
    <3>3. QED
      BY <3>1, <3>2
  <2>2. QED
    BY <2>1
<1>9. Solves(h, k)
  <2>1. ASSUME NEW T \in Upto(k)
        PROVE  h[T] = IF T = {} THEN 0 ELSE h[T \ {Max(T)}] + s[Max(T)].size
    <3>1. CASE T = {}
      BY <3>1, <1>6
    <3>2. CASE T # {}
      <4>1. h[T \ {Max(T)}] = g[T \ {Max(T)}]
        BY <3>2, <1>7
      <4>2. CASE Below(T)
        BY <3>2, <4>1, <4>2, <1>6
      <4>3. CASE ~ Below(T)
        BY <3>2, <4>1, <4>3
      <4>4. QED
        BY <4>2, <4>3
    <3>3. QED
      BY <3>1, <3>2
  <2>2. QED
    BY <2>1
<1>10. QED
  BY <1>3, <1>8, <1>9

\* The bytes of a store are the last of its running sums.
LEMMA BytesAreSums ==
  ASSUME NEW s, Sized(s)
  PROVE  \E p : RunningSums(p, s) /\ Bytes(s) = p[Len(s)]
<1> DEFINE n == Len(s)
           Next1(it) == [T \in SUBSET (1 .. n) |->
                   IF T = {} THEN 0 ELSE it[T \ {Max(T)}] + s[Max(T)].size]
           fold == CHOOSE it : it = Next1(it)
<1>1. fold = Next1(fold)
  <2>1. \E it : it = Next1(it)
    BY FoldSolution
  <2>2. QED
    BY <2>1
<1>2. Bytes(s) = fold[1 .. n]
  BY DEF Bytes, FoldLeft, MapThenFoldSet, Sized
<1> DEFINE p == [k \in 0 .. n |-> fold[1 .. k]]
<1> n \in Nat
  BY DEF Sized
<1>3. p[0] = 0
  <2>1. 1 .. 0 = {}
    OBVIOUS
  <2>2. fold[{}] = 0
    <3> HIDE DEF fold
    <3>1. QED
      BY <1>1
  <2> HIDE DEF fold
  <2>3. QED
    BY <2>1, <2>2
<1>4. ASSUME NEW k \in 1 .. n PROVE p[k] = p[k - 1] + s[k].size
  <2> HIDE DEF fold
  <2>1. Max(1 .. k) = k
    <3> HIDE DEF n
    <3>1. k \in Nat /\ k \in 1 .. k /\ 1 .. k \in SUBSET (1 .. k)
      OBVIOUS
    <3>2. Max(1 .. k) \in 1 .. k /\ Max(1 .. k) >= k
      BY <3>1, LastPosition
    <3>3. QED
      BY <3>1, <3>2
  <2>2. (1 .. k) \ {k} = 1 .. k - 1 /\ 1 .. k # {} /\ 1 .. k \in SUBSET (1 .. n)
    <3> HIDE DEF n
    <3>1. QED
      OBVIOUS
  <2>3. fold[1 .. k] = fold[(1 .. k) \ {Max(1 .. k)}] + s[Max(1 .. k)].size
    BY <1>1, <2>2
  <2>4. k - 1 \in 0 .. n /\ k \in 0 .. n
    <3> HIDE DEF n
    <3>1. QED
      OBVIOUS
  <2>5. QED
    BY <2>1, <2>2, <2>3, <2>4
<1>5. \A k \in 0 .. n : p[k] \in Int
  <2> HIDE DEF p
  <2> DEFINE Bad == {k \in 0 .. n : p[k] \notin Int}
  <2>1. SUFFICES ASSUME Bad # {} PROVE FALSE
    OBVIOUS
  <2>2. PICK k \in Bad : \A m \in Bad : k <= m
    <3>1. Bad \in SUBSET Nat
      OBVIOUS
    <3>2. QED
      BY <2>1, <3>1, LeastNatural
  <2>3. k \in 1 .. n
    BY <1>3
  <2>4. p[k - 1] \in Int
    <3>1. k - 1 \in 0 .. n /\ k - 1 < k
      BY <2>3
    <3>2. QED
      BY <3>1, <2>2
  <2>5. QED
    BY <1>4, <2>3, <2>4 DEF Sized
<1>6. p \in [0 .. n -> Int]
  BY <1>5
<1>7. Bytes(s) = p[n]
  BY <1>2
<1>8. QED
  <2> HIDE DEF p
  <2>1. QED
    BY <1>3, <1>4, <1>6, <1>7 DEF RunningSums

\* A store has one row of running sums.
LEMMA SumsAreUnique ==
  ASSUME NEW s, NEW t, Len(s) \in Nat, Len(t) = Len(s),
         \A i \in 1 .. Len(s) : t[i].size = s[i].size,
         NEW p, NEW q, RunningSums(p, s), RunningSums(q, t)
  PROVE  p[Len(s)] = q[Len(s)]
<1> DEFINE n == Len(s)
           Bad == {k \in 0 .. n : p[k] # q[k]}
<1>1. SUFFICES ASSUME Bad # {} PROVE FALSE
  OBVIOUS
<1>2. PICK k \in Bad : \A m \in Bad : k <= m
  <2>1. Bad \in SUBSET Nat
    OBVIOUS
  <2>2. QED
    BY <1>1, <2>1, LeastNatural
<1>3. k # 0
  BY DEF RunningSums
<1>4. k \in 1 .. n /\ k - 1 \in 0 .. n /\ k - 1 < k
  BY <1>3
<1>5. p[k - 1] = q[k - 1]
  BY <1>2, <1>4
<1>6. QED
  BY <1>2, <1>4, <1>5 DEF RunningSums

\* So any row of running sums ends in the bytes.
LEMMA BytesOf ==
  ASSUME NEW s, Sized(s), NEW p, RunningSums(p, s)
  PROVE  Bytes(s) = p[Len(s)] /\ Bytes(s) \in Int
<1>1. PICK q : RunningSums(q, s) /\ Bytes(s) = q[Len(s)]
  BY BytesAreSums
<1>2. Len(s) \in Nat
  BY DEF Sized
<1>3. p[Len(s)] = q[Len(s)]
  BY <1>1, <1>2, SumsAreUnique
<1>4. QED
  BY <1>1, <1>2, <1>3 DEF RunningSums

\* The bytes of two stores joined are the sum of theirs.
LEMMA BytesJoined ==
  ASSUME NEW s, NEW t, NEW u, Sized(s), Sized(t), Sized(u),
         Len(u) = Len(s) + Len(t),
         \A i \in 1 .. Len(s) : u[i] = s[i],
         \A i \in 1 .. Len(t) : u[Len(s) + i] = t[i]
  PROVE  Bytes(u) = Bytes(s) + Bytes(t)
<1>1. PICK p : RunningSums(p, s) /\ Bytes(s) = p[Len(s)]
  BY BytesAreSums
<1>2. PICK q : RunningSums(q, t) /\ Bytes(t) = q[Len(t)]
  BY BytesAreSums
<1> DEFINE m == Len(s)
           n == Len(t)
           r == [k \in 0 .. m + n |-> IF k <= m THEN p[k] ELSE p[m] + q[k - m]]
<1>3. m \in Nat /\ n \in Nat /\ Len(u) = m + n
  BY DEF Sized
<1>4. /\ p \in [0 .. m -> Int] /\ p[0] = 0
      /\ \A k \in 1 .. m : p[k] = p[k - 1] + s[k].size
  BY <1>1 DEF RunningSums
<1>5. /\ q \in [0 .. n -> Int] /\ q[0] = 0
      /\ \A k \in 1 .. n : q[k] = q[k - 1] + t[k].size
  BY <1>2 DEF RunningSums
<1>6. ASSUME NEW i \in 1 .. n PROVE u[m + i] = t[i]
  OBVIOUS
<1>7. ASSUME NEW i \in 1 .. m PROVE u[i] = s[i]
  OBVIOUS
<1>8. /\ r \in [0 .. m + n -> Int] /\ r[0] = 0 /\ r[m + n] = p[m] + q[n]
      /\ \A k \in 1 .. m + n : r[k] = r[k - 1] + u[k].size
  <2> HIDE DEF m, n
  <2>1. r \in [0 .. m + n -> Int]
    <3>1. ASSUME NEW k \in 0 .. m + n PROVE r[k] \in Int
      <4>1. CASE k <= m
        BY <1>3, <1>4, <4>1
      <4>2. CASE ~ (k <= m)
        <5>1. k - m \in 0 .. n /\ m \in 0 .. m
          BY <1>3, <4>2
        <5>2. QED
          BY <1>4, <1>5, <4>2, <5>1
      <4>3. QED
        BY <4>1, <4>2
    <3>2. QED
      BY <3>1
  <2>2. r[0] = 0
    BY <1>3, <1>4
  <2>3. r[m + n] = p[m] + q[n]
    <3>1. m + n \in 0 .. m + n /\ m \in 0 .. m /\ n \in 0 .. n
          /\ (m + n) - m = n
      BY <1>3
    <3>2. p[m] \in Int /\ q[n] \in Int
      BY <1>4, <1>5, <3>1
    <3>3. CASE n = 0
      BY <1>3, <1>5, <3>1, <3>2, <3>3
    <3>4. CASE n # 0
      <4>1. ~ (m + n <= m)
        BY <1>3, <3>4
      <4>2. QED
        BY <3>1, <4>1
    <3>5. QED
      BY <3>3, <3>4
  <2>4. ASSUME NEW k \in 1 .. m + n PROVE r[k] = r[k - 1] + u[k].size
    <3>0. k \in 0 .. m + n /\ k - 1 \in 0 .. m + n
      BY <1>3
    <3>1. CASE k <= m
      <4>1. k \in 1 .. m /\ k - 1 <= m
        BY <1>3, <3>1
      <4>2. QED
        BY <1>4, <1>7, <3>0, <4>1
    <3>2. CASE k = m + 1
      <4>1. /\ k - 1 = m /\ 1 \in 1 .. n /\ k - m = 1 /\ ~ (k <= m) /\ m \in 0 .. m
            /\ 0 \in 0 .. n
        BY <1>3, <3>2
      <4>2. r[k] = p[m] + q[1] /\ r[k - 1] = p[m]
        <5>1. r[k] = p[m] + q[k - m]
          BY <3>0, <4>1
        <5>2. r[m] = p[m]
          BY <3>0, <4>1
        <5>3. QED
          BY <4>1, <5>1, <5>2
      <4>3. q[1] = q[1 - 1] + t[1].size
        BY <1>5, <4>1
      <4>4. u[k] = t[1]
        BY <1>6, <3>2, <4>1
      <4>5. t[1].size \in Int
        BY <4>1 DEF Sized, n
      <4>6. q[1] = t[1].size
        BY <1>5, <4>3, <4>5
      <4>7. QED
        BY <4>2, <4>4, <4>6
    <3>3. CASE k > m + 1
      <4>1. /\ k - m \in 1 .. n /\ (k - m) - 1 \in 0 .. n /\ ~ (k <= m)
            /\ ~ (k - 1 <= m) /\ (k - 1) - m = (k - m) - 1 /\ k = m + (k - m)
            /\ m \in 0 .. m
        BY <1>3, <3>3
      <4>2. r[k] = p[m] + q[k - m] /\ r[k - 1] = p[m] + q[(k - m) - 1]
        BY <3>0, <4>1
      <4>3. q[k - m] = q[(k - m) - 1] + t[k - m].size /\ u[k] = t[k - m]
        BY <1>5, <1>6, <4>1
      <4>4. p[m] \in Int /\ q[(k - m) - 1] \in Int /\ t[k - m].size \in Int
        BY <1>4, <1>5, <4>1 DEF Sized, n
      <4>5. QED
        BY <4>2, <4>3, <4>4
    <3>4. QED
      BY <1>3, <3>1, <3>2, <3>3
  <2>5. QED
    BY <2>1, <2>2, <2>3, <2>4
<1>9. RunningSums(r, u)
  <2> HIDE DEF r, m, n
  <2>1. QED
    BY <1>3, <1>8 DEF RunningSums
<1>10. Bytes(u) = r[m + n]
  <2> HIDE DEF r
  <2>1. QED
    BY <1>3, <1>9, BytesOf
<1>11. QED
  <2> HIDE DEF r
  <2>1. QED
    BY <1>1, <1>2, <1>8, <1>10

-----------------------------------------------------------------------------

Entry == [key : Keys, size : Sizes]

\* No key has two entries.
Distinct(s) == \A i, j \in DOMAIN s : s[i].key = s[j].key => i = j

KeysOf(s) == {s[i].key : i \in DOMAIN s}

LEMMA EntriesAreSized ==
  ASSUME NEW e \in Entry
  PROVE  e.size \in Nat
<1>1. e.size \in Sizes
  BY DEF Entry
<1>2. QED
  BY <1>1, SizesAssumption

LEMMA StoresAreSized ==
  ASSUME NEW s \in Seq(Entry)
  PROVE  Sized(s)
<1>1. ASSUME NEW i \in 1 .. Len(s) PROVE s[i].size \in Int
  <2>1. s[i] \in Entry
    OBVIOUS
  <2>2. QED
    BY <2>1, EntriesAreSized
<1>2. QED
  BY <1>1 DEF Sized

\* The bytes of the stores that the methods build.
LEMMA BytesOfEmpty == Bytes(<<>>) = 0
<1> DEFINE p == [k \in 0 .. 0 |-> 0]
<1>1. Sized(<<>>) /\ RunningSums(p, <<>>)
  BY DEF Sized, RunningSums
<1>2. QED
  BY <1>1, BytesOf

LEMMA BytesOfOne ==
  ASSUME NEW e \in Entry
  PROVE  Bytes(<<e>>) = e.size
<1> DEFINE p == [k \in 0 .. 1 |-> IF k = 0 THEN 0 ELSE e.size]
<1>1. e.size \in Int
  BY EntriesAreSized
<1>2. Sized(<<e>>)
  BY <1>1 DEF Sized
<1>3. p \in [0 .. 1 -> Int] /\ p[0] = 0 /\ p[1] = e.size
  BY <1>1
<1>4. RunningSums(p, <<e>>)
  <2> HIDE DEF p
  <2>1. Len(<<e>>) = 1 /\ <<e>>[1] = e
    OBVIOUS
  <2>2. \A k \in 1 .. 1 : p[k] = p[k - 1] + <<e>>[k].size
    BY <1>1, <1>3, <2>1
  <2>3. QED
    BY <1>3, <2>1, <2>2 DEF RunningSums
<1>5. QED
  <2> HIDE DEF p
  <2>1. Bytes(<<e>>) = p[Len(<<e>>)]
    BY <1>2, <1>4, BytesOf
  <2>2. QED
    BY <1>3, <2>1

LEMMA BytesAreNatural ==
  ASSUME NEW s \in Seq(Entry)
  PROVE  Bytes(s) \in Nat
<1>1. PICK p : RunningSums(p, s) /\ Bytes(s) = p[Len(s)]
  BY StoresAreSized, BytesAreSums
<1> DEFINE Bad == {k \in 0 .. Len(s) : p[k] \notin Nat}
<1>2. SUFFICES ASSUME Bad # {} PROVE FALSE
  BY <1>1
<1>3. PICK k \in Bad : \A m \in Bad : k <= m
  <2>1. Bad \in SUBSET Nat
    OBVIOUS
  <2>2. QED
    BY <1>2, <2>1, LeastNatural
<1>4. k # 0
  BY <1>1 DEF RunningSums
<1>5. k \in 1 .. Len(s) /\ k - 1 \in 0 .. Len(s) /\ k - 1 < k
  BY <1>3, <1>4
<1>6. p[k - 1] \in Nat
  BY <1>3, <1>5
<1>7. s[k].size \in Nat
  <2>1. s[k] \in Entry
    BY <1>5
  <2>2. QED
    BY <2>1, EntriesAreSized
<1>8. QED
  BY <1>1, <1>3, <1>5, <1>6, <1>7 DEF RunningSums

LEMMA BytesAppended ==
  ASSUME NEW s \in Seq(Entry), NEW e \in Entry
  PROVE  Bytes(Append(s, e)) = Bytes(s) + e.size
<1>1. <<e>> \in Seq(Entry) /\ Append(s, e) \in Seq(Entry)
  OBVIOUS
<1>2. /\ Len(Append(s, e)) = Len(s) + Len(<<e>>)
      /\ \A i \in 1 .. Len(s) : Append(s, e)[i] = s[i]
      /\ \A i \in 1 .. Len(<<e>>) : Append(s, e)[Len(s) + i] = <<e>>[i]
  OBVIOUS
<1>3. Sized(s) /\ Sized(<<e>>) /\ Sized(Append(s, e))
  BY <1>1, StoresAreSized
<1>4. Bytes(Append(s, e)) = Bytes(s) + Bytes(<<e>>)
  BY <1>2, <1>3, BytesJoined
<1>5. QED
  BY <1>4, BytesOfOne

\* A store is its first i entries and the rest.
LEMMA SplitFacts ==
  ASSUME NEW s \in Seq(Entry), NEW i \in 0 .. Len(s)
  PROVE  /\ SubSeq(s, 1, i) \in Seq(Entry)
         /\ SubSeq(s, i + 1, Len(s)) \in Seq(Entry)
         /\ Len(SubSeq(s, 1, i)) = i
         /\ Len(SubSeq(s, i + 1, Len(s))) = Len(s) - i
         /\ \A k \in 1 .. i : SubSeq(s, 1, i)[k] = s[k]
         /\ \A k \in 1 .. Len(s) - i : SubSeq(s, i + 1, Len(s))[k] = s[i + k]
         /\ Bytes(s) = Bytes(SubSeq(s, 1, i)) + Bytes(SubSeq(s, i + 1, Len(s)))
<1>0. Len(s) \in Nat /\ i \in Nat /\ i <= Len(s)
      /\ \A k \in 1 .. Len(s) : s[k] \in Entry
  OBVIOUS
<1> DEFINE a == SubSeq(s, 1, i)
           b == SubSeq(s, i + 1, Len(s))
<1>1. /\ a \in Seq(Entry) /\ Len(a) = i
      /\ \A k \in 1 .. i : a[k] = s[k]
  <2>1. \A k \in 1 .. i : s[k] \in Entry
    BY <1>0
  <2>2. a \in Seq(Entry) /\ Len(a) = i
    BY <2>1, <1>0, SubSeqProperties
  <2>3. ASSUME NEW k \in 1 .. i PROVE a[k] = s[k]
    OBVIOUS
  <2>4. QED
    BY <2>2, <2>3
<1>2. /\ b \in Seq(Entry) /\ Len(b) = Len(s) - i
      /\ \A k \in 1 .. Len(s) - i : b[k] = s[i + k]
  OBVIOUS
<1>3. Sized(s) /\ Sized(a) /\ Sized(b)
  BY <1>1, <1>2, StoresAreSized
<1>4. Bytes(s) = Bytes(a) + Bytes(b)
  <2> HIDE DEF a, b
  <2>1. Len(s) = Len(a) + Len(b)
    BY <1>0, <1>1, <1>2
  <2>2. QED
    BY <1>1, <1>2, <1>3, <2>1, BytesJoined
<1>5. QED
  BY <1>1, <1>2, <1>4

-----------------------------------------------------------------------------

\* Where a store without two entries of a key holds a key.
LEMMA KeyPosition ==
  ASSUME NEW s \in Seq(Entry), Distinct(s), NEW i \in DOMAIN s, NEW key, s[i].key = key
  PROVE  /\ i \in {k \in 1 .. Len(s) : s[k].key = key}
         /\ Min({k \in 1 .. Len(s) : s[k].key = key}) = i
<1> DEFINE I == {k \in 1 .. Len(s) : s[k].key = key}
<1>1. I = {i}
  BY DEF Distinct
<1>2. Min(I) = i
  <2>1. I \in SUBSET Nat /\ I # {}
    BY <1>1
  <2>2. Min(I) \in I
    BY <2>1, MinOfNaturals
  <2>3. QED
    BY <1>1, <2>2
<1>3. QED
  BY <1>1, <1>2

\* What deleting a key does to a store: nothing if it has no entry, and else the
\* entry goes and the others close the gap.
LEMMA DeletedFacts ==
  ASSUME NEW s \in Seq(Entry), Distinct(s), NEW key
  PROVE  /\ key \notin KeysOf(s) => Deleted(s, key) = s
         /\ \A i \in DOMAIN s : s[i].key = key =>
              /\ Deleted(s, key) \in Seq(Entry)
              /\ Len(Deleted(s, key)) = Len(s) - 1
              /\ \A k \in 1 .. Len(s) - 1 :
                   Deleted(s, key)[k] = IF k < i THEN s[k] ELSE s[k + 1]
              /\ Bytes(Deleted(s, key)) = Bytes(s) - s[i].size
<1>1. ASSUME key \notin KeysOf(s) PROVE Deleted(s, key) = s
  BY <1>1 DEF Deleted, RemoveFirstMatch, KeysOf
<1>2. ASSUME NEW i \in DOMAIN s, s[i].key = key
      PROVE  /\ Deleted(s, key) \in Seq(Entry)
             /\ Len(Deleted(s, key)) = Len(s) - 1
             /\ \A k \in 1 .. Len(s) - 1 :
                  Deleted(s, key)[k] = IF k < i THEN s[k] ELSE s[k + 1]
             /\ Bytes(Deleted(s, key)) = Bytes(s) - s[i].size
  <2> DEFINE a == SubSeq(s, 1, i - 1)
             b == SubSeq(s, i + 1, Len(s))
             c == SubSeq(s, i, Len(s))
             d == a \o b
  <2>0. Len(s) \in Nat /\ i \in 1 .. Len(s) /\ s[i] \in Entry
    OBVIOUS
  <2>1. Deleted(s, key) = d
    <3>1. SelectInSeq(s, LAMBDA e : e.key = key) = i
      BY <1>2, KeyPosition DEF SelectInSeq
    <3>2. \E k \in 1 .. Len(s) : s[k].key = key
      BY <1>2
    <3>3. QED
      BY <3>1, <3>2 DEF Deleted, RemoveFirstMatch, RemoveAt
  <2>2. /\ a \in Seq(Entry) /\ Len(a) = i - 1
        /\ \A k \in 1 .. i - 1 : a[k] = s[k]
        /\ c \in Seq(Entry) /\ Bytes(s) = Bytes(a) + Bytes(c)
        /\ Len(c) = (Len(s) - i) + 1
        /\ \A k \in 1 .. (Len(s) - i) + 1 : c[k] = s[i - 1 + k]
    <3>1. i - 1 \in 0 .. Len(s) /\ (i - 1) + 1 = i
          /\ Len(s) - (i - 1) = (Len(s) - i) + 1
      BY <2>0
    <3>2. QED
      BY <3>1, SplitFacts
  <2>3. /\ b \in Seq(Entry) /\ Len(b) = Len(s) - i
        /\ \A k \in 1 .. Len(s) - i : b[k] = s[i + k]
    BY <2>0, SplitFacts
  <2>4. Bytes(c) = s[i].size + Bytes(b)
    <3> HIDE DEF a, b, c
    <3> DEFINE one == <<s[i]>>
    <3>1. one \in Seq(Entry) /\ Len(one) = 1 /\ one[1] = s[i]
      BY <2>0
    <3>2. Sized(one) /\ Sized(b) /\ Sized(c)
      BY <2>2, <2>3, <3>1, StoresAreSized
    <3>3. Bytes(one) = s[i].size
      BY <2>0, BytesOfOne
    <3> HIDE DEF one
    <3>4. /\ Len(c) = Len(one) + Len(b)
          /\ \A k \in 1 .. Len(one) : c[k] = one[k]
          /\ \A k \in 1 .. Len(b) : c[Len(one) + k] = b[k]
      <4>1. Len(c) = Len(one) + Len(b)
        BY <2>0, <2>2, <2>3, <3>1
      <4>2. ASSUME NEW k \in 1 .. Len(one) PROVE c[k] = one[k]
        <5>1. k = 1 /\ k \in 1 .. (Len(s) - i) + 1 /\ i - 1 + k = i
          BY <2>0, <3>1
        <5>2. QED
          BY <2>2, <3>1, <5>1
      <4>3. ASSUME NEW k \in 1 .. Len(b) PROVE c[Len(one) + k] = b[k]
        <5>1. /\ Len(one) + k \in 1 .. (Len(s) - i) + 1
              /\ i - 1 + (Len(one) + k) = i + k
              /\ k \in 1 .. Len(s) - i
          BY <2>0, <2>3, <3>1
        <5>2. c[Len(one) + k] = s[i - 1 + (Len(one) + k)]
          BY <2>2, <5>1
        <5>3. QED
          BY <2>3, <5>1, <5>2
      <4>4. QED
        BY <4>1, <4>2, <4>3
    <3>5. Bytes(c) = Bytes(one) + Bytes(b)
      BY <3>2, <3>4, BytesJoined
    <3>6. QED
      BY <3>3, <3>5
  <2>5. /\ d \in Seq(Entry) /\ Len(d) = Len(a) + Len(b)
        /\ \A k \in 1 .. Len(a) : d[k] = a[k]
        /\ \A k \in 1 .. Len(b) : d[Len(a) + k] = b[k]
    <3> HIDE DEF a, b, c
    <3>1. a \in Seq(Entry) /\ b \in Seq(Entry)
      BY <2>2, <2>3
    <3>2. QED
      BY <3>1
  <2>6. Bytes(d) = Bytes(a) + Bytes(b)
    <3> HIDE DEF a, b, c, d
    <3>1. Sized(a) /\ Sized(b) /\ Sized(d)
      BY <2>2, <2>3, <2>5, StoresAreSized
    <3>2. QED
      BY <2>5, <3>1, BytesJoined
  <2>7. Len(d) = Len(s) - 1
    <3> HIDE DEF a, b, c, d
    <3>1. QED
      BY <2>0, <2>2, <2>3, <2>5
  <2>8. ASSUME NEW k \in 1 .. Len(s) - 1
        PROVE  d[k] = IF k < i THEN s[k] ELSE s[k + 1]
    <3> HIDE DEF a, b, c, d
    <3>1. CASE k < i
      <4>1. k \in 1 .. i - 1
        BY <2>0, <3>1
      <4>2. QED
        BY <2>2, <2>5, <3>1, <4>1
    <3>2. CASE ~ (k < i)
      <4>1. /\ k - (i - 1) \in 1 .. Len(s) - i
            /\ (i - 1) + (k - (i - 1)) = k
            /\ i + (k - (i - 1)) = k + 1
        BY <2>0, <3>2
      <4>2. d[(i - 1) + (k - (i - 1))] = b[k - (i - 1)]
        BY <2>2, <2>3, <2>5, <4>1
      <4>3. b[k - (i - 1)] = s[i + (k - (i - 1))]
        BY <2>3, <4>1
      <4>4. QED
        BY <3>2, <4>1, <4>2, <4>3
    <3>3. QED
      BY <3>1, <3>2
  <2>9. Bytes(a) \in Nat /\ Bytes(b) \in Nat /\ s[i].size \in Nat
    <3> HIDE DEF a, b, c, d
    <3>1. QED
      BY <2>0, <2>2, <2>3, BytesAreNatural, EntriesAreSized
  <2>10. Bytes(d) = Bytes(s) - s[i].size
    <3> HIDE DEF a, b, c, d
    <3>1. QED
      BY <2>2, <2>4, <2>6, <2>9
  <2>11. QED
    <3> HIDE DEF a, b, c, d
    <3>1. QED
      BY <2>1, <2>5, <2>7, <2>8, <2>10
<1>3. QED
  BY <1>1, <1>2

\* The loop of _evict_locked stops at the first place where what is left is
\* within the limits, or is empty, and keeps the counter equal to the bytes.
LEMMA EvictedFacts ==
  ASSUME NEW s \in Seq(Entry)
  PROVE  \E i \in 0 .. Len(s) :
           LET left(k) == SubSeq(s, k + 1, Len(s))
           IN  /\ Evicted(s, Bytes(s)) = [store |-> left(i), total |-> Bytes(left(i))]
               /\ i = Len(s) \/ ~ Over(left(i), Bytes(left(i)))
               /\ \A k \in 0 .. i - 1 : Over(left(k), Bytes(left(k)))
<1> DEFINE left(k) == SubSeq(s, k + 1, Len(s))
           After(k) == [store |-> left(k), total |-> Bytes(s) - Bytes(SubSeq(s, 1, k))]
           Stops(k) == k = Len(s) \/ ~ Over(After(k).store, After(k).total)
           First(k) == Stops(k) /\ \A m \in 0 .. k - 1 : ~ Stops(m)
<1>0. Len(s) \in Nat
  OBVIOUS
<1>1. ASSUME NEW k \in 0 .. Len(s)
      PROVE  Bytes(s) - Bytes(SubSeq(s, 1, k)) = Bytes(left(k))
  <2> DEFINE pre == SubSeq(s, 1, k)
  <2>1. /\ pre \in Seq(Entry) /\ left(k) \in Seq(Entry)
        /\ Bytes(s) = Bytes(pre) + Bytes(left(k))
    BY SplitFacts
  <2> HIDE DEF pre, left
  <2>2. Bytes(pre) \in Nat /\ Bytes(left(k)) \in Nat
    BY <2>1, BytesAreNatural
  <2>3. Bytes(s) - Bytes(pre) = Bytes(left(k))
    BY <2>1, <2>2
  <2>4. QED
    BY <2>3 DEF pre
<1>2. \E k \in 0 .. Len(s) : First(k)
  <2> HIDE DEF Stops
  <2> DEFINE Places == {k \in 0 .. Len(s) : Stops(k)}
  <2>1. Len(s) \in Places
    <3>1. Stops(Len(s))
      BY DEF Stops
    <3>2. QED
      BY <1>0, <3>1
  <2>2. Places \in SUBSET Nat
    OBVIOUS
  <2>3. PICK k \in Places : \A m \in Places : k <= m
    BY <2>1, <2>2, LeastNatural
  <2>4. ASSUME NEW m \in 0 .. k - 1 PROVE ~ Stops(m)
    <3>1. m \in 0 .. Len(s) /\ ~ (k <= m)
      BY <1>0
    <3>2. QED
      BY <2>3, <3>1
  <2>5. QED
    BY <2>4
<1> DEFINE i == CHOOSE k \in 0 .. Len(s) : First(k)
<1>3. i \in 0 .. Len(s) /\ First(i)
  <2> HIDE DEF First
  <2>1. QED
    BY <1>2
<1>4. Evicted(s, Bytes(s)) = After(i)
  BY DEF Evicted
<1> HIDE DEF i
<1>5. Evicted(s, Bytes(s)) = [store |-> left(i), total |-> Bytes(left(i))]
  BY <1>1, <1>3, <1>4
<1>6. i = Len(s) \/ ~ Over(left(i), Bytes(left(i)))
  BY <1>1, <1>3
<1>7. ASSUME NEW k \in 0 .. i - 1 PROVE Over(left(k), Bytes(left(k)))
  <2>1. ~ Stops(k)
    BY <1>3
  <2>2. k \in 0 .. Len(s)
    BY <1>0, <1>3
  <2>3. QED
    BY <1>1, <2>1, <2>2
<1>8. QED
  BY <1>3, <1>5, <1>6, <1>7

-----------------------------------------------------------------------------

\* The entries stand in the order in which they were last used.
Aged(s, u) == \A i, j \in DOMAIN s : i < j => u[s[i].key] < u[s[j].key]

\* The entry d[k] of what deleting a key from s leaves is the one s had at from[k].
Leaves(s, d, key, from) ==
  /\ from \in [DOMAIN d -> DOMAIN s]
  /\ \A k \in DOMAIN from : d[k] = s[from[k]]
  /\ \A k, m \in DOMAIN from : k < m => from[k] < from[m]
  /\ \A p \in DOMAIN s : s[p].key = key <=> ~ \E k \in DOMAIN from : from[k] = p

\* Deleting a key keeps the order and the entries of the other keys, and takes
\* the size of its entry off the bytes.
LEMMA DeletedKeeps ==
  ASSUME NEW c, c.store \in Seq(Entry), Distinct(c.store), NEW key
  PROVE  /\ Deleted(c.store, key) \in Seq(Entry)
         /\ Bytes(Deleted(c.store, key)) = Bytes(c.store) - SizeOf(c, key)
         /\ Len(Deleted(c.store, key)) =
              IF key \in KeysOf(c.store) THEN Len(c.store) - 1 ELSE Len(c.store)
         /\ key \in KeysOf(c.store) =>
              \E i \in DOMAIN c.store :
                c.store[i].key = key /\ SizeOf(c, key) = c.store[i].size
         /\ \E from : Leaves(c.store, Deleted(c.store, key), key, from)
<1> DEFINE s == c.store
           d == Deleted(s, key)
<1>0. /\ s \in Seq(Entry) /\ Distinct(s) /\ DOMAIN s = 1 .. Len(s)
      /\ Len(s) \in Nat
  OBVIOUS
<1>1. CASE key \notin KeysOf(s)
  <2>1. d = s
    BY <1>0, <1>1, DeletedFacts
  <2>2. \A p \in DOMAIN s : s[p].key # key
    BY <1>1 DEF KeysOf
  <2>3. SizeOf(c, key) = 0
    <3>1. {k \in 1 .. Len(c.store) : c.store[k].key = key} = {}
      BY <1>0, <2>2
    <3>2. QED
      BY <3>1 DEF SizeOf, SelectInSeq
  <2>4. Bytes(s) \in Nat
    BY <1>0, BytesAreNatural
  <2> DEFINE from == [k \in DOMAIN d |-> k]
  <2>5. Leaves(s, d, key, from)
    BY <2>1, <2>2 DEF Leaves
  <2>6. QED
    <3> HIDE DEF from
    <3>1. Bytes(d) = Bytes(s) - SizeOf(c, key)
      BY <2>1, <2>3, <2>4
    <3>2. QED
      BY <1>0, <1>1, <2>1, <2>5, <3>1
<1>2. CASE key \in KeysOf(s)
  <2>1. PICK i \in DOMAIN s : s[i].key = key
    BY <1>2 DEF KeysOf
  <2>2. /\ d \in Seq(Entry) /\ Len(d) = Len(s) - 1
        /\ \A k \in 1 .. Len(s) - 1 : d[k] = IF k < i THEN s[k] ELSE s[k + 1]
        /\ Bytes(d) = Bytes(s) - s[i].size
    BY <1>0, <2>1, DeletedFacts
  <2>3. SizeOf(c, key) = s[i].size
    <3>1. /\ i \in {k \in 1 .. Len(c.store) : c.store[k].key = key}
          /\ Min({k \in 1 .. Len(c.store) : c.store[k].key = key}) = i
      BY <1>0, <2>1, KeyPosition
    <3>2. SelectInSeq(c.store, LAMBDA e : e.key = key) = i /\ i # 0
      BY <3>1 DEF SelectInSeq
    <3>3. QED
      BY <3>2 DEF SizeOf
  <2> HIDE DEF d
  <2>4. DOMAIN d = 1 .. Len(s) - 1
    BY <2>2
  <2> DEFINE from == [k \in DOMAIN d |-> IF k < i THEN k ELSE k + 1]
  <2>5. i \in 1 .. Len(s)
    BY <1>0
  <2> HIDE DEF s
  <2>6. from \in [DOMAIN d -> DOMAIN s]
    BY <1>0, <2>4, <2>5
  <2>7. \A k \in DOMAIN from : d[k] = s[from[k]]
    BY <2>2, <2>4
  <2>8. \A k, m \in DOMAIN from : k < m => from[k] < from[m]
    BY <1>0, <2>4, <2>5
  <2>9. ASSUME NEW p \in DOMAIN s
        PROVE  s[p].key = key <=> ~ \E k \in DOMAIN from : from[k] = p
    <3>1. s[p].key = key <=> p = i
      BY <1>0, <2>1 DEF Distinct
    <3>2. p = i => ~ \E k \in DOMAIN from : from[k] = p
      BY <1>0, <2>4, <2>5
    <3>3. CASE p < i
      <4>1. p \in DOMAIN from /\ from[p] = p
        BY <1>0, <2>4, <2>5, <3>3
      <4>2. QED
        BY <3>1, <3>3, <4>1, <2>5
    <3>4. CASE p > i
      <4>1. p - 1 \in DOMAIN from /\ from[p - 1] = p
        BY <1>0, <2>4, <2>5, <3>4
      <4>2. QED
        BY <3>1, <3>4, <4>1, <2>5
    <3>5. QED
      BY <1>0, <2>5, <3>1, <3>2, <3>3, <3>4
  <2>10. QED
    <3> HIDE DEF from
    <3>1. Leaves(s, d, key, from)
      BY <2>6, <2>7, <2>8, <2>9 DEF Leaves
    <3>2. QED
      BY <1>0, <1>2, <2>1, <2>2, <2>3, <3>1 DEF d, s
<1>3. QED
  BY <1>1, <1>2

\* An entry at the most recent end, in place of the one its key had.
LEMMA RenewedFacts ==
  ASSUME NEW c, c.store \in Seq(Entry), Distinct(c.store),
         NEW u \in [Keys -> Nat], NEW t \in Nat, \A k \in Keys : u[k] < t,
         Aged(c.store, u), NEW e \in Entry
  PROVE  LET a == Append(Deleted(c.store, e.key), e)
         IN  /\ a \in Seq(Entry) /\ Distinct(a)
             /\ Aged(a, [u EXCEPT ![e.key] = t])
             /\ KeysOf(a) = KeysOf(c.store) \cup {e.key}
             /\ Bytes(a) = Bytes(c.store) - SizeOf(c, e.key) + e.size
             /\ Len(a) = Len(Deleted(c.store, e.key)) + 1
             /\ a[Len(a)] = e
<1> DEFINE s == c.store
           d == Deleted(s, e.key)
           a == Append(d, e)
           v == [u EXCEPT ![e.key] = t]
<1>0. e.key \in Keys /\ e.size \in Nat
  BY EntriesAreSized DEF Entry
<1>1. d \in Seq(Entry) /\ Bytes(d) = Bytes(s) - SizeOf(c, e.key)
  BY DeletedKeeps
<1>2. PICK from \in [DOMAIN d -> DOMAIN s] :
        /\ \A k \in DOMAIN from : d[k] = s[from[k]]
        /\ \A k, m \in DOMAIN from : k < m => from[k] < from[m]
        /\ \A p \in DOMAIN s : s[p].key = e.key <=> ~ \E k \in DOMAIN from : from[k] = p
  <2>1. \E from : Leaves(s, d, e.key, from)
    BY DeletedKeeps
  <2> HIDE DEF s, d
  <2>2. QED
    BY <2>1 DEF Leaves
<1>3. /\ s \in Seq(Entry) /\ Distinct(s) /\ Aged(s, u) /\ DOMAIN s = 1 .. Len(s)
      /\ \A p \in DOMAIN s : s[p] \in Entry /\ s[p].key \in Keys
  <2>1. \A p \in DOMAIN s : s[p] \in Entry
    OBVIOUS
  <2>2. QED
    BY <2>1 DEF Entry
<1> HIDE DEF d, s
<1>4. /\ a \in Seq(Entry) /\ Len(a) = Len(d) + 1 /\ a[Len(a)] = e
      /\ DOMAIN a = 1 .. Len(d) + 1 /\ DOMAIN d = 1 .. Len(d) /\ Len(d) \in Nat
      /\ \A k \in DOMAIN d : a[k] = d[k]
  BY <1>1
<1>5. \A k \in DOMAIN d : a[k] = s[from[k]] /\ a[k].key # e.key /\ from[k] \in DOMAIN s
  BY <1>2, <1>4
<1> HIDE DEF a
<1>6. Distinct(a)
  <2>1. SUFFICES ASSUME NEW i \in DOMAIN a, NEW j \in DOMAIN a,
                        a[i].key = a[j].key, i < j
                 PROVE  FALSE
    BY <1>4 DEF Distinct
  <2>2. i \in DOMAIN d
    BY <1>4, <2>1
  <2>3. CASE j \in DOMAIN d
    <3>1. from[i] = from[j]
      BY <1>3, <1>5, <2>1, <2>2, <2>3 DEF Distinct
    <3>2. from[i] < from[j] /\ from[i] \in Nat
      BY <1>2, <1>3, <2>1, <2>2, <2>3
    <3>3. QED
      BY <3>1, <3>2
  <2>4. CASE j \notin DOMAIN d
    <3>1. j = Len(a)
      BY <1>4, <2>4
    <3>2. QED
      BY <1>4, <1>5, <2>1, <2>2, <3>1
  <2>5. QED
    BY <2>3, <2>4
<1>7. Aged(a, v)
  <2>1. SUFFICES ASSUME NEW i \in DOMAIN a, NEW j \in DOMAIN a, i < j
                 PROVE  v[a[i].key] < v[a[j].key]
    BY DEF Aged
  <2>2. i \in DOMAIN d /\ a[i].key # e.key /\ a[i].key \in Keys
    <3>1. i \in DOMAIN d
      BY <1>4, <2>1
    <3>2. QED
      BY <1>3, <1>5, <3>1
  <2>3. v[a[i].key] = u[a[i].key]
    BY <2>2
  <2>4. CASE j \in DOMAIN d
    <3>1. from[i] < from[j]
      BY <1>2, <2>1, <2>2, <2>4
    <3>2. u[a[i].key] < u[a[j].key]
      BY <1>3, <1>5, <2>2, <2>4, <3>1 DEF Aged
    <3>3. v[a[j].key] = u[a[j].key]
      BY <1>3, <1>5, <2>4
    <3>4. QED
      BY <2>3, <3>2, <3>3
  <2>5. CASE j \notin DOMAIN d
    <3>1. j = Len(a)
      BY <1>4, <2>5
    <3>2. v[a[j].key] = t
      BY <1>0, <1>4, <3>1
    <3>3. QED
      BY <2>2, <2>3, <3>2
  <2>6. QED
    BY <2>4, <2>5
<1>8. KeysOf(a) = KeysOf(s) \cup {e.key}
  <2>1. ASSUME NEW k \in DOMAIN a PROVE a[k].key \in KeysOf(s) \cup {e.key}
    <3>1. CASE k \in DOMAIN d
      BY <1>5, <3>1 DEF KeysOf
    <3>2. CASE k \notin DOMAIN d
      <4>1. k = Len(a)
        BY <1>4, <3>2
      <4>2. QED
        BY <1>4, <4>1
    <3>3. QED
      BY <3>1, <3>2
  <2>2. e.key \in KeysOf(a)
    <3>1. Len(a) \in DOMAIN a /\ a[Len(a)].key = e.key
      BY <1>4
    <3>2. QED
      BY <3>1 DEF KeysOf
  <2>3. ASSUME NEW p \in DOMAIN s PROVE s[p].key \in KeysOf(a)
    <3>1. CASE s[p].key = e.key
      BY <2>2, <3>1
    <3>2. CASE s[p].key # e.key
      <4>1. PICK k \in DOMAIN from : from[k] = p
        BY <1>2, <3>2
      <4>2. k \in DOMAIN a /\ a[k].key = s[p].key
        BY <1>4, <1>5, <4>1
      <4>3. QED
        BY <4>2 DEF KeysOf
    <3>3. QED
      BY <3>1, <3>2
  <2>4. QED
    BY <2>1, <2>2, <2>3 DEF KeysOf
<1>9. Bytes(a) = Bytes(s) - SizeOf(c, e.key) + e.size
  BY <1>1, BytesAppended DEF a
<1>10. QED
  BY <1>4, <1>6, <1>7, <1>8, <1>9 DEF a, d, s

\* What is left of a store when its oldest entries are dropped.
LEMMA LeftFacts ==
  ASSUME NEW a \in Seq(Entry), Distinct(a), NEW v, Aged(a, v), NEW i \in 0 .. Len(a)
  PROVE  LET r == SubSeq(a, i + 1, Len(a))
         IN  /\ r \in Seq(Entry) /\ Distinct(r) /\ Aged(r, v)
             /\ KeysOf(r) = {a[k].key : k \in i + 1 .. Len(a)}
<1> DEFINE r == SubSeq(a, i + 1, Len(a))
<1>1. /\ r \in Seq(Entry) /\ Len(r) = Len(a) - i
      /\ \A k \in 1 .. Len(a) - i : r[k] = a[i + k]
  BY SplitFacts
<1>2. /\ DOMAIN r = 1 .. Len(a) - i /\ DOMAIN a = 1 .. Len(a)
      /\ Len(a) \in Nat /\ i \in Nat /\ i <= Len(a)
  BY <1>1
<1> HIDE DEF r
<1>3. \A k \in DOMAIN r : i + k \in DOMAIN a /\ r[k] = a[i + k]
  BY <1>1, <1>2
<1>4. Distinct(r)
  <2>1. SUFFICES ASSUME NEW k \in DOMAIN r, NEW m \in DOMAIN r, r[k].key = r[m].key
                 PROVE  k = m
    BY DEF Distinct
  <2>2. i + k = i + m
    BY <1>3, <2>1 DEF Distinct
  <2>3. QED
    BY <1>2, <2>2
<1>5. Aged(r, v)
  <2>1. SUFFICES ASSUME NEW k \in DOMAIN r, NEW m \in DOMAIN r, k < m
                 PROVE  v[r[k].key] < v[r[m].key]
    BY DEF Aged
  <2>2. i + k < i + m
    BY <1>2, <2>1
  <2>3. QED
    BY <1>3, <2>2 DEF Aged
<1>6. KeysOf(r) = {a[k].key : k \in i + 1 .. Len(a)}
  <2>1. ASSUME NEW k \in DOMAIN r
        PROVE  \E m \in i + 1 .. Len(a) : r[k].key = a[m].key
    <3>1. i + k \in i + 1 .. Len(a)
      BY <1>2
    <3>2. QED
      BY <1>3, <3>1
  <2>2. ASSUME NEW m \in i + 1 .. Len(a)
        PROVE  \E k \in DOMAIN r : r[k].key = a[m].key
    <3>1. m - i \in DOMAIN r /\ i + (m - i) = m
      BY <1>2
    <3>2. QED
      BY <1>3, <3>1
  <2>3. KeysOf(r) = {r[k].key : k \in DOMAIN r}
    BY DEF KeysOf
  <2>4. ASSUME NEW x PROVE x \in KeysOf(r) <=> x \in {a[k].key : k \in i + 1 .. Len(a)}
    BY <2>1, <2>2, <2>3
  <2>5. QED
    BY <2>4
<1>7. QED
  BY <1>1, <1>4, <1>5, <1>6 DEF r

-----------------------------------------------------------------------------
(* The methods on any sound cache, for the modules that use one *)

SoundCache(c) ==
  /\ c \in [store : Seq(Entry), total : Nat]
  /\ Distinct(c.store)
  /\ c.total = Bytes(c.store)

EntriesOf(s) == {s[i] : i \in DOMAIN s}

\* The order of a store is that of some past of its keys.
LEMMA SomeAge ==
  ASSUME NEW s \in Seq(Entry), Distinct(s)
  PROVE  \E u \in [Keys -> Nat], t \in Nat : Aged(s, u) /\ \A k \in Keys : u[k] < t
<1> DEFINE at(k) == {i \in DOMAIN s : s[i].key = k}
           u == [k \in Keys |-> IF at(k) = {} THEN 0 ELSE CHOOSE i \in at(k) : TRUE]
<1>1. DOMAIN s = 1 .. Len(s) /\ Len(s) \in Nat /\ \A i \in DOMAIN s : s[i].key \in Keys
  <2>1. \A i \in DOMAIN s : s[i] \in Entry
    OBVIOUS
  <2>2. QED
    BY <2>1 DEF Entry
<1>2. \A k \in Keys : u[k] \in Nat /\ u[k] < Len(s) + 1
  <2>1. \A k \in Keys : at(k) # {} => (CHOOSE i \in at(k) : TRUE) \in 1 .. Len(s)
    BY <1>1
  <2>2. QED
    BY <1>1, <2>1
<1>3. \A i \in DOMAIN s : u[s[i].key] = i
  <2>1. \A i \in DOMAIN s : at(s[i].key) = {i}
    BY DEF Distinct
  <2>2. QED
    BY <1>1, <2>1
<1>4. u \in [Keys -> Nat]
  BY <1>2
<1> HIDE DEF u
<1>5. Aged(s, u)
  BY <1>3 DEF Aged
<1>6. QED
  BY <1>1, <1>2, <1>4, <1>5

\* An entry put at the end of a sound cache, in place of the one of its key.
LEMMA RenewedStore ==
  ASSUME NEW c, SoundCache(c), NEW e \in Entry
  PROVE  LET a == Append(Deleted(c.store, e.key), e)
         IN  /\ a \in Seq(Entry) /\ Distinct(a)
             /\ Bytes(a) = Bytes(c.store) - SizeOf(c, e.key) + e.size
             /\ KeysOf(a) = KeysOf(c.store) \cup {e.key}
             /\ EntriesOf(a) \subseteq EntriesOf(c.store) \cup {e}
<1> DEFINE d == Deleted(c.store, e.key)
           a == Append(d, e)
<1>1. c.store \in Seq(Entry) /\ Distinct(c.store)
  BY DEF SoundCache
<1>2. PICK u \in [Keys -> Nat], t \in Nat :
        Aged(c.store, u) /\ \A k \in Keys : u[k] < t
  BY <1>1, SomeAge
<1>3. /\ a \in Seq(Entry) /\ Distinct(a)
      /\ Bytes(a) = Bytes(c.store) - SizeOf(c, e.key) + e.size
      /\ KeysOf(a) = KeysOf(c.store) \cup {e.key}
  BY <1>1, <1>2, RenewedFacts
<1>4. PICK from : Leaves(c.store, d, e.key, from)
  BY <1>1, DeletedKeeps
<1>5. d \in Seq(Entry)
  BY <1>1, DeletedKeeps
<1> HIDE DEF d
<1>6. \A i \in DOMAIN a : a[i] = e \/ (i \in DOMAIN d /\ a[i] = d[i])
  BY <1>5
<1>7. \A i \in DOMAIN d : d[i] \in EntriesOf(c.store)
  BY <1>4 DEF Leaves, EntriesOf
<1> HIDE DEF a
<1>8. EntriesOf(a) \subseteq EntriesOf(c.store) \cup {e}
  BY <1>6, <1>7 DEF EntriesOf
<1>9. QED
  BY <1>3, <1>8 DEF a, d

\* A get moves an entry: the cache stays sound and holds what it held.
LEMMA GetKeepsSound ==
  ASSUME NEW c, SoundCache(c), NEW key \in Keys
  PROVE  /\ SoundCache(AfterCacheGet(c, key))
         /\ CachedKeys(AfterCacheGet(c, key)) = CachedKeys(c)
         /\ EntriesOf(AfterCacheGet(c, key).store) \subseteq EntriesOf(c.store)
<1>1. CASE ~ (Enabled /\ key \in CachedKeys(c))
  BY <1>1 DEF AfterCacheGet
<1>2. CASE Enabled /\ key \in CachedKeys(c)
  <2> DEFINE e == [key |-> key, size |-> SizeOf(c, key)]
             a == Append(Deleted(c.store, e.key), e)
  <2>1. PICK i \in DOMAIN c.store : c.store[i].key = key /\ SizeOf(c, key) = c.store[i].size
    BY <1>2, DeletedKeeps DEF SoundCache, CachedKeys, KeysOf
  <2>2. c.store[i] \in Entry
    BY DEF SoundCache
  <2>3. c.store[i] = e /\ e \in Entry /\ e.key = key /\ e.size = SizeOf(c, key)
    BY <2>1, <2>2 DEF Entry
  <2>4. AfterCacheGet(c, key) = [c EXCEPT !.store = a]
    BY <1>2 DEF AfterCacheGet
  <2> HIDE DEF e
  <2>5. /\ a \in Seq(Entry) /\ Distinct(a)
        /\ Bytes(a) = Bytes(c.store) - SizeOf(c, e.key) + e.size
        /\ KeysOf(a) = KeysOf(c.store) \cup {e.key}
        /\ EntriesOf(a) \subseteq EntriesOf(c.store) \cup {e}
    BY <2>3, RenewedStore
  <2> HIDE DEF a
  <2>6. /\ AfterCacheGet(c, key).store = a
        /\ AfterCacheGet(c, key).total = c.total
        /\ AfterCacheGet(c, key) \in [store : Seq(Entry), total : Nat]
    BY <2>4, <2>5 DEF SoundCache
  <2>7. Bytes(a) = Bytes(c.store)
    <3>1. Bytes(c.store) \in Nat /\ e.size \in Nat
      BY <2>3, BytesAreNatural, EntriesAreSized DEF SoundCache
    <3>2. QED
      BY <2>3, <2>5, <3>1
  <2>8. SoundCache(AfterCacheGet(c, key))
    BY <2>5, <2>6, <2>7 DEF SoundCache
  <2>9. e \in EntriesOf(c.store) /\ e.key \in KeysOf(c.store)
    BY <2>1, <2>3 DEF EntriesOf, KeysOf
  <2>10. QED
    BY <2>5, <2>6, <2>8, <2>9 DEF CachedKeys, KeysOf
<1>3. QED
  BY <1>1, <1>2

\* A put adds one entry at most, and drops nothing if that leaves the cache
\* within its limits.
LEMMA PutKeepsSound ==
  ASSUME NEW c, SoundCache(c), NEW e \in Entry
  PROVE  LET a == Append(Deleted(c.store, e.key), e)
             p == AfterPut(c, e.key, e.size)
         IN  /\ SoundCache(p)
             /\ CachedKeys(p) \subseteq CachedKeys(c) \cup {e.key}
             /\ EntriesOf(p.store) \subseteq EntriesOf(c.store) \cup {e}
             /\ Enabled /\ ~ Oversized(e.size) /\ ~ Over(a, Bytes(a))
                  => CachedKeys(p) = CachedKeys(c) \cup {e.key}
<1> DEFINE a == Append(Deleted(c.store, e.key), e)
           p == AfterPut(c, e.key, e.size)
           left(k) == SubSeq(a, k + 1, Len(a))
<1>1. CASE ~ Enabled \/ Oversized(e.size)
  BY <1>1 DEF AfterPut
<1>2. CASE Enabled /\ ~ Oversized(e.size)
  <2>1. /\ a \in Seq(Entry) /\ Distinct(a)
        /\ Bytes(a) = Bytes(c.store) - SizeOf(c, e.key) + e.size
        /\ KeysOf(a) = KeysOf(c.store) \cup {e.key}
        /\ EntriesOf(a) \subseteq EntriesOf(c.store) \cup {e}
    BY RenewedStore
  <2>2. p = Evicted(a, Bytes(a))
    <3>1. e = [key |-> e.key, size |-> e.size]
      BY DEF Entry
    <3>2. p = Evicted(a, c.total - SizeOf(c, e.key) + e.size)
      BY <1>2, <3>1 DEF AfterPut
    <3> HIDE DEF a, p
    <3>3. QED
      BY <2>1, <3>2 DEF SoundCache
  <2> HIDE DEF a, p
  <2>3. PICK n \in 0 .. Len(a) :
          /\ p = [store |-> left(n), total |-> Bytes(left(n))]
          /\ \A k \in 0 .. n - 1 : Over(left(k), Bytes(left(k)))
    BY <2>1, <2>2, EvictedFacts
  <2>4. /\ left(n) \in Seq(Entry) /\ Len(left(n)) = Len(a) - n
        /\ \A k \in 1 .. Len(a) - n : left(n)[k] = a[n + k]
    BY <2>1, SplitFacts
  <2>5. Len(a) \in Nat /\ DOMAIN a = 1 .. Len(a) /\ n \in Nat /\ n <= Len(a)
    BY <2>1
  <2>6. DOMAIN left(n) = 1 .. Len(a) - n
    BY <2>4
  <2>7. \A k \in DOMAIN left(n) : n + k \in DOMAIN a /\ left(n)[k] = a[n + k]
    <3> HIDE DEF left
    <3>1. QED
      BY <2>4, <2>5, <2>6
  <2>8. left(0) = a
    <3>1. /\ left(0) \in Seq(Entry) /\ Len(left(0)) = Len(a) - 0
          /\ \A k \in 1 .. Len(a) - 0 : left(0)[k] = a[0 + k]
      BY <2>1, <2>5, SplitFacts
    <3> HIDE DEF left
    <3>2. QED
      BY <2>1, <2>5, <3>1
  <2> DEFINE l == left(n)
  <2> HIDE DEF left
  <2>9. Distinct(l)
    <3>1. ASSUME NEW i \in DOMAIN l, NEW j \in DOMAIN l, l[i].key = l[j].key PROVE i = j
      <4>1. n + i = n + j
        BY <2>1, <2>7, <3>1 DEF Distinct
      <4>2. QED
        BY <2>5, <2>6, <4>1
    <3>2. QED
      BY <3>1 DEF Distinct
  <2>10. EntriesOf(l) \subseteq EntriesOf(a)
    BY <2>7 DEF EntriesOf
  <2>11. KeysOf(l) \subseteq KeysOf(a)
    BY <2>7 DEF KeysOf
  <2>12. p.store = l /\ p.total = Bytes(l)
    BY <2>3
  <2>13. Bytes(l) \in Nat
    BY <2>4, BytesAreNatural
  <2>14. SoundCache(p)
    <3>1. p \in [store : Seq(Entry), total : Nat]
      BY <2>3, <2>4, <2>13
    <3> HIDE DEF l
    <3>2. QED
      BY <2>9, <2>12, <3>1 DEF SoundCache
  <2>15. ASSUME ~ Over(a, Bytes(a)) PROVE KeysOf(l) = KeysOf(a)
    <3>1. n = 0
      <4>1. SUFFICES ASSUME n # 0 PROVE FALSE
        OBVIOUS
      <4>2. 0 \in 0 .. n - 1
        BY <2>5, <4>1
      <4>3. QED
        BY <2>3, <2>8, <2>15, <4>2
    <3>2. QED
      BY <2>8, <3>1
  <2> HIDE DEF l
  <2>16. CachedKeys(p) = KeysOf(l) /\ CachedKeys(c) = KeysOf(c.store)
    BY <2>12 DEF CachedKeys, KeysOf
  <2>17. /\ CachedKeys(p) \subseteq CachedKeys(c) \cup {e.key}
         /\ EntriesOf(p.store) \subseteq EntriesOf(c.store) \cup {e}
    BY <2>1, <2>10, <2>11, <2>12, <2>16
  <2>18. ~ Over(a, Bytes(a)) => CachedKeys(p) = CachedKeys(c) \cup {e.key}
    BY <2>1, <2>15, <2>16
  <2>19. QED
    BY <2>14, <2>17, <2>18 DEF a, p
<1>3. QED
  BY <1>1, <1>2

-----------------------------------------------------------------------------

\* What every state satisfies: the limits hold, and the store is in the order
\* of the last uses.
CacheInv == TypeOK /\ WithinLimits /\ Aged(cache.store, used)

LEMMA CacheInit == Init => CacheInv
<1> SUFFICES ASSUME Init PROVE CacheInv
  OBVIOUS
<1>1. cache.store = <<>> /\ cache.total = 0
  BY DEF Init, EmptyCache
<1>2. TypeOK
  <2>1. cache \in [store : Seq([key : Keys, size : Sizes]), total : Nat]
    BY DEF Init, EmptyCache
  <2>2. clock \in 0 .. MaxOps /\ used \in [Keys -> 0 .. clock]
    BY BoundAssumption DEF Init
  <2>3. DOMAIN cache.store = {}
    BY <1>1
  <2>4. QED
    BY <2>1, <2>2, <2>3 DEF TypeOK
<1>3. WithinLimits
  BY <1>1, BytesOfEmpty, CacheAssumption DEF WithinLimits
<1>4. QED
  BY <1>1, <1>2, <1>3 DEF CacheInv, Aged

LEMMA TypeParts ==
  ASSUME CacheInv
  PROVE  /\ cache.store \in Seq(Entry) /\ Distinct(cache.store)
         /\ used \in [Keys -> Nat] /\ clock \in Nat
         /\ \A k \in Keys : used[k] < clock + 1
         /\ Aged(cache.store, used) /\ cache.total = Bytes(cache.store)
         /\ KeysOf(cache.store) = CachedKeys(cache)
         /\ KeysOf(cache.store) \subseteq Keys
         /\ ~ Enabled => cache.store = <<>>
<1>1. cache.store \in Seq(Entry) /\ Distinct(cache.store)
  BY DEF CacheInv, TypeOK, Entry, Distinct
<1>2. clock \in 0 .. MaxOps /\ used \in [Keys -> 0 .. clock]
  BY DEF CacheInv, TypeOK
<1>3. clock \in Nat /\ \A k \in Keys : used[k] \in Nat /\ used[k] < clock + 1
  BY <1>2, BoundAssumption
<1>4. KeysOf(cache.store) \subseteq Keys
  <2>1. \A k \in DOMAIN cache.store : cache.store[k] \in Entry
    BY <1>1
  <2>2. QED
    BY <2>1 DEF KeysOf, Entry
<1>5. ASSUME ~ Enabled PROVE cache.store = <<>>
  <2>1. Len(cache.store) = 0
    <3>1. Len(cache.store) \in Nat /\ Len(cache.store) <= MaxEntries
      BY <1>1 DEF CacheInv, WithinLimits
    <3>2. QED
      BY <1>5, <3>1, CacheAssumption DEF Enabled
  <2>2. QED
    BY <1>1, <2>1
<1>6. used \in [Keys -> Nat]
  BY <1>2, <1>3
<1>7. QED
  BY <1>1, <1>3, <1>4, <1>5, <1>6 DEF CacheInv, WithinLimits, KeysOf, CachedKeys

\* A call leaves the clock and the last uses in their range.
LEMMA Ticks ==
  ASSUME CacheInv, Call, NEW key \in Keys,
         used' = used \/ used' = [used EXCEPT ![key] = clock']
  PROVE  clock' = clock + 1 /\ clock' \in 0 .. MaxOps /\ used' \in [Keys -> 0 .. clock']
<1>1. clock \in 0 .. MaxOps /\ used \in [Keys -> 0 .. clock]
  BY DEF CacheInv, TypeOK
<1>2. clock' = clock + 1 /\ clock' \in 0 .. MaxOps
  BY <1>1, BoundAssumption DEF Call
<1>3. \A k \in Keys : used[k] \in 0 .. clock'
  BY <1>1, <1>2
<1>4. QED
  BY <1>1, <1>2, <1>3

\* A hit moves the entry to the most recent end and drops nothing.
LEMMA GetKeeps ==
  ASSUME CacheInv, NEW key \in Keys, Get(key)
  PROVE  CacheInv' /\ KeysOf(cache.store) \subseteq CachedKeys(cache')
<1>1. CASE ~ (Enabled /\ key \in CachedKeys(cache))
  <2>1. key \notin CachedKeys(cache)
    BY <1>1, TypeParts DEF CachedKeys
  <2>2. cache' = cache /\ used' = used /\ Call
    BY <1>1, <2>1 DEF Get, AfterCacheGet
  <2>3. clock' \in 0 .. MaxOps /\ used' \in [Keys -> 0 .. clock']
    BY <2>2, Ticks
  <2>4. TypeOK'
    BY <2>2, <2>3 DEF CacheInv, TypeOK
  <2>5. WithinLimits'
    BY <2>2 DEF CacheInv, WithinLimits
  <2>6. QED
    BY <2>2, <2>4, <2>5, TypeParts DEF CacheInv
<1>2. CASE Enabled /\ key \in CachedKeys(cache)
  <2> DEFINE e == [key |-> key, size |-> SizeOf(cache, key)]
             a == Append(Deleted(cache.store, key), e)
             v == [used EXCEPT ![key] = clock + 1]
  <2>1. /\ Call /\ used' = [used EXCEPT ![key] = clock']
        /\ cache' = [cache EXCEPT !.store = a]
    BY <1>2 DEF Get, AfterCacheGet
  <2>2. /\ clock' = clock + 1 /\ clock' \in 0 .. MaxOps
        /\ used' \in [Keys -> 0 .. clock'] /\ used' = v
    BY <2>1, Ticks
  <2>3. /\ Len(Deleted(cache.store, key)) = Len(cache.store) - 1
        /\ SizeOf(cache, key) \in Sizes
    <3>1. PICK i \in DOMAIN cache.store :
            cache.store[i].key = key /\ SizeOf(cache, key) = cache.store[i].size
      BY <1>2, TypeParts, DeletedKeeps
    <3>2. cache.store[i] \in Entry
      BY TypeParts
    <3>3. cache.store[i].size \in Sizes
      BY <3>2 DEF Entry
    <3>4. Len(Deleted(cache.store, key)) = Len(cache.store) - 1
      BY <1>2, TypeParts, DeletedKeeps
    <3>5. QED
      BY <3>1, <3>3, <3>4
  <2>4. e \in Entry /\ e.key = key /\ e.size = SizeOf(cache, key)
    BY <2>3 DEF Entry
  <2>5. /\ a \in Seq(Entry) /\ Distinct(a) /\ Aged(a, v)
        /\ KeysOf(a) = KeysOf(cache.store) \cup {key}
        /\ Bytes(a) = Bytes(cache.store) - SizeOf(cache, key) + SizeOf(cache, key)
        /\ Len(a) = Len(Deleted(cache.store, key)) + 1
    <3> HIDE DEF e
    <3> DEFINE b == Append(Deleted(cache.store, e.key), e)
    <3>1. /\ cache.store \in Seq(Entry) /\ Distinct(cache.store)
          /\ used \in [Keys -> Nat] /\ clock + 1 \in Nat
          /\ \A k \in Keys : used[k] < clock + 1
          /\ Aged(cache.store, used)
      BY TypeParts
    <3>2. /\ b \in Seq(Entry) /\ Distinct(b)
          /\ Aged(b, [used EXCEPT ![e.key] = clock + 1])
          /\ KeysOf(b) = KeysOf(cache.store) \cup {e.key}
          /\ Bytes(b) = Bytes(cache.store) - SizeOf(cache, e.key) + e.size
          /\ Len(b) = Len(Deleted(cache.store, e.key)) + 1
      BY <2>4, <3>1, RenewedFacts
    <3> HIDE DEF b
    <3>3. a = b
      BY <2>4 DEF b
    <3> HIDE DEF a
    <3>4. QED
      BY <2>4, <3>2, <3>3
  <2> HIDE DEF a, v, e
  <2>6. cache'.store = a /\ cache'.total = cache.total
    <3>1. cache \in [store : Seq(Entry), total : Nat]
      BY DEF CacheInv, TypeOK, Entry
    <3>2. QED
      BY <2>1, <3>1
  <2>7. Len(a) = Len(cache.store) /\ Bytes(a) = Bytes(cache.store)
    <3>0. cache.store \in Seq(Entry)
      BY TypeParts
    <3>1. /\ Len(cache.store) \in Nat /\ Bytes(cache.store) \in Nat
      BY <3>0, BytesAreNatural
    <3>2. SizeOf(cache, key) \in Nat
      BY <2>3, SizesAssumption
    <3>3. QED
      BY <2>3, <2>5, <3>1, <3>2
  <2>8. TypeOK'
    <3>1. cache' \in [store : Seq(Entry), total : Nat]
      <4>1. cache \in [store : Seq(Entry), total : Nat]
        BY DEF CacheInv, TypeOK, Entry
      <4>2. QED
        BY <2>1, <2>5, <4>1
    <3>2. QED
      BY <2>2, <2>5, <2>6, <3>1 DEF TypeOK, Distinct, Entry
  <2>9. WithinLimits'
    BY <2>6, <2>7 DEF CacheInv, WithinLimits
  <2>10. QED
    BY <2>2, <2>5, <2>6, <2>8, <2>9 DEF CacheInv, KeysOf, CachedKeys
<1>3. QED
  BY <1>1, <1>2

\* Putting a body: the parts of the new store, the loop's result, and what it
\* drops.
LEMMA PutKeeps ==
  ASSUME CacheInv, NEW key \in Keys, NEW size \in Sizes, Put(key, size)
  PROVE  /\ CacheInv'
         /\ \/ KeysOf(cache.store) \subseteq CachedKeys(cache')
            \/ LET s == cache.store
                   dropped == {k \in DOMAIN s : s[k].key \notin CachedKeys(cache')}
               IN  /\ \A k \in dropped :
                        \A kept \in CachedKeys(cache) \cap CachedKeys(cache') :
                          used[s[k].key] < used'[kept]
                   /\ \A i \in dropped : (\A k \in dropped : k <= i) =>
                        Over(<<s[i]>> \o cache'.store, Bytes(<<s[i]>> \o cache'.store))
<1> DEFINE s == cache.store
<1>0. size \in Nat /\ MaxEntries \in Nat /\ MaxTotalBytes \in Nat
  BY SizesAssumption, CacheAssumption
<1>1. CASE ~ Enabled \/ Oversized(size)
  <2>1. cache' = cache /\ Call
    BY <1>1 DEF Put, AfterPut
  <2>2. used' = used
    <3>1. CASE Oversized(size)
      BY <3>1 DEF Put
    <3>2. CASE ~ Enabled
      <4>1. cache'.store = <<>>
        BY <2>1, <3>2, TypeParts
      <4>2. CachedKeys(cache') = {}
        BY <4>1 DEF CachedKeys
      <4>3. QED
        BY <4>2 DEF Put
    <3>3. QED
      BY <1>1, <3>1, <3>2
  <2>3. clock' \in 0 .. MaxOps /\ used' \in [Keys -> 0 .. clock']
    BY <2>1, <2>2, Ticks
  <2>4. TypeOK'
    BY <2>1, <2>3 DEF CacheInv, TypeOK
  <2>5. WithinLimits'
    BY <2>1 DEF CacheInv, WithinLimits
  <2>6. QED
    BY <2>1, <2>2, <2>4, <2>5, TypeParts DEF CacheInv
<1>2. CASE Enabled /\ ~ Oversized(size)
  <2> DEFINE e == [key |-> key, size |-> size]
             d == Deleted(s, e.key)
             a == Append(d, e)
             t == clock + 1
             v == [used EXCEPT ![e.key] = t]
             left(k) == SubSeq(a, k + 1, Len(a))
  <2>e. e \in Entry /\ e.key = key /\ e.size = size
    BY DEF Entry
  <2> HIDE DEF e
  <2>1. /\ a \in Seq(Entry) /\ Distinct(a) /\ Aged(a, v)
        /\ KeysOf(a) = KeysOf(s) \cup {key}
        /\ Bytes(a) = Bytes(s) - SizeOf(cache, key) + size
        /\ Len(a) = Len(d) + 1 /\ a[Len(a)] = e
    <3>1. /\ cache.store \in Seq(Entry) /\ Distinct(cache.store)
          /\ used \in [Keys -> Nat] /\ clock + 1 \in Nat
          /\ \A k \in Keys : used[k] < clock + 1
          /\ Aged(cache.store, used)
      BY TypeParts
    <3>2. /\ a \in Seq(Entry) /\ Distinct(a)
          /\ Aged(a, v)
          /\ KeysOf(a) = KeysOf(cache.store) \cup {e.key}
          /\ Bytes(a) = Bytes(cache.store) - SizeOf(cache, e.key) + e.size
          /\ Len(a) = Len(Deleted(cache.store, e.key)) + 1
          /\ a[Len(a)] = e
      BY <2>e, <3>1, RenewedFacts
    <3> HIDE DEF a, v
    <3>3. QED
      BY <2>e, <3>2
  <2>2. PICK from : Leaves(s, d, key, from)
    <3>1. \E from : Leaves(s, d, e.key, from)
      BY TypeParts, DeletedKeeps
    <3> HIDE DEF s, d
    <3>2. QED
      BY <2>e, <3>1
  <2>3. cache' = Evicted(a, Bytes(a)) /\ Call
    <3>1. cache.total - SizeOf(cache, key) + size = Bytes(a)
      BY <2>1, TypeParts
    <3>2. AfterPut(cache, key, size) = Evicted(a, cache.total - SizeOf(cache, key) + size)
      BY <1>2, <2>e DEF AfterPut, e
    <3> HIDE DEF a
    <3>3. QED
      BY <3>1, <3>2 DEF Put
  <2>4. PICK n \in 0 .. Len(a) :
          /\ cache' = [store |-> left(n), total |-> Bytes(left(n))]
          /\ n = Len(a) \/ ~ Over(left(n), Bytes(left(n)))
          /\ \A k \in 0 .. n - 1 : Over(left(k), Bytes(left(k)))
    BY <2>1, <2>3, EvictedFacts
  <2>5. /\ DOMAIN a = 1 .. Len(a) /\ Len(a) \in Nat /\ n \in Nat
        /\ DOMAIN d = 1 .. Len(d) /\ Len(d) \in Nat /\ Len(a) = Len(d) + 1
        /\ \A k \in DOMAIN d : a[k] = d[k]
    <3>1. d \in Seq(Entry)
      BY TypeParts, DeletedKeeps
    <3> HIDE DEF d
    <3>2. QED
      BY <2>e, <3>1
  <2>6. DOMAIN s = 1 .. Len(s) /\ Len(s) \in Nat /\ Distinct(s) /\ s \in Seq(Entry)
    BY TypeParts
  <2> HIDE DEF a, d, v, s, t
  <2>7. ASSUME NEW k \in 0 .. Len(a)
        PROVE  /\ left(k) \in Seq(Entry) /\ Distinct(left(k)) /\ Aged(left(k), v)
               /\ KeysOf(left(k)) = {a[i].key : i \in k + 1 .. Len(a)}
               /\ Bytes(left(k)) \in Nat /\ Len(left(k)) = Len(a) - k
    <3>1. /\ left(k) \in Seq(Entry) /\ Distinct(left(k)) /\ Aged(left(k), v)
          /\ KeysOf(left(k)) = {a[i].key : i \in k + 1 .. Len(a)}
      BY <2>1, LeftFacts
    <3>2. Len(left(k)) = Len(a) - k
      BY <2>1, SplitFacts
    <3>3. Bytes(left(k)) \in Nat
      <4> HIDE DEF left
      <4>1. QED
        BY <3>1, BytesAreNatural
    <3>4. QED
      BY <3>1, <3>2, <3>3
  \* The new entry alone is within the limits, so it stays.
  <2>8. n < Len(a)
    <3>1. SUFFICES ASSUME n = Len(a) PROVE FALSE
      BY <2>5
    <3>2. Len(a) - 1 \in 0 .. n - 1 /\ Len(a) - 1 \in 0 .. Len(a)
          /\ (Len(a) - 1) + 1 = Len(a)
      BY <2>5, <3>1
    <3>3. left(Len(a) - 1) = <<e>>
      <4> DEFINE l == left(Len(a) - 1)
      <4>1. l \in Seq(Entry) /\ Len(l) = 1 /\ l[1] = a[(Len(a) - 1) + 1]
        <5>1. /\ l \in Seq(Entry) /\ Len(l) = Len(a) - (Len(a) - 1)
              /\ \A k \in 1 .. Len(a) - (Len(a) - 1) : l[k] = a[(Len(a) - 1) + k]
          BY <2>1, <3>2, SplitFacts
        <5>2. Len(a) - (Len(a) - 1) = 1
          BY <2>5
        <5> HIDE DEF l
        <5>3. QED
          BY <5>1, <5>2
      <4> HIDE DEF l
      <4>2. l = <<e>>
        BY <2>1, <3>2, <4>1
      <4>3. QED
        BY <4>2 DEF l
    <3>4. Over(<<e>>, Bytes(<<e>>))
      BY <2>4, <3>2, <3>3
    <3>5. Bytes(<<e>>) = size /\ Len(<<e>>) = 1
      BY <2>e, BytesOfOne
    <3>6. QED
      BY <1>0, <1>2, <3>4, <3>5 DEF Over, Enabled, Oversized
  <2>9. n \in 0 .. Len(a) /\ cache'.store = left(n) /\ cache'.total = Bytes(left(n))
        /\ cache' \in [store : Seq(Entry), total : Nat]
    <3>1. left(n) \in Seq(Entry) /\ Bytes(left(n)) \in Nat
      BY <2>7
    <3> HIDE DEF left
    <3>2. QED
      BY <2>4, <3>1
  <2>10. CachedKeys(cache') = {a[i].key : i \in n + 1 .. Len(a)}
    <3>1. CachedKeys(cache') = KeysOf(left(n))
      BY <2>9 DEF CachedKeys, KeysOf
    <3>2. QED
      BY <2>7, <3>1
  <2>11. key \in CachedKeys(cache')
    <3>1. Len(a) \in n + 1 .. Len(a) /\ a[Len(a)].key = key
      BY <2>1, <2>5, <2>8, <2>e
    <3>2. QED
      BY <2>10, <3>1
  <2>12. /\ clock' = clock + 1 /\ clock' \in 0 .. MaxOps
         /\ used' \in [Keys -> 0 .. clock'] /\ used' = v
    <3>1. used' = [used EXCEPT ![key] = clock']
      BY <1>2, <2>11 DEF Put
    <3>2. QED
      BY <2>3, <2>e, <3>1, Ticks DEF v, t
  <2>13. CacheInv'
    <3>1. TypeOK'
      BY <2>7, <2>9, <2>12 DEF TypeOK, Distinct, Entry
    <3>2. WithinLimits'
      <4>1. ~ Over(left(n), Bytes(left(n)))
        BY <2>4, <2>8, <2>5
      <4>2. Len(left(n)) \in Nat /\ Bytes(left(n)) \in Nat
        BY <2>5, <2>7
      <4>3. QED
        BY <1>0, <2>9, <4>1, <4>2 DEF WithinLimits, Over
    <3>3. Aged(cache.store, used)'
      BY <2>7, <2>9, <2>12
    <3>4. QED
      BY <3>1, <3>2, <3>3 DEF CacheInv
  <2> DEFINE dropped == {k \in DOMAIN s : s[k].key \notin CachedKeys(cache')}
  <2>14. /\ from \in [DOMAIN d -> DOMAIN s]
         /\ \A k \in DOMAIN d : a[k] = s[from[k]]
         /\ \A k, m \in DOMAIN d : k < m => from[k] < from[m]
    BY <2>2, <2>5 DEF Leaves
  <2>15. ASSUME NEW k \in dropped
         PROVE  \E m \in 1 .. n : m \in DOMAIN d /\ from[m] = k /\ a[m] = s[k]
    <3>1. s[k].key # key
      BY <2>11
    <3>2. PICK m \in DOMAIN d : from[m] = k
      BY <2>2, <3>1 DEF Leaves
    <3>3. a[m] = s[k]
      BY <2>14, <3>2
    <3>4. m <= n
      <4>1. SUFFICES ASSUME m > n PROVE FALSE
        BY <2>5, <3>2
      <4>2. m \in n + 1 .. Len(a)
        BY <2>5, <3>2, <4>1
      <4>3. a[m].key \in CachedKeys(cache')
        BY <2>10, <4>2
      <4>4. QED
        BY <3>3, <4>3
    <3>5. QED
      BY <2>5, <3>2, <3>3, <3>4
  <2>16. ASSUME NEW k \in dropped, NEW kept \in CachedKeys(cache) \cap CachedKeys(cache')
         PROVE  used[s[k].key] < used'[kept]
    <3>1. PICK m \in 1 .. n : m \in DOMAIN d /\ a[m] = s[k]
      BY <2>15
    <3>2. PICK j \in n + 1 .. Len(a) : kept = a[j].key
      BY <2>10
    <3>3. v[a[m].key] < v[a[j].key]
      <4>1. m \in DOMAIN a /\ j \in DOMAIN a /\ m < j
        BY <2>5, <3>1, <3>2
      <4>2. QED
        BY <2>1, <4>1 DEF Aged
    <3>4. v[s[k].key] = used[s[k].key]
      <4>1. s[k].key # key
        BY <2>11
      <4>2. s[k].key \in Keys
        BY TypeParts DEF KeysOf, s
      <4>3. QED
        BY <2>e, <4>1, <4>2, TypeParts DEF v
    <3>5. QED
      BY <2>12, <3>1, <3>2, <3>3, <3>4
  <2>17. ASSUME NEW i \in dropped, \A k \in dropped : k <= i
         PROVE  Over(<<s[i]>> \o cache'.store, Bytes(<<s[i]>> \o cache'.store))
    <3>1. PICK m \in 1 .. n : m \in DOMAIN d /\ from[m] = i /\ a[m] = s[i]
      BY <2>15
    <3>2. n \in DOMAIN d /\ n \in 1 .. Len(a) /\ n - 1 \in 0 .. n - 1
          /\ n - 1 \in 0 .. Len(a)
      BY <2>5, <2>8, <3>1
    <3>3. from[n] \in dropped
      <4>1. a[n] = s[from[n]] /\ from[n] \in DOMAIN s
        BY <2>14, <3>2
      <4>2. ASSUME NEW j \in n + 1 .. Len(a) PROVE a[n].key # a[j].key
        <5>1. n \in DOMAIN a /\ j \in DOMAIN a /\ n # j
          BY <2>5, <3>2
        <5>2. QED
          BY <2>1, <5>1 DEF Distinct
      <4>3. QED
        BY <2>10, <4>1, <4>2
    <3>4. m = n
      <4>1. SUFFICES ASSUME m < n PROVE FALSE
        BY <3>1, <2>5
      <4>2. i < from[n]
        BY <2>14, <3>1, <3>2, <4>1
      <4>3. from[n] <= i
        BY <3>3, <2>17
      <4>4. i \in Nat /\ from[n] \in Nat
        BY <2>6, <2>14, <3>2
      <4>5. QED
        BY <4>2, <4>3, <4>4
    <3>5. <<s[i]>> \o cache'.store = left(n - 1)
      <4> DEFINE l == left(n - 1)
                 r == left(n)
      <4>1. /\ l \in Seq(Entry) /\ Len(l) = Len(a) - (n - 1)
            /\ \A k \in 1 .. Len(a) - (n - 1) : l[k] = a[(n - 1) + k]
        BY <2>1, <3>2, SplitFacts
      <4>2. /\ r \in Seq(Entry) /\ Len(r) = Len(a) - n
            /\ \A k \in 1 .. Len(a) - n : r[k] = a[n + k]
        BY <2>1, <2>4, SplitFacts
      <4> HIDE DEF l, r
      <4> DEFINE b == <<s[i]>> \o r
      <4>3. s[i] \in Entry
        BY <2>6
      <4>4. /\ b \in Seq(Entry) /\ Len(b) = 1 + Len(r) /\ b[1] = s[i]
            /\ \A k \in 1 .. Len(r) : b[1 + k] = r[k]
        <5> DEFINE one == <<s[i]>>
        <5>1. one \in Seq(Entry) /\ Len(one) = 1 /\ one[1] = s[i]
          BY <4>3
        <5> HIDE DEF one
        <5>2. r \in Seq(Entry) /\ Len(r) \in Nat
          BY <4>2
        <5>3. /\ one \o r \in Seq(Entry) /\ Len(one \o r) = Len(one) + Len(r)
              /\ \A k \in 1 .. Len(one) + Len(r) :
                   (one \o r)[k] = IF k <= Len(one) THEN one[k] ELSE r[k - Len(one)]
          BY <5>1, <5>2, ConcatProperties
        <5>4. (one \o r)[1] = s[i]
          BY <5>1, <5>2, <5>3
        <5>5. ASSUME NEW k \in 1 .. Len(r) PROVE (one \o r)[1 + k] = r[k]
          <6>1. 1 + k \in 1 .. 1 + Len(r) /\ ~ (1 + k <= 1) /\ (1 + k) - 1 = k
            BY <5>2
          <6>2. QED
            BY <5>1, <5>3, <6>1
        <5>6. QED
          BY <5>1, <5>3, <5>4, <5>5 DEF one
      <4> HIDE DEF b
      <4>5. Len(b) = Len(l)
        BY <2>5, <4>1, <4>2, <4>4
      <4>6. ASSUME NEW k \in 1 .. Len(b) PROVE b[k] = l[k]
        <5>1. CASE k = 1
          <6>1. 1 \in 1 .. Len(a) - (n - 1) /\ (n - 1) + 1 = n
            BY <2>5, <3>2
          <6>2. QED
            BY <3>1, <3>4, <4>1, <4>4, <5>1, <6>1
        <5>2. CASE k # 1
          <6>1. /\ k - 1 \in 1 .. Len(r) /\ 1 + (k - 1) = k
                /\ k - 1 \in 1 .. Len(a) - n
                /\ n + (k - 1) = (n - 1) + k
                /\ k \in 1 .. Len(a) - (n - 1)
            BY <2>5, <3>2, <4>2, <4>4, <5>2
          <6>2. b[k] = r[k - 1] /\ r[k - 1] = a[n + (k - 1)]
            BY <4>2, <4>4, <6>1
          <6>3. QED
            BY <4>1, <6>1, <6>2
        <5>3. QED
          BY <5>1, <5>2
      <4>7. b = l
        BY <4>1, <4>4, <4>5, <4>6, SeqEqual
      <4>8. QED
        BY <2>9, <4>7 DEF b, l, r
    <3>6. QED
      BY <2>4, <3>2, <3>5
  <2>18. QED
    BY <2>13, <2>16, <2>17 DEF s
<1>3. QED
  BY <1>1, <1>2

-----------------------------------------------------------------------------

LEMMA CacheStep == CacheInv /\ [Next]_vars => CacheInv'
<1> SUFFICES ASSUME CacheInv, [Next]_vars PROVE CacheInv'
  OBVIOUS
<1>1. ASSUME NEW key \in Keys, Get(key) PROVE CacheInv'
  BY <1>1, GetKeeps
<1>2. ASSUME NEW key \in Keys, NEW size \in Sizes, Put(key, size) PROVE CacheInv'
  BY <1>2, PutKeeps
<1>3. ASSUME UNCHANGED vars PROVE CacheInv'
  BY <1>3 DEF vars, CacheInv, TypeOK, WithinLimits, Aged
<1>4. QED
  BY <1>1, <1>2, <1>3 DEF Next

LEMMA CacheHolds == Spec => []CacheInv
<1>1. QED
  BY CacheInit, CacheStep, PTL DEF Spec

\* The store holds one entry for each of its keys, of the sizes that were put.
THEOREM CacheTypes == Spec => []TypeOK
<1>1. CacheInv => TypeOK
  BY DEF CacheInv
<1>2. QED
  BY <1>1, CacheHolds, PTL

\* The bounds of cache.py, "bounded by entry count AND total bytes", hold after
\* every call, measured on the entries, and the counter equals their bytes.
THEOREM CacheWithinLimits == Spec => []WithinLimits
<1>1. CacheInv => WithinLimits
  BY DEF CacheInv
<1>2. QED
  BY <1>1, CacheHolds, PTL

\* An eviction takes the least recently used entries, and no more than it must.
THEOREM LeastRecentlyUsedGoes == Spec => EvictsRightly
<1> DEFINE Step ==
      LET dropped == {k \in DOMAIN cache.store :
                        cache.store[k].key \notin CachedKeys(cache')}
      IN  /\ \A k \in dropped, kept \in CachedKeys(cache) \cap CachedKeys(cache') :
               used[cache.store[k].key] < used'[kept]
          /\ \A i \in dropped : (\A k \in dropped : k <= i)
               => LET back == <<cache.store[i]>> \o cache'.store
                  IN  Over(back, Bytes(back))
<1>1. CacheInv /\ [Next]_vars => [Step]_vars
  <2> SUFFICES ASSUME CacheInv, Next PROVE Step
    OBVIOUS
  <2>1. ASSUME KeysOf(cache.store) \subseteq CachedKeys(cache') PROVE Step
    BY <2>1 DEF KeysOf
  <2>2. ASSUME NEW key \in Keys, Get(key) PROVE Step
    BY <2>1, <2>2, GetKeeps
  <2>3. ASSUME NEW key \in Keys, NEW size \in Sizes, Put(key, size) PROVE Step
    BY <2>1, <2>3, PutKeeps
  <2>4. QED
    BY <2>2, <2>3 DEF Next
<1>2. QED
  BY <1>1, CacheHolds, PTL DEF Spec, EvictsRightly
=============================================================================
