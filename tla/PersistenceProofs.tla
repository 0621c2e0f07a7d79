-------------------------- MODULE PersistenceProofs --------------------------
(***************************************************************************)
(* Theorems about persist_results and the lemmas they rest on.             *)
(***************************************************************************)
EXTENDS Persistence, NaturalFacts, FiniteSetTheorems, SequenceTheorems

-----------------------------------------------------------------------------
(* The requests of a run *)

\* The slices of range(0, n, CHUNK) cover the payload.
LEMMA SlicesCover ==
  ASSUME NEW n \in Nat, NEW i \in 1 .. n
  PROVE  \E k \in DOMAIN Slices(n) : i \in Slices(n)[k]
<1> DEFINE c == CHUNK
           q == (n + c - 1) \div c
           k == (i - 1) \div c
<1>0. c \in Nat \ {0} /\ n \in Nat \ {0} /\ i \in Nat \ {0} /\ i <= n
  BY PersistAssumption
<1> HIDE DEF c
<1>1. q \in Nat \ {0} /\ q * c >= n
  BY <1>0, RoundedUp
<1>2. k \in Int /\ c * k <= i - 1 /\ i - 1 < c * k + c
  BY <1>0
<1> HIDE DEF q, k
<1>3. k >= 0
  BY <1>0, <1>2
<1>4. k < q
  <2>1. SUFFICES ASSUME q <= k PROVE FALSE
    BY <1>1, <1>2
  <2>2. q * c <= k * c
    BY <1>0, <1>1, <1>2, <2>1, TimesMonotonic
  <2>3. k * c = c * k /\ q * c \in Int /\ k * c \in Int
    BY <1>0, <1>1, <1>2
  <2> DEFINE x == q * c
             y == k * c
  <2>4. x \in Int /\ y \in Int /\ x <= y /\ x >= n /\ y <= i - 1
    BY <1>1, <1>2, <2>2, <2>3
  <2> HIDE DEF x, y
  <2>5. QED
    BY <1>0, <2>4
<1>5. k + 1 \in 1 .. q /\ (k + 1) - 1 = k /\ (k + 1) * c = c * k + c /\ k * c = c * k
      /\ c * k \in Int
  BY <1>0, <1>1, <1>2, <1>3, <1>4
<1> DEFINE top == IF (k + 1) * c < n THEN (k + 1) * c ELSE n
<1>6. i \in k * c + 1 .. top
  <2> DEFINE y == c * k
  <2>1. y \in Int /\ y <= i - 1 /\ i - 1 < y + c /\ k * c = y /\ (k + 1) * c = y + c
    BY <1>2, <1>5
  <2> HIDE DEF y
  <2>2. QED
    BY <1>0, <2>1
<1>7. Slices(n)[k + 1] = k * c + 1 .. top /\ k + 1 \in DOMAIN Slices(n)
  BY <1>5 DEF Slices, q, c
<1>8. QED
  <2> HIDE DEF top
  <2>1. QED
    BY <1>6, <1>7

\* How many requests a payload takes.
LEMMA SlicesLength ==
  ASSUME NEW n \in Nat
  PROVE  \E m \in Nat : DOMAIN Slices(n) = 1 .. m /\ Slices(n) \in Seq(SUBSET Int)
<1> DEFINE c == CHUNK
           m == (n + c - 1) \div c
<1>0. c \in Nat \ {0}
  BY PersistAssumption
<1> HIDE DEF c
<1>1. m \in Int /\ n + c - 1 < c * m + c
  BY <1>0
<1>2. m \in Nat
  <2> HIDE DEF m
  <2>1. m >= 0
    <3>1. SUFFICES ASSUME m <= -1 PROVE FALSE
      BY <1>1
    <3>2. m * c <= (-1) * c
      BY <1>0, <1>1, <3>1, TimesMonotonic
    <3>3. m * c = c * m /\ (-1) * c = - c /\ c * m \in Int
      BY <1>0, <1>1
    <3> DEFINE y == c * m
    <3>4. y \in Int /\ y <= - c /\ n + c - 1 < y + c
      BY <1>1, <3>2, <3>3
    <3> HIDE DEF y
    <3>5. QED
      BY <1>0, <3>4
  <2>2. QED
    BY <1>1, <2>1
<1>3. DOMAIN Slices(n) = 1 .. m
  BY DEF Slices, m, c
<1>4. Slices(n) \in [1 .. m -> SUBSET Int]
  <2>1. ASSUME NEW k \in 1 .. m PROVE Slices(n)[k] \in SUBSET Int
    BY <2>1 DEF Slices, m, c
  <2> HIDE DEF m
  <2>2. Slices(n) = [k \in 1 .. m |-> Slices(n)[k]]
    BY <1>3 DEF Slices
  <2>3. QED
    BY <2>1, <2>2
<1>5. Slices(n) \in Seq(SUBSET Int)
  <2> HIDE DEF m
  <2>1. QED
    BY <1>2, <1>4
<1>6. QED
  BY <1>2, <1>3, <1>5

\* A row of a payload has a place in it.
LEMMA PlaceInside ==
  ASSUME NEW payload, IsFiniteSet(payload), payload \subseteq Nat, NEW i \in payload
  PROVE  Place(i, payload) \in 1 .. Cardinality(payload)
<1> DEFINE upto == {j \in payload : j <= i}
<1>1. upto \in SUBSET payload /\ i \in upto
  OBVIOUS
<1>2. IsFiniteSet(upto) /\ Cardinality(upto) <= Cardinality(payload)
  BY <1>1, FS_Subset
<1>3. Cardinality(upto) \in Nat /\ Cardinality(payload) \in Nat
  BY <1>2, FS_CardinalityType
<1>4. Cardinality(upto) # 0
  BY <1>1, <1>2, FS_EmptySet
<1>5. QED
  BY <1>2, <1>3, <1>4 DEF Place

PostsOf(r, kind, payload) == [kind : {kind}, run : {r}, rows : SUBSET payload]

\* The posts of a payload carry all its rows and no others.
LEMMA PostsFacts ==
  ASSUME NEW r, NEW kind, NEW payload, IsFiniteSet(payload), payload \subseteq Nat
  PROVE  /\ Posts(r, kind, payload) \in Seq(PostsOf(r, kind, payload))
         /\ \A i \in payload : \E k \in DOMAIN Posts(r, kind, payload) :
              i \in Posts(r, kind, payload)[k].rows
<1> DEFINE n == Cardinality(payload)
           P == Posts(r, kind, payload)
           Post == PostsOf(r, kind, payload)
<1>1. n \in Nat
  BY FS_CardinalityType
<1>2. PICK m \in Nat : DOMAIN Slices(n) = 1 .. m
  BY <1>1, SlicesLength
<1>3. P = [k \in 1 .. m |->
             [kind |-> kind, run |-> r,
              rows |-> {i \in payload : Place(i, payload) \in Slices(n)[k]}]]
  BY <1>2 DEF Posts
<1>4. P \in [1 .. m -> Post]
  BY <1>3 DEF PostsOf
<1>5. P \in Seq(Post)
  <2> HIDE DEF P, Post
  <2>1. QED
    BY <1>2, <1>4
<1>6. ASSUME NEW i \in payload PROVE \E k \in DOMAIN P : i \in P[k].rows
  <2>1. Place(i, payload) \in 1 .. n
    BY PlaceInside
  <2>2. PICK k \in 1 .. m : Place(i, payload) \in Slices(n)[k]
    BY <1>1, <1>2, <2>1, SlicesCover
  <2>3. i \in P[k].rows /\ k \in DOMAIN P
    BY <1>3, <2>2
  <2>4. QED
    BY <2>3
<1>7. QED
  BY <1>5, <1>6

Req(r) == [kind : {"delete", "clusters", "keywords", "patch"}, run : {r}, rows : SUBSET Nat]

\* The rows of a result are finitely many natural numbers.
LEMMA ResultFacts ==
  ASSUME NEW r \in Runs
  PROVE  /\ IsFiniteSet(1 .. Size[r]) /\ 1 .. Size[r] \subseteq Nat
         /\ IsFiniteSet(Payload(r)) /\ Payload(r) \subseteq Nat
<1>1. Size[r] \in Nat /\ Member[r] \in Seq(0 .. Size[r])
  BY PersistAssumption
<1>2. Len(Member[r]) \in Nat /\ DOMAIN Member[r] = 1 .. Len(Member[r])
  BY <1>1
<1>3. IsFiniteSet(1 .. Size[r]) /\ IsFiniteSet(1 .. Len(Member[r]))
  <2>1. IsFiniteSet(1 .. Size[r])
    BY <1>1, FS_Interval
  <2>2. IsFiniteSet(1 .. Len(Member[r]))
    BY <1>2, FS_Interval
  <2>3. QED
    BY <2>1, <2>2
<1>4. Payload(r) \in SUBSET (1 .. Len(Member[r]))
  BY <1>2 DEF Payload
<1>5. IsFiniteSet(Payload(r))
  BY <1>3, <1>4, FS_Subset
<1>6. QED
  BY <1>2, <1>3, <1>4, <1>5

\* A run sends its DELETE first, then posts every row of its result, and nothing
\* else, then marks the upload.
LEMMA PlanFacts ==
  ASSUME NEW r \in Runs
  PROVE  LET p == Plan(r)
             n == Len(p)
         IN  /\ p \in Seq(Req(r)) /\ n \in Nat /\ n >= 2
             /\ \A m \in 1 .. n :
                  /\ p[m].kind = "delete" <=> m = 1
                  /\ p[m].kind = "patch" <=> m = n
                  /\ p[m].kind = "clusters" => p[m].rows \subseteq 1 .. Size[r]
                  /\ p[m].kind = "keywords" => p[m].rows \subseteq Payload(r)
             /\ \A i \in 1 .. Size[r] :
                  \E m \in 1 .. n : p[m].kind = "clusters" /\ i \in p[m].rows
             /\ \A i \in Payload(r) :
                  \E m \in 1 .. n : p[m].kind = "keywords" /\ i \in p[m].rows
<1> DEFINE C == Posts(r, "clusters", 1 .. Size[r])
           K == Posts(r, "keywords", Payload(r))
           D == <<Delete(r)>>
           P == <<Patch(r)>>
           c == Len(C)
           k == Len(K)
           R == Req(r)
           p == Plan(r)
<1>1. /\ C \in Seq(PostsOf(r, "clusters", 1 .. Size[r]))
      /\ \A i \in 1 .. Size[r] : \E m \in DOMAIN C : i \in C[m].rows
  BY ResultFacts, PostsFacts
<1>2. /\ K \in Seq(PostsOf(r, "keywords", Payload(r)))
      /\ \A i \in Payload(r) : \E m \in DOMAIN K : i \in K[m].rows
  BY ResultFacts, PostsFacts
<1> HIDE DEF C, K
<1>3. /\ c \in Nat /\ DOMAIN C = 1 .. c
      /\ \A m \in 1 .. c : /\ C[m] \in R /\ C[m].kind = "clusters"
                           /\ C[m].rows \subseteq 1 .. Size[r]
  <2>1. c \in Nat /\ DOMAIN C = 1 .. c
    BY <1>1
  <2>2. ASSUME NEW m \in 1 .. c
        PROVE  C[m] \in R /\ C[m].kind = "clusters" /\ C[m].rows \subseteq 1 .. Size[r]
    <3>1. C[m] \in PostsOf(r, "clusters", 1 .. Size[r])
      BY <1>1, <2>1
    <3>2. QED
      BY <3>1, ResultFacts DEF Req, PostsOf
  <2>3. QED
    BY <2>1, <2>2
<1>4. /\ k \in Nat /\ DOMAIN K = 1 .. k
      /\ \A m \in 1 .. k : /\ K[m] \in R /\ K[m].kind = "keywords"
                           /\ K[m].rows \subseteq Payload(r)
  <2>1. k \in Nat /\ DOMAIN K = 1 .. k
    BY <1>2
  <2>2. ASSUME NEW m \in 1 .. k
        PROVE  K[m] \in R /\ K[m].kind = "keywords" /\ K[m].rows \subseteq Payload(r)
    <3>1. K[m] \in PostsOf(r, "keywords", Payload(r))
      BY <1>2, <2>1
    <3>2. QED
      BY <3>1, ResultFacts DEF Req, PostsOf
  <2>3. QED
    BY <2>1, <2>2
<1>5. /\ Delete(r) \in R /\ Delete(r).kind = "delete"
      /\ Patch(r) \in R /\ Patch(r).kind = "patch"
  BY DEF Delete, Patch, Req
<1>6. /\ D \in Seq(R) /\ Len(D) = 1 /\ D[1] = Delete(r)
      /\ P \in Seq(R) /\ Len(P) = 1 /\ P[1] = Patch(r)
  BY <1>5
<1>7. C \in Seq(R) /\ K \in Seq(R)
  <2>1. C \in [1 .. c -> R] /\ K \in [1 .. k -> R]
    <3>1. C \in Seq(PostsOf(r, "clusters", 1 .. Size[r]))
      BY <1>1
    <3>2. K \in Seq(PostsOf(r, "keywords", Payload(r)))
      BY <1>2
    <3>3. C = [m \in 1 .. c |-> C[m]] /\ K = [m \in 1 .. k |-> K[m]]
      BY <1>3, <1>4, <3>1, <3>2
    <3> HIDE DEF c, k, R
    <3>4. QED
      BY <1>3, <1>4, <3>3
  <2> HIDE DEF c, k, R
  <2>2. QED
    BY <1>3, <1>4, <2>1
<1> HIDE DEF D, P, R
<1> DEFINE X == D \o C
           Y == X \o K
<1>8. p = Y \o P
  BY DEF Plan, C, K, D, P
<1> HIDE DEF p
<1>9. /\ X \in Seq(R) /\ Len(X) = 1 + c
      /\ \A m \in 1 .. 1 + c : X[m] = IF m <= 1 THEN D[m] ELSE C[m - 1]
  <2>1. /\ X \in Seq(R) /\ Len(X) = Len(D) + Len(C)
        /\ \A m \in 1 .. Len(D) + Len(C) :
             X[m] = IF m <= Len(D) THEN D[m] ELSE C[m - Len(D)]
    BY <1>6, <1>7, ConcatProperties
  <2> HIDE DEF X
  <2>2. QED
    BY <1>6, <2>1
<1> HIDE DEF X
<1>10. /\ Y \in Seq(R) /\ Len(Y) = 1 + c + k
       /\ \A m \in 1 .. 1 + c + k : Y[m] = IF m <= 1 + c THEN X[m] ELSE K[m - (1 + c)]
  <2>1. /\ Y \in Seq(R) /\ Len(Y) = Len(X) + Len(K)
        /\ \A m \in 1 .. Len(X) + Len(K) :
             Y[m] = IF m <= Len(X) THEN X[m] ELSE K[m - Len(X)]
    BY <1>7, <1>9, ConcatProperties
  <2> HIDE DEF Y
  <2>2. QED
    BY <1>9, <2>1
<1> HIDE DEF Y
<1>11. /\ p \in Seq(R) /\ Len(p) = 1 + c + k + 1
       /\ \A m \in 1 .. 1 + c + k + 1 :
            p[m] = IF m <= 1 + c + k THEN Y[m] ELSE P[m - (1 + c + k)]
  <2> DEFINE Z == Y \o P
  <2>1. /\ Z \in Seq(R) /\ Len(Z) = Len(Y) + Len(P)
        /\ \A m \in 1 .. Len(Y) + Len(P) :
             Z[m] = IF m <= Len(Y) THEN Y[m] ELSE P[m - Len(Y)]
    BY <1>6, <1>10, ConcatProperties
  <2>2. p = Z
    BY <1>8
  <2> HIDE DEF Z
  <2>3. QED
    BY <1>6, <1>10, <2>1, <2>2
<1> HIDE DEF c, k
<1>12. p[1] = Delete(r)
  <2>1. 1 \in 1 .. 1 + c + k + 1 /\ 1 <= 1 + c + k /\ 1 \in 1 .. 1 + c + k
        /\ 1 <= 1 + c /\ 1 \in 1 .. 1 + c
    BY <1>3, <1>4
  <2>2. QED
    BY <1>6, <1>9, <1>10, <1>11, <2>1
<1>13. ASSUME NEW m \in 1 .. c PROVE p[1 + m] = C[m] /\ 1 + m \in 2 .. 1 + c
  <2>1. /\ 1 + m \in 1 .. 1 + c + k + 1 /\ 1 + m <= 1 + c + k /\ 1 + m \in 1 .. 1 + c + k
        /\ 1 + m <= 1 + c /\ 1 + m \in 1 .. 1 + c /\ ~ (1 + m <= 1) /\ (1 + m) - 1 = m
        /\ 1 + m \in 2 .. 1 + c
    BY <1>3, <1>4
  <2>2. QED
    BY <1>9, <1>10, <1>11, <2>1
<1>14. ASSUME NEW m \in 1 .. k
       PROVE  p[(1 + c) + m] = K[m] /\ (1 + c) + m \in 2 + c .. 1 + c + k
  <2>1. /\ (1 + c) + m \in 1 .. 1 + c + k + 1 /\ (1 + c) + m <= 1 + c + k
        /\ (1 + c) + m \in 1 .. 1 + c + k /\ ~ ((1 + c) + m <= 1 + c)
        /\ ((1 + c) + m) - (1 + c) = m /\ (1 + c) + m \in 2 + c .. 1 + c + k
    BY <1>3, <1>4
  <2>2. QED
    BY <1>10, <1>11, <2>1
<1>15. p[1 + c + k + 1] = Patch(r)
  <2>1. /\ 1 + c + k + 1 \in 1 .. 1 + c + k + 1 /\ ~ (1 + c + k + 1 <= 1 + c + k)
        /\ (1 + c + k + 1) - (1 + c + k) = 1
    BY <1>3, <1>4
  <2>2. QED
    BY <1>6, <1>11, <2>1
<1> DEFINE n == Len(p)
<1>16. n \in Nat /\ n >= 2 /\ n = 1 + c + k + 1
  BY <1>3, <1>4, <1>11
<1> HIDE DEF n
<1>17. ASSUME NEW m \in 1 .. n
       PROVE  /\ p[m].kind = "delete" <=> m = 1
              /\ p[m].kind = "patch" <=> m = n
              /\ p[m].kind = "clusters" => p[m].rows \subseteq 1 .. Size[r]
              /\ p[m].kind = "keywords" => p[m].rows \subseteq Payload(r)
  <2>1. CASE m = 1
    BY <1>5, <1>12, <1>16, <2>1
  <2>2. CASE m \in 2 .. 1 + c
    <3>1. m - 1 \in 1 .. c /\ 1 + (m - 1) = m /\ m # 1 /\ m # n
      BY <1>3, <1>4, <1>16, <2>2
    <3>2. p[m] = C[m - 1]
      BY <1>13, <3>1
    <3>3. QED
      BY <1>3, <3>1, <3>2
  <2>3. CASE m \in 2 + c .. 1 + c + k
    <3>1. m - (1 + c) \in 1 .. k /\ (1 + c) + (m - (1 + c)) = m /\ m # 1 /\ m # n
      BY <1>3, <1>4, <1>16, <2>3
    <3>2. p[m] = K[m - (1 + c)]
      BY <1>14, <3>1
    <3>3. QED
      BY <1>4, <3>1, <3>2
  <2>4. CASE m = n
    BY <1>5, <1>15, <1>16, <2>4
  <2>5. QED
    BY <1>3, <1>4, <1>16, <2>1, <2>2, <2>3, <2>4
<1>18. ASSUME NEW i \in 1 .. Size[r]
       PROVE  \E m \in 1 .. n : p[m].kind = "clusters" /\ i \in p[m].rows
  <2>1. PICK m \in 1 .. c : i \in C[m].rows
    BY <1>1, <1>3
  <2>2. 1 + m \in 1 .. n /\ p[1 + m] = C[m]
    BY <1>3, <1>4, <1>13, <1>16
  <2>3. QED
    BY <1>3, <2>1, <2>2
<1>19. ASSUME NEW i \in Payload(r)
       PROVE  \E m \in 1 .. n : p[m].kind = "keywords" /\ i \in p[m].rows
  <2>1. PICK m \in 1 .. k : i \in K[m].rows
    BY <1>2, <1>4
  <2>2. (1 + c) + m \in 1 .. n /\ p[(1 + c) + m] = K[m]
    BY <1>3, <1>4, <1>14, <1>16
  <2>3. QED
    BY <1>4, <2>1, <2>2
<1>20. QED
  BY <1>11, <1>16, <1>17, <1>18, <1>19 DEF p, n, R

-----------------------------------------------------------------------------
(* The inductive invariant *)

\* The rows that the requests of r of one kind carry, up to the one before k.
Written(r, k, kind) ==
  {<<r, i>> : i \in UNION {Plan(r)[m].rows : m \in {n \in 1 .. k - 1 : Plan(r)[n].kind = kind}}}

\* The rows of r's upload are those of the requests r has behind it, with or
\* without those of the request it is at.
Between(r) ==
  /\ Written(r, step[r], "clusters") \subseteq Of(clusters, UploadOf[r])
  /\ Of(clusters, UploadOf[r]) \subseteq Written(r, step[r] + 1, "clusters")
  /\ Written(r, step[r], "keywords") \subseteq Of(keywords, UploadOf[r])
  /\ Of(keywords, UploadOf[r]) \subseteq Written(r, step[r] + 1, "keywords")

\* A request still on its way is the one its run broke at.
LateOnes ==
  \A q \in late : q.run \in Runs /\ outcome[q.run] = "broken" /\ q = Request(q.run)

\* A run that has not sent its last request has not marked its upload.
Marks ==
  \A r \in Runs :
    /\ outcome[r] = "idle" => step[r] = 1
    /\ outcome[r] \in {"idle", "running"} => complete[UploadOf[r]] # r

\* What the two ghost sets mean.
Order ==
  /\ \A u \in Uploads : last[u] # None => UploadOf[last[u]] = u
  /\ \A r \in Runs : UploadOf[r] \in inTurn /\ Sending(r) => last[UploadOf[r]] = r
  /\ \A q \in late : UploadOf[q.run] \in inTurn \cap settled => last[UploadOf[q.run]] = q.run

\* An upload whose runs came one at a time has the rows of the run begun last,
\* or, until that one's DELETE is through, those of one earlier run.
ContentOf(u) ==
  IF last[u] = None \/ step[last[u]] = 1 THEN OneRun(u) ELSE Between(last[u])

Content == \A u \in Uploads : u \in inTurn \cap settled => ContentOf(u)

PersistInv == TypeOK /\ OutcomeTruthful /\ LateOnes /\ Marks /\ Order /\ Content
-----------------------------------------------------------------------------
(* The rows a run has written *)

RowSet(r, rows) == {<<r, i>> : i \in rows}

\* Sending one more request adds its rows, if they are of the kind asked for.
LEMMA WrittenNext ==
  ASSUME NEW r \in Runs, NEW k \in Nat \ {0}, NEW kind
  PROVE  Written(r, k + 1, kind) =
           Written(r, k, kind)
             \cup (IF Plan(r)[k].kind = kind THEN RowSet(r, Plan(r)[k].rows) ELSE {})
<1> DEFINE Before(n) == {m \in 1 .. n - 1 : Plan(r)[m].kind = kind}
<1>1. Before(k + 1) = Before(k) \cup (IF Plan(r)[k].kind = kind THEN {k} ELSE {})
  <2>1. 1 .. (k + 1) - 1 = (1 .. k - 1) \cup {k}
    OBVIOUS
  <2>2. QED
    BY <2>1
<1>2. ASSUME NEW n \in Nat, NEW x
      PROVE  x \in Written(r, n, kind) <=>
               \E m \in Before(n) : \E i \in Plan(r)[m].rows : x = <<r, i>>
  BY DEF Written
<1>3. ASSUME NEW x
      PROVE  x \in Written(r, k + 1, kind) <=>
               \/ x \in Written(r, k, kind)
               \/ Plan(r)[k].kind = kind /\ x \in RowSet(r, Plan(r)[k].rows)
  <2>1. k + 1 \in Nat /\ k \in Nat
    OBVIOUS
  <2> HIDE DEF Before
  <2>2. x \in Written(r, k + 1, kind) <=>
          \/ \E m \in Before(k) : \E i \in Plan(r)[m].rows : x = <<r, i>>
          \/ Plan(r)[k].kind = kind /\ \E i \in Plan(r)[k].rows : x = <<r, i>>
    BY <1>1, <1>2, <2>1
  <2>3. QED
    BY <1>2, <2>1, <2>2 DEF RowSet
<1>4. QED
  BY <1>3

\* The DELETE writes nothing.
LEMMA WrittenFirst ==
  ASSUME NEW r \in Runs, NEW kind \in {"clusters", "keywords"}
  PROVE  Written(r, 1, kind) = {} /\ Written(r, 2, kind) = {}
<1>1. Written(r, 1, kind) = {}
  <2>1. 1 .. 1 - 1 = {}
    OBVIOUS
  <2>2. QED
    BY <2>1 DEF Written
<1>2. Plan(r)[1].kind = "delete"
  BY PlanFacts
<1>3. Written(r, 1 + 1, kind) = Written(r, 1, kind)
  <2>1. Plan(r)[1].kind # kind /\ 1 \in Nat \ {0}
    BY <1>2
  <2>2. Written(r, 1 + 1, kind) =
          Written(r, 1, kind)
            \cup (IF Plan(r)[1].kind = kind THEN RowSet(r, Plan(r)[1].rows) ELSE {})
    BY <2>1, WrittenNext
  <2>3. QED
    BY <2>1, <2>2
<1>4. 1 + 1 = 2
  OBVIOUS
<1>5. QED
  BY <1>1, <1>3, <1>4

\* Before the PATCH every row has been sent.
LEMMA WrittenAll ==
  ASSUME NEW r \in Runs
  PROVE  LET n == Len(Plan(r))
         IN  /\ Written(r, n, "clusters") = RowSet(r, 1 .. Size[r])
             /\ Written(r, n, "keywords") = RowSet(r, Payload(r))
             /\ Written(r, n + 1, "clusters") = RowSet(r, 1 .. Size[r])
             /\ Written(r, n + 1, "keywords") = RowSet(r, Payload(r))
<1> DEFINE p == Plan(r)
           n == Len(p)
<1>1. /\ n \in Nat /\ n >= 2
      /\ \A m \in 1 .. n :
           /\ p[m].kind = "delete" <=> m = 1
           /\ p[m].kind = "patch" <=> m = n
           /\ p[m].kind = "clusters" => p[m].rows \subseteq 1 .. Size[r]
           /\ p[m].kind = "keywords" => p[m].rows \subseteq Payload(r)
      /\ \A i \in 1 .. Size[r] : \E m \in 1 .. n : p[m].kind = "clusters" /\ i \in p[m].rows
      /\ \A i \in Payload(r) : \E m \in 1 .. n : p[m].kind = "keywords" /\ i \in p[m].rows
  BY PlanFacts
<1> HIDE DEF n
<1>2. p[n].kind = "patch"
  BY <1>1
<1>3. ASSUME NEW m \in 1 .. n, p[m].kind \in {"clusters", "keywords"} PROVE m \in 1 .. n - 1
  BY <1>1, <1>2, <1>3
<1>4. Written(r, n, "clusters") = RowSet(r, 1 .. Size[r])
  <2>1. ASSUME NEW i
        PROVE  i \in UNION {p[m].rows : m \in {k \in 1 .. n - 1 : p[k].kind = "clusters"}}
                 <=> i \in 1 .. Size[r]
    <3>1. \A m \in 1 .. n - 1 : m \in 1 .. n
      BY <1>1
    <3>2. i \in 1 .. Size[r] =>
            \E m \in 1 .. n - 1 : p[m].kind = "clusters" /\ i \in p[m].rows
      BY <1>1, <1>3
    <3>3. QED
      BY <1>1, <3>1, <3>2
  <2>2. QED
    BY <2>1 DEF Written, RowSet
<1>5. Written(r, n, "keywords") = RowSet(r, Payload(r))
  <2>1. ASSUME NEW i
        PROVE  i \in UNION {p[m].rows : m \in {k \in 1 .. n - 1 : p[k].kind = "keywords"}}
                 <=> i \in Payload(r)
    <3>1. \A m \in 1 .. n - 1 : m \in 1 .. n
      BY <1>1
    <3>2. i \in Payload(r) =>
            \E m \in 1 .. n - 1 : p[m].kind = "keywords" /\ i \in p[m].rows
      BY <1>1, <1>3
    <3>3. QED
      BY <1>1, <3>1, <3>2
  <2>2. QED
    BY <2>1 DEF Written, RowSet
<1>6. n \in Nat \ {0}
  BY <1>1
<1>7. /\ Written(r, n + 1, "clusters") = Written(r, n, "clusters")
      /\ Written(r, n + 1, "keywords") = Written(r, n, "keywords")
  <2>1. ASSUME NEW kind, p[n].kind # kind
        PROVE  Written(r, n + 1, kind) = Written(r, n, kind)
    <3>1. Written(r, n + 1, kind) =
            Written(r, n, kind)
              \cup (IF p[n].kind = kind THEN RowSet(r, p[n].rows) ELSE {})
      BY <1>6, WrittenNext
    <3> HIDE DEF p
    <3>2. QED
      BY <2>1, <3>1
  <2>2. QED
    BY <1>2, <2>1
<1>8. QED
  BY <1>4, <1>5, <1>7 DEF n

-----------------------------------------------------------------------------
(* What a request does to the tables *)

\* The request a run is at.
LEMMA RequestFacts ==
  ASSUME TypeOK, NEW r \in Runs
  PROVE  LET q == Request(r)
             n == Len(Plan(r))
         IN  /\ q \in Req(r) /\ q.run = r /\ UploadOf[r] \in Uploads
             /\ step[r] \in 1 .. n /\ n \in Nat /\ n >= 2
             /\ q.kind = "delete" <=> step[r] = 1
             /\ q.kind = "patch" <=> step[r] = n
             /\ q.kind = "clusters" => q.rows \subseteq 1 .. Size[r]
             /\ q.kind = "keywords" => q.rows \subseteq Payload(r)
<1>1. step[r] \in 1 .. Len(Plan(r))
  BY DEF TypeOK
<1>2. /\ Plan(r) \in Seq(Req(r)) /\ Len(Plan(r)) \in Nat /\ Len(Plan(r)) >= 2
      /\ \A m \in 1 .. Len(Plan(r)) :
           /\ Plan(r)[m].kind = "delete" <=> m = 1
           /\ Plan(r)[m].kind = "patch" <=> m = Len(Plan(r))
           /\ Plan(r)[m].kind = "clusters" => Plan(r)[m].rows \subseteq 1 .. Size[r]
           /\ Plan(r)[m].kind = "keywords" => Plan(r)[m].rows \subseteq Payload(r)
  BY PlanFacts
<1>3. Request(r) \in Req(r)
  BY <1>1, <1>2 DEF Request
<1>4. Request(r).run = r
  BY <1>3 DEF Req
<1>5. QED
  BY <1>1, <1>2, <1>3, <1>4, PersistAssumption DEF Request

\* A request leaves the tables well-formed, touches the rows of its own upload
\* only, and marks it if and only if it is the last of its run.
LEMMA ApplyFacts ==
  ASSUME TypeOK, NEW r \in Runs, Accepts(Request(r)), Applied(Request(r))
  PROVE  /\ \A x \in clusters' : x[1] \in Runs /\ x[2] \in 1 .. Size[x[1]]
         /\ \A x \in keywords' : <<x[1], Member[x[1]][x[2]]>> \in clusters'
         /\ complete' = IF step[r] = Len(Plan(r))
                        THEN [complete EXCEPT ![UploadOf[r]] = r] ELSE complete
         /\ \A u \in Uploads : u # UploadOf[r] =>
              Of(clusters', u) = Of(clusters, u) /\ Of(keywords', u) = Of(keywords, u)
<1> DEFINE q == Request(r)
           u == UploadOf[r]
<1>1. /\ q \in Req(r) /\ q.run = r
      /\ q.kind = "patch" <=> step[r] = Len(Plan(r))
      /\ q.kind = "clusters" => q.rows \subseteq 1 .. Size[r]
      /\ q.kind \in {"delete", "clusters", "keywords", "patch"}
  BY RequestFacts DEF Req
<1>2. RowsOf(q) = {<<r, i>> : i \in q.rows}
  BY <1>1 DEF RowsOf
<1> HIDE DEF q
<1>3. /\ clusters' = CASE q.kind = "delete" -> clusters \ Of(clusters, u)
                       [] q.kind = "clusters" -> clusters \cup RowsOf(q)
                       [] OTHER -> clusters
      /\ keywords' = CASE q.kind = "delete" -> keywords \ Of(keywords, u)
                       [] q.kind = "keywords" -> keywords \cup RowsOf(q)
                       [] OTHER -> keywords
      /\ complete' = IF q.kind = "patch" THEN [complete EXCEPT ![u] = r] ELSE complete
  BY <1>1 DEF Applied, q
<1>4. /\ \A x \in clusters : x[1] \in Runs /\ x[2] \in 1 .. Size[x[1]]
      /\ \A x \in keywords : <<x[1], Member[x[1]][x[2]]>> \in clusters
  BY DEF TypeOK
<1>5. CASE q.kind = "delete"
  <2>1. /\ clusters' = clusters \ Of(clusters, u) /\ keywords' = keywords \ Of(keywords, u)
        /\ complete' = complete
    BY <1>3, <1>5
  <2>2. ASSUME NEW x \in keywords' PROVE <<x[1], Member[x[1]][x[2]]>> \in clusters'
    <3> DEFINE y == <<x[1], Member[x[1]][x[2]]>>
    <3>1. x \in keywords /\ UploadOf[x[1]] # u
      BY <2>1 DEF Of
    <3>2. y \in clusters /\ y[1] = x[1]
      BY <1>4, <3>1
    <3> HIDE DEF y
    <3>3. y \in clusters'
      BY <2>1, <3>1, <3>2 DEF Of
    <3>4. QED
      BY <3>3 DEF y
  <2>3. ASSUME NEW v \in Uploads, v # u
        PROVE  Of(clusters', v) = Of(clusters, v) /\ Of(keywords', v) = Of(keywords, v)
    BY <2>1, <2>3 DEF Of
  <2>4. QED
    BY <1>1, <1>4, <1>5, <2>1, <2>2, <2>3
<1>6. CASE q.kind = "clusters"
  <2>1. /\ clusters' = clusters \cup RowsOf(q) /\ keywords' = keywords /\ complete' = complete
    BY <1>3, <1>6
  <2>2. ASSUME NEW x \in RowsOf(q)
        PROVE  x[1] = r /\ x[1] \in Runs /\ x[2] \in 1 .. Size[x[1]]
    BY <1>1, <1>2, <1>6
  <2>3. ASSUME NEW v \in Uploads, v # u
        PROVE  Of(clusters', v) = Of(clusters, v) /\ Of(keywords', v) = Of(keywords, v)
    BY <2>1, <2>2, <2>3 DEF Of
  <2>4. QED
    BY <1>1, <1>4, <1>6, <2>1, <2>2, <2>3
<1>7. CASE q.kind = "keywords"
  <2>1. /\ clusters' = clusters /\ keywords' = keywords \cup RowsOf(q) /\ complete' = complete
    BY <1>3, <1>7
  <2>2. ASSUME NEW x \in RowsOf(q)
        PROVE  x[1] = r /\ <<x[1], Member[x[1]][x[2]]>> \in clusters
    <3>1. PICK i \in q.rows : x = <<r, i>>
      BY <1>2
    <3>2. <<r, Member[r][i]>> \in clusters
      BY <1>1, <1>7, <3>1 DEF Accepts, q
    <3>3. QED
      BY <3>1, <3>2
  <2>3. ASSUME NEW v \in Uploads, v # u
        PROVE  Of(clusters', v) = Of(clusters, v) /\ Of(keywords', v) = Of(keywords, v)
    BY <2>1, <2>2, <2>3 DEF Of
  <2>4. QED
    BY <1>1, <1>4, <1>7, <2>1, <2>2, <2>3
<1>8. CASE q.kind = "patch"
  <2>1. /\ clusters' = clusters /\ keywords' = keywords
        /\ complete' = [complete EXCEPT ![u] = r]
    BY <1>3, <1>8
  <2>2. QED
    BY <1>1, <1>4, <1>8, <2>1
<1>9. QED
  BY <1>1, <1>5, <1>6, <1>7, <1>8
\* Between: the rows before the request, and with the request's own.
LEMMA AppliedExactly ==
  ASSUME TypeOK, NEW r \in Runs, Accepts(Request(r)), Applied(Request(r)),
         step[r] = 1 \/ Between(r)
  PROVE  /\ Of(clusters', UploadOf[r]) = Written(r, step[r] + 1, "clusters")
         /\ Of(keywords', UploadOf[r]) = Written(r, step[r] + 1, "keywords")
<1> DEFINE q == Request(r)
           u == UploadOf[r]
           k == step[r]
           Wc(n) == Written(r, n, "clusters")
           Wk(n) == Written(r, n, "keywords")
<1>1. /\ q \in Req(r) /\ q.run = r
      /\ q.kind = "delete" <=> k = 1
      /\ q.kind \in {"delete", "clusters", "keywords", "patch"} /\ k \in Nat \ {0}
  <2>1. k \in 1 .. Len(Plan(r)) /\ Len(Plan(r)) \in Nat
    BY RequestFacts
  <2>2. QED
    BY <2>1, RequestFacts DEF Req
<1>2. RowsOf(q) = RowSet(r, q.rows)
  BY <1>1 DEF RowsOf, RowSet
<1>3. Wc(k + 1) = Wc(k) \cup (IF q.kind = "clusters" THEN RowsOf(q) ELSE {})
  <2>1. Wc(k + 1) = Wc(k) \cup
          (IF Plan(r)[k].kind = "clusters" THEN RowSet(r, Plan(r)[k].rows) ELSE {})
    BY <1>1, WrittenNext
  <2>2. q = Plan(r)[k]
    BY DEF Request
  <2> HIDE DEF q, Wc
  <2>3. QED
    BY <1>2, <2>1, <2>2
<1>4. Wk(k + 1) = Wk(k) \cup (IF q.kind = "keywords" THEN RowsOf(q) ELSE {})
  <2>1. Wk(k + 1) = Wk(k) \cup
          (IF Plan(r)[k].kind = "keywords" THEN RowSet(r, Plan(r)[k].rows) ELSE {})
    BY <1>1, WrittenNext
  <2>2. q = Plan(r)[k]
    BY DEF Request
  <2> HIDE DEF q, Wk
  <2>3. QED
    BY <1>2, <2>1, <2>2
<1>5. Of(RowsOf(q), u) = RowsOf(q)
  BY <1>2 DEF Of, RowSet
<1> HIDE DEF q
<1>6. /\ clusters' = CASE q.kind = "delete" -> clusters \ Of(clusters, u)
                       [] q.kind = "clusters" -> clusters \cup RowsOf(q)
                       [] OTHER -> clusters
      /\ keywords' = CASE q.kind = "delete" -> keywords \ Of(keywords, u)
                       [] q.kind = "keywords" -> keywords \cup RowsOf(q)
                       [] OTHER -> keywords
  BY <1>1 DEF Applied, q
<1>7. CASE k = 1
  <2>1. clusters' = clusters \ Of(clusters, u) /\ keywords' = keywords \ Of(keywords, u)
    BY <1>1, <1>6, <1>7
  <2>2. Of(clusters', u) = {} /\ Of(keywords', u) = {}
    BY <2>1 DEF Of
  <2>3. Wc(2) = {} /\ Wk(2) = {}
    BY WrittenFirst
  <2>4. QED
    BY <1>7, <2>2, <2>3
<1>8. CASE k # 1
  <2>1. /\ Wc(k) \subseteq Of(clusters, u) /\ Of(clusters, u) \subseteq Wc(k + 1)
        /\ Wk(k) \subseteq Of(keywords, u) /\ Of(keywords, u) \subseteq Wk(k + 1)
    BY <1>8 DEF Between
  <2>2. /\ clusters' = clusters \cup (IF q.kind = "clusters" THEN RowsOf(q) ELSE {})
        /\ keywords' = keywords \cup (IF q.kind = "keywords" THEN RowsOf(q) ELSE {})
    BY <1>1, <1>6, <1>8
  <2>3. /\ Of(clusters', u) =
             Of(clusters, u) \cup (IF q.kind = "clusters" THEN RowsOf(q) ELSE {})
        /\ Of(keywords', u) =
             Of(keywords, u) \cup (IF q.kind = "keywords" THEN RowsOf(q) ELSE {})
    BY <1>5, <2>2 DEF Of
  <2> HIDE DEF Wc, Wk, k, u
  <2>4. Of(clusters', u) = Wc(k + 1)
    BY <1>3, <2>1, <2>3
  <2>5. Of(keywords', u) = Wk(k + 1)
    BY <1>4, <2>1, <2>3
  <2>6. QED
    BY <2>4, <2>5 DEF Wc, Wk, k, u
<1>9. QED
  BY <1>7, <1>8

\* Written grows with the requests, and holds rows of its run only.
LEMMA WrittenGrows ==
  ASSUME NEW r \in Runs, NEW k \in Nat \ {0}, NEW kind
  PROVE  /\ Written(r, k, kind) \subseteq Written(r, k + 1, kind)
         /\ \A x \in Written(r, k, kind) : x[1] = r
<1>1. Written(r, k, kind) \subseteq Written(r, k + 1, kind)
  BY WrittenNext
<1>2. \A x \in Written(r, k, kind) : x[1] = r
  BY DEF Written
<1>3. QED
  BY <1>1, <1>2

\* If the rows are those of one run's requests, they are of one run.
LEMMA BetweenIsOne ==
  ASSUME TypeOK, NEW r \in Runs, Between(r)
  PROVE  OneRun(UploadOf[r])
<1>1. step[r] + 1 \in Nat \ {0}
  <2>1. step[r] \in 1 .. Len(Plan(r)) /\ Len(Plan(r)) \in Nat
    BY RequestFacts
  <2>2. QED
    BY <2>1
<1>2. ASSUME NEW x \in Of(clusters, UploadOf[r]) PROVE x[1] = r
  BY <1>1, WrittenGrows DEF Between
<1>3. QED
  BY <1>2 DEF OneRun, Of
-----------------------------------------------------------------------------
(* Every step keeps the invariant *)

LEMMA PersistInit == Init => PersistInv
<1> SUFFICES ASSUME Init PROVE PersistInv
  OBVIOUS
<1>1. TypeOK
  <2>1. \A r \in Runs : step[r] \in 1 .. Len(Plan(r))
    BY PlanFacts DEF Init
  <2>2. QED
    BY <2>1 DEF Init, TypeOK
<1>2. \A r \in Runs : UploadOf[r] \in Uploads /\ r # None
  BY PersistAssumption
<1>3. OutcomeTruthful /\ Marks /\ LateOnes /\ Order
  BY <1>2 DEF Init, OutcomeTruthful, Marks, LateOnes, Order, Sending
<1>4. Content
  BY DEF Init, Content, ContentOf, OneRun
<1>5. QED
  BY <1>1, <1>3, <1>4 DEF PersistInv

\* An upload whose rows, last run and step stay has the content it had.
LEMMA ContentStays ==
  ASSUME NEW u \in Uploads, ContentOf(u), last'[u] = last[u],
         last[u] # None => step'[last[u]] = step[last[u]] /\ UploadOf[last[u]] = u,
         Of(clusters', u) = Of(clusters, u), Of(keywords', u) = Of(keywords, u)
  PROVE  ContentOf(u)'
<1>1. OneRun(u) <=> OneRun(u)'
  <2>1. OneRun(u) <=> \A x, y \in Of(clusters, u) : x[1] = y[1]
    BY DEF OneRun, Of
  <2>2. OneRun(u)' <=> \A x, y \in Of(clusters', u) : x[1] = y[1]
    BY DEF OneRun, Of
  <2>3. QED
    BY <2>1, <2>2
<1>2. ASSUME last[u] # None PROVE Between(last[u]) <=> Between(last[u])'
  BY <1>2 DEF Between
<1>3. QED
  BY <1>1, <1>2 DEF ContentOf

\* Begin: the run's rows are not there yet, so the upload has those of the run
\* before it, of which nothing is under way if the upload's runs took turns.
LEMMA BeginKeeps ==
  ASSUME PersistInv, NEW r \in Runs, Begin(r)
  PROVE  PersistInv'
<1> DEFINE v == UploadOf[r]
<1>1. /\ outcome[r] = "idle" /\ outcome' = [outcome EXCEPT ![r] = "running"]
      /\ last' = [last EXCEPT ![v] = r] /\ UNCHANGED <<clusters, keywords, complete, step, late>>
      /\ inTurn' = inTurn \ {UploadOf[s] : s \in {x \in Runs : Sending(x)} \cap SameUpload(r)}
      /\ settled' = settled \ {UploadOf[s] : s \in {q.run : q \in late} \cap SameUpload(r)}
  BY DEF Begin, tables
<1>2. v \in Uploads /\ r # None /\ \A s \in Runs : UploadOf[s] \in Uploads
  BY PersistAssumption
<1>3. /\ TypeOK /\ OutcomeTruthful /\ LateOnes /\ Marks /\ Order /\ Content
      /\ last \in [Uploads -> Runs \cup {None}]
      /\ outcome \in [Runs -> {"idle", "running", "ok", "refused", "broken"}]
  BY DEF PersistInv, TypeOK
<1>4. TypeOK'
  BY <1>1, <1>2, <1>3 DEF TypeOK
<1>5. OutcomeTruthful'
  BY <1>1, <1>3 DEF OutcomeTruthful
<1>6. LateOnes'
  BY <1>1, <1>3 DEF LateOnes, Request
<1>7. Marks'
  BY <1>1, <1>3 DEF Marks
<1>8. Order'
  <2>1. ASSUME NEW u \in Uploads, last'[u] # None PROVE UploadOf[last'[u]] = u
    BY <1>1, <1>2, <1>3, <2>1 DEF Order
  <2>2. ASSUME NEW s \in Runs, UploadOf[s] \in inTurn', outcome'[s] = "running"
        PROVE  last'[UploadOf[s]] = s
    <3>1. CASE s = r
      BY <1>1, <1>2, <1>3, <3>1
    <3>2. CASE s # r
      <4>1. outcome[s] = "running" /\ UploadOf[s] \in inTurn
        BY <1>1, <1>3, <2>2, <3>2
      <4>2. UploadOf[s] # v
        BY <1>1, <2>2, <4>1 DEF SameUpload, Sending
      <4>3. QED
        BY <1>1, <1>2, <1>3, <4>1, <4>2 DEF Order, Sending
    <3>3. QED
      BY <3>1, <3>2
  <2>3. ASSUME NEW q \in late', UploadOf[q.run] \in inTurn' \cap settled'
        PROVE  last'[UploadOf[q.run]] = q.run
    <3>1. q \in late /\ q.run \in Runs /\ UploadOf[q.run] \in inTurn \cap settled
      BY <1>1, <1>3, <2>3 DEF LateOnes
    <3>2. UploadOf[q.run] # v
      BY <1>1, <2>3, <3>1 DEF SameUpload
    <3>3. QED
      BY <1>1, <1>2, <1>3, <3>1, <3>2 DEF Order
  <2>4. QED
    BY <2>1, <2>2, <2>3 DEF Order, Sending
<1>9. Content'
  <2>1. ASSUME NEW u \in Uploads, u \in inTurn' \cap settled' PROVE ContentOf(u)'
    <3>1. u \in inTurn \cap settled /\ ContentOf(u)
      BY <1>1, <1>3, <2>1 DEF Content
    <3>2. CASE u = v
      <4>1. last'[u] = r /\ step'[r] = 1
        BY <1>1, <1>2, <1>3, <3>2 DEF Marks
      <4>2. OneRun(u)
        <5>1. CASE last[u] = None \/ step[last[u]] = 1
          BY <3>1, <5>1 DEF ContentOf
        <5>2. CASE ~ (last[u] = None \/ step[last[u]] = 1)
          <6>1. last[u] \in Runs /\ UploadOf[last[u]] = u /\ Between(last[u])
            BY <1>3, <3>1, <5>2 DEF ContentOf, Order
          <6>2. QED
            BY <1>3, <6>1, BetweenIsOne
        <5>3. QED
          BY <5>1, <5>2
      <4>3. OneRun(u)'
        BY <1>1, <4>2 DEF OneRun
      <4>4. QED
        BY <4>1, <4>3 DEF ContentOf
    <3>3. CASE u # v
      <4>1. last'[u] = last[u]
        BY <1>1, <1>3, <3>3
      <4>2. QED
        BY <1>1, <1>3, <3>1, <4>1, ContentStays DEF Order
    <3>4. QED
      BY <3>2, <3>3
  <2>2. QED
    BY <2>1 DEF Content
<1>10. QED
  BY <1>4, <1>5, <1>6, <1>7, <1>8, <1>9 DEF PersistInv

\* What a request of r leaves of the contents, r having moved on or not.
LEMMA AppliedContent ==
  ASSUME PersistInv, NEW r \in Runs, Accepts(Request(r)), Applied(Request(r)),
         UploadOf[r] \in inTurn \cap settled => last[UploadOf[r]] = r,
         UNCHANGED <<last, inTurn, settled>>,
         \/ step' = step
         \/ step[r] # Len(Plan(r)) /\ step' = [step EXCEPT ![r] = @ + 1]
  PROVE  Content'
<1> DEFINE v == UploadOf[r]
           k == step[r]
<1>0. TypeOK /\ Content /\ Order /\ last \in [Uploads -> Runs \cup {None}]
      /\ step \in [Runs -> Nat]
  BY DEF PersistInv, TypeOK
<1>1. SUFFICES ASSUME NEW u \in Uploads, u \in inTurn \cap settled
               PROVE  ContentOf(u)'
  BY DEF Content
<1>2. ContentOf(u)
  BY <1>0, <1>1 DEF Content
<1>3. CASE u # v
  <2>1. Of(clusters', u) = Of(clusters, u) /\ Of(keywords', u) = Of(keywords, u)
    BY <1>0, <1>3, ApplyFacts
  <2>2. last[u] # None => UploadOf[last[u]] = u /\ last[u] # r /\ last[u] \in Runs
    BY <1>0, <1>3 DEF Order
  <2>3. last[u] # None => step'[last[u]] = step[last[u]]
    BY <1>0, <2>2
  <2>4. QED
    BY <1>2, <2>1, <2>2, <2>3, ContentStays
<1>4. CASE u = v
  <2>1. last[u] = r /\ last'[u] = r /\ r # None
    BY <1>1, <1>4, PersistAssumption
  <2>2. /\ k \in 1 .. Len(Plan(r)) /\ Len(Plan(r)) \in Nat /\ Len(Plan(r)) >= 2
    BY <1>0, RequestFacts
  <2>3. k = 1 \/ Between(r)
    BY <1>2, <2>1 DEF ContentOf
  <2>4. /\ Of(clusters', u) = Written(r, k + 1, "clusters")
        /\ Of(keywords', u) = Written(r, k + 1, "keywords")
    BY <1>0, <1>4, <2>3, AppliedExactly
  <2>5. ASSUME step'[r] = k \/ step'[r] = k + 1 PROVE Between(r)'
    <3>1. CASE step'[r] = k
      <4>1. /\ Written(r, k, "clusters") \subseteq Written(r, k + 1, "clusters")
            /\ Written(r, k, "keywords") \subseteq Written(r, k + 1, "keywords")
        BY <2>2, WrittenGrows
      <4>2. QED
        BY <1>4, <2>4, <3>1, <4>1 DEF Between
    <3>2. CASE step'[r] = k + 1
      <4>1. /\ Written(r, k + 1, "clusters") \subseteq Written(r, (k + 1) + 1, "clusters")
            /\ Written(r, k + 1, "keywords") \subseteq Written(r, (k + 1) + 1, "keywords")
        BY <2>2, WrittenGrows
      <4>2. QED
        BY <1>4, <2>4, <3>2, <4>1 DEF Between
    <3>3. QED
      BY <2>5, <3>1, <3>2
  <2>6. step'[r] = k \/ step'[r] = k + 1
    BY <1>0
  <2>7. CASE step'[r] = 1
    <3>1. k = 1
      BY <2>2, <2>6, <2>7
    <3>2. Of(clusters', u) = {}
      BY <2>4, <3>1, WrittenFirst
    <3>3. OneRun(u)'
      BY <3>2 DEF OneRun, Of
    <3>4. QED
      BY <2>1, <2>7, <3>3 DEF ContentOf
  <2>8. CASE step'[r] # 1
    BY <2>1, <2>5, <2>6, <2>8 DEF ContentOf
  <2>9. QED
    BY <2>7, <2>8
<1>5. QED
  BY <1>3, <1>4
\* What every step but Begin must do to keep the rest of the invariant: runs end,
\* the one that has sent its last request may have marked its upload, and no run
\* goes back.
LEMMA RestKeeps ==
  ASSUME PersistInv, NEW r \in Runs, UNCHANGED <<last, inTurn, settled>>,
         NEW o \in {"running", "ok", "refused", "broken"},
         Sending(r) \/ (outcome[r] = "broken" /\ o = "broken"),
         outcome' = [outcome EXCEPT ![r] = o],
         \/ step' = step
         \/ step[r] # Len(Plan(r)) /\ step' = [step EXCEPT ![r] = @ + 1] /\ o = "running",
         late' \subseteq late \/ (o = "broken" /\ late' = late \cup {Request(r)}),
         \/ UNCHANGED tables
         \/ Accepts(Request(r)) /\ Applied(Request(r)),
         o = "running" => /\ Accepts(Request(r)) /\ Applied(Request(r))
                          /\ step[r] # Len(Plan(r)),
         UploadOf[r] \in inTurn \cap settled => last[UploadOf[r]] = r,
         o = "ok" => step[r] = Len(Plan(r)) /\ Accepts(Request(r)) /\ Applied(Request(r)),
         o = "refused" => UNCHANGED tables
  PROVE  PersistInv'
<1> DEFINE v == UploadOf[r]
           n == Len(Plan(r))
<1>0. /\ TypeOK /\ OutcomeTruthful /\ LateOnes /\ Marks /\ Order /\ Content
      /\ last \in [Uploads -> Runs \cup {None}] /\ complete \in [Uploads -> Runs \cup {None}]
      /\ outcome \in [Runs -> {"idle", "running", "ok", "refused", "broken"}]
      /\ step \in [Runs -> Nat] /\ v \in Uploads /\ r # None
      /\ \A s \in Runs : UploadOf[s] \in Uploads /\ s # None
      /\ o \in {"running", "ok", "refused", "broken"} /\ late' \subseteq late \cup {Request(r)}
  BY PersistAssumption DEF PersistInv, TypeOK
<1>1. step[r] \in 1 .. n /\ n \in Nat /\ Request(r).run = r
  BY <1>0, RequestFacts
<1>2. \/ complete' = complete
      \/ step[r] = n /\ o \in {"ok", "broken"} /\ complete' = [complete EXCEPT ![v] = r]
  <2>1. CASE UNCHANGED tables
    BY <2>1 DEF tables
  <2>2. CASE ~ UNCHANGED tables
    <3>1. Accepts(Request(r)) /\ Applied(Request(r)) /\ o # "refused"
      BY <2>2
    <3>2. complete' = IF step[r] = n THEN [complete EXCEPT ![v] = r] ELSE complete
      BY <1>0, <3>1, ApplyFacts
    <3>3. o = "running" => step[r] # n
      OBVIOUS
    <3>4. QED
      BY <1>0, <3>1, <3>2, <3>3
  <2>3. QED
    BY <2>1, <2>2
<1>3. /\ step' \in [Runs -> Nat] /\ step'[r] \in 1 .. n
      /\ \A s \in Runs : s # r => step'[s] = step[s]
  BY <1>0, <1>1
<1>4. /\ outcome'[r] = o /\ \A s \in Runs : s # r => outcome'[s] = outcome[s]
      /\ outcome' \in [Runs -> {"idle", "running", "ok", "refused", "broken"}]
  BY <1>0
<1>5. TypeOK'
  <2>1. /\ \A x \in clusters' : x[1] \in Runs /\ x[2] \in 1 .. Size[x[1]]
        /\ \A x \in keywords' : <<x[1], Member[x[1]][x[2]]>> \in clusters'
    <3>1. CASE UNCHANGED tables
      BY <1>0, <3>1 DEF TypeOK, tables
    <3>2. CASE Accepts(Request(r)) /\ Applied(Request(r))
      BY <1>0, <3>2, ApplyFacts
    <3>3. QED
      BY <3>1, <3>2
  <2>2. complete' \in [Uploads -> Runs \cup {None}]
    BY <1>0, <1>2
  <2>3. \A s \in Runs : step'[s] \in 1 .. Len(Plan(s))
    BY <1>0, <1>3 DEF TypeOK
  <2>4. QED
    BY <1>0, <1>3, <1>4, <2>1, <2>2, <2>3 DEF TypeOK
<1>6. ASSUME NEW s \in Runs PROVE complete'[UploadOf[s]] # s \/ step'[s] = Len(Plan(s))
  <2>1. CASE complete'[UploadOf[s]] = complete[UploadOf[s]]
    <3>1. complete[UploadOf[s]] = s => step[s] = Len(Plan(s))
      BY <1>0 DEF OutcomeTruthful
    <3>2. QED
      BY <1>0, <1>3, <2>1, <3>1
  <2>2. CASE complete'[UploadOf[s]] # complete[UploadOf[s]]
    <3>1. step[r] = n /\ complete' = [complete EXCEPT ![v] = r]
      BY <1>2, <2>2
    <3>2. complete'[UploadOf[s]] = r /\ step' = step
      BY <1>0, <2>2, <3>1
    <3>3. QED
      BY <3>1, <3>2
  <2>3. QED
    BY <2>1, <2>2
<1>7. OutcomeTruthful'
  <2>1. ASSUME NEW s \in Runs, outcome'[s] = "refused" PROVE complete'[UploadOf[s]] # s
    <3>1. CASE s = r
      <4>1. o = "refused" /\ outcome[r] = "running"
        BY <1>4, <2>1, <3>1 DEF Sending
      <4>2. complete' = complete /\ complete[v] # r
        BY <1>0, <1>2, <4>1 DEF Marks
      <4>3. QED
        BY <3>1, <4>2
    <3>2. CASE s # r
      <4>1. complete[UploadOf[s]] # s
        BY <1>0, <1>4, <2>1, <3>2 DEF OutcomeTruthful
      <4>2. QED
        BY <1>0, <1>2, <3>2, <4>1
    <3>3. QED
      BY <3>1, <3>2
  <2>2. ASSUME NEW s \in Runs, outcome'[s] = "ok" PROVE complete'[UploadOf[s]] # None
    <3>1. CASE s = r
      <4>1. o = "ok"
        BY <1>4, <2>2, <3>1
      <4>2. complete' = [complete EXCEPT ![v] = r]
        BY <1>0, <4>1, ApplyFacts
      <4>3. QED
        BY <1>0, <3>1, <4>2
    <3>2. CASE s # r
      <4>1. complete[UploadOf[s]] # None
        BY <1>0, <1>4, <2>2, <3>2 DEF OutcomeTruthful
      <4>2. QED
        BY <1>0, <1>2, <4>1
    <3>3. QED
      BY <3>1, <3>2
  <2>3. QED
    BY <1>6, <2>1, <2>2 DEF OutcomeTruthful
<1>8. LateOnes'
  <2>1. ASSUME NEW q \in late'
        PROVE  q.run \in Runs /\ outcome'[q.run] = "broken" /\ q = Plan(q.run)[step'[q.run]]
    <3>1. CASE q \in late
      <4>1. q.run \in Runs /\ outcome[q.run] = "broken" /\ q = Plan(q.run)[step[q.run]]
        BY <1>0, <3>1 DEF LateOnes, Request
      <4>2. CASE q.run = r
        <5>1. o = "broken" /\ step' = step
          BY <4>1, <4>2 DEF Sending
        <5>2. QED
          BY <1>4, <4>1, <4>2, <5>1
      <4>3. CASE q.run # r
        BY <1>3, <1>4, <4>1, <4>3
      <4>4. QED
        BY <4>2, <4>3
    <3>2. CASE q \notin late
      <4>1. o = "broken" /\ q = Request(r) /\ step' = step
        BY <3>2
      <4>2. QED
        BY <1>1, <1>4, <4>1 DEF Request
    <3>3. QED
      BY <3>1, <3>2
  <2>2. QED
    BY <2>1 DEF LateOnes, Request
<1>9. Marks'
  <2>1. ASSUME NEW s \in Runs, outcome'[s] = "idle" PROVE step'[s] = 1
    <3>1. s # r /\ outcome[s] = "idle"
      BY <1>0, <1>4, <2>1
    <3>2. QED
      BY <1>0, <1>3, <3>1 DEF Marks
  <2>2. ASSUME NEW s \in Runs, outcome'[s] \in {"idle", "running"}
        PROVE  complete'[UploadOf[s]] # s
    <3>1. CASE s = r
      <4>1. o = "running" /\ outcome[r] = "running"
        BY <1>0, <1>4, <2>2, <3>1 DEF Sending
      <4>2. complete' = complete /\ complete[v] # r
        BY <1>0, <1>2, <4>1 DEF Marks
      <4>3. QED
        BY <3>1, <4>2
    <3>2. CASE s # r
      <4>1. complete[UploadOf[s]] # s
        BY <1>0, <1>4, <2>2, <3>2 DEF Marks
      <4>2. QED
        BY <1>0, <1>2, <3>2, <4>1
    <3>3. QED
      BY <3>1, <3>2
  <2>3. QED
    BY <2>1, <2>2 DEF Marks
<1>10. Order'
  <2>1. ASSUME NEW s \in Runs, UploadOf[s] \in inTurn', outcome'[s] = "running"
        PROVE  last'[UploadOf[s]] = s
    <3>1. outcome[s] = "running"
      BY <1>4, <2>1 DEF Sending
    <3>2. QED
      BY <1>0, <2>1, <3>1 DEF Order, Sending
  <2>2. ASSUME NEW q \in late', UploadOf[q.run] \in inTurn' \cap settled'
        PROVE  last'[UploadOf[q.run]] = q.run
    <3>1. CASE q \in late
      BY <1>0, <2>2, <3>1 DEF Order
    <3>2. CASE q \notin late
      <4>1. q.run = r /\ o = "broken"
        BY <1>1, <3>2
      <4>2. QED
        BY <2>2, <4>1
    <3>3. QED
      BY <3>1, <3>2
  <2>3. \A u \in Uploads : last'[u] # None => UploadOf[last'[u]] = u
    BY <1>0 DEF Order
  <2>4. QED
    BY <2>1, <2>2, <2>3 DEF Order, Sending
<1>11. Content'
  <2>1. CASE Accepts(Request(r)) /\ Applied(Request(r))
    BY <2>1, AppliedContent
  <2>2. CASE ~ (Accepts(Request(r)) /\ Applied(Request(r)))
    <3>1. UNCHANGED <<clusters, keywords, step>>
      BY <2>2 DEF tables
    <3>2. ASSUME NEW u \in Uploads, u \in inTurn' \cap settled' PROVE ContentOf(u)'
      <4>1. ContentOf(u) /\ (last[u] # None => UploadOf[last[u]] = u)
        BY <1>0, <3>2 DEF Content, Order
      <4>2. QED
        BY <3>1, <4>1, ContentStays
    <3>3. QED
      BY <3>2 DEF Content
  <2>3. QED
    BY <2>1, <2>2
<1>12. QED
  BY <1>5, <1>7, <1>8, <1>9, <1>10, <1>11 DEF PersistInv
\* _request succeeded.
LEMMA SucceedKeeps ==
  ASSUME PersistInv, NEW r \in Runs, Succeed(r)
  PROVE  PersistInv'
<1>1. /\ Sending(r) /\ Accepts(Request(r)) /\ Applied(Request(r))
      /\ late' = late /\ UNCHANGED <<last, inTurn, settled>>
      /\ outcome \in [Runs -> {"idle", "running", "ok", "refused", "broken"}]
      /\ step \in [Runs -> Nat] /\ Order
  BY DEF Succeed, PersistInv, TypeOK
<1>2. UploadOf[r] \in inTurn \cap settled => last[UploadOf[r]] = r
  BY <1>1 DEF Order
<1>3. CASE step[r] = Len(Plan(r))
  <2>1. step' = step /\ outcome' = [outcome EXCEPT ![r] = "ok"]
    BY <1>3 DEF Succeed
  <2> DEFINE o == "ok"
  <2>2. o \in {"running", "ok", "refused", "broken"} /\ outcome' = [outcome EXCEPT ![r] = o]
        /\ o = "ok"
    BY <2>1
  <2> HIDE DEF o
  <2>3. QED
    BY <1>1, <1>2, <1>3, <2>1, <2>2, RestKeeps
<1>4. CASE step[r] # Len(Plan(r))
  <2>1. step' = [step EXCEPT ![r] = @ + 1] /\ outcome' = outcome
    BY <1>4 DEF Succeed
  <2> DEFINE o == "running"
  <2>2. o \in {"running", "ok", "refused", "broken"} /\ outcome' = [outcome EXCEPT ![r] = o]
        /\ o = "running"
    BY <1>1, <2>1 DEF Sending
  <2> HIDE DEF o
  <2>3. QED
    BY <1>1, <1>2, <1>4, <2>1, <2>2, RestKeeps
<1>5. QED
  BY <1>3, <1>4

LEMMA RefuseKeeps ==
  ASSUME PersistInv, NEW r \in Runs, Refuse(r)
  PROVE  PersistInv'
<1>1. /\ Sending(r) /\ late' = late /\ UNCHANGED <<last, inTurn, settled>>
      /\ step' = step /\ UNCHANGED tables /\ Order
  BY DEF Refuse, PersistInv
<1>2. UploadOf[r] \in inTurn \cap settled => last[UploadOf[r]] = r
  BY <1>1 DEF Order
<1> DEFINE o == "refused"
<1>3. o \in {"running", "ok", "refused", "broken"} /\ outcome' = [outcome EXCEPT ![r] = o]
      /\ o = "refused"
  BY DEF Refuse
<1> HIDE DEF o
<1>4. QED
  BY <1>1, <1>2, <1>3, RestKeeps

\* The request was lost, took effect, or is on its way.
LEMMA BreakKeeps ==
  ASSUME PersistInv, NEW r \in Runs, Break(r)
  PROVE  PersistInv'
<1>1. /\ Sending(r) /\ UNCHANGED <<last, inTurn, settled>> /\ step' = step /\ Order
      /\ \/ UNCHANGED tables /\ late' = late
         \/ Accepts(Request(r)) /\ Applied(Request(r)) /\ late' = late
         \/ late' = late \cup {Request(r)} /\ UNCHANGED tables
  BY DEF Break, PersistInv
<1>2. UploadOf[r] \in inTurn \cap settled => last[UploadOf[r]] = r
  BY <1>1 DEF Order
<1> DEFINE o == "broken"
<1>3. o \in {"running", "ok", "refused", "broken"} /\ outcome' = [outcome EXCEPT ![r] = o]
      /\ o = "broken"
  BY DEF Break
<1> HIDE DEF o
<1>4. QED
  BY <1>1, <1>2, <1>3, RestKeeps

\* A late request takes effect as it would have in time, or is refused then.
LEMMA ArriveKeeps ==
  ASSUME PersistInv, NEW q \in late, Arrive(q)
  PROVE  PersistInv'
<1> DEFINE r == q.run
<1>1. r \in Runs /\ outcome[r] = "broken" /\ q = Request(r) /\ Order
      /\ outcome \in [Runs -> {"idle", "running", "ok", "refused", "broken"}]
  BY DEF PersistInv, LateOnes, TypeOK
<1>2. UploadOf[r] \in inTurn \cap settled => last[UploadOf[r]] = r
  BY <1>1 DEF Order
<1> HIDE DEF r
<1>3. /\ late' \subseteq late /\ UNCHANGED <<last, inTurn, settled>> /\ step' = step
      /\ UNCHANGED tables \/ (Accepts(Request(r)) /\ Applied(Request(r)))
  BY <1>1 DEF Arrive
<1> DEFINE o == "broken"
<1>4. o \in {"running", "ok", "refused", "broken"} /\ outcome' = [outcome EXCEPT ![r] = o]
      /\ o = "broken"
  BY <1>1 DEF Arrive
<1> HIDE DEF o
<1>5. QED
  BY <1>1, <1>2, <1>3, <1>4, RestKeeps

LEMMA PersistStep == PersistInv /\ [Next]_vars => PersistInv'
<1> SUFFICES ASSUME PersistInv, [Next]_vars PROVE PersistInv'
  OBVIOUS
<1>1. ASSUME NEW r \in Runs, Begin(r) PROVE PersistInv'
  BY <1>1, BeginKeeps
<1>2. ASSUME NEW r \in Runs, Succeed(r) PROVE PersistInv'
  BY <1>2, SucceedKeeps
<1>3. ASSUME NEW r \in Runs, Refuse(r) PROVE PersistInv'
  BY <1>3, RefuseKeeps
<1>4. ASSUME NEW r \in Runs, Break(r) PROVE PersistInv'
  BY <1>4, BreakKeeps
<1>5. ASSUME NEW q \in late, Arrive(q) PROVE PersistInv'
  BY <1>5, ArriveKeeps
<1>6. ASSUME UNCHANGED vars PROVE PersistInv'
  <2>1. /\ UNCHANGED <<clusters, keywords, complete, step, outcome, late, last>>
        /\ UNCHANGED <<inTurn, settled>>
    BY <1>6 DEF vars, tables
  <2>2. TypeOK' /\ OutcomeTruthful' /\ LateOnes' /\ Marks' /\ Order'
    BY <2>1 DEF PersistInv, TypeOK, OutcomeTruthful, LateOnes, Marks, Order, Request, Sending
  <2>3. Content'
    BY <2>1 DEF PersistInv, Content, ContentOf, OneRun, Between
  <2>4. QED
    BY <2>2, <2>3 DEF PersistInv
<1>7. QED
  BY <1>1, <1>2, <1>3, <1>4, <1>5, <1>6 DEF Next

-----------------------------------------------------------------------------

LEMMA PersistHolds == Spec => []PersistInv
<1>1. QED
  BY PersistInit, PersistStep, PTL DEF Spec

\* The tables are well-formed: no keyword is stored without its cluster.
THEOREM TablesAreSound == Spec => []TypeOK
<1>1. PersistInv => TypeOK
  BY DEF PersistInv
<1>2. QED
  BY <1>1, PersistHolds, PTL

\* What a call reports of the upload's status is what it did.
THEOREM CallsAreTruthful == Spec => []OutcomeTruthful
<1>1. PersistInv => OutcomeTruthful
  BY DEF PersistInv
<1>2. QED
  BY <1>1, PersistHolds, PTL

\* As long as no run for an upload began while another was sending or had a
\* request on its way, the rows of the upload are those of one run, whatever
\* requests failed.
THEOREM RetriesReplace == Spec => []RetryReplaces
<1>1. PersistInv => RetryReplaces
  <2> SUFFICES ASSUME PersistInv, NEW u \in inTurn \cap settled PROVE OneRun(u)
    BY DEF RetryReplaces
  <2>1. CASE u \notin Uploads
    <3>1. \A x \in clusters : UploadOf[x[1]] # u
      BY <2>1, PersistAssumption DEF PersistInv, TypeOK
    <3>2. QED
      BY <3>1 DEF OneRun
  <2>2. CASE u \in Uploads
    <3>1. ContentOf(u) /\ TypeOK /\ Order /\ last \in [Uploads -> Runs \cup {None}]
      BY <2>2 DEF PersistInv, Content, TypeOK
    <3>2. CASE last[u] = None \/ step[last[u]] = 1
      BY <3>1, <3>2 DEF ContentOf
    <3>3. CASE ~ (last[u] = None \/ step[last[u]] = 1)
      <4>1. last[u] \in Runs /\ UploadOf[last[u]] = u /\ Between(last[u])
        BY <2>2, <3>1, <3>3 DEF ContentOf, Order
      <4>2. QED
        BY <3>1, <4>1, BetweenIsOne
    <3>4. QED
      BY <3>2, <3>3
  <2>3. QED
    BY <2>1, <2>2
<1>2. QED
  BY <1>1, PersistHolds, PTL

\* An upload marked complete by the run begun last has that run's result, whole,
\* and nothing else.
THEOREM CompleteIsWhole == Spec => []CompleteMeansWhole
<1>1. PersistInv => CompleteMeansWhole
  <2> SUFFICES ASSUME PersistInv, NEW r \in Runs, UploadOf[r] \in inTurn \cap settled,
                      complete[UploadOf[r]] = r, last[UploadOf[r]] = r
               PROVE  Whole(r)
    BY DEF CompleteMeansWhole
  <2>1. TypeOK /\ r # None /\ UploadOf[r] \in Uploads /\ step[r] = Len(Plan(r))
    BY PersistAssumption DEF PersistInv, OutcomeTruthful
  <2>2. step[r] # 1
    BY <2>1, RequestFacts
  <2>3. Between(r)
    BY <2>1, <2>2 DEF PersistInv, Content, ContentOf
  <2> DEFINE n == Len(Plan(r))
  <2>4. /\ Written(r, n, "clusters") = RowSet(r, 1 .. Size[r])
        /\ Written(r, n, "keywords") = RowSet(r, Payload(r))
        /\ Written(r, n + 1, "clusters") = RowSet(r, 1 .. Size[r])
        /\ Written(r, n + 1, "keywords") = RowSet(r, Payload(r))
    BY WrittenAll
  <2>5. /\ Of(clusters, UploadOf[r]) = RowSet(r, 1 .. Size[r])
        /\ Of(keywords, UploadOf[r]) = RowSet(r, Payload(r))
    BY <2>1, <2>3, <2>4 DEF Between
  <2>6. QED
    BY <2>5 DEF Whole, RowSet
<1>2. QED
  BY <1>1, PersistHolds, PTL
=============================================================================
