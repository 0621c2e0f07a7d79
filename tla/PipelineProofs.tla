--------------------------- MODULE PipelineProofs ---------------------------
(***************************************************************************)
(* Theorems about Pipeline for all requests, limits, tables and            *)
(* configurations.                                                         *)
(***************************************************************************)
EXTENDS Pipeline, FiniteSetTheorems, NaturalFacts, TLAPS

-----------------------------------------------------------------------------
(* Grouping: what its actions preserve, for tables of every size, all       *)
(* similarities, neighbours, block sizes and configurations                 *)

\* A table is a sequence: its rows are numbered from 1.  prepare_dataframe
\* refuses to return an empty one.
IsTable(table) == \E n \in Nat \ {0} : DOMAIN table = 1 .. n

-----------------------------------------------------------------------------
(* The numbers of components *)

\* Components are numbered by naturals, at most one for each row.
LEMMA ComponentNumbers ==
  ASSUME NEW n \in Nat, NEW g
  PROVE  /\ DOMAIN ComponentsOf(g, 1 .. n) = 1 .. n
         /\ \A i \in 1 .. n : ComponentsOf(g, 1 .. n)[i] \in 0 .. n
<1> DEFINE rs == 1 .. n
           first == [i \in rs |-> Min({j \in rs : Linked(g, rs, i, j)})]
           before(i) == {k \in rs : first[k] < first[i]}
           firsts(i) == {first[j] : j \in before(i)}
<1>1. IsFiniteSet(rs) /\ Cardinality(rs) = n
  BY FS_Interval
<1>2. ASSUME NEW i \in rs PROVE Cardinality(firsts(i)) \in 0 .. n
  <2> HIDE DEF first
  <2>1. /\ IsFiniteSet(before(i)) /\ Cardinality(before(i)) <= n
        /\ Cardinality(before(i)) \in Nat
    BY <1>1, FS_Subset, FS_CardinalityType
  <2> DEFINE f == [j \in before(i) |-> first[j]]
  <2>2. f \in Surjection(before(i), firsts(i))
    BY DEF Surjection
  <2>3. IsFiniteSet(firsts(i)) /\ Cardinality(firsts(i)) <= Cardinality(before(i))
    BY <2>1, <2>2, FS_Surjection DEF ExistsSurjection
  <2>4. Cardinality(firsts(i)) \in Nat
    BY <2>3, FS_CardinalityType
  <2>5. QED
    BY <2>1, <2>3, <2>4
<1>3. ComponentsOf(g, rs) = [i \in rs |-> Cardinality(firsts(i))]
  BY DEF ComponentsOf
<1>4. QED
  BY <1>2, <1>3

-----------------------------------------------------------------------------
(* The split *)

\* Groups that agree on a label and its first row are the same group.
LEMMA KeeperIsUnique ==
  ASSUME NEW table, IsTable(table), NEW snap,
         NEW i \in DOMAIN table, NEW j \in DOMAIN table,
         snap[i] = snap[j],
         KeepsLabel(table, snap, GroupOf(table, snap, i)),
         KeepsLabel(table, snap, GroupOf(table, snap, j))
  PROVE  GroupOf(table, snap, i) = GroupOf(table, snap, j)
<1> DEFINE G(k) == GroupOf(table, snap, k)
           Of(g) == {k \in DOMAIN table : G(k) = g}
<1>1. ASSUME NEW k \in DOMAIN table
      PROVE  FirstRow(table, snap, G(k)) \in Of(G(k))
  <2>1. k \in Of(G(k)) /\ Of(G(k)) \in SUBSET Nat
    BY DEF IsTable
  <2>2. Min(Of(G(k))) \in Of(G(k))
    <3> HIDE DEF Of
    <3>1. QED
      BY <2>1, MinOfNaturals
  <2>3. QED
    BY <2>2 DEF FirstRow
<1>2. G(i)[1] = snap[i] /\ G(j)[1] = snap[j]
  BY DEF GroupOf
<1>3. FirstRow(table, snap, G(i)) = FirstRow(table, snap, G(j))
  BY <1>2 DEF KeepsLabel
<1>4. QED
  BY <1>1, <1>3

\* Row i was given a label of its own.
Moved(i) ==
  /\ GroupOf(rows, snapshot, i) \notin pending
  /\ ~ KeepsLabel(rows, snapshot, GroupOf(rows, snapshot, i))

\* The labels in the course of the split: all below the next one; a group shares
\* its label, with rows of other groups only as long as neither has moved.
LabelsRight ==
  /\ DOMAIN labels = Rows
  /\ nextLabel \in Nat
  /\ \A i \in Rows : labels[i] \in Nat /\ labels[i] < nextLabel
  /\ \A i, j \in Rows :
       GroupOf(rows, snapshot, i) = GroupOf(rows, snapshot, j) => labels[i] = labels[j]
  /\ \A i, j \in Rows :
       labels[i] = labels[j] =>
         /\ snapshot[i] = snapshot[j]
         /\ \/ GroupOf(rows, snapshot, i) = GroupOf(rows, snapshot, j)
            \/ ~ Moved(i) /\ ~ Moved(j)

IInv ==
  /\ at # "idle" => IsTable(rows)
  /\ at \in {"splitting", "describing", "done"} => LabelsRight
  /\ at \in {"describing", "done"} => pending = {}

\* What _post_split starts from.
LEMMA ComponentsRight ==
  ASSUME IInv, Components
  PROVE  LabelsRight'
<1>1. PICK n \in Nat \ {0} : Rows = 1 .. n
  BY DEF IInv, Components, IsTable, Rows
<1>2. /\ DOMAIN snapshot' = 1 .. n
      /\ \A i \in 1 .. n : snapshot'[i] \in 0 .. n
  BY <1>1, ComponentNumbers DEF Components
<1> DEFINE S == {snapshot'[i] : i \in Rows}
<1>3. /\ nextLabel' \in Nat
      /\ \A i \in Rows : snapshot'[i] < nextLabel'
  <2>1. S \in SUBSET Nat /\ S # {} /\ \A s \in S : s <= n
    <3>1. 1 \in Rows
      BY <1>1
    <3>2. QED
      BY <1>1, <1>2, <3>1
  <2>2. Max(S) \in S /\ \A s \in S : Max(S) >= s
    <3> HIDE DEF S
    <3>1. QED
      BY <2>1, MaxOfNaturals
  <2>3. nextLabel' = Max(S) + 1
    BY DEF Components
  <2>4. ASSUME NEW i \in Rows PROVE snapshot'[i] < nextLabel'
    <3>1. snapshot'[i] \in S
      OBVIOUS
    <3> HIDE DEF S
    <3>2. snapshot'[i] \in Nat /\ Max(S) \in Nat /\ Max(S) >= snapshot'[i]
      BY <2>1, <2>2, <3>1
    <3>3. QED
      BY <2>3, <3>2
  <2>5. nextLabel' \in Nat
    <3> HIDE DEF S
    <3>1. Max(S) \in Nat
      BY <2>1, <2>2
    <3>2. QED
      BY <2>3, <3>1
  <2>6. QED
    BY <2>4, <2>5
<1>4. rows' = rows /\ labels' = snapshot' /\ Rows' = Rows
  BY DEF Components, Rows
<1>5. ASSUME NEW i \in Rows PROVE ~ Moved(i)'
  <2>1. GroupOf(rows, snapshot', i) \in GroupsOf(rows, snapshot')
    BY DEF GroupsOf, Rows
  <2>2. QED
    BY <1>4, <2>1 DEF Components, Moved
<1>6. \A i, j \in Rows :
        GroupOf(rows', snapshot', i) = GroupOf(rows', snapshot', j) => labels'[i] = labels'[j]
  BY <1>4 DEF GroupOf
<1>7. QED
  BY <1>1, <1>2, <1>3, <1>4, <1>5, <1>6 DEF LabelsRight

\* A turn of _post_split.
LEMMA SplitOffRight ==
  ASSUME LabelsRight, SplitOff
  PROVE  LabelsRight'
<1> DEFINE G(i) == GroupOf(rows, snapshot, i)
<1>1. PICK g \in pending :
        /\ labels' = [i \in Rows |-> IF G(i) = g THEN nextLabel ELSE labels[i]]
        /\ pending' = pending \ {g}
  BY DEF SplitOff
<1>2. /\ rows' = rows /\ snapshot' = snapshot /\ Rows' = Rows
      /\ nextLabel' = nextLabel + 1
  BY DEF SplitOff, Rows
<1>3. ASSUME NEW i \in Rows, G(i) # g
      PROVE  labels'[i] = labels[i] /\ (Moved(i)' <=> Moved(i))
  BY <1>1, <1>2, <1>3 DEF Moved
<1>4. ASSUME NEW i \in Rows, G(i) = g
      PROVE  labels'[i] = nextLabel
  BY <1>1, <1>4
<1> HIDE DEF G
<1>5. \A i \in Rows : labels'[i] \in Nat /\ labels'[i] < nextLabel'
  BY <1>2, <1>3, <1>4 DEF LabelsRight
<1>6. ASSUME NEW i \in Rows, NEW j \in Rows, G(i) = G(j)
      PROVE  labels'[i] = labels'[j]
  <2>1. labels[i] = labels[j]
    BY <1>6 DEF LabelsRight, G
  <2>2. QED
    BY <1>3, <1>4, <1>6, <2>1
<1>7. ASSUME NEW i \in Rows, NEW j \in Rows, labels'[i] = labels'[j]
      PROVE  /\ snapshot[i] = snapshot[j]
             /\ G(i) = G(j) \/ (~ Moved(i)' /\ ~ Moved(j)')
  <2>1. CASE G(i) = g /\ G(j) = g
    BY <2>1 DEF G, GroupOf
  <2>2. CASE G(i) = g /\ G(j) # g
    <3>1. labels'[i] = nextLabel /\ labels'[j] = labels[j]
      BY <1>3, <1>4, <2>2
    <3>2. labels[j] # nextLabel
      BY DEF LabelsRight
    <3>3. QED
      BY <1>7, <3>1, <3>2
  <2>3. CASE G(i) # g /\ G(j) = g
    <3>1. labels'[j] = nextLabel /\ labels'[i] = labels[i]
      BY <1>3, <1>4, <2>3
    <3>2. labels[i] # nextLabel
      BY DEF LabelsRight
    <3>3. QED
      BY <1>7, <3>1, <3>2
  <2>4. CASE G(i) # g /\ G(j) # g
    <3>1. labels[i] = labels[j] /\ (Moved(i)' <=> Moved(i)) /\ (Moved(j)' <=> Moved(j))
      BY <1>3, <1>7, <2>4
    <3>2. QED
      BY <3>1 DEF LabelsRight, G
  <2>5. QED
    BY <2>1, <2>2, <2>3, <2>4
<1>8. DOMAIN labels' = Rows'
  BY <1>1, <1>2
<1>9. nextLabel' \in Nat
  BY <1>2 DEF LabelsRight
<1>10. QED
  BY <1>2, <1>5, <1>6, <1>7, <1>8, <1>9 DEF LabelsRight, G

LEMMA InitIInv ==
  GroupingInit => IInv
BY DEF GroupingInit, IInv

LEMMA RunIInv ==
  ASSUME NEW table, IsTable(table), IInv, Run(table)
  PROVE  IInv'
BY DEF Run, IInv

\* The invariant holds from stage to stage.
LEMMA NextIInv ==
  ASSUME IInv, [GroupingNext]_groupingVars
  PROVE  IInv'
<1>1. CASE Vectorize
  BY <1>1 DEF Vectorize, IInv
<1>2. CASE Neighbors
  <2>1. at = "neighbors" /\ at' \in {"components", "scoring"} /\ rows' = rows
    BY <1>2 DEF Neighbors
  <2>2. QED
    BY <2>1 DEF IInv
<1>3. CASE ScoreBlock
  <2>1. at = "scoring" /\ at' \in {"scoring", "threshold"} /\ rows' = rows
    BY <1>3 DEF ScoreBlock
  <2>2. QED
    BY <2>1 DEF IInv
<1>4. CASE BuildGraph
  BY <1>4 DEF BuildGraph, IInv
<1>5. CASE Components
  <2>1. at = "components" /\ at' = "splitting" /\ rows' = rows
    BY <1>5 DEF Components
  <2>2. LabelsRight'
    BY <1>5, ComponentsRight
  <2>3. QED
    BY <2>1, <2>2 DEF IInv
<1>6. CASE SplitOff
  <2>1. at = "splitting" /\ at' = "splitting" /\ rows' = rows
    BY <1>6 DEF SplitOff
  <2>2. LabelsRight'
    BY <1>6, <2>1, SplitOffRight DEF IInv
  <2>3. QED
    BY <2>1, <2>2 DEF IInv
<1>7. CASE EndSplit
  <2>1. /\ at = "splitting" /\ at' = "describing" /\ pending' = {}
        /\ UNCHANGED <<rows, snapshot, labels, nextLabel, pending>>
    BY <1>7 DEF EndSplit
  <2>2. LabelsRight'
    BY <2>1 DEF IInv, LabelsRight, Moved, Rows
  <2>3. QED
    BY <2>1, <2>2 DEF IInv
<1>8. CASE Describe
  <2>1. /\ at = "describing" /\ at' \in {"done", "INTERNAL_ERROR"}
        /\ UNCHANGED <<rows, snapshot, labels, nextLabel, pending>>
    BY <1>8, Zenon DEF Describe
  <2>2. LabelsRight'
    BY <2>1 DEF IInv, LabelsRight, Moved, Rows
  <2>3. QED
    BY <2>1, <2>2 DEF IInv
<1>9. CASE UNCHANGED groupingVars
  BY <1>9 DEF groupingVars, IInv, LabelsRight, Moved, Rows
<1>10. QED
  BY <1>1, <1>2, <1>3, <1>4, <1>5, <1>6, <1>7, <1>8, <1>9 DEF GroupingNext

\* When nothing is pending a label belongs to one group.
LEMMA IInvSplitExact ==
  IInv => SplitExact
<1> SUFFICES ASSUME IInv, at \in {"describing", "done"},
                    NEW i \in Rows, NEW j \in Rows
             PROVE  labels[i] = labels[j] <=>
                      GroupOf(rows, snapshot, i) = GroupOf(rows, snapshot, j)
  BY DEF SplitExact, GroupOf, SplitKey
<1>1. LabelsRight /\ pending = {} /\ IsTable(rows)
  BY DEF IInv
<1>2. ASSUME labels[i] = labels[j], ~ Moved(i), ~ Moved(j)
      PROVE  GroupOf(rows, snapshot, i) = GroupOf(rows, snapshot, j)
  <2>1. snapshot[i] = snapshot[j]
    BY <1>1, <1>2 DEF LabelsRight
  <2>2. /\ KeepsLabel(rows, snapshot, GroupOf(rows, snapshot, i))
        /\ KeepsLabel(rows, snapshot, GroupOf(rows, snapshot, j))
    BY <1>1, <1>2 DEF Moved
  <2>3. QED
    BY <1>1, <2>1, <2>2, KeeperIsUnique DEF Rows
<1>3. QED
  BY <1>1, <1>2 DEF LabelsRight

-----------------------------------------------------------------------------
(* The scores *)

\* The pairs that were scored carry their own similarity, however the array
\* they were written to was initialised.
ScoredUpTo(end) ==
  \A p \in DOMAIN pairs :
    p <= end => lexSims[p] = Similarity(lex, pairs[p][1], pairs[p][2])

\* When the graph is built, every candidate pair was scored: the loop over blocks
\* leaves out no pair and none keeps what np.empty found in memory.
ScoresComplete == at = "threshold" => ScoredUpTo(Len(pairs))

ScoresInv ==
  /\ at # "idle" => IsTable(rows)
  /\ at \in {"scoring", "threshold"} =>
       /\ Len(pairs) \in Nat
       /\ DOMAIN pairs = 1 .. Len(pairs)
  /\ at \in {"idle", "vectors", "neighbors"} => start = 0
  /\ at = "scoring" => start \in Nat /\ ScoredUpTo(start)
  /\ ScoresComplete

\* The numbers of neighbours that can be kept.
LEMMA NeighborsOfNatural ==
  ASSUME NEW n \in Nat \ {0}
  PROVE  NeighborsOf(n) \in Nat \ {0}
<1>1. Max({1, n - 1}) \in {1, n - 1} /\ Max({1, n - 1}) >= 1
  <2> DEFINE S == {1, n - 1}
  <2>1. S \in SUBSET Nat /\ S # {} /\ 1 \in S /\ \A s \in S : s <= n
    OBVIOUS
  <2> HIDE DEF S
  <2>2. Max(S) \in S /\ Max(S) >= 1
    BY <2>1, MaxOfNaturals
  <2>3. QED
    BY <2>2 DEF S
<1> DEFINE m == Max({1, n - 1})
<1>2. m \in Nat \ {0}
  BY <1>1
<1> HIDE DEF m
<1>3. Min({NeighborK, m}) \in {NeighborK, m}
  BY <1>2, MinOfNaturals, GroupingAssumption
<1>4. QED
  BY <1>2, <1>3, GroupingAssumption DEF NeighborsOf, m

\* What the neighbours stage hands to the loop over blocks.
LEMMA CandidatesAreSequence ==
  ASSUME NEW n \in Nat, NEW k \in Nat, NEW near, DOMAIN near = 1 .. n, Len(near) = n
  PROVE  /\ Len(Candidates(near, k)) = n * k
         /\ DOMAIN Candidates(near, k) = 1 .. n * k
         /\ n * k \in Nat
<1>1. n * k \in Nat
  OBVIOUS
<1> DEFINE size == n * k
           pair(p) == LET i == ((p - 1) \div k) + 1 IN <<i, near[i][((p - 1) % k) + 2]>>
<1>2. Candidates(near, k) = [p \in 1 .. size |-> pair(p)]
  BY DEF Candidates
<1> HIDE DEF size, pair
<1>3. Len([p \in 1 .. size |-> pair(p)]) = size
  BY <1>1 DEF size
<1>4. QED
  BY <1>1, <1>2, <1>3 DEF size

LEMMA InitScoresInv ==
  GroupingInit => ScoresInv
BY DEF GroupingInit, ScoresInv, ScoresComplete

LEMMA RunScoresInv ==
  ASSUME NEW table, IsTable(table), ScoresInv, Run(table)
  PROVE  ScoresInv'
BY DEF Run, ScoresInv, ScoresComplete

\* The loop over the blocks extends what is scored until nothing is left.
LEMMA NextScoresInv ==
  ASSUME ScoresInv, [GroupingNext]_groupingVars
  PROVE  ScoresInv'
<1> USE DEF ScoresInv, ScoresComplete
<1>1. CASE Vectorize
  BY <1>1 DEF Vectorize
<1>2. CASE Neighbors
  <2>1. /\ at = "neighbors" /\ rows' = rows /\ start' = 0
        /\ at' \in {"components", "scoring"}
    BY <1>2 DEF Neighbors
  <2>2. ASSUME at' = "scoring"
        PROVE  /\ Len(pairs)' \in Nat
               /\ DOMAIN pairs' = 1 .. Len(pairs')
    <3>1. PICK n \in Nat \ {0} : Rows = 1 .. n
      BY <2>1 DEF IsTable, Rows
    <3> DEFINE k == NeighborsOf(n)
               lists == [i \in Rows |-> NearestLists(sem, Rows, i, k)]
    <3>2. Len(rows) = n
      BY <3>1 DEF Rows
    <3>3. k \in Nat
      BY <3>1, NeighborsOfNatural
    <3>4. Len(rows) # 1
      BY <1>2, <2>2 DEF Neighbors
    <3>5. PICK near \in [Rows -> UNION {lists[i] : i \in Rows}] : pairs' = Candidates(near, k)
      BY <1>2, <3>2, <3>4 DEF Neighbors
    <3>6. DOMAIN near = 1 .. n /\ Len(near) = n
      BY <3>1, <3>5
    <3> HIDE DEF k
    <3>7. QED
      BY <3>3, <3>5, <3>6, CandidatesAreSequence
  <2>3. ASSUME at' = "scoring" PROVE ScoredUpTo(start)'
    BY <2>1, <2>2, <2>3 DEF ScoredUpTo
  <2>4. QED
    BY <2>1, <2>2, <2>3
<1>3. CASE ScoreBlock
  <2>1. /\ at = "scoring" /\ UNCHANGED <<rows, pairs, lex>>
        /\ start \in Nat /\ Len(pairs) \in Nat /\ DOMAIN pairs = 1 .. Len(pairs)
        /\ ScoredUpTo(start)
    BY <1>3 DEF ScoreBlock
  <2>2. CASE start < Len(pairs)
    <3>1. /\ lexSims' = [p \in DOMAIN pairs |->
                           IF start < p /\ p <= start + PairBlock
                           THEN Similarity(lex, pairs[p][1], pairs[p][2]) ELSE lexSims[p]]
          /\ start' = start + PairBlock
          /\ at' = "scoring"
      BY <1>3, <2>1, <2>2 DEF ScoreBlock
    <3>2. start' \in Nat
      BY <2>1, <3>1, GroupingAssumption
    <3>3. ASSUME NEW p \in DOMAIN pairs, p <= start'
          PROVE  lexSims'[p] = Similarity(lex, pairs[p][1], pairs[p][2])
      <4>1. CASE start < p
        BY <3>1, <3>3, <4>1
      <4>2. CASE ~ (start < p)
        <5>1. p <= start
          BY <2>1, <4>2
        <5>2. QED
          BY <2>1, <3>1, <4>2, <5>1 DEF ScoredUpTo
      <4>3. QED
        BY <4>1, <4>2
    <3>4. ScoredUpTo(start)'
      BY <2>1, <3>3 DEF ScoredUpTo
    <3>5. QED
      BY <2>1, <3>1, <3>2, <3>4
  <2>3. CASE ~ (start < Len(pairs))
    <3>1. UNCHANGED <<lexSims, start>> /\ at' = "threshold"
      BY <1>3, <2>3 DEF ScoreBlock
    <3>2. ScoredUpTo(Len(pairs))'
      BY <2>1, <2>3, <3>1 DEF ScoredUpTo
    <3>3. QED
      BY <2>1, <3>1, <3>2
  <2>4. QED
    BY <2>2, <2>3
<1>4. CASE BuildGraph
  BY <1>4 DEF BuildGraph
<1>5. CASE Components
  <2>1. at = "components" /\ at' = "splitting" /\ rows' = rows
    BY <1>5 DEF Components
  <2>2. QED
    BY <2>1
<1>6. CASE SplitOff
  <2>1. at = "splitting" /\ at' = "splitting" /\ rows' = rows
    BY <1>6 DEF SplitOff
  <2>2. QED
    BY <2>1
<1>7. CASE EndSplit
  BY <1>7 DEF EndSplit
<1>8. CASE Describe
  <2>1. at = "describing" /\ at' \in {"done", "INTERNAL_ERROR"} /\ rows' = rows
    BY <1>8, Zenon DEF Describe
  <2>2. QED
    BY <2>1
<1>9. CASE UNCHANGED groupingVars
  BY <1>9 DEF groupingVars, ScoredUpTo
<1>10. QED
  BY <1>1, <1>2, <1>3, <1>4, <1>5, <1>6, <1>7, <1>8, <1>9 DEF GroupingNext

-----------------------------------------------------------------------------
(* The prepared table *)

OtherRoles == {"volume", "difficulty", "position", "url"}

\* There is a row with a keyword from the moment the rows without one are gone.
TableInv ==
  /\ request \in Requests
  /\ stage = "assigning" =>
       /\ "normalized_keyword" \in DOMAIN frame
       /\ IsTable(frame["normalized_keyword"])
       /\ todo \in Seq(OtherRoles)
  /\ stage = "prepared" => IsTable(prepared)

\* As many positions as elements, so at least one if there is one.
LEMMA AscendingIsTable ==
  ASSUME NEW n \in Nat, NEW S \in SUBSET (1 .. n), S # {}
  PROVE  IsTable(Ascending(S))
<1>1. IsFiniteSet(S)
  <2>1. IsFiniteSet(1 .. n) /\ S \subseteq 1 .. n
    BY FS_Interval
  <2>2. QED
    BY <2>1, FS_Subset
<1>2. Cardinality(S) \in Nat \ {0}
  BY <1>1, FS_CardinalityType, FS_EmptySet
<1>3. QED
  BY <1>2 DEF Ascending, IsTable

LEMMA MaskKeepsARow ==
  ASSUME TableInv, MaskKeywords, stage' = "assigning"
  PROVE  TableInv'
<1> DEFINE column == frame[mapping["keyword"]]
           usable == {r \in DOMAIN request.file.rows : Usable(column[r])}
           keep == Ascending(usable)
           kept == [h \in DOMAIN frame |-> [r \in DOMAIN keep |-> frame[h][keep[r]]]]
           keyword == [r \in DOMAIN keep |-> StripCell[column[keep[r]]]]
           normalized == [r \in DOMAIN keep |-> NormalizeText[keyword[r]]]
<1>1. /\ usable # {} /\ todo' = Tail(Roles) /\ request' = request
      /\ frame' = With(With(kept, "keyword", keyword), "normalized_keyword", normalized)
  BY DEF MaskKeywords
<1>2. IsTable(keep)
  <2>1. PICK n \in Nat : DOMAIN request.file.rows = 1 .. n
    BY IngestAssumption DEF TableInv
  <2>2. usable \in SUBSET (1 .. n)
    BY <2>1
  <2> HIDE DEF usable
  <2>3. QED
    BY <1>1, <2>2, AscendingIsTable
<1> HIDE DEF keep, kept, keyword
<1>3. IsTable(normalized)
  BY <1>2 DEF IsTable
<1> HIDE DEF normalized
<1>4. /\ "normalized_keyword" \in DOMAIN frame'
      /\ frame'["normalized_keyword"] = normalized
  BY <1>1 DEF With
<1>5. Tail(Roles) \in Seq(OtherRoles)
  BY DEF Roles, OtherRoles
<1>6. QED
  BY <1>1, <1>3, <1>4, <1>5 DEF TableInv

LEMMA AssignKeepsKeywords ==
  ASSUME TableInv, AssignRole
  PROVE  TableInv'
<1>1. CASE stage' = "INTERNAL_ERROR"
  BY <1>1 DEF AssignRole, TableInv
<1>2. CASE stage' # "INTERNAL_ERROR"
  <2>1. /\ stage = "assigning" /\ stage' = "assigning"
        /\ todo # <<>> /\ todo' = Tail(todo) /\ request' = request
        /\ \E column : frame' = With(frame, Head(todo), column)
    BY <1>2 DEF AssignRole
  <2>2. Head(todo) \in OtherRoles /\ todo' \in Seq(OtherRoles)
    BY <2>1 DEF TableInv
  <2>3. "normalized_keyword" # Head(todo)
    BY <2>2 DEF OtherRoles
  <2>4. /\ "normalized_keyword" \in DOMAIN frame'
        /\ frame'["normalized_keyword"] = frame["normalized_keyword"]
    BY <2>1, <2>3 DEF TableInv, With
  <2>5. QED
    BY <2>1, <2>2, <2>4 DEF TableInv
<1>3. QED
  BY <1>1, <1>2

LEMMA DeduplicateKeepsARow ==
  ASSUME TableInv, Deduplicate
  PROVE  TableInv'
<1> DEFINE key == frame["normalized_keyword"]
           like(r) == {q \in DOMAIN key : key[q] = key[r]}
           firsts == {r \in DOMAIN key : r = Min(like(r))}
           first == Ascending(firsts)
<1>1. /\ stage = "assigning" /\ stage' = "prepared" /\ request' = request
      /\ prepared' = [p \in DOMAIN first |-> Collapsed(key[first[p]], like(first[p]))]
  BY DEF Deduplicate
<1>2. PICK n \in Nat \ {0} : DOMAIN key = 1 .. n
  BY <1>1 DEF TableInv, IsTable
<1>3. 1 \in firsts
  <2>1. like(1) \in SUBSET (1 .. n) /\ 1 \in like(1)
    BY <1>2
  <2>2. Min(like(1)) \in like(1) /\ \A m \in like(1) : Min(like(1)) <= m
    <3> HIDE DEF like
    <3>1. QED
      BY <2>1, MinOfNaturals
  <2>3. 1 = Min(like(1))
    <3> HIDE DEF like
    <3>1. QED
      BY <2>1, <2>2
  <2>4. QED
    BY <1>2, <2>3
<1>4. firsts \in SUBSET (1 .. n)
  BY <1>2
<1>5. IsTable(first)
  <2> HIDE DEF firsts
  <2>1. QED
    BY <1>3, <1>4, AscendingIsTable
<1>6. DOMAIN prepared' = DOMAIN first
  <2> HIDE DEF first, key
  <2>1. QED
    BY <1>1
<1>7. IsTable(prepared')
  BY <1>5, <1>6 DEF IsTable
<1>8. QED
  BY <1>1, <1>7 DEF TableInv

\* What read_table may end with, and what it has found when it does not.
LEMMA ReadErrors ==
  ASSUME NEW r \in Requests
  PROVE  LET f == r.file   e == ReadError(f)
         IN  /\ e \in {"EMPTY_FILE", "FILE_TOO_LARGE", "UNPARSEABLE_FILE", "UNPARSEABLE_XLSX",
                       "UNPARSEABLE_XLS", "NO_ROWS", "TOO_MANY_ROWS", None}
             /\ e = None => f.size <= MAX_UPLOAD_BYTES
             /\ e = "FILE_TOO_LARGE" =>
                  \/ f.size > MAX_UPLOAD_BYTES
                  \/ f.kind = "xlsx" /\ f.expands > MAX_XLSX_UNCOMPRESSED_BYTES
<1> DEFINE f == r.file
<1>1. f.kind \in {"csv", "xlsx", "xls"} /\ f.size \in Nat /\ MAX_UPLOAD_BYTES \in Nat
  BY IngestAssumption
<1>2. Unparseable[f.kind] \in {"UNPARSEABLE_FILE", "UNPARSEABLE_XLSX", "UNPARSEABLE_XLS"}
  BY <1>1 DEF Unparseable
<1>3. None # "EMPTY_FILE" /\ None # "FILE_TOO_LARGE"
  BY IngestAssumption
<1> DEFINE tooLarge == \/ f.size > MAX_UPLOAD_BYTES
                       \/ f.kind = "xlsx" /\ f.expands > MAX_XLSX_UNCOMPRESSED_BYTES
<1>4. CASE f.blank
  <2>1. ReadError(f) = "EMPTY_FILE"
    BY <1>4 DEF ReadError
  <2>2. QED
    BY <1>3, <2>1
<1>5. CASE ~ f.blank /\ tooLarge
  <2>1. ReadError(f) = "FILE_TOO_LARGE"
    BY <1>5 DEF ReadError
  <2>2. QED
    BY <1>3, <1>5, <2>1
<1>6. CASE ~ f.blank /\ ~ tooLarge
  <2>1. ReadError(f) \in {Unparseable[f.kind], "NO_ROWS", "TOO_MANY_ROWS", None}
    BY <1>6 DEF ReadError
  <2>2. QED
    BY <1>1, <1>2, <1>3, <1>6, <2>1
<1>7. QED
  BY <1>4, <1>5, <1>6

LEMMA IngestTableInv ==
  ASSUME TableInv, IngestNext
  PROVE  TableInv'
<1>1. CASE CheckDeclared
  BY <1>1 DEF CheckDeclared, TableInv
<1>2. CASE ReadChunk
  BY <1>2 DEF ReadChunk, TableInv
<1>3. CASE ReadTable
  <2>1. ReadError(request.file) \notin {"assigning", "prepared"}
           \/ ReadError(request.file) = None
    BY ReadErrors DEF TableInv
  <2>2. stage' \notin {"assigning", "prepared"} /\ request' = request
    BY <1>3, <2>1 DEF ReadTable
  <2>3. QED
    BY <2>2 DEF TableInv
<1>4. CASE Resolve
  BY <1>4 DEF Resolve, TableInv
<1>5. CASE MaskKeywords
  <2>1. CASE stage' = "assigning"
    BY <1>5, <2>1, MaskKeepsARow
  <2>2. CASE stage' # "assigning"
    <3>1. stage' # "prepared" /\ request' = request
      BY <1>5 DEF MaskKeywords
    <3>2. QED
      BY <2>2, <3>1 DEF TableInv
  <2>3. QED
    BY <2>1, <2>2
<1>6. CASE AssignRole
  BY <1>6, AssignKeepsKeywords
<1>7. CASE Deduplicate
  BY <1>7, DeduplicateKeepsARow
<1>8. QED
  BY <1>1, <1>2, <1>3, <1>4, <1>5, <1>6, <1>7 DEF IngestNext

-----------------------------------------------------------------------------
(* What Grouping keeps, Pipeline keeps *)

PInv == TableInv /\ IInv /\ ScoresInv

LEMMA InitPInv ==
  PipelineInit => PInv
<1>1. PipelineInit => TableInv
  BY DEF PipelineInit, IngestInit, TableInv
<1>2. QED
  BY <1>1, InitIInv, InitScoresInv DEF PipelineInit, PInv

LEMMA NextPInv ==
  ASSUME PInv, [PipelineNext]_pipelineVars
  PROVE  PInv'
<1>1. CASE IngestNext /\ UNCHANGED groupingVars
  BY <1>1, IngestTableInv, NextIInv, NextScoresInv DEF PInv
<1>2. CASE HandOver
  <2>1. TableInv'
    BY <1>2 DEF HandOver, ingestVars, PInv, TableInv
  <2>2. IsTable(prepared) /\ Run(prepared)
    BY <1>2 DEF HandOver, PInv, TableInv
  <2>3. QED
    BY <2>1, <2>2, RunIInv, RunScoresInv DEF PInv
<1>3. CASE GroupingNext /\ UNCHANGED ingestVars
  <2>1. TableInv'
    BY <1>3 DEF ingestVars, PInv, TableInv
  <2>2. QED
    BY <1>3, <2>1, NextIInv, NextScoresInv DEF PInv
<1>4. CASE UNCHANGED pipelineVars
  <2>1. UNCHANGED groupingVars /\ UNCHANGED ingestVars
    BY <1>4 DEF pipelineVars
  <2>2. TableInv'
    BY <2>1 DEF ingestVars, PInv, TableInv
  <2>3. QED
    BY <2>1, <2>2, NextIInv, NextScoresInv DEF PInv
<1>5. QED
  BY <1>1, <1>2, <1>3, <1>4 DEF PipelineNext

\* Whatever the file, the similarities and the configuration, the split separates
\* what differs and nothing else, and gives no label twice (_post_split).
THEOREM SplitIsExact ==
  PipelineSpec => []SplitExact
<1>1. PInv => SplitExact
  BY IInvSplitExact DEF PInv
<1>2. QED
  BY <1>1, InitPInv, NextPInv, PTL DEF PipelineSpec

\* The uninitialised array of scores never shows, whatever the block size and the
\* number of candidates (the loop over SIM_PAIR_BLOCK in pipeline.py).
THEOREM EveryPairIsScored ==
  PipelineSpec => []ScoresComplete
<1>1. PInv => ScoresComplete
  BY DEF PInv, ScoresInv
<1>2. QED
  BY <1>1, InitPInv, NextPInv, PTL DEF PipelineSpec

-----------------------------------------------------------------------------
(* The upload *)

\* How much of the file was read at each stage, and what a refusal for its size or
\* the beginning of a table imply.
UploadInv ==
  LET f == request.file
  IN  /\ request \in Requests
      /\ total \in Nat /\ total <= f.size
      /\ total <= EFFECTIVE_MAX_UPLOAD_BYTES + ChunkBytes
      /\ stage \in {"arriving", "receiving"} => total <= EFFECTIVE_MAX_UPLOAD_BYTES
      /\ stage \notin {"arriving", "receiving", "FILE_TOO_LARGE"} =>
           total = f.size /\ f.size <= EFFECTIVE_MAX_UPLOAD_BYTES
      /\ stage \in {"arriving", "receiving", "received", "FILE_TOO_LARGE"} => names = <<>>
      /\ names # <<>> => f.size <= MAX_UPLOAD_BYTES
      /\ stage = "FILE_TOO_LARGE" =>
           \/ f.size > EFFECTIVE_MAX_UPLOAD_BYTES \/ f.size > MAX_UPLOAD_BYTES
           \/ f.kind = "xlsx" /\ f.expands > MAX_XLSX_UNCOMPRESSED_BYTES
           \/ request.declared # None /\ request.declared > f.size + FramingSlack

LEMMA ChunkUploadInv ==
  ASSUME UploadInv, ReadChunk
  PROVE  UploadInv'
<1> DEFINE f == request.file
           limit == EFFECTIVE_MAX_UPLOAD_BYTES
<1>1. /\ stage = "receiving" /\ request \in Requests /\ UNCHANGED <<request, names>>
      /\ names = <<>> /\ total \in Nat /\ total <= f.size /\ total <= limit
  BY DEF ReadChunk, UploadInv
<1>2. f.size \in Nat /\ limit \in Nat /\ ChunkBytes \in Nat \ {0}
  BY <1>1, IngestAssumption
<1>3. CASE total < f.size
  <2> DEFINE most == {ChunkBytes, f.size - total}
  <2>1. Min(most) \in most /\ \A m \in most : Min(most) <= m
    <3>1. most \in SUBSET Nat /\ most # {}
      BY <1>1, <1>2, <1>3
    <3> HIDE DEF most
    <3>2. QED
      BY <3>1, MinOfNaturals
  <2>2. Min(most) \in Nat /\ Min(most) <= ChunkBytes /\ Min(most) <= f.size - total
    BY <1>1, <1>2, <1>3, <2>1
  <2>3. PICK n \in 1 .. Min(most) : total' = total + n
    BY <1>3 DEF ReadChunk
  <2>4. total' \in Nat /\ total' <= f.size /\ total' <= limit + ChunkBytes
    <3> HIDE DEF most
    <3>1. QED
      BY <1>1, <1>2, <2>2, <2>3
  <2>5. stage' = IF total' > limit THEN "FILE_TOO_LARGE" ELSE "receiving"
    BY <1>1, <1>3 DEF ReadChunk
  <2>6. QED
    BY <1>1, <1>2, <2>4, <2>5 DEF UploadInv
<1>4. CASE ~ (total < f.size)
  <2>1. stage' = "received" /\ total' = total
    BY <1>4 DEF ReadChunk
  <2>2. total = f.size
    BY <1>1, <1>2, <1>4
  <2>3. QED
    BY <1>1, <1>2, <2>1, <2>2 DEF UploadInv
<1>5. QED
  BY <1>3, <1>4

LEMMA NextUploadInv ==
  ASSUME UploadInv, [PipelineNext]_pipelineVars
  PROVE  UploadInv'
<1> DEFINE f == request.file
<1>1. CASE CheckDeclared
  <2>1. /\ stage = "arriving" /\ UNCHANGED <<request, total, names>>
        /\ stage' \in {"receiving", "FILE_TOO_LARGE"}
        /\ stage' = "FILE_TOO_LARGE" =>
             /\ request.declared # None
             /\ request.declared > EFFECTIVE_MAX_UPLOAD_BYTES + FramingSlack
    BY <1>1 DEF CheckDeclared
  <2>2. /\ f.size \in Nat /\ EFFECTIVE_MAX_UPLOAD_BYTES \in Nat /\ FramingSlack \in Nat
        /\ request.declared # None => request.declared \in Nat
    BY IngestAssumption DEF UploadInv
  <2>3. stage' = "FILE_TOO_LARGE" =>
          \/ f.size > EFFECTIVE_MAX_UPLOAD_BYTES
          \/ request.declared # None /\ request.declared > f.size + FramingSlack
    BY <2>1, <2>2
  <2>4. QED
    BY <2>1, <2>3 DEF UploadInv
<1>2. CASE ReadChunk
  BY <1>2, ChunkUploadInv
<1>3. CASE ReadTable
  <2>1. stage = "received" /\ UNCHANGED <<request, total>>
    BY <1>3 DEF ReadTable
  <2>2. CASE ReadError(f) # None
    <3>1. stage' = ReadError(f) /\ names' = names
      BY <1>3, <2>2 DEF ReadTable
    <3>2. /\ stage' \notin {"arriving", "receiving"}
          /\ stage' = "FILE_TOO_LARGE" =>
               \/ f.size > MAX_UPLOAD_BYTES
               \/ f.kind = "xlsx" /\ f.expands > MAX_XLSX_UNCOMPRESSED_BYTES
      BY <2>2, <3>1, ReadErrors DEF UploadInv
    <3>3. QED
      BY <2>1, <3>1, <3>2 DEF UploadInv
  <2>3. CASE ReadError(f) = None
    <3>1. stage' \in {"TOO_MANY_ROWS", "parsed"}
      BY <1>3, <2>3 DEF ReadTable
    <3>2. f.size <= MAX_UPLOAD_BYTES
      BY <2>3, ReadErrors DEF UploadInv
    <3>3. QED
      BY <2>1, <3>1, <3>2 DEF UploadInv
  <2>4. QED
    BY <2>2, <2>3
<1>4. ASSUME UNCHANGED <<request, total, names>>,
             stage \notin {"arriving", "receiving", "received", "FILE_TOO_LARGE"},
             stage' \notin {"arriving", "receiving", "received", "FILE_TOO_LARGE"}
      PROVE  UploadInv'
  BY <1>4 DEF UploadInv
<1>5. CASE Resolve
  BY <1>4, <1>5 DEF Resolve
<1>6. CASE MaskKeywords
  BY <1>4, <1>6 DEF MaskKeywords
<1>7. CASE AssignRole
  BY <1>4, <1>7 DEF AssignRole
<1>8. CASE Deduplicate
  BY <1>4, <1>8 DEF Deduplicate
<1>9. CASE UNCHANGED ingestVars
  BY <1>9 DEF ingestVars, UploadInv
<1>10. QED
  BY <1>1, <1>2, <1>3, <1>5, <1>6, <1>7, <1>8, <1>9
     DEF PipelineNext, IngestNext, HandOver, pipelineVars

LEMMA InitUploadInv ==
  PipelineInit => UploadInv
<1> SUFFICES ASSUME PipelineInit PROVE UploadInv
  OBVIOUS
<1>1. request.file.size \in Nat /\ EFFECTIVE_MAX_UPLOAD_BYTES \in Nat /\ ChunkBytes \in Nat
  BY IngestAssumption DEF PipelineInit, IngestInit
<1>2. QED
  BY <1>1 DEF PipelineInit, IngestInit, UploadInv

\* For every limit, chunk size and file: never more in memory than the limit and a
\* chunk, nothing above a limit is parsed, and a refusal for the size has one of
\* the stated reasons (read_upload_limited and read_table).
THEOREM UploadIsTruthful ==
  PipelineSpec => []UploadTruthful
<1>2. UploadInv => UploadTruthful
  <2> SUFFICES ASSUME UploadInv PROVE UploadTruthful
    OBVIOUS
  <2> DEFINE limits == {EFFECTIVE_MAX_UPLOAD_BYTES, MAX_UPLOAD_BYTES}
  <2>1. Min(limits) \in limits /\ \A m \in limits : Min(limits) <= m
    <3>1. limits \in SUBSET Nat /\ limits # {}
      BY IngestAssumption
    <3> HIDE DEF limits
    <3>2. QED
      BY <3>1, MinOfNaturals
  <2>2. /\ EFFECTIVE_MAX_UPLOAD_BYTES \in Nat /\ MAX_UPLOAD_BYTES \in Nat
        /\ request.file.size \in Nat
    BY IngestAssumption DEF UploadInv
  <2>3. /\ request.file.size > Min(limits) <=>
             \/ request.file.size > EFFECTIVE_MAX_UPLOAD_BYTES
             \/ request.file.size > MAX_UPLOAD_BYTES
        /\ request.file.size <= Min(limits) <=> ~ (request.file.size > Min(limits))
    BY <2>1, <2>2
  <2> HIDE DEF limits
  <2>4. QED
    BY <2>2, <2>3 DEF UploadInv, UploadTruthful, limits
<1>3. QED
  BY <1>2, InitUploadInv, NextUploadInv, PTL DEF PipelineSpec

-----------------------------------------------------------------------------
(* The graph and its components *)

Symmetric(g, rs) ==
  \A e \in g : e \in rs \X rs /\ <<e[2], e[1]>> \in g

\* To be linked is an equivalence when edges go both ways.
LEMMA LinkedIsEquivalence ==
  ASSUME NEW rs, NEW g, Symmetric(g, rs), NEW i \in rs, NEW j \in rs, NEW k \in rs
  PROVE  /\ Linked(g, rs, i, i)
         /\ Linked(g, rs, i, j) => Linked(g, rs, j, i)
         /\ Linked(g, rs, i, j) /\ Linked(g, rs, j, k) => Linked(g, rs, i, k)
<1>1. ASSUME Linked(g, rs, i, j), NEW S \in SUBSET rs, j \in S,
             \A e \in g : e[1] \in S => e[2] \in S,
             i \notin S
      PROVE  FALSE
  <2>1. \A e \in g : e[1] \in rs \ S => e[2] \in rs \ S
    <3> SUFFICES ASSUME NEW e \in g, e[1] \in rs \ S, e[2] \in S PROVE FALSE
      BY DEF Symmetric
    <3>1. <<e[2], e[1]>> \in g /\ <<e[2], e[1]>>[1] \in S
      BY DEF Symmetric
    <3>2. <<e[2], e[1]>>[2] \in S
      BY <1>1, <3>1
    <3>3. QED
      BY <3>2
  <2>2. j \in rs \ S
    BY <1>1, <2>1 DEF Linked
  <2>3. QED
    BY <1>1, <2>2
<1>2. QED
  BY <1>1 DEF Linked

FirstLinked(g, rs, i) == Min({j \in rs : Linked(g, rs, i, j)})

\* A component is known by its first row.
LEMMA FirstOfComponent ==
  ASSUME NEW n \in Nat, NEW g, Symmetric(g, 1 .. n), NEW i \in 1 .. n, NEW j \in 1 .. n
  PROVE  /\ FirstLinked(g, 1 .. n, i) \in 1 .. n
         /\ Linked(g, 1 .. n, i, FirstLinked(g, 1 .. n, i))
         /\ FirstLinked(g, 1 .. n, i) = FirstLinked(g, 1 .. n, j) <=> Linked(g, 1 .. n, i, j)
<1> DEFINE rs == 1 .. n
           class(a) == {b \in rs : Linked(g, rs, a, b)}
           first(a) == FirstLinked(g, rs, a)
<1>1. ASSUME NEW a \in rs
      PROVE  first(a) \in rs /\ Linked(g, rs, a, first(a))
  <2>1. class(a) \in SUBSET Nat /\ a \in class(a)
    BY LinkedIsEquivalence
  <2>2. Min(class(a)) \in class(a)
    <3> HIDE DEF class
    <3>1. QED
      BY <2>1, MinOfNaturals
  <2>3. QED
    BY <2>2 DEF FirstLinked
<1>2. ASSUME Linked(g, rs, i, j) PROVE class(i) = class(j)
  <2> SUFFICES ASSUME NEW c \in rs PROVE Linked(g, rs, i, c) <=> Linked(g, rs, j, c)
    OBVIOUS
  <2>1. Linked(g, rs, j, i)
    BY <1>2, LinkedIsEquivalence
  <2>2. QED
    BY <1>2, <2>1, LinkedIsEquivalence
<1>3. ASSUME first(i) = first(j) PROVE Linked(g, rs, i, j)
  <2>1. /\ first(i) \in rs
        /\ Linked(g, rs, i, first(i)) /\ Linked(g, rs, j, first(i))
    BY <1>1, <1>3
  <2> HIDE DEF first
  <2>2. Linked(g, rs, first(i), j)
    BY <2>1, LinkedIsEquivalence
  <2>3. QED
    BY <2>1, <2>2, LinkedIsEquivalence
<1>4. first(i) = Min(class(i)) /\ first(j) = Min(class(j))
  BY DEF FirstLinked
<1>5. QED
  <2> HIDE DEF class
  <2>1. QED
    BY <1>1, <1>2, <1>3, <1>4

\* Two rows have one component just when they are linked: the number of a
\* component counts the components with an earlier first row.
LEMMA ComponentsAreLinked ==
  ASSUME NEW n \in Nat, NEW g, Symmetric(g, 1 .. n), NEW i \in 1 .. n, NEW j \in 1 .. n
  PROVE  ComponentsOf(g, 1 .. n)[i] = ComponentsOf(g, 1 .. n)[j] <=> Linked(g, 1 .. n, i, j)
<1> DEFINE rs == 1 .. n
           first == [a \in rs |-> FirstLinked(g, rs, a)]
           firsts(a) == {first[b] : b \in {c \in rs : first[c] < first[a]}}
<1>1. ASSUME NEW a \in rs
      PROVE  first[a] \in rs
  BY FirstOfComponent
<1>2. ASSUME NEW a \in rs, NEW b \in rs
      PROVE  first[a] = first[b] <=> Linked(g, rs, a, b)
  BY FirstOfComponent
<1>3. \A a \in rs : ComponentsOf(g, rs)[a] = Cardinality(firsts(a))
  BY DEF ComponentsOf, FirstLinked
<1> HIDE DEF first
<1>4. ASSUME NEW a \in rs PROVE IsFiniteSet(firsts(a))
  <2>1. IsFiniteSet(1 .. n)
    BY FS_Interval
  <2>2. firsts(a) \subseteq 1 .. n
    BY <1>1
  <2>3. QED
    BY <2>1, <2>2, FS_Subset
<1>5. ASSUME NEW a \in rs, NEW b \in rs, first[a] < first[b]
      PROVE  Cardinality(firsts(a)) < Cardinality(firsts(b))
  <2>1. first[a] \in firsts(b) /\ first[a] \notin firsts(a)
    BY <1>1, <1>5
  <2>2. firsts(a) \subseteq firsts(b)
    BY <1>1, <1>5
  <2>3. IsFiniteSet(firsts(b)) /\ firsts(a) # firsts(b)
    BY <1>4, <2>1
  <2> HIDE DEF firsts
  <2>4. /\ Cardinality(firsts(a)) <= Cardinality(firsts(b))
        /\ Cardinality(firsts(a)) # Cardinality(firsts(b))
        /\ Cardinality(firsts(a)) \in Nat /\ Cardinality(firsts(b)) \in Nat
    BY <1>4, <2>2, <2>3, FS_Subset, FS_CardinalityType
  <2>5. QED
    BY <2>4
<1>6. Cardinality(firsts(i)) = Cardinality(firsts(j)) <=> first[i] = first[j]
  <2>1. ASSUME first[i] = first[j] PROVE firsts(i) = firsts(j)
    BY <2>1
  <2>2. first[i] \in Int /\ first[j] \in Int
    BY <1>1
  <2>3. Cardinality(firsts(i)) \in Nat /\ Cardinality(firsts(j)) \in Nat
    BY <1>4, FS_CardinalityType
  <2> HIDE DEF firsts
  <2>4. QED
    BY <1>5, <2>1, <2>2, <2>3
<1>7. QED
  <2> HIDE DEF firsts
  <2>1. QED
    BY <1>2, <1>3, <1>6

-----------------------------------------------------------------------------
(* The candidates *)

\* A similarity is one of the levels.
LEMMA SimilarityIsLevel ==
  ASSUME NEW rs, NEW f \in [Couples(rs) -> Levels], NEW i \in rs, NEW j \in rs
  PROVE  Similarity(f, i, j) \in 0 .. Same
<1>1. CASE i = j
  BY <1>1 DEF Similarity, Same
<1>2. CASE i # j
  <2>1. Cardinality({i, j}) = 2
    <3>1. IsFiniteSet({i}) /\ Cardinality({i}) = 1
      BY FS_Singleton
    <3>2. {i, j} = {i} \cup {j} /\ j \notin {i}
      BY <1>2
    <3>3. QED
      BY <3>1, <3>2, FS_AddElement
  <2>2. {i, j} \in Couples(rs)
    BY <2>1 DEF Couples
  <2>3. QED
    BY <1>2, <2>2, GroupingAssumption DEF Similarity
<1>3. QED
  BY <1>1, <1>2

\* The nearest row of i comes right after i itself, so that the cut of the first
\* column does not take it.
LEMMA NearestIsSecond ==
  ASSUME NEW n \in Nat, Rows = 1 .. n, sem \in [Couples(Rows) -> Levels],
         NEW k \in Nat \ {0}, NEW i \in Rows, NEW j \in Rows, Nearest(i, j),
         NEW s \in NearestLists(sem, Rows, i, k)
  PROVE  s[2] = j
<1> DEFINE sim(b) == Similarity(sem, i, b)
<1>1. /\ 1 \in 1 .. k + 1 /\ 2 \in 1 .. k + 1 /\ k + 1 \in 1 .. k + 1
      /\ \A p \in 1 .. k + 1 : s[p] \in Rows
      /\ \A p, q \in 1 .. k + 1 : p < q => s[p] # s[q] /\ sim(s[p]) >= sim(s[q])
      /\ \A b \in Rows : (\E p \in 1 .. k + 1 : s[p] = b) \/ sim(b) <= sim(s[k + 1])
  BY DEF NearestLists
<1>2. /\ i # j /\ sim(i) = Same
      /\ \A b \in Rows \ {i} : sim(b) < Same
      /\ \A b \in Rows \ {i, j} : sim(b) < sim(j)
      /\ \A b \in Rows : sim(b) \in 0 .. Same
  BY SimilarityIsLevel DEF Nearest, Similarity
<1>3. Same \in Nat
  BY DEF Same
<1> HIDE DEF sim
<1>4. s[1] = i
  <2> SUFFICES ASSUME s[1] # i PROVE FALSE
    OBVIOUS
  <2>1. sim(s[1]) < Same /\ sim(s[1]) \in Nat /\ sim(s[k + 1]) \in Nat
    BY <1>1, <1>2, <1>3
  <2>2. \A p \in 1 .. k + 1 : p # 1 => sim(s[1]) >= sim(s[p])
    BY <1>1
  <2>3. \A p \in 1 .. k + 1 : s[p] # i
    BY <1>2, <1>3, <2>1, <2>2
  <2>4. s[k + 1] \in Rows \ {i} /\ Same <= sim(s[k + 1])
    BY <1>1, <1>2, <2>3
  <2>5. sim(s[k + 1]) < Same
    BY <1>2, <2>4
  <2>6. QED
    BY <1>3, <2>1, <2>4, <2>5
<1>5. QED
  <2> SUFFICES ASSUME s[2] # j PROVE FALSE
    OBVIOUS
  <2>1. sim(s[2]) < sim(j) /\ sim(s[2]) \in Nat /\ sim(j) \in Nat /\ sim(s[k + 1]) \in Nat
    BY <1>1, <1>2, <1>3, <1>4
  <2>2. \A p \in 1 .. k + 1 : p # 1 => p = 2 \/ sim(s[2]) >= sim(s[p])
    BY <1>1
  <2>3. \A p \in 1 .. k + 1 : s[p] # j
    BY <1>2, <1>4, <2>1, <2>2
  <2>4. sim(j) <= sim(s[k + 1])
    BY <1>1, <2>3
  <2>5. k + 1 = 2 \/ sim(s[2]) >= sim(s[k + 1])
    BY <1>1, <2>2
  <2>6. sim(s[2]) >= sim(s[k + 1])
    BY <2>1, <2>5
  <2>7. QED
    BY <2>1, <2>4, <2>6

\* A multiple of k divided by k.
LEMMA WholeBlocks ==
  ASSUME NEW a \in Nat, NEW k \in Nat \ {0}
  PROVE  (a * k) \div k = a /\ (a * k) % k = 0
<1> DEFINE q == (a * k) \div k
           r == (a * k) % k
<1>1. a * k \in Nat
  OBVIOUS
<1>2. q \in Int /\ r \in 0 .. k - 1 /\ a * k = k * q + r
  BY <1>1
<1> HIDE DEF q, r
<1>3. (a - q) * k = r
  BY <1>2
<1>4. a - q < 1
  <2> SUFFICES ASSUME 1 <= a - q PROVE FALSE
    BY <1>2
  <2>1. 1 * k <= (a - q) * k
    BY <1>2, TimesMonotonic
  <2>2. QED
    BY <1>2, <1>3, <2>1
<1>5. a - q > -1
  <2> SUFFICES ASSUME a - q <= -1 PROVE FALSE
    BY <1>2
  <2>1. (a - q) * k <= (-1) * k
    BY <1>2, TimesMonotonic
  <2>2. QED
    BY <1>2, <1>3, <2>1
<1>6. a = q
  BY <1>2, <1>4, <1>5
<1>7. QED
  BY <1>2, <1>3, <1>6 DEF q, r

\* A list of k rows and one more for each of n rows.
Lists(near, n, k) ==
  /\ DOMAIN near = 1 .. n /\ Len(near) = n
  /\ \A i \in 1 .. n : near[i] \in [1 .. k + 1 -> 1 .. n]

\* Pairs of rows, among them each row with the second of its list.
PairsOfRows(edges, near, n) ==
  /\ \A p \in DOMAIN edges : edges[p] \in (1 .. n) \X (1 .. n)
  /\ \A i \in 1 .. n : \E p \in DOMAIN edges : edges[p] = <<i, near[i][2]>>

\* Each row has its neighbours, without the first, among the candidates, and
\* every candidate is a pair of rows.
LEMMA CandidatesOfRows ==
  ASSUME NEW n \in Nat, NEW k \in Nat \ {0}, NEW near, Lists(near, n, k)
  PROVE  PairsOfRows(Candidates(near, k), near, n)
<1> DEFINE row(p) == ((p - 1) \div k) + 1
           place(p) == ((p - 1) % k) + 2
<1>0. /\ DOMAIN near = 1 .. n /\ Len(near) = n
      /\ \A i \in 1 .. n : near[i] \in [1 .. k + 1 -> 1 .. n]
  BY DEF Lists
<1>1. Candidates(near, k) = [p \in 1 .. n * k |-> <<row(p), near[row(p)][place(p)]>>]
  BY <1>0 DEF Candidates
<1>2. n * k \in Nat
  OBVIOUS
<1>3. ASSUME NEW p \in 1 .. n * k PROVE row(p) \in 1 .. n /\ place(p) \in 1 .. k + 1
  <2> DEFINE q == (p - 1) \div k
             m == (p - 1) % k
  <2>0. p - 1 \in Nat /\ p - 1 < n * k
    BY <1>2
  <2>1. q \in Nat /\ m \in 0 .. k - 1 /\ p - 1 = q * k + m
    <3>1. q \in Int /\ m \in 0 .. k - 1 /\ p - 1 = k * q + m
      BY <2>0
    <3>2. k * q <= p - 1 /\ p - 1 < k * q + k
      BY <2>0
    <3> HIDE DEF q, m
    <3>3. q > -1
      <4> SUFFICES ASSUME q <= -1 PROVE FALSE
        BY <3>1
      <4>1. q * k <= (-1) * k /\ (-1) * k = -k
        BY <3>1, TimesMonotonic
      <4> DEFINE b == q * k
                 c == (-1) * k
      <4>2. p - 1 = b + m /\ b <= c /\ c = -k /\ b \in Int
        BY <3>1, <4>1
      <4> HIDE DEF b, c
      <4>3. QED
        BY <2>0, <3>1, <4>2
    <3>4. QED
      BY <3>1, <3>3
  <2>2. row(p) = q + 1 /\ place(p) = m + 2
    OBVIOUS
  <2> HIDE DEF q, m, row, place
  <2>3. q < n
    <3> SUFFICES ASSUME n <= q PROVE FALSE
      BY <2>1
    <3>1. n * k <= q * k
      BY <2>1, TimesMonotonic
    <3> DEFINE b == q * k
               d == n * k
    <3>2. p - 1 = b + m /\ d <= b /\ p - 1 < d /\ b \in Int /\ d \in Int
      BY <2>0, <2>1, <3>1
    <3> HIDE DEF b, d
    <3>3. QED
      BY <2>1, <3>2
  <2>4. QED
    BY <2>1, <2>2, <2>3
<1>4. ASSUME NEW i \in 1 .. n
      PROVE  \E p \in 1 .. n * k : row(p) = i /\ place(p) = 2
  <2> DEFINE p == (i - 1) * k + 1
  <2>1. i - 1 \in Nat
    OBVIOUS
  <2>2. ((i - 1) * k) \div k = i - 1 /\ ((i - 1) * k) % k = 0
    BY <2>1, WholeBlocks
  <2>3. (i - 1) * k \in Nat /\ p - 1 = (i - 1) * k
    BY <2>1
  <2>4. row(p) = i /\ place(p) = 2
    BY <2>2, <2>3
  <2>5. p <= n * k
    <3>1. i * k <= n * k
      BY TimesMonotonic
    <3>2. i * k = (i - 1) * k + k
      OBVIOUS
    <3> DEFINE b == (i - 1) * k
               c == i * k
               d == n * k
    <3>3. b \in Nat /\ c \in Int /\ d \in Nat /\ c <= d /\ c = b + k
      BY <1>2, <2>3, <3>1, <3>2
    <3>4. p = b + 1
      OBVIOUS
    <3> HIDE DEF p, b, c
    <3>5. p <= d
      BY <3>3, <3>4
    <3>6. QED
      BY <3>5
  <2> HIDE DEF row, place
  <2>6. p \in 1 .. n * k
    BY <1>2, <2>3, <2>5
  <2>7. QED
    BY <2>4, <2>6
<1> DEFINE pair(p) == <<row(p), near[row(p)][place(p)]>>
<1>5. \A p \in 1 .. n * k : Candidates(near, k)[p] = pair(p)
  BY <1>1
<1> HIDE DEF row, place
<1>6. ASSUME NEW p \in 1 .. n * k PROVE pair(p) \in (1 .. n) \X (1 .. n)
  <2>1. near[row(p)] \in [1 .. k + 1 -> 1 .. n] /\ place(p) \in 1 .. k + 1 /\ row(p) \in 1 .. n
    BY <1>0, <1>3
  <2>2. QED
    BY <2>1
<1>7. ASSUME NEW i \in 1 .. n PROVE \E p \in 1 .. n * k : pair(p) = <<i, near[i][2]>>
  BY <1>4
<1>8. DOMAIN Candidates(near, k) = 1 .. n * k
  BY <1>1
<1> DEFINE places == 1 .. n * k
           rs == 1 .. n
           edges == Candidates(near, k)
<1>9. /\ DOMAIN edges = places
      /\ \A p \in places : edges[p] = pair(p) /\ pair(p) \in rs \X rs
      /\ \A i \in rs : \E p \in places : pair(p) = <<i, near[i][2]>>
  BY <1>5, <1>6, <1>7, <1>8
<1> HIDE DEF pair, places, edges
<1>10. ASSUME NEW p \in DOMAIN edges PROVE edges[p] \in rs \X rs
  BY <1>9
<1>11. ASSUME NEW i \in rs PROVE \E p \in DOMAIN edges : edges[p] = <<i, near[i][2]>>
  <2>1. PICK p \in places : pair(p) = <<i, near[i][2]>>
    BY <1>9
  <2>2. p \in DOMAIN edges /\ edges[p] = <<i, near[i][2]>>
    BY <1>9, <2>1
  <2>3. QED
    BY <2>2
<1>12. QED
  BY <1>10, <1>11 DEF edges, PairsOfRows

-----------------------------------------------------------------------------
(* From the candidates to the components *)

GraphStages == {"neighbors", "scoring", "threshold", "components"}

PairsRight ==
  /\ \A p \in DOMAIN pairs : pairs[p] \in Rows \X Rows
  /\ \A i, j \in Rows : Nearest(i, j) => \E p \in DOMAIN pairs : pairs[p] = <<i, j>>

GraphRight ==
  /\ Symmetric(graph, Rows)
  /\ \A e \in graph : e[1] = e[2] \/ Near(e[1], e[2])
  /\ \A i, j \in Rows : Nearest(i, j) /\ Near(i, j) => <<i, j>> \in graph

\* Every row has its nearest other row among the candidates, every edge of the
\* graph is a similar pair, both ways, and the prepared table does not change.
GraphInv ==
  /\ at # "idle" => stage = "prepared"
  /\ at = "neighbors" => sem \in [Couples(Rows) -> Levels]
  /\ at \in {"scoring", "threshold"} => PairsRight
  /\ at = "components" => GraphRight

\* The row is never paired with itself only, and no neighbour is lost when the
\* lists are cut.
LEMMA NeighborsRight ==
  ASSUME IInv, GraphInv, Neighbors
  PROVE  (at' = "scoring" => PairsRight') /\ (at' = "components" => GraphRight')
<1>1. /\ at = "neighbors" /\ sem \in [Couples(Rows) -> Levels]
      /\ UNCHANGED <<rows, sem, lex>> /\ Rows' = Rows
  BY DEF Neighbors, GraphInv, Rows
<1>2. PICK n \in Nat \ {0} : Rows = 1 .. n
  BY <1>1 DEF IInv, IsTable, Rows
<1>3. Len(rows) = n
  BY <1>2 DEF Rows
<1>4. CASE n = 1
  <2>1. graph' = {<<1, 1>>} /\ at' = "components" /\ Rows = {1}
    BY <1>2, <1>3, <1>4 DEF Neighbors
  <2>2. GraphRight'
    BY <1>1, <2>1 DEF GraphRight, Symmetric, Nearest
  <2>3. QED
    BY <2>1, <2>2
<1>5. CASE n # 1
  <2> DEFINE k == NeighborsOf(n)
             lists == [i \in Rows |-> NearestLists(sem, Rows, i, k)]
  <2>1. k \in Nat \ {0}
    BY NeighborsOfNatural
  <2>2. PICK near \in [Rows -> UNION {lists[i] : i \in Rows}] :
          /\ \A i \in Rows : near[i] \in lists[i]
          /\ pairs' = Candidates(near, k)
    BY <1>3, <1>5 DEF Neighbors
  <2>3. at' = "scoring"
    BY <1>3, <1>5 DEF Neighbors
  <2>4. \A i \in Rows : near[i] \in NearestLists(sem, Rows, i, k)
    BY <2>2
  <2> HIDE DEF k, lists
  <2>5. DOMAIN near = 1 .. n /\ Len(near) = n
    BY <1>2, <2>2
  <2>6. \A i \in 1 .. n : near[i] \in [1 .. k + 1 -> 1 .. n]
    BY <1>2, <2>4 DEF NearestLists
  <2>7. /\ \A p \in DOMAIN pairs' : pairs'[p] \in Rows \X Rows
        /\ \A i \in Rows : \E p \in DOMAIN pairs' : pairs'[p] = <<i, near[i][2]>>
    <3>1. n \in Nat /\ Lists(near, n, k)
      BY <1>2, <2>5, <2>6 DEF Lists
    <3>2. PairsOfRows(pairs', near, n)
      BY <2>1, <2>2, <3>1, CandidatesOfRows
    <3>3. QED
      BY <1>2, <3>2 DEF PairsOfRows
  <2>8. ASSUME NEW i \in Rows, NEW j \in Rows, Nearest(i, j)
        PROVE  near[i][2] = j
    BY <1>1, <1>2, <2>1, <2>4, <2>8, NearestIsSecond
  <2>9. \A i, j \in Rows : Nearest(i, j)' => Nearest(i, j)
    BY <1>1 DEF Nearest
  <2>10. PairsRight'
    BY <1>1, <2>7, <2>8, <2>9 DEF PairsRight
  <2>11. QED
    BY <2>3, <2>10
<1>6. QED
  BY <1>4, <1>5

\* Similar candidates become edges, in both directions, and nothing else does.
LEMMA BuildGraphRight ==
  ASSUME ScoresInv, GraphInv, BuildGraph
  PROVE  GraphRight'
<1> DEFINE score(p) == Similarity(lex, pairs[p][1], pairs[p][2])
           kept == {p \in DOMAIN pairs : Near(pairs[p][1], pairs[p][2])}
<1>1. /\ at = "threshold" /\ UNCHANGED <<rows, sem, lex>> /\ Rows' = Rows
      /\ graph' = GraphOf(Rows, pairs, sem, lexSims)
      /\ PairsRight
  BY DEF BuildGraph, GraphInv, Rows
<1>2. \A p \in DOMAIN pairs : lexSims[p] = score(p)
  BY <1>1 DEF ScoresInv, ScoresComplete, ScoredUpTo
<1>3. graph' = {pairs[p] : p \in kept} \cup {<<pairs[p][2], pairs[p][1]>> : p \in kept}
                 \cup {<<i, i>> : i \in Rows}
  <2>1. kept = {p \in DOMAIN pairs :
                  Hybrid(Similarity(sem, pairs[p][1], pairs[p][2]), lexSims[p]) >= Threshold}
    BY <1>2 DEF Near
  <2> HIDE DEF kept
  <2>2. QED
    BY <1>1, <2>1 DEF GraphOf
<1>4. \A i, j \in Rows : Near(i, j) <=> Near(j, i)
  <2>1. \A f, i, j : Similarity(f, i, j) = Similarity(f, j, i)
    <3>1. \A i, j : {i, j} = {j, i}
      OBVIOUS
    <3>2. QED
      BY <3>1 DEF Similarity
  <2>2. QED
    BY <2>1 DEF Near
<1>5. \A p \in DOMAIN pairs : /\ pairs[p][1] \in Rows /\ pairs[p][2] \in Rows
                              /\ pairs[p] = <<pairs[p][1], pairs[p][2]>>
  BY <1>1 DEF PairsRight
<1>6. \A e \in graph' :
        \/ \E i \in Rows : e = <<i, i>>
        \/ \E p \in kept : e = <<pairs[p][1], pairs[p][2]>> \/ e = <<pairs[p][2], pairs[p][1]>>
  BY <1>3, <1>5
<1>7. /\ \A i \in Rows : <<i, i>> \in graph'
      /\ \A p \in kept : <<pairs[p][1], pairs[p][2]>> \in graph'
                         /\ <<pairs[p][2], pairs[p][1]>> \in graph'
  BY <1>3, <1>5
<1>8. Symmetric(graph', Rows)
  <2> SUFFICES ASSUME NEW e \in graph' PROVE e \in Rows \X Rows /\ <<e[2], e[1]>> \in graph'
    BY DEF Symmetric
  <2>1. CASE \E i \in Rows : e = <<i, i>>
    BY <1>7, <2>1
  <2>2. ASSUME NEW p \in kept,
               e = <<pairs[p][1], pairs[p][2]>> \/ e = <<pairs[p][2], pairs[p][1]>>
        PROVE  e \in Rows \X Rows /\ <<e[2], e[1]>> \in graph'
    BY <1>5, <1>7, <2>2
  <2>3. QED
    BY <1>6, <2>1, <2>2
<1>9. \A e \in graph' : e[1] = e[2] \/ Near(e[1], e[2])
  <2> SUFFICES ASSUME NEW e \in graph' PROVE e[1] = e[2] \/ Near(e[1], e[2])
    OBVIOUS
  <2>1. ASSUME NEW p \in kept,
               e = <<pairs[p][1], pairs[p][2]>> \/ e = <<pairs[p][2], pairs[p][1]>>
        PROVE  Near(e[1], e[2])
    BY <1>4, <1>5, <2>1
  <2>2. QED
    BY <1>6, <2>1
<1>10. ASSUME NEW i \in Rows, NEW j \in Rows, Nearest(i, j), Near(i, j)
       PROVE  <<i, j>> \in graph'
  <2>1. PICK p \in DOMAIN pairs : pairs[p] = <<i, j>>
    BY <1>1, <1>10 DEF PairsRight
  <2>2. p \in kept
    BY <1>10, <2>1
  <2>3. QED
    BY <1>3, <2>1, <2>2
<1>11. \A i, j \in Rows : (Nearest(i, j)' <=> Nearest(i, j)) /\ (Near(i, j)' <=> Near(i, j))
  BY <1>1 DEF Nearest, Near
<1> HIDE DEF kept
<1>12. \A e \in graph' : e[1] \in Rows /\ e[2] \in Rows
  BY <1>8 DEF Symmetric
<1>13. QED
  BY <1>1, <1>8, <1>9, <1>10, <1>11, <1>12 DEF GraphRight, Symmetric

LEMMA NextGraphInv ==
  ASSUME PInv, GraphInv, [PipelineNext]_pipelineVars
  PROVE  GraphInv'
<1>1. CASE IngestNext /\ UNCHANGED groupingVars
  <2>1. stage # "prepared"
    BY <1>1 DEF IngestNext, CheckDeclared, ReadChunk, ReadTable, Resolve, MaskKeywords,
       AssignRole, Deduplicate
  <2>2. at = "idle" /\ at' = "idle"
    BY <1>1, <2>1 DEF GraphInv, groupingVars
  <2>3. QED
    BY <2>2 DEF GraphInv
<1>2. CASE HandOver
  <2>1. stage' = "prepared" /\ at' = "vectors"
    BY <1>2 DEF HandOver, ingestVars, Run
  <2>2. QED
    BY <2>1 DEF GraphInv
<1>3. CASE GroupingNext /\ UNCHANGED ingestVars
  <2>1. IInv /\ ScoresInv /\ stage' = stage
    BY <1>3 DEF PInv, ingestVars
  <2>2. CASE Vectorize
    <3>1. /\ at = "vectors" /\ at' \in {"neighbors", "NO_KEYWORDS"} /\ Rows' = Rows
          /\ at' = "neighbors" => sem' \in [Couples(Rows) -> Levels]
      BY <2>2 DEF Vectorize, Rows
    <3>2. QED
      BY <2>1, <3>1 DEF GraphInv
  <2>3. CASE Neighbors
    <3>1. at = "neighbors" /\ at' \in {"components", "scoring"}
      BY <2>3 DEF Neighbors
    <3>2. QED
      BY <2>1, <2>3, <3>1, NeighborsRight DEF GraphInv
  <2>4. CASE ScoreBlock
    <3>1. /\ at = "scoring" /\ at' \in {"scoring", "threshold"}
          /\ UNCHANGED <<rows, sem, pairs>>
      BY <2>4 DEF ScoreBlock
    <3>2. PairsRight'
      BY <3>1 DEF GraphInv, PairsRight, Rows, Nearest
    <3>3. QED
      BY <2>1, <3>1, <3>2 DEF GraphInv
  <2>5. CASE BuildGraph
    <3>1. at = "threshold" /\ at' = "components"
      BY <2>5 DEF BuildGraph
    <3>2. QED
      BY <2>1, <2>5, <3>1, BuildGraphRight DEF GraphInv
  <2>6. ASSUME Components \/ SplitOff \/ EndSplit \/ Describe
        PROVE  at # "idle" /\ at' \in {"splitting", "describing", "done", "INTERNAL_ERROR"}
    BY <2>6, Zenon DEF Components, SplitOff, EndSplit, Describe
  <2>7. CASE Components \/ SplitOff \/ EndSplit \/ Describe
    BY <2>1, <2>6, <2>7 DEF GraphInv
  <2>8. QED
    BY <1>3, <2>2, <2>3, <2>4, <2>5, <2>7 DEF GroupingNext
<1>4. CASE UNCHANGED pipelineVars
  BY <1>4 DEF pipelineVars, groupingVars, ingestVars, GraphInv, PairsRight, GraphRight,
     Symmetric, Rows, Nearest, Near
<1>5. QED
  BY <1>1, <1>2, <1>3, <1>4 DEF PipelineNext

\* The components are what the similar pairs make them: every row is with its
\* nearest row if that is similar enough, for any number of rows, neighbours and
\* pairs per block, and no two rows are together without a path of similar pairs.
THEOREM ComponentsAreOfPairs ==
  PipelineSpec => NearestJoined
<1> DEFINE similar == {e \in Rows \X Rows : Near(e[1], e[2])}
           Joined ==
             at = "components" =>
               \A i, j \in Rows :
                 /\ Nearest(i, j) /\ Near(i, j) => snapshot'[i] = snapshot'[j]
                 /\ snapshot'[i] = snapshot'[j] => Linked(similar, Rows, i, j)
<1>1. PipelineInit => GraphInv
  BY DEF PipelineInit, GroupingInit, GraphInv
<1>2. PInv /\ GraphInv /\ [PipelineNext]_pipelineVars => [Joined]_pipelineVars
  <2> SUFFICES ASSUME PInv, GraphInv, PipelineNext, at = "components",
                      NEW i \in Rows, NEW j \in Rows
               PROVE  /\ Nearest(i, j) /\ Near(i, j) => snapshot'[i] = snapshot'[j]
                      /\ snapshot'[i] = snapshot'[j] => Linked(similar, Rows, i, j)
    OBVIOUS
  <2>1. snapshot' = ComponentsOf(graph, Rows)
    <3>1. ~ IngestNext
      BY DEF GraphInv, IngestNext, CheckDeclared, ReadChunk, ReadTable, Resolve, MaskKeywords,
         AssignRole, Deduplicate
    <3>2. ~ HandOver
      BY DEF HandOver, Run
    <3>3. Components
      BY <3>1, <3>2, Zenon DEF PipelineNext, GroupingNext, Vectorize, Neighbors, ScoreBlock, BuildGraph,
         SplitOff, EndSplit, Describe
    <3>4. QED
      BY <3>3 DEF Components
  <2>2. PICK n \in Nat : Rows = 1 .. n
    BY DEF PInv, IInv, IsTable, Rows
  <2>3. GraphRight
    BY DEF GraphInv
  <2>4. snapshot'[i] = snapshot'[j] <=> Linked(graph, Rows, i, j)
    BY <2>1, <2>2, <2>3, ComponentsAreLinked DEF GraphRight
  <2>5. ASSUME Nearest(i, j), Near(i, j) PROVE Linked(graph, Rows, i, j)
    <3>1. <<i, j>> \in graph
      BY <2>3, <2>5 DEF GraphRight
    <3>2. QED
      BY <3>1 DEF Linked
  <2>6. ASSUME Linked(graph, Rows, i, j) PROVE Linked(similar, Rows, i, j)
    <3> SUFFICES ASSUME NEW S \in SUBSET Rows, i \in S,
                        \A e \in similar : e[1] \in S => e[2] \in S
                 PROVE  j \in S
      BY DEF Linked
    <3>1. \A e \in graph : e[1] \in S => e[2] \in S
      <4>1. \A e \in graph : e \in similar \/ e[1] = e[2]
        BY <2>3 DEF GraphRight, Symmetric
      <4> HIDE DEF similar
      <4>2. QED
        BY <4>1
    <3>2. QED
      BY <2>6, <3>1 DEF Linked
  <2>7. QED
    BY <2>4, <2>5, <2>6
<1>3. QED
  BY <1>1, <1>2, InitPInv, NextPInv, NextGraphInv, PTL DEF PipelineSpec, NearestJoined

-----------------------------------------------------------------------------
(* How many labels there are *)

LabelsOf(snap, rs) == {snap[i] : i \in rs}

\* The numbers of components have no gaps: a component has as many before it as
\* its number says.
LEMMA ComponentsHaveNoGaps ==
  ASSUME NEW n \in Nat, NEW g, Symmetric(g, 1 .. n), NEW i \in 1 .. n
  PROVE  LET snap == ComponentsOf(g, 1 .. n)
         IN  /\ IsFiniteSet(LabelsOf(snap, 1 .. n))
             /\ snap[i] + 1 <= Cardinality(LabelsOf(snap, 1 .. n))
<1> DEFINE rs == 1 .. n
           snap == ComponentsOf(g, rs)
           first == [a \in rs |-> FirstLinked(g, rs, a)]
           earlier == {first[b] : b \in {c \in rs : first[c] < first[i]}}
           others == LabelsOf(snap, rs) \ {snap[i]}
           label == [f \in earlier |-> snap[f]]
<1>1. ASSUME NEW a \in rs
      PROVE  first[a] \in rs /\ snap[first[a]] = snap[a]
  <2>1. FirstLinked(g, rs, a) \in rs /\ Linked(g, rs, a, FirstLinked(g, rs, a))
    BY FirstOfComponent
  <2>2. snap[FirstLinked(g, rs, a)] = snap[a]
    BY <2>1, ComponentsAreLinked
  <2>3. QED
    BY <2>1, <2>2
<1>2. ASSUME NEW a \in rs, NEW b \in rs, snap[a] = snap[b]
      PROVE  first[a] = first[b]
  BY <1>2, FirstOfComponent, ComponentsAreLinked
<1>3. snap[i] = Cardinality(earlier)
  BY DEF ComponentsOf, FirstLinked
<1>4. IsFiniteSet(LabelsOf(snap, rs))
  <2> DEFINE f == [a \in rs |-> snap[a]]
  <2>1. IsFiniteSet(rs)
    BY FS_Interval
  <2>2. f \in Surjection(rs, LabelsOf(snap, rs))
    BY DEF Surjection, LabelsOf
  <2>3. QED
    BY <2>1, <2>2, FS_Surjection
<1> HIDE DEF first, snap
<1>5. ASSUME NEW f \in earlier
      PROVE  f \in rs /\ first[f] = f /\ f # first[i] /\ snap[f] \in others
  <2>1. PICK b \in rs : f = first[b] /\ first[b] < first[i]
    OBVIOUS
  <2>2. f \in rs /\ snap[f] = snap[b] /\ first[i] \in rs
    BY <1>1, <2>1
  <2>3. first[f] = f
    BY <1>2, <2>1, <2>2
  <2>4. f # first[i]
    BY <2>1, <2>2
  <2>5. snap[f] # snap[i]
    BY <1>2, <2>2, <2>3, <2>4
  <2>6. QED
    BY <2>2, <2>3, <2>4, <2>5 DEF LabelsOf
<1>6. label \in Injection(earlier, others)
  <2>1. label \in [earlier -> others]
    BY <1>5
  <2>2. ASSUME NEW f \in earlier, NEW e \in earlier, label[f] = label[e] PROVE f = e
    BY <1>2, <1>5, <2>2
  <2> HIDE DEF label, earlier, others
  <2>3. QED
    BY <2>1, <2>2 DEF Injection, IsInjective
<1>7. /\ IsFiniteSet(others)
      /\ Cardinality(others) = Cardinality(LabelsOf(snap, rs)) - 1
  <2>1. snap[i] \in LabelsOf(snap, rs)
    BY DEF LabelsOf
  <2>2. QED
    BY <1>4, <2>1, FS_RemoveElement
<1>8. Cardinality(earlier) <= Cardinality(others) /\ IsFiniteSet(earlier)
  <2> HIDE DEF label, earlier, others
  <2>1. QED
    BY <1>6, <1>7, FS_Injection
<1>9. Cardinality(earlier) \in Nat /\ Cardinality(LabelsOf(snap, rs)) \in Nat
  BY <1>4, <1>8, FS_CardinalityType
<1>10. QED
  <2> HIDE DEF earlier, others
  <2>1. snap[i] + 1 <= Cardinality(LabelsOf(snap, rs))
    BY <1>3, <1>7, <1>8, <1>9
  <2>2. QED
    BY <1>4, <2>1 DEF snap

\* Every label has a group that keeps it, and there are no more groups than rows;
\* so the groups that need a label and the labels that are kept are not too many.
LEMMA EnoughLabels ==
  ASSUME NEW table, NEW n \in Nat \ {0}, DOMAIN table = 1 .. n, NEW snap
  PROVE  LET waiting == {g \in GroupsOf(table, snap) : ~ KeepsLabel(table, snap, g)}
         IN  /\ IsFiniteSet(waiting) /\ Cardinality(waiting) \in Nat
             /\ Cardinality(LabelsOf(snap, 1 .. n)) + Cardinality(waiting) <= n
<1> DEFINE rs == 1 .. n
           G(i) == GroupOf(table, snap, i)
           groups == GroupsOf(table, snap)
           waiting == {g \in groups : ~ KeepsLabel(table, snap, g)}
           keepers == {g \in groups : KeepsLabel(table, snap, g)}
           labelled == LabelsOf(snap, rs)
           first(c) == FirstOfLabel(table, snap, c)
           keeper == [c \in labelled |-> G(first(c))]
<1>1. ASSUME NEW c \in labelled
      PROVE  /\ first(c) \in rs /\ snap[first(c)] = c
             /\ \A i \in rs : snap[i] = c => first(c) <= i
  <2> DEFINE S == {i \in rs : snap[i] = c}
  <2>1. S \in SUBSET Nat /\ S # {}
    BY DEF LabelsOf
  <2>2. Min(S) \in S /\ \A i \in S : Min(S) <= i
    <3> HIDE DEF S
    <3>1. QED
      BY <2>1, MinOfNaturals
  <2>3. first(c) = Min(S)
    BY DEF FirstOfLabel
  <2> HIDE DEF first
  <2>4. QED
    BY <2>2, <2>3
<1>2. ASSUME NEW c \in labelled PROVE keeper[c] \in keepers /\ keeper[c][1] = c
  <2> DEFINE a == first(c)
             S == {i \in rs : G(i) = G(a)}
  <2>1. a \in rs /\ snap[a] = c /\ \A i \in rs : snap[i] = c => a <= i
    BY <1>1
  <2> HIDE DEF a
  <2>2. G(a)[1] = c /\ \A i \in rs : G(i) = G(a) => snap[i] = c
    BY <2>1 DEF GroupOf
  <2>3. S \in SUBSET Nat /\ a \in S /\ \A i \in S : a <= i
    BY <2>1, <2>2
  <2>4. Min(S) = a
    <3> HIDE DEF S
    <3>1. Min(S) \in S /\ Min(S) <= a /\ a <= Min(S)
      BY <2>3, MinOfNaturals
    <3>2. a \in Nat /\ Min(S) \in Nat
      BY <2>3, <3>1
    <3>3. QED
      BY <3>1, <3>2
  <2>5. FirstRow(table, snap, G(a)) = Min(S)
    BY DEF FirstRow
  <2>6. KeepsLabel(table, snap, G(a))
    BY <2>2, <2>4, <2>5 DEF KeepsLabel, a
  <2>7. G(a) \in groups
    BY <2>1 DEF GroupsOf
  <2>8. keeper[c] = G(a)
    BY DEF a
  <2> HIDE DEF G, groups, keeper
  <2>9. QED
    BY <2>2, <2>6, <2>7, <2>8
<1>3. IsFiniteSet(groups) /\ Cardinality(groups) <= n /\ Cardinality(groups) \in Nat
  <2> DEFINE f == [i \in rs |-> G(i)]
  <2>1. IsFiniteSet(rs) /\ Cardinality(rs) = n
    BY FS_Interval
  <2>2. f \in Surjection(rs, groups)
    BY DEF Surjection, GroupsOf
  <2> HIDE DEF groups, f
  <2>3. IsFiniteSet(groups) /\ Cardinality(groups) <= Cardinality(rs)
    BY <2>1, <2>2, FS_Surjection
  <2>4. QED
    BY <2>1, <2>3, FS_CardinalityType
<1>4. keeper \in Injection(labelled, keepers)
  <2>1. keeper \in [labelled -> keepers]
    BY <1>2
  <2> HIDE DEF keeper, labelled, keepers
  <2>2. QED
    BY <1>2, <2>1 DEF Injection, IsInjective
<1> HIDE DEF groups
<1>5. IsFiniteSet(keepers) /\ keepers \in SUBSET groups
  BY <1>3, FS_Subset
<1>6. waiting = groups \ keepers /\ groups \cap keepers = keepers
  OBVIOUS
<1> HIDE DEF keepers, waiting, keeper, labelled
<1>7. /\ IsFiniteSet(waiting)
      /\ Cardinality(waiting) = Cardinality(groups) - Cardinality(keepers)
  <2>1. /\ IsFiniteSet(groups \ keepers)
        /\ Cardinality(groups \ keepers) = Cardinality(groups) - Cardinality(groups \cap keepers)
    BY <1>3, FS_Difference
  <2>2. QED
    BY <1>6, <2>1
<1>8. IsFiniteSet(labelled) /\ Cardinality(labelled) <= Cardinality(keepers)
  BY <1>4, <1>5, FS_Injection
<1>9. /\ Cardinality(waiting) \in Nat /\ Cardinality(keepers) \in Nat
      /\ Cardinality(labelled) \in Nat
  BY <1>5, <1>7, <1>8, FS_CardinalityType
<1>10. Cardinality(labelled) + Cardinality(waiting) <= n
  BY <1>3, <1>7, <1>8, <1>9
<1>11. QED
  BY <1>7, <1>9, <1>10 DEF waiting, labelled, groups

\* There are never more labels, taken or still to be taken, than rows.
LabelCount ==
  /\ IsFiniteSet(pending)
  /\ nextLabel \in Nat
  /\ nextLabel + Cardinality(pending) <= Len(rows)

LEMMA ComponentsCount ==
  ASSUME IInv, GraphInv, Components
  PROVE  LabelCount'
<1>1. PICK n \in Nat \ {0} : Rows = 1 .. n /\ Len(rows) = n
  BY DEF IInv, Components, IsTable, Rows
<1>2. /\ Symmetric(graph, 1 .. n) /\ snapshot' = ComponentsOf(graph, 1 .. n)
      /\ rows' = rows /\ DOMAIN rows = 1 .. n
      /\ nextLabel' = Max({snapshot'[i] : i \in 1 .. n}) + 1
      /\ pending' = {g \in GroupsOf(rows, snapshot') : ~ KeepsLabel(rows, snapshot', g)}
  BY <1>1 DEF GraphInv, GraphRight, Components, Rows
<1> DEFINE L == LabelsOf(snapshot', 1 .. n)
<1>3. /\ L \in SUBSET Nat /\ L # {} /\ \A c \in L : c <= n
  <2>1. \A i \in 1 .. n : snapshot'[i] \in 0 .. n
    BY <1>2, ComponentNumbers
  <2>2. 1 \in 1 .. n
    BY <1>1
  <2>3. QED
    BY <2>1, <2>2 DEF LabelsOf
<1>4. PICK i \in 1 .. n : Max(L) = snapshot'[i]
  <2>1. Max(L) \in L
    <3> HIDE DEF L
    <3>1. QED
      BY <1>3, MaxOfNaturals
  <2>2. QED
    BY <2>1 DEF LabelsOf
<1>5. Max(L) + 1 <= Cardinality(L) /\ IsFiniteSet(L)
  BY <1>2, <1>4, ComponentsHaveNoGaps
<1>6. /\ IsFiniteSet(pending') /\ Cardinality(pending') \in Nat
      /\ Cardinality(L) + Cardinality(pending') <= n
  BY <1>2, EnoughLabels
<1>7. nextLabel' = Max(L) + 1
  BY <1>2 DEF LabelsOf
<1>8. Max(L) \in Nat
  <2> HIDE DEF L
  <2>1. QED
    BY <1>3, MaxOfNaturals
<1>9. Cardinality(L) \in Nat
  BY <1>5, FS_CardinalityType
<1> HIDE DEF L
<1>10. nextLabel' \in Nat /\ nextLabel' + Cardinality(pending') <= n
  BY <1>5, <1>6, <1>7, <1>8, <1>9
<1>11. QED
  BY <1>1, <1>2, <1>6, <1>10 DEF LabelCount

LEMMA SplitOffCount ==
  ASSUME LabelCount, SplitOff
  PROVE  LabelCount'
<1>1. PICK g \in pending : pending' = pending \ {g}
  BY DEF SplitOff
<1>2. nextLabel' = nextLabel + 1 /\ rows' = rows
  BY DEF SplitOff
<1>3. /\ IsFiniteSet(pending') /\ Cardinality(pending') = Cardinality(pending) - 1
  BY <1>1, FS_RemoveElement DEF LabelCount
<1>4. Cardinality(pending) \in Nat
  BY FS_CardinalityType DEF LabelCount
<1>5. PICK m : Cardinality(pending) = m
  OBVIOUS
<1>6. nextLabel + m <= Len(rows) /\ nextLabel \in Nat /\ m \in Nat
  BY <1>4, <1>5 DEF LabelCount
<1>7. (nextLabel + 1) + (m - 1) <= Len(rows)
  <2>1. (nextLabel + 1) + (m - 1) = nextLabel + m
    BY <1>6
  <2>2. QED
    BY <1>6, <2>1
<1>8. QED
  BY <1>2, <1>3, <1>5, <1>6, <1>7 DEF LabelCount

-----------------------------------------------------------------------------
(* The types of the grouping *)

GroupingStages ==
  {"idle", "vectors", "neighbors", "scoring", "threshold", "components", "splitting",
   "describing", "done", "NO_KEYWORDS", "INTERNAL_ERROR"}

\* The part of TypeOK that the grouping has to keep.
GroupShape ==
  /\ at \in GroupingStages
  /\ rows = IF at = "idle" THEN <<>> ELSE prepared
  /\ DOMAIN labels \in {{}, Rows} /\ DOMAIN snapshot = DOMAIN labels
  /\ at \in {"splitting", "describing", "done"} => lex = <<>> /\ lexSims = <<>>
  /\ LabelCount

LEMMA InitGroupShape ==
  PipelineInit => GroupShape
<1> SUFFICES ASSUME PipelineInit PROVE GroupShape
  OBVIOUS
<1>1. /\ at = "idle" /\ rows = <<>> /\ labels = <<>> /\ snapshot = <<>>
      /\ nextLabel = 0 /\ pending = {}
  BY DEF PipelineInit, GroupingInit, Empty
<1>2. LabelCount
  <2>1. IsFiniteSet({}) /\ Cardinality({}) = 0 /\ Len(<<>>) = 0
    BY FS_EmptySet
  <2>2. QED
    BY <1>1, <2>1 DEF LabelCount
<1>3. QED
  BY <1>1, <1>2 DEF GroupShape, GroupingStages, Rows

LEMMA NextGroupShape ==
  ASSUME PInv, GraphInv, GroupShape, [PipelineNext]_pipelineVars
  PROVE  GroupShape'
<1>1. CASE IngestNext /\ UNCHANGED groupingVars
  <2>1. stage # "prepared"
    BY <1>1 DEF IngestNext, CheckDeclared, ReadChunk, ReadTable, Resolve, MaskKeywords,
       AssignRole, Deduplicate
  <2>2. at = "idle" /\ UNCHANGED groupingVars
    BY <1>1, <2>1 DEF GraphInv
  <2>3. QED
    BY <2>2 DEF GroupShape, groupingVars, LabelCount, Rows
<1>2. CASE HandOver
  <2>1. /\ at = "idle" /\ at' = "vectors" /\ rows' = prepared /\ prepared' = prepared
        /\ UNCHANGED <<labels, snapshot, nextLabel, pending>> /\ stage = "prepared"
    BY <1>2 DEF HandOver, Run, ingestVars
  <2>2. rows = <<>> /\ DOMAIN labels = {} /\ DOMAIN snapshot = {}
    BY <2>1 DEF GroupShape, Rows
  <2>3. LabelCount'
    <3>1. PICK n \in Nat \ {0} : DOMAIN prepared = 1 .. n
      BY <2>1 DEF PInv, TableInv, IsTable
    <3>2. Len(rows) = 0 /\ Len(rows') = Len(prepared)
      BY <2>1, <2>2
    <3>3. nextLabel + Cardinality(pending) <= 0
      BY <3>2 DEF GroupShape, LabelCount
    <3>4. Cardinality(pending) \in Nat /\ nextLabel \in Nat /\ IsFiniteSet(pending)
      BY FS_CardinalityType DEF GroupShape, LabelCount
    <3>5. Len(prepared) \in Nat
      BY <3>1
    <3>6. nextLabel + Cardinality(pending) <= Len(prepared)
      BY <3>3, <3>4, <3>5
    <3>7. QED
      BY <2>1, <3>2, <3>4, <3>6 DEF LabelCount
  <2>4. QED
    BY <2>1, <2>2, <2>3 DEF GroupShape, GroupingStages
<1>3. CASE GroupingNext /\ UNCHANGED ingestVars
  <2>1. prepared' = prepared /\ IInv
    BY <1>3 DEF ingestVars, PInv
  <2>2. ASSUME UNCHANGED <<rows, snapshot, labels, nextLabel, pending>>,
               at # "idle", at' \in GroupingStages \ {"idle", "splitting", "describing", "done"}
        PROVE  GroupShape'
    BY <2>1, <2>2 DEF GroupShape, LabelCount, Rows
  <2>3. CASE Vectorize \/ Neighbors \/ ScoreBlock \/ BuildGraph
    <3>1. /\ UNCHANGED <<rows, snapshot, labels, nextLabel, pending>> /\ at # "idle"
          /\ at' \in {"neighbors", "NO_KEYWORDS", "components", "scoring", "threshold"}
      BY <2>3 DEF Vectorize, Neighbors, ScoreBlock, BuildGraph
    <3>2. QED
      BY <2>2, <3>1 DEF GroupingStages
  <2>4. CASE Components
    <3>1. /\ at = "components" /\ at' = "splitting" /\ rows' = rows
          /\ lex' = <<>> /\ lexSims' = <<>> /\ labels' = snapshot'
          /\ snapshot' = ComponentsOf(graph, Rows)
      BY <2>4 DEF Components, Empty
    <3>2. DOMAIN snapshot' = Rows
      BY <3>1 DEF ComponentsOf
    <3>3. QED
      BY <2>1, <2>4, <3>1, <3>2, ComponentsCount DEF GroupShape, GroupingStages, Rows
  <2>5. CASE SplitOff
    <3>1. /\ at = "splitting" /\ at' = at /\ rows' = rows /\ lex' = lex /\ lexSims' = lexSims
          /\ snapshot' = snapshot /\ DOMAIN labels' = Rows
      BY <2>5 DEF SplitOff
    <3>2. DOMAIN labels = Rows
      BY <2>1, <3>1 DEF IInv, LabelsRight
    <3>3. QED
      BY <2>1, <2>5, <3>1, <3>2, SplitOffCount DEF GroupShape, Rows
  <2>6. CASE EndSplit
    <3>1. /\ at = "splitting" /\ at' = "describing"
          /\ UNCHANGED <<rows, snapshot, labels, nextLabel, pending, lex, lexSims>>
      BY <2>6 DEF EndSplit
    <3>2. QED
      BY <2>1, <3>1 DEF GroupShape, GroupingStages, LabelCount, Rows
  <2>7. CASE Describe
    <3>1. /\ at = "describing" /\ at' \in {"done", "INTERNAL_ERROR"}
          /\ UNCHANGED <<rows, snapshot, labels, nextLabel, pending, lex, lexSims>>
      BY <2>7, Zenon DEF Describe
    <3>2. QED
      BY <2>1, <3>1 DEF GroupShape, GroupingStages, LabelCount, Rows
  <2>8. QED
    BY <1>3, <2>3, <2>4, <2>5, <2>6, <2>7 DEF GroupingNext
<1>4. CASE UNCHANGED pipelineVars
  BY <1>4 DEF pipelineVars, groupingVars, ingestVars, GroupShape, LabelCount, Rows
<1>5. QED
  BY <1>1, <1>2, <1>3, <1>4 DEF PipelineNext

-----------------------------------------------------------------------------
(* The types of the frame *)

IngestStages ==
  {"arriving", "receiving", "received", "parsed", "masking", "assigning",
   "prepared", "previewed", "FILE_TOO_LARGE", "EMPTY_FILE", "UNPARSEABLE_FILE",
   "UNPARSEABLE_XLSX", "UNPARSEABLE_XLS", "NO_ROWS", "TOO_MANY_ROWS",
   "KEYWORD_COLUMN_NOT_FOUND", "NO_KEYWORDS", "INTERNAL_ERROR"}

FileCell == {cell \in Cells : cell \in DOMAIN StripCell \cup {NaN}}
Number == Int \cup {NaN}

\* A column that is there, with n cells of a kind.
Holds(f, h, n, kind) == h \in DOMAIN f /\ f[h] \in [1 .. n -> kind]

\* Keywords and the columns of the file hold cells; what volumes are written as
\* comes first, when every column it may be read from still does.
AssigningTypes(n) ==
  /\ Holds(frame, "keyword", n, Cells) /\ Holds(frame, "normalized_keyword", n, Cells)
  /\ todo \in {<<"volume", "difficulty", "position", "url">>, <<"difficulty", "position", "url">>,
               <<"position", "url">>, <<"url">>, <<>>}
  /\ IF todo = <<"volume", "difficulty", "position", "url">>
     THEN \A h \in ToSet(names) : Holds(frame, h, n, Cells)
     ELSE Holds(frame, "volume", n, Number)

FrameTypes ==
  /\ request \in Requests
  /\ stage \in IngestStages
  /\ DOMAIN mapping \in {{}, ToSet(Roles)}
  /\ stage \in {"parsed", "masking"} =>
       /\ Len(names) \in Nat /\ DOMAIN names = 1 .. Len(names)
       /\ \A h \in ToSet(names) : Holds(frame, h, Len(request.file.rows), FileCell)
  /\ stage \in {"masking", "assigning"} =>
       \A role \in ToSet(Roles) : mapping[role] \in ToSet(names) \cup {None}
  /\ stage = "masking" => mapping["keyword"] # None
  /\ stage = "assigning" => \E n \in Nat \ {0} : AssigningTypes(n)
  /\ \A p \in DOMAIN prepared : prepared[p].volume \in Number

LEMMA RolesAre ==
  /\ ToSet(Roles) = {"keyword", "volume", "difficulty", "position", "url"}
  /\ Tail(Roles) = <<"volume", "difficulty", "position", "url">>
<1>1. DOMAIN Roles = {1, 2, 3, 4, 5}
  BY DEF Roles
<1>2. /\ Roles[1] = "keyword" /\ Roles[2] = "volume" /\ Roles[3] = "difficulty"
      /\ Roles[4] = "position" /\ Roles[5] = "url"
  BY DEF Roles
<1>3. ToSet(Roles) = {Roles[1], Roles[2], Roles[3], Roles[4], Roles[5]}
  BY <1>1 DEF ToSet
<1>4. Tail(Roles) = <<"volume", "difficulty", "position", "url">>
  BY DEF Roles
<1>5. QED
  BY <1>2, <1>3, <1>4

\* The position that is found of a header.
LEMMA FirstPosition ==
  ASSUME NEW s, Len(s) \in Nat, DOMAIN s = 1 .. Len(s), NEW h \in ToSet(s)
  PROVE  LET i == SelectInSeq(s, LAMBDA x : x = h)
         IN  i \in DOMAIN s /\ s[i] = h
<1> DEFINE I == {i \in 1 .. Len(s) : s[i] = h}
<1>1. I \in SUBSET Nat /\ I # {}
  BY DEF ToSet
<1>2. Min(I) \in I
  <2> HIDE DEF I
  <2>1. QED
    BY <1>1, MinOfNaturals
<1>3. SelectInSeq(s, LAMBDA x : x = h) = Min(I)
  <2>1. SelectInSeq(s, LAMBDA x : x = h) = IF I # {} THEN Min(I) ELSE 0
    BY DEF SelectInSeq
  <2>2. QED
    BY <1>1, <2>1
<1>4. QED
  BY <1>2, <1>3

LEMMA ReadTableTypes ==
  ASSUME FrameTypes, ReadTable
  PROVE  FrameTypes'
<1> DEFINE f == request.file
           headers == [i \in DOMAIN f.headers |-> StripHeader[f.headers[i]]]
<1>1. /\ stage = "received" /\ UNCHANGED <<request, total, mapping, todo, prepared>>
      /\ request \in Requests
  BY DEF ReadTable, FrameTypes
<1>2. CASE ReadError(f) # None
  <2>1. stage' = ReadError(f)
    BY <1>2 DEF ReadTable
  <2>2. stage' \in IngestStages \ {"parsed", "masking", "assigning"}
    BY <1>1, <1>2, <2>1, ReadErrors DEF IngestStages
  <2>3. QED
    BY <1>1, <2>2 DEF FrameTypes
<1>3. CASE ReadError(f) = None
  <2>1. /\ stage' \in {"TOO_MANY_ROWS", "parsed"} /\ names' = headers
        /\ frame' = [h \in ToSet(headers) |->
                       [r \in DOMAIN f.rows |-> f.rows[r][SelectInSeq(headers, LAMBDA n : n = h)]]]
    BY <1>3 DEF ReadTable
  <2>2. /\ Len(f.headers) \in Nat /\ DOMAIN f.headers = 1 .. Len(f.headers)
        /\ Len(f.rows) \in Nat /\ DOMAIN f.rows = 1 .. Len(f.rows)
        /\ \A r \in DOMAIN f.rows : DOMAIN f.rows[r] = DOMAIN f.headers
    BY <1>1, IngestAssumption DEF ToSet
  <2>3. \A r \in DOMAIN f.rows : \A i \in DOMAIN f.rows[r] : f.rows[r][i] \in FileCell
    <3>1. ASSUME NEW r \in DOMAIN f.rows, NEW i \in DOMAIN f.rows[r]
          PROVE  f.rows[r][i] \in FileCell
      <4>1. f.rows[r] \in ToSet(f.rows) /\ f.rows[r][i] \in ToSet(f.rows[r])
        BY DEF ToSet
      <4>2. ToSet(f.rows[r]) \subseteq Cells /\ ToSet(f.rows[r]) \subseteq DOMAIN StripCell \cup {NaN}
        BY <1>1, <4>1, CellAssumption
      <4>3. QED
        BY <4>1, <4>2 DEF FileCell
    <3>2. QED
      BY <3>1
  <2>4. DOMAIN headers = 1 .. Len(f.headers) /\ Len(headers) = Len(f.headers)
    BY <2>2
  <2> HIDE DEF headers
  <2>5. ASSUME NEW h \in ToSet(headers)
        PROVE  Holds(frame', h, Len(f.rows), FileCell)
    <3> DEFINE i == SelectInSeq(headers, LAMBDA n : n = h)
    <3>1. i \in DOMAIN headers
      BY <2>2, <2>4, FirstPosition
    <3> HIDE DEF i
    <3>2. \A r \in DOMAIN f.rows : f.rows[r][i] \in FileCell
      BY <2>2, <2>3, <2>4, <3>1
    <3>3. h \in DOMAIN frame' /\ frame'[h] = [r \in DOMAIN f.rows |-> f.rows[r][i]]
      BY <2>1 DEF i
    <3>4. QED
      BY <2>2, <3>2, <3>3 DEF Holds
  <2>6. QED
    BY <1>1, <2>1, <2>2, <2>4, <2>5 DEF FrameTypes, IngestStages
<1>4. QED
  BY <1>2, <1>3

\* A column that is found is one of the table.
LEMMA ColumnIsThere ==
  ASSUME NEW headers, Len(headers) \in Nat, DOMAIN headers = 1 .. Len(headers),
         NEW role \in ToSet(Roles), NEW wanted
  PROVE  ColumnFor(headers, role, wanted) \in ToSet(headers) \cup {None}
<1> DEFINE known == {NormHeader[h] : h \in ToSet(headers)}
           aliases == COLUMN_ALIASES[role]
           hit == SelectInSeq(aliases, LAMBDA a : a \in known)
<1>1. ASSUME NEW norm \in known PROVE Lookup(headers, norm) \in ToSet(headers)
  <2> DEFINE I == {i \in 1 .. Len(headers) : NormHeader[headers[i]] = norm}
  <2>1. I \in SUBSET Nat /\ I # {} /\ \A i \in I : i <= Len(headers)
    BY DEF ToSet
  <2>2. Max(I) \in I
    <3> HIDE DEF I
    <3>1. QED
      BY <2>1, MaxOfNaturals
  <2>3. Lookup(headers, norm) = headers[Max(I)]
    <3>1. SelectLastInSeq(headers, LAMBDA h : NormHeader[h] = norm) = IF I # {} THEN Max(I) ELSE 0
      BY DEF SelectLastInSeq
    <3>2. QED
      BY <2>1, <3>1 DEF Lookup
  <2>4. QED
    BY <2>2, <2>3 DEF ToSet
<1>2. hit # 0 => aliases[hit] \in known
  <2> DEFINE I == {i \in 1 .. Len(aliases) : aliases[i] \in known}
  <2>1. hit = IF I # {} THEN Min(I) ELSE 0
    BY DEF SelectInSeq
  <2>2. Len(aliases) \in Nat
    BY IngestAssumption
  <2>3. I # {} => Min(I) \in I
    <3>1. I \in SUBSET Nat
      BY <2>2
    <3> HIDE DEF I
    <3>2. QED
      BY <3>1, MinOfNaturals
  <2> HIDE DEF known, hit, aliases
  <2>4. QED
    BY <2>1, <2>3
<1>3. ColumnFor(headers, role, wanted)
        \in {Lookup(headers, norm) : norm \in known} \cup {None}
  <2>1. ColumnFor(headers, role, wanted) =
          IF wanted # None /\ NormHeader[wanted] \in known
          THEN Lookup(headers, NormHeader[wanted])
          ELSE IF hit # 0 THEN Lookup(headers, aliases[hit]) ELSE None
    BY DEF ColumnFor
  <2> HIDE DEF known, hit, aliases
  <2>2. QED
    BY <1>2, <2>1
<1>4. QED
  BY <1>1, <1>3

LEMMA ResolveTypes ==
  ASSUME FrameTypes, Resolve
  PROVE  FrameTypes'
<1>1. /\ stage = "parsed" /\ UNCHANGED <<request, total, frame, names, todo, prepared>>
      /\ mapping' = [r \in ToSet(Roles) |-> ColumnFor(names, r, request.wanted[r])]
      /\ stage' \in {"KEYWORD_COLUMN_NOT_FOUND", "previewed", "masking"}
      /\ mapping'["keyword"] = None => stage' = "KEYWORD_COLUMN_NOT_FOUND"
  BY DEF Resolve
<1>2. Len(names) \in Nat /\ DOMAIN names = 1 .. Len(names)
  BY <1>1 DEF FrameTypes
<1>3. \A role \in ToSet(Roles) : mapping'[role] \in ToSet(names) \cup {None}
  BY <1>1, <1>2, ColumnIsThere
<1>4. DOMAIN mapping' = ToSet(Roles)
  BY <1>1
<1>5. QED
  BY <1>1, <1>3, <1>4 DEF FrameTypes, IngestStages

\* The elements of a set of row numbers, each once and in order.
LEMMA AscendingFacts ==
  ASSUME NEW n \in Nat, NEW S \in SUBSET (1 .. n)
  PROVE  /\ Cardinality(S) \in Nat /\ DOMAIN Ascending(S) = 1 .. Cardinality(S)
         /\ \A p \in DOMAIN Ascending(S) : Ascending(S)[p] \in S
         /\ \A p, q \in DOMAIN Ascending(S) : p < q <=> Ascending(S)[p] < Ascending(S)[q]
         /\ \A r \in S : \E p \in DOMAIN Ascending(S) : Ascending(S)[p] = r
<1> DEFINE R == {e \in S \X S : e[1] < e[2]}
           a == Ascending(S)
           m == Cardinality(S)
<1>1. IsFiniteSet(S)
  <2>1. IsFiniteSet(1 .. n) /\ S \subseteq 1 .. n
    BY FS_Interval
  <2>2. QED
    BY <2>1, FS_Subset
<1>2. m \in Nat
  BY <1>1, FS_CardinalityType
<1>3. \A i, j \in S : <<i, j>> \in R <=> i < j
  OBVIOUS
<1>4. S \in SUBSET Nat
  OBVIOUS
<1> HIDE DEF R
<1>5. Orders(R, S)
  BY <1>3, <1>4 DEF Orders
<1>6. \A r \in S : Rank(R, S, r) = Cardinality({q \in S : q < r})
  <2>1. ASSUME NEW r \in S PROVE {q \in S : <<q, r>> \in R} = {q \in S : q < r}
    BY <1>3
  <2>2. QED
    BY <2>1 DEF Rank
<1>7. DOMAIN a = 1 .. m /\ \A p \in 1 .. m : a[p] = CHOOSE r \in S : Cardinality({q \in S : q < r}) = p - 1
  BY DEF Ascending
<1> HIDE DEF a
<1>8. Ranked(a, R, S)
  <2>1. ASSUME NEW p \in 1 .. m PROVE a[p] \in S /\ Rank(R, S, a[p]) = p - 1
    <3>1. p \in 1 .. Cardinality(S)
      OBVIOUS
    <3> HIDE DEF m
    <3>2. \E r \in S : Rank(R, S, r) = p - 1
      BY <3>1, <1>1, <1>5, RankTaken
    <3>3. \E r \in S : Cardinality({q \in S : q < r}) = p - 1
      BY <1>6, <3>2
    <3>4. a[p] \in S /\ Cardinality({q \in S : q < a[p]}) = p - 1
      BY <1>7, <3>3
    <3>5. QED
      BY <1>6, <3>4
  <2>2. QED
    BY <1>7, <2>1 DEF Ranked
<1>9. /\ \A p, q \in DOMAIN a : p < q <=> <<a[p], a[q]>> \in R
      /\ \A r \in S : \E p \in DOMAIN a : a[p] = r
  BY <1>1, <1>5, <1>8, RankedFacts
<1>10. \A p \in DOMAIN a : a[p] \in S
  BY <1>8 DEF Ranked
<1>11. QED
  BY <1>2, <1>3, <1>7, <1>9, <1>10 DEF a, m

LEMMA MaskTypes ==
  ASSUME FrameTypes, MaskKeywords
  PROVE  FrameTypes'
<1> DEFINE column == frame[mapping["keyword"]]
           usable == {r \in DOMAIN request.file.rows : Usable(column[r])}
           keep == Ascending(usable)
           kept == [h \in DOMAIN frame |-> [r \in DOMAIN keep |-> frame[h][keep[r]]]]
           keyword == [r \in DOMAIN keep |-> StripCell[column[keep[r]]]]
           normalized == [r \in DOMAIN keep |-> NormalizeText[keyword[r]]]
<1>1. /\ stage = "masking" /\ UNCHANGED <<request, total, names, mapping, prepared>>
      /\ stage' \in {"INTERNAL_ERROR", "NO_KEYWORDS", "assigning"}
  BY DEF MaskKeywords
<1>2. CASE stage' # "assigning"
  BY <1>1, <1>2 DEF FrameTypes, IngestStages
<1>3. CASE stage' = "assigning"
  <2>1. /\ usable # {} /\ todo' = Tail(Roles)
        /\ frame' = With(With(kept, "keyword", keyword), "normalized_keyword", normalized)
    BY <1>3 DEF MaskKeywords
  <2> DEFINE m == Len(request.file.rows)
             n == Cardinality(usable)
  <2>2. m \in Nat /\ DOMAIN request.file.rows = 1 .. m
    BY <1>1, IngestAssumption DEF FrameTypes
  <2>3. \A h \in ToSet(names) : Holds(frame, h, m, FileCell)
    BY <1>1 DEF FrameTypes
  <2>4. mapping["keyword"] \in ToSet(names)
    BY <1>1, RolesAre DEF FrameTypes
  <2>5. usable \in SUBSET (1 .. m)
    BY <2>2
  <2> HIDE DEF usable
  <2>6. n \in Nat \ {0} /\ DOMAIN keep = 1 .. n
    <3>1. n \in Nat /\ DOMAIN keep = 1 .. n
      BY <2>2, <2>5, AscendingFacts
    <3>2. IsTable(keep)
      BY <2>1, <2>2, <2>5, AscendingIsTable
    <3> HIDE DEF keep, n
    <3>3. QED
      BY <3>1, <3>2 DEF IsTable
  <2>7. \A r \in 1 .. n : keep[r] \in usable
    BY <2>2, <2>5, <2>6, AscendingFacts
  <2> HIDE DEF keep, n, m
  <2>8. ASSUME NEW r \in 1 .. n
        PROVE  /\ keep[r] \in 1 .. m /\ column[keep[r]] \in DOMAIN StripCell
               /\ keyword[r] = StripCell[column[keep[r]]]
               /\ keyword[r] \in Cells /\ NormalizeText[keyword[r]] \in Cells
    <3>1. keep[r] \in 1 .. m /\ Usable(column[keep[r]])
      <4>1. keep[r] \in usable
        BY <2>7
      <4>2. QED
        BY <2>5, <4>1 DEF usable
    <3>2. column \in [1 .. m -> FileCell]
      BY <2>3, <2>4 DEF Holds
    <3>3. column[keep[r]] \in FileCell /\ column[keep[r]] # NaN
      BY <3>1, <3>2 DEF Usable
    <3>4. column[keep[r]] \in DOMAIN StripCell
      BY <3>3 DEF FileCell
    <3>5. keyword[r] = StripCell[column[keep[r]]]
      BY <2>6
    <3> HIDE DEF column, keyword
    <3>6. QED
      BY <3>1, <3>4, <3>5, CellAssumption
  <2>9. /\ keyword \in [1 .. n -> Cells] /\ normalized \in [1 .. n -> Cells]
    <3>1. DOMAIN keyword = 1 .. n /\ DOMAIN normalized = 1 .. n
      BY <2>6
    <3>2. keyword = [r \in 1 .. n |-> keyword[r]] /\ normalized = [r \in 1 .. n |-> NormalizeText[keyword[r]]]
      BY <2>6
    <3> HIDE DEF keyword, normalized
    <3>3. QED
      BY <2>8, <3>2
  <2>10. ASSUME NEW h \in ToSet(names) PROVE Holds(kept, h, n, Cells)
    <3>1. h \in DOMAIN frame /\ frame[h] \in [1 .. m -> FileCell]
      BY <2>3 DEF Holds
    <3>2. kept[h] = [r \in 1 .. n |-> frame[h][keep[r]]] /\ h \in DOMAIN kept
      BY <2>6, <3>1
    <3>3. \A r \in 1 .. n : frame[h][keep[r]] \in Cells
      BY <2>8, <3>1 DEF FileCell
    <3> HIDE DEF kept
    <3>4. QED
      BY <3>2, <3>3 DEF Holds
  <2> HIDE DEF kept, keyword, normalized, column
  <2>k. PICK k \in Nat \ {0} : k = n
    BY <2>6
  <2>11. AssigningTypes(k)'
    <3>1. todo' = <<"volume", "difficulty", "position", "url">>
      BY <2>1, RolesAre
    <3>2. /\ Holds(frame', "keyword", k, Cells) /\ Holds(frame', "normalized_keyword", k, Cells)
      BY <2>1, <2>9, <2>k DEF Holds, With
    <3>3. ASSUME NEW h \in ToSet(names) PROVE Holds(frame', h, k, Cells)
      BY <2>1, <2>9, <2>10, <2>k DEF Holds, With
    <3>4. QED
      BY <1>1, <3>1, <3>2, <3>3 DEF AssigningTypes
  <2>12. QED
    BY <1>1, <1>3, <2>11 DEF FrameTypes, IngestStages
<1>4. QED
  BY <1>2, <1>3

\* Volumes come first; the keyword columns are not written again.
LEMMA AssignTypes ==
  ASSUME FrameTypes, AssignRole
  PROVE  FrameTypes'
<1>1. /\ stage = "assigning" /\ todo # <<>>
      /\ UNCHANGED <<request, total, names, mapping, prepared>>
      /\ stage' \in {"INTERNAL_ERROR", "assigning"}
  BY DEF AssignRole
<1>2. CASE stage' # "assigning"
  BY <1>1, <1>2 DEF FrameTypes, IngestStages
<1>3. CASE stage' = "assigning"
  <2> DEFINE role == Head(todo)
             column == mapping[role]
             cells == frame[column]
  <2>1. PICK n \in Nat \ {0} : AssigningTypes(n)
    BY <1>1 DEF FrameTypes
  <2>2. /\ frame' = With(frame, role, Converted(role, column, Len(frame["keyword"])))
        /\ todo' = Tail(todo)
    BY <1>1, <1>3 DEF AssignRole
  <2>3. Len(frame["keyword"]) = n
    BY <2>1 DEF AssigningTypes, Holds
  <2>4. role \notin {"keyword", "normalized_keyword"}
    BY <1>1, <2>1 DEF AssigningTypes
  <2>5. Holds(frame', "keyword", n, Cells) /\ Holds(frame', "normalized_keyword", n, Cells)
    BY <2>1, <2>2, <2>4 DEF AssigningTypes, Holds, With
  <2>6. CASE todo = <<"volume", "difficulty", "position", "url">>
    <3>1. role = "volume" /\ todo' = <<"difficulty", "position", "url">>
      BY <2>2, <2>6
    <3>2. column \in ToSet(names) \cup {None}
      BY <1>1, <3>1, RolesAre DEF FrameTypes
    <3>3. Converted("volume", column, n) = [r \in 1 .. n |-> IF column = None THEN NaN ELSE NumberOf(cells[r])]
      BY DEF Converted, Numeric
    <3>4. ASSUME column # None, NEW r \in 1 .. n PROVE NumberOf(cells[r]) \in Number
      <4>1. cells \in [1 .. n -> Cells]
        BY <2>1, <2>6, <3>2, <3>4 DEF AssigningTypes, Holds
      <4> HIDE DEF cells
      <4>2. cells[r] \in Cells
        BY <4>1
      <4>3. QED
        BY <4>2, CellAssumption DEF NumberOf, Number
    <3> HIDE DEF cells, column
    <3>5. Converted("volume", column, n) \in [1 .. n -> Number]
      BY <3>3, <3>4 DEF Number
    <3>6. Holds(frame', "volume", n, Number)
      BY <2>2, <2>3, <3>1, <3>5 DEF Holds, With
    <3>7. AssigningTypes(n)'
      BY <2>5, <3>1, <3>6 DEF AssigningTypes
    <3>8. QED
      BY <1>1, <1>3, <3>7 DEF FrameTypes, IngestStages
  <2>7. CASE todo # <<"volume", "difficulty", "position", "url">>
    <3>1. /\ role \in {"difficulty", "position", "url"}
          /\ todo' \in {<<"position", "url">>, <<"url">>, <<>>}
      <4>1. todo \in {<<"difficulty", "position", "url">>, <<"position", "url">>, <<"url">>}
        BY <1>1, <2>1, <2>7 DEF AssigningTypes
      <4>2. CASE todo = <<"difficulty", "position", "url">>
        BY <2>2, <4>2
      <4>3. CASE todo = <<"position", "url">>
        BY <2>2, <4>3
      <4>4. CASE todo = <<"url">>
        BY <2>2, <4>4
      <4>5. QED
        BY <4>1, <4>2, <4>3, <4>4
    <3>2. Holds(frame, "volume", n, Number)
      BY <2>1, <2>7 DEF AssigningTypes
    <3> HIDE DEF role, cells, column
    <3>3. Holds(frame', "volume", n, Number)
      BY <2>2, <3>1, <3>2 DEF Holds, With
    <3>4. AssigningTypes(n)'
      BY <2>5, <3>1, <3>3 DEF AssigningTypes
    <3>5. QED
      BY <1>1, <1>3, <3>4 DEF FrameTypes, IngestStages
  <2>8. QED
    BY <2>6, <2>7
<1>4. QED
  BY <1>2, <1>3

LEMMA MaxOfIntegers ==
  ASSUME NEW S, IsFiniteSet(S), S # {}, S \subseteq Int
  PROVE  Max(S) \in S /\ \A k \in S : k <= Max(S)
<1> DEFINE R == {e \in S \X S : e[1] < e[2]}
<1>1. \A i, j \in S : <<i, j>> \in R <=> i < j
  OBVIOUS
<1> HIDE DEF R
<1>2. Orders(R, S)
  BY <1>1 DEF Orders
<1>0. S # {}
  OBVIOUS
<1>3. PICK i \in S : \A j \in S \ {i} : <<j, i>> \in R
  BY <1>0, <1>2, LastOfOrder
<1>4. ASSUME NEW j \in S PROVE i >= j
  <2>1. j = i \/ <<j, i>> \in R
    BY <1>3
  <2>2. j = i \/ j < i
    BY <1>1, <2>1
  <2>3. i \in Int /\ j \in Int
    OBVIOUS
  <2>4. QED
    BY <2>2, <2>3
<1>5. Max(S) \in S /\ \A j \in S : Max(S) >= j
  BY <1>3, <1>4, Zenon DEF Max
<1>6. QED
  BY <1>5

\* The largest number of a column is one of its numbers.
LEMMA MaxOfColumn ==
  ASSUME NEW is, IsFiniteSet(is), NEW column, \A i \in is : column[i] \in Number
  PROVE  MaxOf(column, is) \in Number
<1> DEFINE K == KnownAt(column, is)
           S == {column[i] : i \in K}
<1>1. CASE K = {}
  BY <1>1 DEF MaxOf, Number
<1>2. CASE K # {}
  <2>1. S # {}
    BY <1>2
  <2>2. S \subseteq Int
    BY DEF KnownAt, Number
  <2>3. IsFiniteSet(S)
    <3> DEFINE f == [i \in K |-> column[i]]
    <3>1. K \subseteq is
      BY DEF KnownAt
    <3>2. IsFiniteSet(K)
      BY <3>1, FS_Subset
    <3>3. f \in Surjection(K, S)
      BY DEF Surjection
    <3>4. QED
      BY <3>2, <3>3, FS_Surjection
  <2>4. MaxOf(column, is) = Max(S)
    BY <1>2 DEF MaxOf
  <2> HIDE DEF S, K
  <2>5. Max(S) \in S
    BY <2>1, <2>2, <2>3, MaxOfIntegers
  <2>6. QED
    BY <2>2, <2>4, <2>5 DEF Number
<1>3. QED
  BY <1>1, <1>2

LEMMA DeduplicateTypes ==
  ASSUME FrameTypes, Deduplicate
  PROVE  FrameTypes'
<1> DEFINE key == frame["normalized_keyword"]
           like(r) == {q \in DOMAIN key : key[q] = key[r]}
           firsts == {r \in DOMAIN key : r = Min(like(r))}
           first == Ascending(firsts)
<1>1. /\ stage = "assigning" /\ todo = <<>> /\ stage' = "prepared"
      /\ UNCHANGED <<request, total, frame, names, mapping, todo>>
      /\ prepared' = [p \in DOMAIN first |-> Collapsed(key[first[p]], like(first[p]))]
  BY DEF Deduplicate
<1>2. PICK n \in Nat \ {0} : AssigningTypes(n)
  BY <1>1 DEF FrameTypes
<1>3. /\ DOMAIN key = 1 .. n
      /\ Holds(frame, "volume", n, Number)
  BY <1>1, <1>2 DEF AssigningTypes, Holds
<1>4. ASSUME NEW p \in DOMAIN prepared' PROVE prepared'[p].volume \in Number
  <2> DEFINE is == like(first[p])
  <2>1. is \subseteq 1 .. n
    BY <1>3
  <2>2. prepared'[p].volume = MaxOf(frame["volume"], is)
    <3> HIDE DEF first, key, like
    <3>1. p \in DOMAIN first /\ prepared'[p] = Collapsed(key[first[p]], is)
      BY <1>1, <1>4
    <3> HIDE DEF is
    <3>2. QED
      BY <3>1 DEF Collapsed
  <2> HIDE DEF is
  <2>3. IsFiniteSet(is)
    <3>1. IsFiniteSet(1 .. n)
      BY FS_Interval
    <3>2. QED
      BY <2>1, <3>1, FS_Subset
  <2>4. \A i \in is : frame["volume"][i] \in Number
    BY <1>3, <2>1 DEF Holds
  <2>5. QED
    BY <2>2, <2>3, <2>4, MaxOfColumn
<1>5. QED
  BY <1>1, <1>4 DEF FrameTypes, IngestStages

LEMMA InitFrameTypes ==
  PipelineInit => FrameTypes
BY DEF PipelineInit, IngestInit, FrameTypes, IngestStages

LEMMA NextFrameTypes ==
  ASSUME FrameTypes, [PipelineNext]_pipelineVars
  PROVE  FrameTypes'
<1>1. CASE UNCHANGED ingestVars
  BY <1>1 DEF ingestVars, FrameTypes, AssigningTypes, Holds
<1>2. CASE CheckDeclared
  BY <1>2 DEF CheckDeclared, FrameTypes, IngestStages
<1>3. CASE ReadChunk
  <2>1. /\ stage = "receiving" /\ stage' \in {"receiving", "received", "FILE_TOO_LARGE"}
        /\ UNCHANGED <<request, frame, names, mapping, todo, prepared>>
    BY <1>3 DEF ReadChunk
  <2>2. QED
    BY <2>1 DEF FrameTypes, IngestStages
<1>4. QED
  BY <1>1, <1>2, <1>3, ReadTableTypes, ResolveTypes, MaskTypes, AssignTypes, DeduplicateTypes
     DEF PipelineNext, IngestNext, HandOver, pipelineVars

\* Every variable has its type (Pipeline, over all of its steps): a volume is a
\* number or missing whatever was converted before it, the grouping has the prepared
\* table, and labels never outnumber its rows.
THEOREM TypesAreRight ==
  PipelineSpec => []TypeOK
<1> DEFINE TInv == PInv /\ GraphInv /\ UploadInv /\ FrameTypes /\ GroupShape
<1>1. PipelineInit => TInv
  BY InitPInv, InitUploadInv, InitFrameTypes, InitGroupShape
     DEF PipelineInit, GroupingInit, GraphInv
<1>2. TInv /\ [PipelineNext]_pipelineVars => TInv'
  BY NextPInv, NextGraphInv, NextUploadInv, NextFrameTypes, NextGroupShape
<1>3. TInv => TypeOK
  <2> SUFFICES ASSUME TInv PROVE TypeOK
    OBVIOUS
  <2>1. total \in 0 .. request.file.size
    BY IngestAssumption DEF UploadInv
  <2>2. nextLabel \in 0 .. Len(rows)
    <3>1. Cardinality(pending) \in Nat /\ nextLabel \in Nat
      BY FS_CardinalityType DEF GroupShape, LabelCount
    <3>2. Len(rows) \in Nat
      <4>1. CASE at = "idle"
        BY <4>1 DEF GroupShape
      <4>2. CASE at # "idle"
        BY <4>2 DEF PInv, IInv, IsTable
      <4>3. QED
        BY <4>1, <4>2
    <3>3. QED
      BY <3>1, <3>2 DEF GroupShape, LabelCount
  <2>3. QED
    BY <2>1, <2>2 DEF TypeOK, FrameTypes, IngestStages, GroupShape, GroupingStages, Rows, Number
<1>4. QED
  BY <1>1, <1>2, <1>3, PTL DEF PipelineSpec

-----------------------------------------------------------------------------
(* The order of the rows and the canonical keyword *)

\* The volume v comes before w: it is larger, or w is missing.
Falls(v, w) == v # NaN /\ (w = NaN \/ v > w)

LEMMA FallsFacts ==
  ASSUME NEW u \in Number, NEW v \in Number, NEW w \in Number
  PROVE  /\ ~ Falls(u, u)
         /\ Falls(u, v) /\ Falls(v, w) => Falls(u, w)
         /\ Falls(u, v) \/ Falls(v, u) \/ u = v
<1>1. CASE u = NaN \/ v = NaN \/ w = NaN
  BY <1>1 DEF Falls, Number
<1>2. CASE u \in Int /\ v \in Int /\ w \in Int
  <2>1. u # NaN /\ v # NaN /\ w # NaN
    BY <1>2, NaNAssumption
  <2>2. QED
    BY <1>2, <2>1 DEF Falls
<1>3. QED
  BY <1>1, <1>2 DEF Number

\* What sort_values can sort.
Sortable(table, ls, n) ==
  /\ DOMAIN table = 1 .. n
  /\ \A i \in 1 .. n : ls[i] \in Nat /\ table[i].volume \in Number

\* order has each of n rows once, by cluster and by falling volume.
EachOnce(order, table, ls, n) ==
  /\ DOMAIN order = 1 .. n /\ \A p \in 1 .. n : order[p] \in 1 .. n
  /\ \A p, q \in 1 .. n : order[p] = order[q] => p = q
  /\ \A i \in 1 .. n : \E p \in 1 .. n : order[p] = i
  /\ \A p, q \in 1 .. n : p < q => RowBefore(table, ls, order[p], order[q])

LEMMA SortedFacts ==
  ASSUME NEW n \in Nat, NEW table, NEW ls, Sortable(table, ls, n)
  PROVE  EachOnce(Sorted(table, ls), table, ls, n)
<1> DEFINE S == 1 .. n
           R == {e \in S \X S : RowBefore(table, ls, e[1], e[2])}
           order == Sorted(table, ls)
           vol == [i \in S |-> table[i].volume]
           lab == [i \in S |-> ls[i]]
<1>1. IsFiniteSet(S) /\ Cardinality(S) = n
  BY FS_Interval
<1>2. \A i, j \in S : <<i, j>> \in R <=> RowBefore(table, ls, i, j)
  OBVIOUS
<1>3. \A i \in S : i \in Nat /\ lab[i] \in Nat /\ vol[i] \in Number
  BY DEF Sortable
<1>4. \A i, j \in S : <<i, j>> \in R <=>
        \/ lab[i] < lab[j]
        \/ /\ lab[i] = lab[j]
           /\ Falls(vol[i], vol[j]) \/ (vol[i] = vol[j] /\ i < j)
  BY <1>2 DEF RowBefore, Falls
<1> HIDE DEF S, R, vol, lab
<1>5. Orders(R, S)
  <2>1. ASSUME NEW i \in S PROVE <<i, i>> \notin R
    BY <1>3, <1>4, FallsFacts
  <2>2. ASSUME NEW i \in S, NEW j \in S, i # j PROVE <<i, j>> \in R \/ <<j, i>> \in R
    <3>1. i < j \/ j < i
      BY <1>3, <2>2
    <3>2. lab[i] < lab[j] \/ lab[j] < lab[i] \/ lab[i] = lab[j]
      BY <1>3
    <3>3. Falls(vol[i], vol[j]) \/ Falls(vol[j], vol[i]) \/ vol[i] = vol[j]
      BY <1>3, FallsFacts
    <3>4. QED
      BY <1>4, <3>1, <3>2, <3>3
  <2>3. ASSUME NEW i \in S, NEW j \in S, NEW k \in S, <<i, j>> \in R, <<j, k>> \in R
        PROVE  <<i, k>> \in R
    <3> DEFINE Earlier(x, y) == Falls(vol[x], vol[y]) \/ (vol[x] = vol[y] /\ x < y)
    <3>1. /\ lab[i] < lab[j] \/ (lab[i] = lab[j] /\ Earlier(i, j))
          /\ lab[j] < lab[k] \/ (lab[j] = lab[k] /\ Earlier(j, k))
      BY <1>4, <2>3
    <3>2. Earlier(i, j) /\ Earlier(j, k) => Earlier(i, k)
      <4>1. Falls(vol[i], vol[j]) /\ Falls(vol[j], vol[k]) => Falls(vol[i], vol[k])
        BY <1>3, FallsFacts
      <4>2. i < j /\ j < k => i < k
        BY <1>3
      <4>3. QED
        BY <4>1, <4>2
    <3> HIDE DEF Earlier
    <3>3. lab[i] < lab[k] \/ (lab[i] = lab[k] /\ Earlier(i, k))
      BY <1>3, <3>1, <3>2
    <3>4. QED
      BY <1>4, <3>3 DEF Earlier
  <2>4. QED
    BY <2>1, <2>2, <2>3 DEF Orders
<1>6. \A r \in S : Rank(R, S, r) = Cardinality({q \in S : RowBefore(table, ls, q, r)})
  <2>1. ASSUME NEW r \in S PROVE {q \in S : <<q, r>> \in R} = {q \in S : RowBefore(table, ls, q, r)}
    BY <1>2
  <2>2. QED
    BY <2>1 DEF Rank
<1>7. /\ DOMAIN order = S
      /\ \A p \in S : order[p] =
           CHOOSE i \in S : Cardinality({q \in S : RowBefore(table, ls, q, i)}) = p - 1
  BY DEF Sorted, Sortable, S
<1> HIDE DEF order
<1>8. Ranked(order, R, S)
  <2>1. ASSUME NEW p \in S PROVE order[p] \in S /\ Rank(R, S, order[p]) = p - 1
    <3>1. p \in 1 .. Cardinality(S)
      BY <1>1 DEF S
    <3>2. \E r \in S : Rank(R, S, r) = p - 1
      BY <3>1, <1>1, <1>5, RankTaken
    <3>3. \E r \in S : Cardinality({q \in S : RowBefore(table, ls, q, r)}) = p - 1
      BY <1>6, <3>2
    <3>4. order[p] \in S /\ Cardinality({q \in S : RowBefore(table, ls, q, order[p])}) = p - 1
      BY <1>7, <3>3
    <3>5. QED
      BY <1>6, <3>4
  <2>2. DOMAIN order = 1 .. Cardinality(S)
    BY <1>1, <1>7 DEF S
  <2>3. QED
    BY <1>7, <2>1, <2>2 DEF Ranked
<1>9. /\ \A p, q \in DOMAIN order : p < q <=> <<order[p], order[q]>> \in R
      /\ \A p, q \in DOMAIN order : order[p] = order[q] => p = q
      /\ \A i \in S : \E p \in DOMAIN order : order[p] = i
  BY <1>1, <1>5, <1>8, RankedFacts
<1>10. \A p \in S : order[p] \in S
  BY <1>7, <1>8 DEF Ranked
<1>11. QED
  BY <1>2, <1>7, <1>9, <1>10 DEF S, order, EachOnce

\* The member that wins by score, volume and position is there.
LEMMA CanonicalIsMember ==
  ASSUME NEW n \in Nat, NEW table, NEW ms \in SUBSET (1 .. n), ms # {},
         NEW score, \A i \in ms : score[i] \in Int /\ table[i].volume \in Number
  PROVE  CanonicalOf(table, ms, score) \in ms
<1> DEFINE Wins(i, j) ==
             \/ score[i] > score[j]
             \/ score[i] = score[j] /\ Known(table[i].volume) > Known(table[j].volume)
             \/ score[i] = score[j] /\ Known(table[i].volume) = Known(table[j].volume) /\ i <= j
           R == {e \in ms \X ms : Wins(e[2], e[1]) /\ e[1] # e[2]}
           vol == [i \in ms |-> Known(table[i].volume)]
           sc == [i \in ms |-> score[i]]
<1>1. IsFiniteSet(ms)
  <2>1. IsFiniteSet(1 .. n) /\ ms \subseteq 1 .. n
    BY FS_Interval
  <2>2. QED
    BY <2>1, FS_Subset
<1>2. \A i \in ms : i \in Nat /\ sc[i] \in Int /\ vol[i] \in Int
  BY DEF Number, Known
<1>3. \A i, j \in ms : <<j, i>> \in R <=> Wins(i, j) /\ i # j
  OBVIOUS
<1>4. \A i, j \in ms : Wins(i, j) <=>
        \/ sc[i] > sc[j]
        \/ sc[i] = sc[j] /\ vol[i] > vol[j]
        \/ sc[i] = sc[j] /\ vol[i] = vol[j] /\ i <= j
  OBVIOUS
<1> HIDE DEF R, Wins, sc, vol
<1>5. Orders(R, ms)
  <2>1. ASSUME NEW i \in ms PROVE <<i, i>> \notin R
    BY <1>3
  <2>2. ASSUME NEW i \in ms, NEW j \in ms, i # j PROVE Wins(i, j) \/ Wins(j, i)
    BY <1>2, <1>4, <2>2
  <2>3. ASSUME NEW i \in ms, NEW j \in ms, NEW k \in ms,
               Wins(j, i) /\ i # j, Wins(k, j) /\ j # k
        PROVE  Wins(k, i) /\ i # k
    BY <1>2, <1>4, <2>3
  <2>4. \A i, j \in ms : i # j => <<i, j>> \in R \/ <<j, i>> \in R
    BY <1>3, <2>2
  <2>5. \A i, j, k \in ms : <<i, j>> \in R /\ <<j, k>> \in R => <<i, k>> \in R
    BY <1>3, <2>3
  <2>6. QED
    BY <2>1, <2>4, <2>5 DEF Orders
<1>6. PICK i \in ms : \A j \in ms \ {i} : <<j, i>> \in R
  BY <1>1, <1>5, LastOfOrder
<1>7. ASSUME NEW j \in ms PROVE Wins(i, j)
  <2>1. CASE j = i
    BY <1>2, <1>4, <2>1
  <2>2. CASE j # i
    BY <1>3, <1>6, <2>2
  <2>3. QED
    BY <2>1, <2>2
<1>8. CanonicalOf(table, ms, score) = CHOOSE k \in ms : \A j \in ms : Wins(k, j)
  BY DEF CanonicalOf, Wins
<1>9. QED
  BY <1>6, <1>7, <1>8

Intents == {"commercial", "informational", "navigational", "transactional"}

\* A value that all members have is their most frequent one.
LEMMA ModeOfEqual ==
  ASSUME NEW ms, IsFiniteSet(ms), ms # {}, NEW v \in Intents,
         NEW value, \A i \in ms : value[i] = v
  PROVE  ModeOf(value, ms) = v
<1> DEFINE count(l) == Cardinality({i \in ms : value[i] = Labels[l]})
           best == {l \in DOMAIN Labels : \A m \in DOMAIN Labels : count(l) >= count(m)}
           cs == [l \in DOMAIN Labels |-> count(l)]
           k == Cardinality(ms)
<1>1. k \in Nat \ {0}
  BY FS_CardinalityType, FS_EmptySet
<1>2. PICK l0 \in DOMAIN Labels : Labels[l0] = v
  BY GroupingAssumption DEF Intents
<1>3. ASSUME NEW l \in DOMAIN Labels PROVE cs[l] = IF Labels[l] = v THEN k ELSE 0
  <2>1. CASE Labels[l] = v
    <3>1. {i \in ms : value[i] = Labels[l]} = ms
      BY <2>1
    <3>2. QED
      BY <2>1, <3>1
  <2>2. CASE Labels[l] # v
    <3>1. {i \in ms : value[i] = Labels[l]} = {}
      BY <2>2
    <3>2. QED
      BY <2>2, <3>1, FS_EmptySet
  <2>3. QED
    BY <2>1, <2>2
<1>4. best = {l \in DOMAIN Labels : \A m \in DOMAIN Labels : cs[l] >= cs[m]}
  OBVIOUS
<1>5. ModeOf(value, ms) = Labels[Min(best)]
  BY DEF ModeOf
<1> HIDE DEF count, cs, best, k
<1>6. l0 \in best
  BY <1>1, <1>2, <1>3, <1>4
<1>7. \A l \in best : l \in DOMAIN Labels /\ cs[l] >= cs[l0]
  BY <1>2, <1>4
<1>8. \A l \in best : Labels[l] = v
  BY <1>1, <1>2, <1>3, <1>7
<1>9. Min(best) \in best
  <2>1. best \in SUBSET Nat
    BY <1>7, GroupingAssumption
  <2>2. QED
    BY <1>6, <2>1, MinOfNaturals
<1>10. QED
  BY <1>5, <1>8, <1>9

-----------------------------------------------------------------------------
(* The keywords of the table *)

\* In the course of prepare_dataframe a normalized keyword is that of the keyword
\* beside it; the rows returned have different keywords, and intents that are known.
RowsSound ==
  /\ stage = "assigning" =>
       LET key == frame["normalized_keyword"]
       IN  \A r \in DOMAIN key : key[r] = NormalizeText[frame["keyword"][r]]
  /\ \A p, q \in DOMAIN prepared : prepared[p].keyword = prepared[q].keyword => p = q
  /\ \A p \in DOMAIN prepared : prepared[p].intent \in Intents

LEMMA MaskRowsSound ==
  ASSUME RowsSound, MaskKeywords
  PROVE  RowsSound'
<1> DEFINE column == frame[mapping["keyword"]]
           usable == {r \in DOMAIN request.file.rows : Usable(column[r])}
           keep == Ascending(usable)
           kept == [h \in DOMAIN frame |-> [r \in DOMAIN keep |-> frame[h][keep[r]]]]
           keyword == [r \in DOMAIN keep |-> StripCell[column[keep[r]]]]
           normalized == [r \in DOMAIN keep |-> NormalizeText[keyword[r]]]
<1>1. prepared' = prepared
  BY DEF MaskKeywords
<1>2. CASE stage' # "assigning"
  BY <1>1, <1>2 DEF RowsSound
<1>3. CASE stage' = "assigning"
  <2>1. frame' = With(With(kept, "keyword", keyword), "normalized_keyword", normalized)
    BY <1>3 DEF MaskKeywords
  <2>2. \A r \in DOMAIN normalized : normalized[r] = NormalizeText[keyword[r]]
    OBVIOUS
  <2> HIDE DEF kept, keyword, normalized
  <2>3. frame'["keyword"] = keyword /\ frame'["normalized_keyword"] = normalized
    BY <2>1 DEF With
  <2>4. QED
    BY <1>1, <2>2, <2>3 DEF RowsSound
<1>4. QED
  BY <1>2, <1>3

LEMMA AssignRowsSound ==
  ASSUME FrameTypes, RowsSound, AssignRole
  PROVE  RowsSound'
<1>1. /\ stage = "assigning" /\ todo # <<>> /\ prepared' = prepared
      /\ stage' \in {"assigning", "INTERNAL_ERROR"}
  BY DEF AssignRole
<1>2. CASE stage' # "assigning"
  BY <1>1, <1>2 DEF RowsSound
<1>3. CASE stage' = "assigning"
  <2>1. PICK n \in Nat \ {0} : AssigningTypes(n)
    BY <1>1 DEF FrameTypes
  <2>2. PICK column : frame' = With(frame, Head(todo), column)
    BY <1>1, <1>3 DEF AssignRole
  <2>3. Head(todo) \notin {"keyword", "normalized_keyword"}
    BY <1>1, <2>1 DEF AssigningTypes
  <2>4. /\ frame'["keyword"] = frame["keyword"]
        /\ frame'["normalized_keyword"] = frame["normalized_keyword"]
    BY <2>1, <2>2, <2>3 DEF With, AssigningTypes, Holds
  <2>5. QED
    BY <1>1, <2>4 DEF RowsSound
<1>4. QED
  BY <1>2, <1>3

LEMMA DeduplicateRowsSound ==
  ASSUME FrameTypes, RowsSound, Deduplicate
  PROVE  RowsSound'
<1> DEFINE key == frame["normalized_keyword"]
           like(r) == {q \in DOMAIN key : key[q] = key[r]}
           firsts == {r \in DOMAIN key : r = Min(like(r))}
           first == Ascending(firsts)
<1>1. /\ stage = "assigning" /\ stage' = "prepared"
      /\ prepared' = [p \in DOMAIN first |-> Collapsed(key[first[p]], like(first[p]))]
  BY DEF Deduplicate
<1>2. PICK n \in Nat \ {0} : AssigningTypes(n)
  BY <1>1 DEF FrameTypes
<1>3. DOMAIN key = 1 .. n
  BY <1>2 DEF AssigningTypes, Holds
<1>4. \A r \in DOMAIN key : key[r] = NormalizeText[frame["keyword"][r]]
  BY <1>1 DEF RowsSound
<1>5. firsts \in SUBSET (1 .. n)
  BY <1>3
<1> HIDE DEF firsts
<1>6. /\ \A p \in DOMAIN first : first[p] \in firsts
      /\ \A p, q \in DOMAIN first : p < q <=> first[p] < first[q]
      /\ DOMAIN first \subseteq Nat
  <2>1. /\ \A p \in DOMAIN first : first[p] \in firsts
        /\ \A p, q \in DOMAIN first : p < q <=> first[p] < first[q]
    BY <1>5, AscendingFacts
  <2>2. DOMAIN first = 1 .. Cardinality(firsts)
    BY DEF Ascending
  <2> HIDE DEF first
  <2>3. QED
    BY <2>1, <2>2
<1> HIDE DEF first
<1>7. ASSUME NEW p \in DOMAIN first
      PROVE  /\ first[p] \in DOMAIN key /\ first[p] = Min(like(first[p]))
             /\ prepared'[p].keyword = frame["keyword"][first[p]]
             /\ prepared'[p].intent \in Intents
  <2>1. first[p] \in DOMAIN key /\ first[p] = Min(like(first[p]))
    BY <1>6 DEF firsts
  <2> HIDE DEF like, key
  <2>2. prepared'[p] = Collapsed(key[first[p]], like(first[p]))
    BY <1>1
  <2>3. prepared'[p].keyword = frame["keyword"][Min(like(first[p]))]
    BY <2>2 DEF Collapsed
  <2>4. prepared'[p].intent = IntentOf(key[first[p]])
    BY <2>2 DEF Collapsed
  <2>5. QED
    BY <2>1, <2>3, <2>4 DEF IntentOf, Intents
<1>8. ASSUME NEW p \in DOMAIN first, NEW q \in DOMAIN first,
             prepared'[p].keyword = prepared'[q].keyword
      PROVE  p = q
  <2>1. key[first[p]] = key[first[q]]
    <3> HIDE DEF key, like
    <3>1. /\ first[p] \in DOMAIN key /\ first[q] \in DOMAIN key
          /\ prepared'[p].keyword = frame["keyword"][first[p]]
          /\ prepared'[q].keyword = frame["keyword"][first[q]]
      BY <1>7
    <3>2. frame["keyword"][first[p]] = frame["keyword"][first[q]]
      BY <1>8, <3>1
    <3>3. QED
      BY <1>4, <3>1, <3>2
  <2>2. like(first[p]) = like(first[q])
    BY <2>1
  <2>3. first[p] = first[q]
    BY <1>7, <2>2
  <2>4. ~ (p < q) /\ ~ (q < p) /\ p \in Nat /\ q \in Nat
    <3>1. first[p] \in Nat /\ first[q] \in Nat
      <4> HIDE DEF key, like
      <4>1. first[p] \in 1 .. n /\ first[q] \in 1 .. n
        BY <1>3, <1>7
      <4>2. QED
        BY <4>1
    <3>2. QED
      BY <1>6, <2>3, <3>1
  <2>5. QED
    BY <2>4
<1>9. DOMAIN prepared' = DOMAIN first
  BY <1>1
<1>10. QED
  BY <1>1, <1>7, <1>8, <1>9 DEF RowsSound

LEMMA NextRowsSound ==
  ASSUME FrameTypes, RowsSound, [PipelineNext]_pipelineVars
  PROVE  RowsSound'
<1>1. CASE UNCHANGED ingestVars
  BY <1>1 DEF ingestVars, RowsSound
<1>2. CASE CheckDeclared \/ ReadChunk \/ ReadTable \/ Resolve
  <2>1. prepared' = prepared
    BY <1>2 DEF CheckDeclared, ReadChunk, ReadTable, Resolve
  <2>2. stage' # "assigning"
    <3>1. CASE ReadTable
      BY <3>1, ReadErrors DEF ReadTable, FrameTypes
    <3>2. CASE CheckDeclared \/ ReadChunk \/ Resolve
      BY <3>2 DEF CheckDeclared, ReadChunk, Resolve
    <3>3. QED
      BY <1>2, <3>1, <3>2
  <2>3. QED
    BY <2>1, <2>2 DEF RowsSound
<1>3. QED
  BY <1>1, <1>2, MaskRowsSound, AssignRowsSound, DeduplicateRowsSound
     DEF PipelineNext, IngestNext, HandOver, pipelineVars

-----------------------------------------------------------------------------
(* The tables that are returned *)

\* What is known of the table and the labels when the clusters are described.
Describing(n) ==
  /\ Rows = 1 .. n
  /\ DOMAIN labels = Rows
  /\ Sortable(rows, labels, n)
  /\ \A i, j \in Rows : rows[i].keyword = rows[j].keyword => i = j
  /\ \A i \in Rows : rows[i].intent \in Intents
  /\ SplitOnIntent => \A i, j \in Rows : labels[i] = labels[j] => rows[i].intent = rows[j].intent

\* What is said of a cluster in ResultCoherent, of the tables out and clusters.
ClusterCoherent(table, out, clusters, c) ==
  LET inCluster == {p \in DOMAIN out : out[p].cluster_id = c}
      cluster == clusters[c]
      own(p) == CHOOSE i \in DOMAIN table : table[i].keyword = out[p].keyword
  IN  /\ cluster.keyword_count = Cardinality(inCluster)
      /\ \E p \in inCluster : \A q \in inCluster :
           out[q].keyword = cluster.canonical_keyword <=> q = p
      /\ \A p \in inCluster :
           /\ out[p].is_clustered = cluster.is_clustered
           /\ out[p].intent = cluster.intent
           /\ SplitOnIntent => out[p].intent = table[own(p)].intent

\* What is said of the order of the rows.
RowsFall(table, out) ==
  LET own(p) == CHOOSE i \in DOMAIN table : table[i].keyword = out[p].keyword
  IN  \A p, q \in DOMAIN out :
        p < q => \/ out[p].cluster_id < out[q].cluster_id
                 \/ /\ out[p].cluster_id = out[q].cluster_id
                    /\ table[own(q)].volume # NaN =>
                         /\ table[own(p)].volume # NaN
                         /\ table[own(p)].volume >= table[own(q)].volume

\* The whole of it.
TablesMatch(table, out, clusters) ==
  /\ {out[p].keyword : p \in DOMAIN out} = {table[i].keyword : i \in DOMAIN table}
  /\ {out[p].cluster_id : p \in DOMAIN out} = DOMAIN clusters
  /\ \A c \in DOMAIN clusters : ClusterCoherent(table, out, clusters, c)
  /\ RowsFall(table, out)

LEMMA CoherentMeansAgree ==
  ResultCoherent <=> (at = "done" => TablesMatch(rows, result.rows, result.clusters))
BY DEF ResultCoherent, Clustered, TablesMatch, ClusterCoherent, RowsFall

LEMMA DescribeClusters ==
  ASSUME NEW n \in Nat, Describing(n), NEW score \in [Rows -> 0 .. Len(rows) - 1],
         NEW clusters, clusters = [c \in {labels[i] : i \in Rows} |-> ClusterRecord(c, score)],
         NEW order, order = Sorted(rows, labels),
         NEW out, out = [p \in Rows |-> RowRecord(order[p], clusters)],
         NEW c \in DOMAIN clusters
  PROVE  ClusterCoherent(rows, out, clusters, c)
<1> DEFINE inCluster == {p \in DOMAIN out : out[p].cluster_id = c}
           own(p) == CHOOSE i \in DOMAIN rows : rows[i].keyword = out[p].keyword
           ms == Members(labels, c)
<1>1. Rows = 1 .. n /\ DOMAIN rows = 1 .. n /\ DOMAIN labels = 1 .. n
  BY DEF Describing, Rows
<1>2. /\ \A p \in 1 .. n : order[p] \in 1 .. n
      /\ \A p, q \in 1 .. n : order[p] = order[q] => p = q
      /\ \A i \in 1 .. n : \E p \in 1 .. n : order[p] = i
  <2>1. Sortable(rows, labels, n)
    BY DEF Describing
  <2>2. EachOnce(order, rows, labels, n)
    BY <2>1, SortedFacts
  <2>3. QED
    BY <2>2 DEF EachOnce
<1>3. ASSUME NEW p \in 1 .. n
      PROVE  /\ out[p].keyword = rows[order[p]].keyword
             /\ out[p].cluster_id = labels[order[p]]
             /\ out[p].intent = clusters[labels[order[p]]].intent
             /\ out[p].is_clustered = (Cardinality(Members(labels, labels[order[p]])) >= MinClusterSize)
  BY <1>1 DEF RowRecord
<1>4. /\ DOMAIN out = 1 .. n
      /\ ms = {i \in 1 .. n : labels[i] = c} /\ ms # {}
      /\ inCluster = {p \in 1 .. n : labels[order[p]] = c}
  <2>1. DOMAIN out = 1 .. n
    BY <1>1
  <2>2. ms = {i \in 1 .. n : labels[i] = c}
    BY <1>1 DEF Members
  <2>3. \E i \in 1 .. n : labels[i] = c
    BY <1>1
  <2>4. QED
    BY <1>3, <2>1, <2>2, <2>3
<1>5. /\ clusters[c].canonical_keyword = rows[CanonicalOf(rows, ms, score)].keyword
      /\ clusters[c].intent = ModeOf([i \in ms |-> rows[i].intent], ms)
      /\ clusters[c].is_clustered = (Cardinality(ms) >= MinClusterSize)
      /\ clusters[c].keyword_count = Cardinality(ms)
  BY DEF ClusterRecord
<1>6. IsFiniteSet(ms)
  <2>1. IsFiniteSet(1 .. n) /\ ms \subseteq 1 .. n
    BY <1>4, FS_Interval
  <2>2. QED
    BY <2>1, FS_Subset
<1> HIDE DEF inCluster, ms
<1>7. Cardinality(inCluster) = Cardinality(ms)
  <2> DEFINE f == [p \in inCluster |-> order[p]]
  <2>1. IsFiniteSet(inCluster)
    <3>1. IsFiniteSet(1 .. n) /\ inCluster \subseteq 1 .. n
      BY <1>4, FS_Interval
    <3>2. QED
      BY <3>1, FS_Subset
  <2>2. f \in [inCluster -> ms]
    BY <1>2, <1>4
  <2>3. f \in Surjection(inCluster, ms)
    <3>1. ASSUME NEW i \in ms PROVE \E p \in inCluster : f[p] = i
      BY <1>2, <1>4
    <3>2. QED
      BY <2>2, <3>1 DEF Surjection
  <2>4. f \in Injection(inCluster, ms)
    <3>1. ASSUME NEW p \in inCluster, NEW q \in inCluster, f[p] = f[q] PROVE p = q
      BY <1>2, <1>4, <3>1
    <3>2. QED
      BY <2>2, <3>1 DEF Injection, IsInjective
  <2> HIDE DEF f
  <2>5. QED
    BY <2>1, <2>3, <2>4, FS_Surjection
<1>8. \E p \in inCluster : \A q \in inCluster :
        out[q].keyword = clusters[c].canonical_keyword <=> q = p
  <2> DEFINE best == CanonicalOf(rows, ms, score)
  <2>1. best \in ms
    <3>1. ms \in SUBSET (1 .. n) /\ ms # {}
      BY <1>4
    <3>2. \A i \in ms : score[i] \in Int /\ rows[i].volume \in Number
      <4>1. ASSUME NEW i \in ms PROVE score[i] \in Int /\ rows[i].volume \in Number
        <5>1. i \in 1 .. n
          BY <1>4
        <5>2. score[i] \in 0 .. Len(rows) - 1
          BY <1>1, <5>1
        <5>3. QED
          BY <5>1, <5>2 DEF Describing, Sortable
      <4>2. QED
        BY <4>1
    <3>3. QED
      BY <3>1, <3>2, CanonicalIsMember
  <2> HIDE DEF best
  <2>2. PICK p \in inCluster : order[p] = best
    BY <1>2, <1>4, <2>1
  <2>3. ASSUME NEW q \in inCluster PROVE out[q].keyword = clusters[c].canonical_keyword <=> q = p
    <3>1. q \in 1 .. n /\ p \in 1 .. n /\ order[q] \in 1 .. n /\ best \in 1 .. n
      BY <1>2, <1>4, <2>1
    <3>2. out[q].keyword = rows[order[q]].keyword /\ clusters[c].canonical_keyword = rows[best].keyword
      BY <1>3, <1>5, <3>1 DEF best
    <3>3. rows[order[q]].keyword = rows[best].keyword => order[q] = best
      BY <1>1, <3>1 DEF Describing
    <3>4. order[q] = order[p] => q = p
      BY <1>2, <3>1
    <3>5. QED
      BY <2>2, <3>2, <3>3, <3>4
  <2>4. QED
    BY <2>3
<1>9. ASSUME NEW p \in inCluster
      PROVE  /\ out[p].is_clustered = clusters[c].is_clustered
             /\ out[p].intent = clusters[c].intent
             /\ SplitOnIntent => out[p].intent = rows[own(p)].intent
  <2>1. p \in 1 .. n /\ labels[order[p]] = c /\ order[p] \in 1 .. n
    BY <1>2, <1>4
  <2>2. out[p].is_clustered = clusters[c].is_clustered /\ out[p].intent = clusters[c].intent
    <3>1. /\ out[p].intent = clusters[labels[order[p]]].intent
          /\ out[p].is_clustered = (Cardinality(Members(labels, labels[order[p]])) >= MinClusterSize)
      BY <1>3, <2>1
    <3>2. out[p].is_clustered = (Cardinality(ms) >= MinClusterSize)
      BY <2>1, <3>1 DEF ms
    <3>3. QED
      BY <1>5, <2>1, <3>1, <3>2
  <2>3. own(p) = order[p]
    <3> DEFINE w == own(p)
    <3>1. order[p] \in DOMAIN rows /\ rows[order[p]].keyword = out[p].keyword
      BY <1>1, <1>3, <2>1
    <3>2. w \in DOMAIN rows /\ rows[w].keyword = out[p].keyword
      BY <3>1
    <3> HIDE DEF w
    <3>3. w = order[p]
      BY <3>1, <3>2 DEF Describing, Rows
    <3>4. QED
      BY <3>3 DEF w
  <2> HIDE DEF own
  <2>4. ASSUME SplitOnIntent PROVE clusters[c].intent = rows[order[p]].intent
    <3> DEFINE v == rows[order[p]].intent
               value == [i \in ms |-> rows[i].intent]
    <3>1. v \in Intents
      BY <1>1, <2>1 DEF Describing
    <3>2. \A i \in ms : value[i] = v
      <4>1. ASSUME NEW i \in ms PROVE rows[i].intent = v
        <5>1. i \in 1 .. n /\ labels[i] = labels[order[p]]
          BY <1>4, <2>1
        <5>2. QED
          BY <1>1, <2>1, <2>4, <5>1 DEF Describing
      <4>2. QED
        BY <4>1
    <3>3. clusters[c].intent = ModeOf(value, ms)
      BY <1>5
    <3> HIDE DEF v, value
    <3>4. ModeOf(value, ms) = v
      BY <1>4, <1>6, <3>1, <3>2, ModeOfEqual
    <3>5. QED
      BY <3>3, <3>4 DEF v
  <2>5. QED
    BY <2>2, <2>3, <2>4
<1>10. clusters[c].keyword_count = Cardinality(inCluster)
  BY <1>5, <1>7
<1> HIDE DEF own
<1>11. QED
  BY <1>8, <1>9, <1>10 DEF ClusterCoherent, inCluster, own

LEMMA DescribeCoherent ==
  ASSUME NEW n \in Nat, Describing(n), Describe, at' = "done"
  PROVE  ResultCoherent'
<1> DEFINE order == Sorted(rows, labels)
<1>1. rows' = rows /\ at # at'
  BY DEF Describe
<1>2. PICK score \in [Rows -> 0 .. Len(rows) - 1] :
        LET clusters == [c \in {labels[i] : i \in Rows} |-> ClusterRecord(c, score)]
        IN  result' = [rows |-> [p \in Rows |-> RowRecord(order[p], clusters)],
                       clusters |-> clusters]
  BY <1>1, Zenon DEF Describe
<1>3. EachOnce(order, rows, labels, n)
  <2>1. Sortable(rows, labels, n)
    BY DEF Describing
  <2>2. QED
    BY <2>1, SortedFacts
<1>o. PICK ord : ord = order
  OBVIOUS
<1> DEFINE clusters == [c \in {labels[i] : i \in Rows} |-> ClusterRecord(c, score)]
           out == [p \in Rows |-> RowRecord(ord[p], clusters)]
<1>4. result'.rows = out /\ result'.clusters = clusters
  BY <1>2, <1>o
<1>5. \A c \in DOMAIN clusters : ClusterCoherent(rows, out, clusters, c)
  BY <1>o, DescribeClusters
<1>6. DOMAIN clusters = {labels[i] : i \in Rows}
  OBVIOUS
<1>7. Rows = 1 .. n /\ DOMAIN rows = 1 .. n
  BY DEF Describing, Rows
<1>8. DOMAIN out = 1 .. n /\ \A p \in 1 .. n :
        out[p].keyword = rows[ord[p]].keyword /\ out[p].cluster_id = labels[ord[p]]
  BY <1>7 DEF RowRecord
<1> HIDE DEF clusters, out, order
<1>9. /\ \A p \in 1 .. n : ord[p] \in 1 .. n
      /\ \A i \in 1 .. n : \E p \in 1 .. n : ord[p] = i
      /\ \A p, q \in 1 .. n : p < q => RowBefore(rows, labels, ord[p], ord[q])
  BY <1>3, <1>o DEF EachOnce
<1>10. {out[p].keyword : p \in DOMAIN out} = {rows[i].keyword : i \in DOMAIN rows}
  <2>1. ASSUME NEW p \in DOMAIN out PROVE \E i \in DOMAIN rows : out[p].keyword = rows[i].keyword
    BY <1>7, <1>8, <1>9
  <2>2. ASSUME NEW i \in DOMAIN rows PROVE \E p \in DOMAIN out : out[p].keyword = rows[i].keyword
    <3>1. PICK p \in 1 .. n : ord[p] = i
      BY <1>7, <1>9
    <3>2. QED
      BY <1>8, <3>1
  <2>3. QED
    BY <2>1, <2>2
<1>11. {out[p].cluster_id : p \in DOMAIN out} = DOMAIN clusters
  <2>1. ASSUME NEW p \in DOMAIN out PROVE \E i \in Rows : out[p].cluster_id = labels[i]
    BY <1>7, <1>8, <1>9
  <2>2. ASSUME NEW i \in Rows PROVE \E p \in DOMAIN out : out[p].cluster_id = labels[i]
    <3>1. PICK p \in 1 .. n : ord[p] = i
      BY <1>7, <1>9
    <3>2. QED
      BY <1>8, <3>1
  <2>3. QED
    BY <1>6, <2>1, <2>2
<1>12. ASSUME NEW p \in DOMAIN out, NEW q \in DOMAIN out, p < q
       PROVE  LET own(x) == CHOOSE i \in DOMAIN rows : rows[i].keyword = out[x].keyword
              IN  \/ out[p].cluster_id < out[q].cluster_id
                  \/ /\ out[p].cluster_id = out[q].cluster_id
                     /\ rows[own(q)].volume # NaN =>
                          /\ rows[own(p)].volume # NaN
                          /\ rows[own(p)].volume >= rows[own(q)].volume
  <2> DEFINE own(x) == CHOOSE i \in DOMAIN rows : rows[i].keyword = out[x].keyword
  <2>1. ASSUME NEW x \in DOMAIN out PROVE own(x) = ord[x]
    <3> DEFINE w == own(x)
    <3>1. ord[x] \in DOMAIN rows /\ rows[ord[x]].keyword = out[x].keyword
      BY <1>7, <1>8, <1>9
    <3>2. w \in DOMAIN rows /\ rows[w].keyword = out[x].keyword
      BY <3>1
    <3> HIDE DEF w
    <3>3. w = ord[x]
      BY <3>1, <3>2 DEF Describing, Rows
    <3>4. QED
      BY <3>3 DEF w
  <2> DEFINE i == ord[p]
             j == ord[q]
  <2>2. RowBefore(rows, labels, i, j)
    BY <1>8, <1>9, <1>12
  <2>3. i \in 1 .. n /\ j \in 1 .. n
    BY <1>8, <1>9
  <2>4. /\ out[p].cluster_id = labels[i] /\ out[q].cluster_id = labels[j]
        /\ own(p) = i /\ own(q) = j
    BY <1>8, <2>1
  <2> HIDE DEF i, j, own
  <2>5. rows[i].volume \in Number /\ rows[j].volume \in Number
    BY <2>3 DEF Describing, Sortable
  <2>6. \/ labels[i] < labels[j]
        \/ /\ labels[i] = labels[j]
           /\ rows[j].volume # NaN => rows[i].volume # NaN /\ rows[i].volume >= rows[j].volume
    BY <2>2, <2>5 DEF RowBefore, Number
  <2>7. QED
    BY <2>4, <2>6 DEF own
<1>13. RowsFall(rows, out)
  BY <1>12 DEF RowsFall
<1>14. TablesMatch(rows, out, clusters)
  BY <1>5, <1>10, <1>11, <1>13 DEF TablesMatch
<1>15. TablesMatch(rows', result'.rows, result'.clusters)
  BY <1>1, <1>4, <1>14
<1>16. (ResultCoherent <=> (at = "done" => TablesMatch(rows, result.rows, result.clusters)))'
  BY CoherentMeansAgree, PTL
<1>17. QED
  BY <1>15, <1>16

\* Every keyword is in one row, and the tables agree on the clusters, for every table
\* and every score (the loop over clusters and the maps back to the rows in run).
THEOREM TablesAgree ==
  PipelineSpec => []ResultCoherent
<1> DEFINE TInv == PInv /\ FrameTypes /\ GroupShape /\ GraphInv /\ RowsSound
<1>1. PipelineInit => TInv /\ ResultCoherent
  <2> SUFFICES ASSUME PipelineInit PROVE TInv /\ ResultCoherent
    OBVIOUS
  <2>1. RowsSound
    BY DEF PipelineInit, IngestInit, RowsSound
  <2>2. ResultCoherent
    BY DEF PipelineInit, GroupingInit, ResultCoherent, Clustered
  <2>3. QED
    BY <2>1, <2>2, InitPInv, InitFrameTypes, InitGroupShape
       DEF PipelineInit, GroupingInit, GraphInv
<1>2. TInv /\ [PipelineNext]_pipelineVars => TInv'
  BY NextPInv, NextGraphInv, NextFrameTypes, NextGroupShape, NextRowsSound
<1>3. TInv /\ ResultCoherent /\ [PipelineNext]_pipelineVars => ResultCoherent'
  <2> SUFFICES ASSUME TInv, ResultCoherent, [PipelineNext]_pipelineVars PROVE ResultCoherent'
    OBVIOUS
  <2>1. CASE UNCHANGED groupingVars
    <3>1. at' = at /\ rows' = rows /\ result' = result
      BY <2>1 DEF groupingVars
    <3>2. /\ ResultCoherent <=> (at = "done" => TablesMatch(rows, result.rows, result.clusters))
          /\ (ResultCoherent <=> (at = "done" => TablesMatch(rows, result.rows, result.clusters)))'
      BY CoherentMeansAgree, PTL
    <3>3. QED
      BY <3>1, <3>2
  <2>2. CASE at' # "done"
    BY <2>2 DEF ResultCoherent, Clustered
  <2>3. CASE ~ UNCHANGED groupingVars /\ at' = "done"
    <3>1. Describe
      <4>1. ~ HandOver
        BY <2>3 DEF HandOver, Run
      <4>2. GroupingNext
        BY <2>3, <4>1 DEF PipelineNext, pipelineVars
      <4>3. QED
        BY <2>3, <4>2, Zenon DEF GroupingNext, Vectorize, Neighbors, ScoreBlock, BuildGraph, Components,
           SplitOff, EndSplit, Describe
    <3>2. at = "describing"
      BY <3>1 DEF Describe
    <3>3. PICK n \in Nat \ {0} : Rows = 1 .. n
      BY <3>2 DEF PInv, IInv, IsTable, Rows
    <3>4. rows = prepared /\ LabelsRight
      BY <3>2 DEF GroupShape, PInv, IInv
    <3>5. SplitExact
      BY IInvSplitExact DEF PInv
    <3>6. Describing(n)
      <4>1. \A i \in Rows : labels[i] \in Nat /\ rows[i].volume \in Number
        BY <3>4 DEF LabelsRight, FrameTypes, Rows
      <4>2. Sortable(rows, labels, n)
        BY <3>3, <4>1 DEF Sortable, Rows
      <4>3. SplitOnIntent => \A i, j \in Rows : labels[i] = labels[j] => rows[i].intent = rows[j].intent
        BY <3>2, <3>5 DEF SplitExact
      <4>4. QED
        BY <3>3, <3>4, <4>2, <4>3 DEF Describing, RowsSound, LabelsRight, Rows
    <3>7. QED
      BY <2>3, <3>1, <3>3, <3>6, DescribeCoherent
  <2>4. QED
    BY <2>1, <2>2, <2>3
<1>4. QED
  BY <1>1, <1>2, <1>3, PTL DEF PipelineSpec

-----------------------------------------------------------------------------
(* Statistics of rows that are numbered anew *)

\* keep leads from the rows is of a column f to the rows mine of a column g.
Numbered(keep, f, is, g, mine) ==
  /\ IsFiniteSet(is) /\ IsFiniteSet(mine)
  /\ \A x \in is : f[x] \in Number
  /\ Carries(keep, f, is, g, mine)

LEMMA KnownMoves ==
  ASSUME NEW keep, NEW f, NEW is, NEW g, NEW mine, Numbered(keep, f, is, g, mine)
  PROVE  /\ Carries(keep, f, KnownAt(f, is), g, KnownAt(g, mine))
         /\ Summable(f, KnownAt(f, is)) /\ Summable(g, KnownAt(g, mine))
<1>1. Carries(keep, f, KnownAt(f, is), g, KnownAt(g, mine))
  BY DEF Numbered, Carries, KnownAt
<1>2. IsFiniteSet(KnownAt(f, is)) /\ IsFiniteSet(KnownAt(g, mine))
  <2>1. KnownAt(f, is) \subseteq is /\ KnownAt(g, mine) \subseteq mine
    BY DEF KnownAt
  <2>2. QED
    BY <2>1, FS_Subset DEF Numbered
<1>3. \A x \in KnownAt(f, is) : f[x] \in Int
  BY DEF Numbered, KnownAt, Number
<1>4. \A t \in KnownAt(g, mine) : g[t] \in Int
  BY <1>1, <1>3 DEF Carries
<1>5. QED
  BY <1>1, <1>2, <1>3, <1>4 DEF Summable

\* The mean of a column does not depend on which rows its numbers are in.
LEMMA MeanMoves ==
  ASSUME NEW keep, NEW f, NEW is, NEW g, NEW mine, Numbered(keep, f, is, g, mine)
  PROVE  MeanOf(f, is) = MeanOf(g, mine)
<1> DEFINE S == KnownAt(f, is)
           T == KnownAt(g, mine)
<1>1. Carries(keep, f, S, g, T) /\ Summable(f, S) /\ Summable(g, T)
  BY KnownMoves
<1>2. MeanOf(f, is) = [sum |-> SumOver(f, S), count |-> Cardinality(S)]
  BY DEF MeanOf, SumOver
<1>3. MeanOf(g, mine) = [sum |-> SumOver(g, T), count |-> Cardinality(T)]
  BY DEF MeanOf, SumOver
<1> HIDE DEF S, T
<1>4. SumOver(f, S) = SumOver(g, T)
  BY <1>1, SumMoves
<1>5. Cardinality(S) = Cardinality(T)
  <2> DEFINE b == [x \in S |-> keep[x]]
  <2>1. IsFiniteSet(S) /\ b \in [S -> T]
    BY <1>1 DEF Summable, Carries
  <2>2. b \in Surjection(S, T)
    BY <1>1, <2>1 DEF Surjection, Carries
  <2>3. b \in Injection(S, T)
    BY <1>1, <2>1 DEF Injection, IsInjective, Carries
  <2> HIDE DEF b
  <2>4. QED
    BY <2>1, <2>2, <2>3, FS_Surjection
<1>6. QED
  BY <1>2, <1>3, <1>4, <1>5

\* And its maximum is its largest number, wherever it is.
LEMMA MaxMoves ==
  ASSUME NEW keep, NEW f, NEW is, NEW g, NEW mine, Numbered(keep, f, is, g, mine)
  PROVE  LET known == {g[t] : t \in mine} \ {NaN}
         IN  IF known = {} THEN MaxOf(f, is) = NaN
             ELSE MaxOf(f, is) \in known /\ \A k \in known : k <= MaxOf(f, is)
<1> DEFINE known == {g[t] : t \in mine} \ {NaN}
           S == {f[x] : x \in KnownAt(f, is)}
<1>1. known = S
  <2>1. ASSUME NEW x \in KnownAt(f, is) PROVE f[x] \in known
    BY DEF KnownAt, Numbered, Carries
  <2>2. ASSUME NEW k \in known PROVE \E x \in KnownAt(f, is) : f[x] = k
    <3>1. PICK t \in mine : g[t] = k /\ k # NaN
      OBVIOUS
    <3>2. PICK x \in is : keep[x] = t
      BY <3>1 DEF Numbered, Carries
    <3>3. f[x] = k
      BY <3>1, <3>2 DEF Numbered, Carries
    <3>4. QED
      BY <3>1, <3>2, <3>3 DEF KnownAt
  <2>3. QED
    BY <2>1, <2>2
<1>2. KnownAt(f, is) = {} <=> S = {}
  OBVIOUS
<1>3. MaxOf(f, is) = IF S = {} THEN NaN ELSE Max(S)
  BY <1>2 DEF MaxOf
<1>4. IsFiniteSet(S) /\ S \subseteq Int
  <2> DEFINE h == [x \in KnownAt(f, is) |-> f[x]]
  <2>1. IsFiniteSet(KnownAt(f, is)) /\ \A x \in KnownAt(f, is) : f[x] \in Int
    BY KnownMoves DEF Summable
  <2>2. h \in Surjection(KnownAt(f, is), S)
    BY DEF Surjection
  <2>3. QED
    BY <2>1, <2>2, FS_Surjection
<1> HIDE DEF known, S
<1>5. ASSUME S # {} PROVE Max(S) \in S /\ \A k \in S : k <= Max(S)
  BY <1>4, <1>5, MaxOfIntegers
<1>6. QED
  BY <1>1, <1>3, <1>5 DEF known

-----------------------------------------------------------------------------
(* The first rows of equal keys *)

Like(key, n, x) == {q \in 1 .. n : key[q] = key[x]}
FirstRows(key, n) == Ascending({r \in 1 .. n : r = Min(Like(key, n, r))})

\* They are in order, each is the first of its key, and every key has one.
LEMMA FirstRowFacts ==
  ASSUME NEW n \in Nat, NEW key
  PROVE  LET first == FirstRows(key, n)
         IN  /\ \A p \in DOMAIN first : first[p] \in 1 .. n /\ first[p] = Min(Like(key, n, first[p]))
             /\ \A p, q \in DOMAIN first : p < q => first[p] < first[q]
             /\ \A x \in 1 .. n : \E p \in DOMAIN first : key[first[p]] = key[x]
<1> DEFINE firsts == {r \in 1 .. n : r = Min(Like(key, n, r))}
           first == Ascending(firsts)
<1>1. firsts \in SUBSET (1 .. n)
  OBVIOUS
<1>2. \A r \in firsts : r \in 1 .. n /\ r = Min(Like(key, n, r))
  OBVIOUS
<1>3. ASSUME NEW x \in 1 .. n PROVE \E r \in firsts : key[r] = key[x]
  <2> DEFINE r == Min(Like(key, n, x))
  <2>1. Like(key, n, x) \in SUBSET Nat /\ x \in Like(key, n, x)
    BY DEF Like
  <2>2. r \in Like(key, n, x)
    BY <2>1, MinOfNaturals
  <2>3. r \in 1 .. n /\ key[r] = key[x]
    BY <2>2 DEF Like
  <2>4. Like(key, n, r) = Like(key, n, x)
    BY <2>3 DEF Like
  <2>5. QED
    BY <2>3, <2>4
<1> HIDE DEF firsts
<1>4. /\ \A p \in DOMAIN first : first[p] \in firsts
      /\ \A p, q \in DOMAIN first : p < q <=> first[p] < first[q]
      /\ \A r \in firsts : \E p \in DOMAIN first : first[p] = r
  BY <1>1, AscendingFacts
<1>5. FirstRows(key, n) = first
  BY DEF FirstRows, firsts
<1> HIDE DEF first
<1>6. ASSUME NEW x \in 1 .. n PROVE \E p \in DOMAIN first : key[first[p]] = key[x]
  <2>1. PICK r \in firsts : key[r] = key[x]
    BY <1>3
  <2>2. PICK p \in DOMAIN first : first[p] = r
    BY <1>4
  <2>3. QED
    BY <2>1, <2>2
<1>7. QED
  BY <1>2, <1>4, <1>5, <1>6

-----------------------------------------------------------------------------
(* The columns in the course of prepare_dataframe *)

Kept == Ascending(UsableRows)

\* What the kept rows of the file have under a header, and what the columns of
\* keywords and of the numbers of a role are made from.
FileColumn(h) == [p \in DOMAIN Kept |-> FileCells(h)[Kept[p]]]
KeywordColumn == [p \in DOMAIN Kept |-> StripCell[FileCells(mapping["keyword"])[Kept[p]]]]
KeyColumn == [p \in DOMAIN Kept |-> KeyOf(Kept[p])]
NumberColumn(role) == [p \in DOMAIN Kept |-> ParseNumber[FileCells(mapping[role])[Kept[p]]]]

\* What was written into the frame.
Written == {"keyword", "normalized_keyword"} \cup (OtherRoles \ ToSet(todo))

\* A role whose numbers are those of its column.
Faithful(role) == mapping[role] # None /\ ~ Overwritten(role)

\* A column is the file's until it is written, and what is written comes from the
\* column of the file the role is mapped to, unless that was overwritten before.
FrameRight ==
  /\ stage \in {"parsed", "masking", "assigning"} =>
       names = [i \in DOMAIN request.file.headers |-> StripHeader[request.file.headers[i]]]
  /\ stage \in {"parsed", "masking"} =>
       \A h \in ToSet(names) : ~ Ambiguous(h) => frame[h] = FileCells(h)
  /\ stage = "assigning" =>
       /\ mapping["keyword"] \in ToSet(names)
       /\ ToSet(names) \cup Written \subseteq DOMAIN frame
       /\ frame["keyword"] = KeywordColumn /\ frame["normalized_keyword"] = KeyColumn
       /\ \A h \in ToSet(names) \ Written : ~ Ambiguous(h) => frame[h] = FileColumn(h)
       /\ \A role \in Numeric \cap Written : Faithful(role) => frame[role] = NumberColumn(role)

\* All of this depends on the file, its headers and the mapping alone.
LEMMA CellsStay ==
  ASSUME UNCHANGED <<request, names>>, NEW h
  PROVE  FileCells(h)' = FileCells(h)
BY DEF FileCells

LEMMA RowsStay ==
  ASSUME UNCHANGED <<request, mapping, names>>
  PROVE  UsableRows' = UsableRows /\ Kept' = Kept
<1>1. PICK h : h = mapping["keyword"]
  OBVIOUS
<1>2. FileCells(h)' = FileCells(h)
  BY CellsStay
<1>3. UsableRows' = UsableRows
  BY <1>1, <1>2 DEF UsableRows
<1>4. QED
  BY <1>3 DEF Kept

LEMMA KeysStay ==
  ASSUME UNCHANGED <<request, mapping, names>>
  PROVE  /\ KeywordColumn' = KeywordColumn /\ KeyColumn' = KeyColumn
         /\ \A h : FileColumn(h)' = FileColumn(h)
         /\ \A role : NumberColumn(role)' = NumberColumn(role) /\ Faithful(role)' = Faithful(role)
<1>1. Kept' = Kept
  BY RowsStay
<1>2. ASSUME NEW h PROVE FileColumn(h)' = FileColumn(h)
  <2>1. FileCells(h)' = FileCells(h)
    BY CellsStay
  <2>2. QED
    BY <1>1, <2>1 DEF FileColumn
<1>3. PICK k : k = mapping["keyword"]
  OBVIOUS
<1>4. FileCells(k)' = FileCells(k)
  BY CellsStay
<1>5. KeywordColumn' = KeywordColumn
  BY <1>1, <1>3, <1>4 DEF KeywordColumn
<1>6. ASSUME NEW r PROVE KeyOf(r)' = KeyOf(r)
  BY <1>3, <1>4 DEF KeyOf
<1>7. KeyColumn' = KeyColumn
  BY <1>1, <1>6 DEF KeyColumn
<1>8. ASSUME NEW role PROVE NumberColumn(role)' = NumberColumn(role) /\ Faithful(role)' = Faithful(role)
  <2>1. PICK h : h = mapping[role]
    OBVIOUS
  <2>2. FileCells(h)' = FileCells(h)
    BY CellsStay
  <2>3. NumberColumn(role)' = NumberColumn(role)
    BY <1>1, <2>1, <2>2 DEF NumberColumn
  <2>4. Overwritten(role)' = Overwritten(role)
    BY DEF Overwritten
  <2>5. QED
    BY <2>3, <2>4 DEF Faithful
<1>9. QED
  BY <1>2, <1>5, <1>7, <1>8

\* The headers of the file as they are kept.
Stripped(f) == [i \in DOMAIN f.headers |-> StripHeader[f.headers[i]]]

LEMMA FileFacts ==
  ASSUME request \in Requests, names = Stripped(request.file)
  PROVE  /\ \E m \in Nat : DOMAIN request.file.rows = 1 .. m
         /\ Len(names) \in Nat /\ DOMAIN names = 1 .. Len(names)
         /\ \A h \in ToSet(names) : \A r \in DOMAIN request.file.rows : FileCells(h)[r] \in FileCell
<1> DEFINE f == request.file
<1>1. /\ Len(f.headers) \in Nat /\ DOMAIN f.headers = 1 .. Len(f.headers)
      /\ Len(f.rows) \in Nat /\ DOMAIN f.rows = 1 .. Len(f.rows)
      /\ \A r \in DOMAIN f.rows : DOMAIN f.rows[r] = DOMAIN f.headers
  BY IngestAssumption DEF ToSet
<1>2. DOMAIN names = 1 .. Len(f.headers) /\ Len(names) = Len(f.headers)
  BY <1>1 DEF Stripped
<1>3. ASSUME NEW h \in ToSet(names), NEW r \in DOMAIN f.rows PROVE FileCells(h)[r] \in FileCell
  <2>1. PICK i : i = CHOOSE j \in DOMAIN names : names[j] = h
    OBVIOUS
  <2>2. i \in DOMAIN names
    BY <2>1 DEF ToSet
  <2>3. FileCells(h)[r] = f.rows[r][i]
    BY <2>1 DEF FileCells
  <2>4. f.rows[r] \in ToSet(f.rows) /\ f.rows[r][i] \in ToSet(f.rows[r])
    BY <1>1, <1>2, <2>2 DEF ToSet
  <2>5. ToSet(f.rows[r]) \subseteq Cells /\ ToSet(f.rows[r]) \subseteq DOMAIN StripCell \cup {NaN}
    BY <2>4, CellAssumption
  <2>6. QED
    BY <2>3, <2>4, <2>5 DEF FileCell
<1>4. QED
  BY <1>1, <1>2, <1>3

\* A header that is not ambiguous is at one position.
LEMMA OnePosition ==
  ASSUME NEW s, Len(s) \in Nat, DOMAIN s = 1 .. Len(s),
         NEW h, ~ (Cardinality({k \in DOMAIN s : s[k] = h}) > 1),
         NEW i \in DOMAIN s, NEW j \in DOMAIN s, s[i] = h, s[j] = h
  PROVE  i = j
<1> DEFINE I == {k \in DOMAIN s : s[k] = h}
<1>1. SUFFICES ASSUME i # j PROVE FALSE
  OBVIOUS
<1>2. IsFiniteSet(I)
  <2>1. IsFiniteSet(1 .. Len(s)) /\ I \subseteq 1 .. Len(s)
    BY FS_Interval
  <2>2. QED
    BY <2>1, FS_Subset
<1>3. i \in I /\ j \in I \ {i}
  BY <1>1
<1>0. ~ (Cardinality(I) > 1)
  OBVIOUS
<1> HIDE DEF I
<1>4. IsFiniteSet(I \ {i}) /\ Cardinality(I \ {i}) = Cardinality(I) - 1
  BY <1>2, <1>3, FS_RemoveElement
<1>5. Cardinality(I \ {i}) \in Nat /\ Cardinality(I \ {i}) # 0
  BY <1>3, <1>4, FS_CardinalityType, FS_EmptySet
<1>6. Cardinality(I) > 1
  BY <1>2, <1>4, <1>5, FS_CardinalityType
<1>7. QED
  BY <1>0, <1>6

LEMMA ReadTableRight ==
  ASSUME FrameTypes, ReadTable
  PROVE  FrameRight'
<1> DEFINE f == request.file
<1>1. /\ stage = "received" /\ UNCHANGED <<request, total, mapping, todo, prepared>>
      /\ request \in Requests
  BY DEF ReadTable, FrameTypes
<1>2. CASE stage' # "parsed"
  <2>1. stage' \notin {"parsed", "masking", "assigning"}
    BY <1>1, <1>2, ReadErrors DEF ReadTable
  <2>2. QED
    BY <2>1 DEF FrameRight
<1>3. CASE stage' = "parsed"
  <2> DEFINE headers == Stripped(f)
  <2>1. ReadError(f) = None
    BY <1>1, <1>3, ReadErrors DEF ReadTable
  <2>2. /\ names' = headers
        /\ frame' = [h \in ToSet(headers) |->
                       [r \in DOMAIN f.rows |-> f.rows[r][SelectInSeq(headers, LAMBDA n : n = h)]]]
    BY <1>3, <2>1 DEF ReadTable, Stripped
  <2>3. names' = Stripped(request.file)'
    BY <1>1, <2>2 DEF Stripped
  <2>4. Len(names') \in Nat /\ DOMAIN names' = 1 .. Len(names')
    <3>1. request' \in Requests
      BY <1>1
    <3>2. (request \in Requests /\ names = Stripped(request.file) =>
             Len(names) \in Nat /\ DOMAIN names = 1 .. Len(names))'
      BY FileFacts, PTL
    <3>3. QED
      BY <2>3, <3>1, <3>2
  <2>5. ASSUME NEW h \in ToSet(names'), ~ Ambiguous(h)' PROVE frame'[h] = FileCells(h)'
    <3> DEFINE i == SelectInSeq(headers, LAMBDA n : n = h)
               j == CHOOSE k \in DOMAIN names' : names'[k] = h
    <3>1. i \in DOMAIN names' /\ names'[i] = h
      <4> HIDE DEF headers
      <4>1. QED
        BY <2>2, <2>4, <2>5, FirstPosition
    <3>2. j \in DOMAIN names' /\ names'[j] = h
      BY <3>1
    <3> HIDE DEF i, j
    <3>3. i = j
      <4>1. ~ (Cardinality({k \in DOMAIN names' : names'[k] = h}) > 1)
        BY <2>5 DEF Ambiguous
      <4>2. QED
        BY <2>4, <3>1, <3>2, <4>1, OnePosition
    <3>4. frame'[h] = [r \in DOMAIN f.rows |-> f.rows[r][i]]
      BY <2>2, <2>5 DEF i
    <3>5. FileCells(h)' = [r \in DOMAIN f.rows |-> f.rows[r][j]]
      BY <1>1 DEF FileCells, j
    <3>6. QED
      BY <3>3, <3>4, <3>5
  <2>6. QED
    BY <1>3, <2>3, <2>5 DEF FrameRight, Stripped
<1>4. QED
  BY <1>2, <1>3

LEMMA ResolveRight ==
  ASSUME FrameRight, Resolve
  PROVE  FrameRight'
<1>1. /\ stage = "parsed" /\ UNCHANGED <<request, total, frame, names, todo, prepared>>
      /\ stage' # "assigning"
  BY DEF Resolve
<1>2. ASSUME NEW h PROVE FileCells(h)' = FileCells(h) /\ Ambiguous(h)' = Ambiguous(h)
  BY <1>1, CellsStay DEF Ambiguous
<1>3. QED
  BY <1>1, <1>2 DEF FrameRight

\* The roles still to be written, as a list and as a set.
LEMMA ToDo ==
  /\ ToSet(<<"volume", "difficulty", "position", "url">>) = {"volume", "difficulty", "position", "url"}
  /\ ToSet(<<"difficulty", "position", "url">>) = {"difficulty", "position", "url"}
  /\ ToSet(<<"position", "url">>) = {"position", "url"}
  /\ ToSet(<<"url">>) = {"url"}
  /\ ToSet(<<>>) = {}
<1>1. /\ DOMAIN <<"volume", "difficulty", "position", "url">> = {1, 2, 3, 4}
      /\ DOMAIN <<"difficulty", "position", "url">> = {1, 2, 3}
      /\ DOMAIN <<"position", "url">> = {1, 2}
      /\ DOMAIN <<"url">> = {1}
      /\ DOMAIN <<>> = {}
  OBVIOUS
<1>2. ToSet(<<"volume", "difficulty", "position", "url">>) = {"volume", "difficulty", "position", "url"}
  BY <1>1 DEF ToSet
<1>3. ToSet(<<"difficulty", "position", "url">>) = {"difficulty", "position", "url"}
  BY <1>1 DEF ToSet
<1>4. ToSet(<<"position", "url">>) = {"position", "url"}
  BY <1>1 DEF ToSet
<1>5. ToSet(<<"url">>) = {"url"} /\ ToSet(<<>>) = {}
  BY <1>1 DEF ToSet
<1>6. QED
  BY <1>2, <1>3, <1>4, <1>5

LEMMA MaskRight ==
  ASSUME FrameTypes, FrameRight, MaskKeywords
  PROVE  FrameRight'
<1> DEFINE column == frame[mapping["keyword"]]
           usable == {r \in DOMAIN request.file.rows : Usable(column[r])}
           keep == Ascending(usable)
           kept == [h \in DOMAIN frame |-> [r \in DOMAIN keep |-> frame[h][keep[r]]]]
           keyword == [r \in DOMAIN keep |-> StripCell[column[keep[r]]]]
           normalized == [r \in DOMAIN keep |-> NormalizeText[keyword[r]]]
<1>1. /\ stage = "masking" /\ UNCHANGED <<request, total, names, mapping, prepared>>
      /\ stage' \in {"INTERNAL_ERROR", "NO_KEYWORDS", "assigning"}
  BY DEF MaskKeywords
<1>2. CASE stage' # "assigning"
  BY <1>1, <1>2 DEF FrameRight
<1>3. CASE stage' = "assigning"
  <2>1. /\ ~ Ambiguous(mapping["keyword"]) /\ todo' = Tail(Roles)
        /\ frame' = With(With(kept, "keyword", keyword), "normalized_keyword", normalized)
    BY <1>3 DEF MaskKeywords
  <2>2. mapping["keyword"] \in ToSet(names)
    BY <1>1, RolesAre DEF FrameTypes
  <2>3. column = FileCells(mapping["keyword"])
    BY <1>1, <2>1, <2>2 DEF FrameRight
  <2>4. usable = UsableRows
    BY <2>3 DEF UsableRows
  <2>5. keep = Kept
    BY <2>4 DEF Kept
  <2> HIDE DEF usable, keep
  <2>6. keyword = KeywordColumn /\ normalized = KeyColumn
    <3>1. keyword = KeywordColumn
      BY <2>3, <2>5 DEF KeywordColumn
    <3>2. normalized = KeyColumn
      BY <2>3, <2>5 DEF KeyColumn, KeyOf
    <3>3. QED
      BY <3>1, <3>2
  <2>7. ASSUME NEW h \in ToSet(names), ~ Ambiguous(h)
        PROVE  h \in DOMAIN kept /\ kept[h] = FileColumn(h)
    <3>1. h \in DOMAIN frame /\ frame[h] = FileCells(h)
      BY <1>1, <2>7 DEF FrameTypes, FrameRight, Holds
    <3>2. QED
      BY <2>5, <3>1 DEF FileColumn
  <2>0. ToSet(names) \subseteq DOMAIN kept
    BY <1>1 DEF FrameTypes, Holds
  <2> HIDE DEF kept, keyword, normalized
  <2>8. frame'["keyword"] = KeywordColumn /\ frame'["normalized_keyword"] = KeyColumn
    BY <2>1, <2>6 DEF With
  <2>9. Written' = {"keyword", "normalized_keyword"}
    <3>1. ToSet(todo') = OtherRoles
      BY <2>1, RolesAre, ToDo DEF OtherRoles
    <3>2. QED
      BY <3>1 DEF Written
  <2>10. ASSUME NEW h \in ToSet(names) \ Written', ~ Ambiguous(h) PROVE frame'[h] = FileColumn(h)
    BY <2>1, <2>7, <2>9, <2>10 DEF With
  <2>11. /\ KeywordColumn' = KeywordColumn /\ KeyColumn' = KeyColumn
         /\ \A h : FileColumn(h)' = FileColumn(h)
    BY <1>1, KeysStay
  <2>12. \A h : Ambiguous(h)' = Ambiguous(h)
    BY <1>1 DEF Ambiguous
  <2>13. Numeric \cap Written' = {}
    BY <2>9 DEF Numeric
  <2>14. names' = [i \in DOMAIN request'.file.headers |-> StripHeader[request'.file.headers[i]]]
    BY <1>1 DEF FrameRight
  <2>15. mapping'["keyword"] \in ToSet(names')
    BY <1>1, <2>2
  <2>16. ASSUME NEW h \in ToSet(names') \ Written', ~ Ambiguous(h)' PROVE frame'[h] = FileColumn(h)'
    BY <1>1, <2>10, <2>11, <2>12, <2>16
  <2>17. ToSet(names') \cup Written' \subseteq DOMAIN frame'
    BY <1>1, <2>0, <2>1, <2>9 DEF With
  <2>18. QED
    BY <1>3, <2>8, <2>11, <2>13, <2>14, <2>15, <2>16, <2>17 DEF FrameRight
<1>4. QED
  BY <1>2, <1>3

\* What is written before a role is read is what was written when its turn comes.
LEMMA TurnOfRole ==
  ASSUME NEW n, AssigningTypes(n), todo # <<>>
  PROVE  /\ Head(todo) \in OtherRoles /\ WrittenBefore(Head(todo)) = Written
         /\ todo' = Tail(todo) => Written' = Written \cup {Head(todo)}
<1> DEFINE role == Head(todo)
           i == SelectInSeq(Roles, LAMBDA r : r = role)
<1>1. todo \in {<<"volume", "difficulty", "position", "url">>, <<"difficulty", "position", "url">>,
                <<"position", "url">>, <<"url">>}
  BY DEF AssigningTypes
<1>2. role \in OtherRoles
  <2>1. CASE todo = <<"volume", "difficulty", "position", "url">>
    BY <2>1 DEF OtherRoles
  <2>2. CASE todo = <<"difficulty", "position", "url">>
    BY <2>2 DEF OtherRoles
  <2>3. CASE todo = <<"position", "url">>
    BY <2>3 DEF OtherRoles
  <2>4. CASE todo = <<"url">>
    BY <2>4 DEF OtherRoles
  <2>5. QED
    BY <1>1, <2>1, <2>2, <2>3, <2>4
<1>3. i \in {1, 2, 3, 4, 5} /\ Roles[i] = role
  <2>1. DOMAIN Roles = 1 .. 5 /\ Len(Roles) = 5
    BY DEF Roles
  <2>2. role \in ToSet(Roles)
    BY <1>2, RolesAre DEF OtherRoles
  <2> HIDE DEF role
  <2>3. PICK e \in ToSet(Roles) : e = role
    BY <2>2
  <2>4. i \in 1 .. 5 /\ Roles[i] = role
    <3>1. SelectInSeq(Roles, LAMBDA x : x = e) \in DOMAIN Roles
          /\ Roles[SelectInSeq(Roles, LAMBDA x : x = e)] = e
      <4>1. Len(Roles) \in Nat /\ DOMAIN Roles = 1 .. Len(Roles)
        BY <2>1
      <4>2. QED
        BY <4>1, FirstPosition
    <3>2. QED
      BY <2>1, <2>3, <3>1
  <2>5. QED
    BY <2>4
<1>4. WrittenBefore(role) = {"keyword", "normalized_keyword"} \cup {Roles[k] : k \in 1 .. i - 1}
  BY DEF WrittenBefore
<1>5. /\ Roles[1] = "keyword" /\ Roles[2] = "volume" /\ Roles[3] = "difficulty"
      /\ Roles[4] = "position" /\ Roles[5] = "url"
  BY DEF Roles
<1> HIDE DEF i
<1>6. CASE todo = <<"volume", "difficulty", "position", "url">>
  <2>1. role = "volume" /\ Tail(todo) = <<"difficulty", "position", "url">>
    BY <1>6
  <2>2. i = 2
    BY <1>3, <1>5, <2>1
  <2>3. 1 .. i - 1 = {1}
    BY <2>2
  <2>4. WrittenBefore(role) = {"keyword", "normalized_keyword"}
    BY <1>4, <1>5, <2>3
  <2>5. QED
    BY <1>2, <1>6, <2>1, <2>4, ToDo DEF Written, OtherRoles
<1>7. CASE todo = <<"difficulty", "position", "url">>
  <2>1. role = "difficulty" /\ Tail(todo) = <<"position", "url">>
    BY <1>7
  <2>2. i = 3
    BY <1>3, <1>5, <2>1
  <2>3. 1 .. i - 1 = {1, 2}
    BY <2>2
  <2>4. WrittenBefore(role) = {"keyword", "normalized_keyword", "volume"}
    BY <1>4, <1>5, <2>3
  <2>5. QED
    BY <1>2, <1>7, <2>1, <2>4, ToDo DEF Written, OtherRoles
<1>8. CASE todo = <<"position", "url">>
  <2>1. role = "position" /\ Tail(todo) = <<"url">>
    BY <1>8
  <2>2. i = 4
    BY <1>3, <1>5, <2>1
  <2>3. 1 .. i - 1 = {1, 2, 3}
    BY <2>2
  <2>4. WrittenBefore(role) = {"keyword", "normalized_keyword", "volume", "difficulty"}
    BY <1>4, <1>5, <2>3
  <2>5. QED
    BY <1>2, <1>8, <2>1, <2>4, ToDo DEF Written, OtherRoles
<1>9. CASE todo = <<"url">>
  <2>1. role = "url" /\ Tail(todo) = <<>>
    BY <1>9
  <2>2. i = 5
    BY <1>3, <1>5, <2>1
  <2>3. 1 .. i - 1 = {1, 2, 3, 4}
    BY <2>2
  <2>4. WrittenBefore(role) = {"keyword", "normalized_keyword", "volume", "difficulty", "position"}
    BY <1>4, <1>5, <2>3
  <2>5. QED
    BY <1>2, <1>9, <2>1, <2>4, ToDo DEF Written, OtherRoles
<1>10. QED
  BY <1>1, <1>6, <1>7, <1>8, <1>9

\* The rows that are kept, and what the file has in them.
LEMMA KeptFacts ==
  ASSUME request \in Requests, names = Stripped(request.file), mapping["keyword"] \in ToSet(names)
  PROVE  /\ \E m \in Nat : UsableRows \in SUBSET (1 .. m) /\ DOMAIN request.file.rows = 1 .. m
         /\ DOMAIN Kept = 1 .. Cardinality(UsableRows) /\ Cardinality(UsableRows) \in Nat
         /\ \A p \in DOMAIN Kept : Kept[p] \in UsableRows
         /\ \A p, q \in DOMAIN Kept : p < q <=> Kept[p] < Kept[q]
         /\ \A r \in UsableRows : \E p \in DOMAIN Kept : Kept[p] = r
         /\ \A h \in ToSet(names) : \A p \in DOMAIN Kept : FileCells(h)[Kept[p]] \in FileCell
         /\ \A p \in DOMAIN Kept : FileCells(mapping["keyword"])[Kept[p]] \in DOMAIN StripCell
<1>1. PICK m \in Nat : DOMAIN request.file.rows = 1 .. m
  BY FileFacts
<1>2. UsableRows \in SUBSET (1 .. m)
  BY <1>1 DEF UsableRows
<1>3. /\ DOMAIN Kept = 1 .. Cardinality(UsableRows) /\ Cardinality(UsableRows) \in Nat
      /\ \A p \in DOMAIN Kept : Kept[p] \in UsableRows
      /\ \A p, q \in DOMAIN Kept : p < q <=> Kept[p] < Kept[q]
      /\ \A r \in UsableRows : \E p \in DOMAIN Kept : Kept[p] = r
  BY <1>1, <1>2, AscendingFacts DEF Kept
<1>4. \A h \in ToSet(names) : \A p \in DOMAIN Kept : FileCells(h)[Kept[p]] \in FileCell
  <2>1. ASSUME NEW h \in ToSet(names), NEW p \in DOMAIN Kept PROVE FileCells(h)[Kept[p]] \in FileCell
    <3>1. Kept[p] \in DOMAIN request.file.rows
      BY <1>3 DEF UsableRows
    <3>2. QED
      BY <3>1, FileFacts
  <2>2. QED
    BY <2>1
<1>5. ASSUME NEW p \in DOMAIN Kept
      PROVE  FileCells(mapping["keyword"])[Kept[p]] \in DOMAIN StripCell
  <2>1. Kept[p] \in UsableRows
    BY <1>3
  <2>2. FileCells(mapping["keyword"])[Kept[p]] # NaN
    BY <2>1 DEF UsableRows, Usable
  <2>3. QED
    BY <1>4, <2>2 DEF FileCell
<1>6. QED
  BY <1>1, <1>2, <1>3, <1>4, <1>5

\* An intact column gives its numbers, be it as it came or converted before.
LEMMA NumbersOfRole ==
  ASSUME FrameTypes, FrameRight, stage = "assigning", NEW n \in Nat, AssigningTypes(n), todo # <<>>,
         NEW role, role = Head(todo), role \in Numeric, Faithful(role), ~ Ambiguous(mapping[role])
  PROVE  Converted(role, mapping[role], n) = NumberColumn(role)
<1> DEFINE h == mapping[role]
           cells == frame[h]
<1>1. /\ role \in OtherRoles /\ WrittenBefore(role) = Written
  BY TurnOfRole
<1>2. h \in ToSet(names) /\ h # None
  BY <1>1, RolesAre DEF FrameTypes, Faithful, OtherRoles
<1>3. request \in Requests /\ names = Stripped(request.file) /\ mapping["keyword"] \in ToSet(names)
  BY DEF FrameTypes, FrameRight, Stripped
<1>4. DOMAIN Kept = 1 .. n
  <2>1. frame["normalized_keyword"] = KeyColumn /\ DOMAIN frame["normalized_keyword"] = 1 .. n
    BY DEF FrameRight, AssigningTypes, Holds
  <2>2. QED
    BY <2>1 DEF KeyColumn
<1>5. ASSUME NEW p \in 1 .. n PROVE NumberOf(cells[p]) = ParseNumber[FileCells(h)[Kept[p]]]
  <2> DEFINE cell == FileCells(h)[Kept[p]]
  <2>1. cell \in FileCell
    BY <1>2, <1>3, <1>4, KeptFacts
  <2>2. cell \in Cells
    BY <2>1 DEF FileCell
  <2>3. CASE h \notin Written
    <3>1. cells = FileColumn(h)
      BY <1>2, <2>3 DEF FrameRight
    <3>2. cells[p] = cell
      BY <1>4, <3>1 DEF FileColumn
    <3> HIDE DEF cell, cells
    <3>3. QED
      BY <2>2, <3>2 DEF NumberOf, cell
  <2>4. CASE h \in Written
    <3>1. h \in ToSet(Roles) /\ mapping[h] = h
      BY <1>1, <2>4 DEF Faithful, Overwritten
    <3>2. CASE h = "keyword"
      <4>1. frame["keyword"] = KeywordColumn /\ mapping["keyword"] = h
        BY <3>1, <3>2 DEF FrameRight
      <4>2. cells[p] = StripCell[cell]
        BY <1>4, <3>2, <4>1 DEF KeywordColumn
      <4>3. cell \in DOMAIN StripCell
        BY <1>3, <1>4, <4>1, KeptFacts
      <4> HIDE DEF cell, cells
      <4>4. StripCell[cell] \in Cells /\ ParseNumber[StripCell[cell]] = ParseNumber[cell]
        BY <2>2, <4>3, CellAssumption
      <4>5. QED
        BY <4>2, <4>4 DEF NumberOf, cell
    <3>3. CASE h # "keyword"
      <4>1. h \in Numeric \cap Written
        <5>1. h \in OtherRoles
          BY <3>1, <3>3, RolesAre DEF OtherRoles
        <5>2. "url" \notin Written
          <6>1. todo \in {<<"volume", "difficulty", "position", "url">>, <<"difficulty", "position", "url">>,
                          <<"position", "url">>, <<"url">>}
            BY DEF AssigningTypes
          <6>2. "url" \in ToSet(todo)
            BY <6>1, ToDo
          <6>3. QED
            BY <6>2 DEF Written
        <5>3. QED
          BY <2>4, <5>1, <5>2 DEF OtherRoles, Numeric
      <4>2. Faithful(h)
        BY <1>2, <3>1 DEF Faithful, Overwritten
      <4>3. cells = NumberColumn(h)
        BY <4>1, <4>2 DEF FrameRight
      <4>4. cells[p] = ParseNumber[cell]
        BY <1>4, <3>1, <4>3 DEF NumberColumn
      <4> HIDE DEF cell, cells
      <4>5. ParseNumber[cell] \in Int \cup {NaN}
        BY <2>2, CellAssumption
      <4>6. NumberOf(cells[p]) = cells[p]
        BY <4>4, <4>5, CellAssumption DEF NumberOf
      <4>7. QED
        BY <4>4, <4>6 DEF cell
    <3>4. QED
      BY <3>2, <3>3
  <2>5. QED
    BY <2>3, <2>4
<1>6. Converted(role, h, n) = [p \in 1 .. n |-> NumberOf(cells[p])]
  BY <1>2 DEF Converted
<1>7. NumberColumn(role) = [p \in 1 .. n |-> ParseNumber[FileCells(h)[Kept[p]]]]
  BY <1>4 DEF NumberColumn
<1> HIDE DEF h, cells
<1>8. Converted(role, h, n) = NumberColumn(role)
  BY <1>5, <1>6, <1>7
<1>9. QED
  BY <1>8 DEF h

LEMMA AssignRight ==
  ASSUME FrameTypes, FrameRight, AssignRole
  PROVE  FrameRight'
<1>1. /\ stage = "assigning" /\ todo # <<>>
      /\ UNCHANGED <<request, total, names, mapping, prepared>>
      /\ stage' \in {"INTERNAL_ERROR", "assigning"}
  BY DEF AssignRole
<1>2. CASE stage' # "assigning"
  BY <1>1, <1>2 DEF FrameRight
<1>3. CASE stage' = "assigning"
  <2>1. PICK n \in Nat \ {0} : AssigningTypes(n)
    BY <1>1 DEF FrameTypes
  <2>2. PICK role : role = Head(todo)
    OBVIOUS
  <2>3. /\ role \in OtherRoles
        /\ todo' = Tail(todo) => Written' = Written \cup {role}
    BY <1>1, <2>1, <2>2, TurnOfRole
  <2>4. Len(frame["keyword"]) = n
    BY <2>1 DEF AssigningTypes, Holds
  <2>5. /\ ~ Ambiguous(mapping[role]) /\ todo' = Tail(todo)
        /\ frame' = With(frame, role, Converted(role, mapping[role], n))
    BY <1>1, <1>3, <2>2, <2>4 DEF AssignRole
  <2>6. Written' = Written \cup {role}
    BY <2>3, <2>5
  <2>7. /\ DOMAIN frame' = DOMAIN frame \cup {role}
        /\ \A h \in DOMAIN frame : h # role => frame'[h] = frame[h]
        /\ frame'[role] = Converted(role, mapping[role], n)
    BY <2>5 DEF With
  <2>8. /\ KeywordColumn' = KeywordColumn /\ KeyColumn' = KeyColumn
        /\ \A h : FileColumn(h)' = FileColumn(h) /\ Ambiguous(h)' = Ambiguous(h)
        /\ \A r : NumberColumn(r)' = NumberColumn(r) /\ Faithful(r)' = Faithful(r)
    <3>1. \A h : Ambiguous(h)' = Ambiguous(h)
      BY <1>1 DEF Ambiguous
    <3>2. QED
      BY <1>1, <3>1, KeysStay
  <2>9. frame'["keyword"] = KeywordColumn' /\ frame'["normalized_keyword"] = KeyColumn'
    <3>1. role \notin {"keyword", "normalized_keyword"}
      BY <2>3 DEF OtherRoles
    <3>2. {"keyword", "normalized_keyword"} \subseteq DOMAIN frame
      BY <2>1 DEF AssigningTypes, Holds
    <3>3. QED
      BY <1>1, <2>7, <2>8, <3>1, <3>2 DEF FrameRight
  <2>10. ASSUME NEW h \in ToSet(names') \ Written', ~ Ambiguous(h)' PROVE frame'[h] = FileColumn(h)'
    BY <1>1, <2>6, <2>7, <2>8, <2>10 DEF FrameRight
  <2>11. ASSUME NEW r \in Numeric \cap Written', Faithful(r)' PROVE frame'[r] = NumberColumn(r)'
    <3>1. Faithful(r)
      BY <2>8, <2>11
    <3>2. CASE r = role
      <4>1. Converted(role, mapping[role], n) = NumberColumn(role)
        BY <1>1, <2>1, <2>2, <2>5, <3>1, <3>2, NumbersOfRole
      <4>2. QED
        BY <2>7, <2>8, <3>2, <4>1
    <3>3. CASE r # role
      BY <1>1, <2>6, <2>7, <2>8, <3>1, <3>3 DEF FrameRight
    <3>4. QED
      BY <3>2, <3>3
  <2>12. /\ names' = [i \in DOMAIN request'.file.headers |-> StripHeader[request'.file.headers[i]]]
         /\ mapping'["keyword"] \in ToSet(names')
         /\ ToSet(names') \cup Written' \subseteq DOMAIN frame'
    BY <1>1, <2>6, <2>7 DEF FrameRight
  <2>13. QED
    BY <1>3, <2>9, <2>10, <2>11, <2>12 DEF FrameRight
<1>4. QED
  BY <1>2, <1>3

LEMMA NextFrameRight ==
  ASSUME FrameTypes, FrameRight, [PipelineNext]_pipelineVars
  PROVE  FrameRight'
<1>1. CASE UNCHANGED ingestVars
  <2>1. /\ UNCHANGED <<stage, request, names, mapping, frame, todo>>
    BY <1>1 DEF ingestVars
  <2>2. /\ KeywordColumn' = KeywordColumn /\ KeyColumn' = KeyColumn
        /\ \A h : FileColumn(h)' = FileColumn(h)
        /\ \A r : NumberColumn(r)' = NumberColumn(r) /\ Faithful(r)' = Faithful(r)
    BY <2>1, KeysStay
  <2>3. ASSUME NEW h PROVE FileCells(h)' = FileCells(h) /\ Ambiguous(h)' = Ambiguous(h)
    BY <2>1, CellsStay DEF Ambiguous
  <2>4. Written' = Written
    BY <2>1 DEF Written
  <2>5. QED
    BY <2>1, <2>2, <2>3, <2>4 DEF FrameRight
<1>2. CASE CheckDeclared \/ ReadChunk
  BY <1>2 DEF CheckDeclared, ReadChunk, FrameRight
<1>3. CASE Deduplicate
  BY <1>3 DEF Deduplicate, FrameRight
<1>4. QED
  BY <1>1, <1>2, <1>3, ReadTableRight, ResolveRight, MaskRight, AssignRight
     DEF PipelineNext, IngestNext, HandOver, pipelineVars

\* Every usable keyword once, in order, and with the numbers of its rows.
TableFaithful(table) ==
  /\ {table[p].normalized_keyword : p \in DOMAIN table} = {KeyOf(r) : r \in UsableRows}
  /\ \A p, q \in DOMAIN table :
       p < q => Min(RowsFor(table[p].normalized_keyword)) < Min(RowsFor(table[q].normalized_keyword))
  /\ \A p \in DOMAIN table : \A role \in Numeric :
       Faithful(role) => IsFrom(table[p], role, mapping[role])

LEMMA FaithfulStays ==
  ASSUME UNCHANGED <<request, mapping, names>>, NEW table
  PROVE  TableFaithful(table)' = TableFaithful(table)
<1>1. UsableRows' = UsableRows
  BY RowsStay
<1>2. PICK h : h = mapping["keyword"]
  OBVIOUS
<1>3. FileCells(h)' = FileCells(h)
  BY CellsStay
<1>4. ASSUME NEW r PROVE KeyOf(r)' = KeyOf(r)
  BY <1>2, <1>3 DEF KeyOf
<1>5. ASSUME NEW k PROVE RowsFor(k)' = RowsFor(k)
  BY <1>1, <1>4 DEF RowsFor
<1>6. ASSUME NEW row, NEW role, NEW c PROVE IsFrom(row, role, c)' = IsFrom(row, role, c)
  <2>1. PICK mine : mine = RowsFor(row.normalized_keyword)
    OBVIOUS
  <2>2. mine = RowsFor(row.normalized_keyword)'
    BY <1>5, <2>1
  <2>3. FileCells(c)' = FileCells(c)
    BY CellsStay
  <2>4. QED
    BY <2>1, <2>2, <2>3 DEF IsFrom
<1>7. ASSUME NEW role
      PROVE  /\ Faithful(role)' = Faithful(role)
             /\ \A p \in DOMAIN table :
                  IsFrom(table[p], role, mapping[role])' = IsFrom(table[p], role, mapping[role])
  <2>1. PICK c : c = mapping[role]
    OBVIOUS
  <2>2. \A p \in DOMAIN table : IsFrom(table[p], role, c)' = IsFrom(table[p], role, c)
    BY <1>6
  <2>3. QED
    BY <2>1, <2>2, KeysStay
<1>8. QED
  BY <1>1, <1>4, <1>5, <1>7 DEF TableFaithful

\* Rows of the frame with one key are the usable rows of the file with it.
LEMMA LikeRows ==
  ASSUME request \in Requests, names = Stripped(request.file), mapping["keyword"] \in ToSet(names),
         NEW n \in Nat, DOMAIN Kept = 1 .. n, NEW x \in 1 .. n
  PROVE  LET is == Like(KeyColumn, n, x)
             mine == RowsFor(KeyColumn[x])
         IN  /\ IsFiniteSet(is) /\ IsFiniteSet(mine)
             /\ \A q \in is : Kept[q] \in mine
             /\ \A p, q \in is : Kept[p] = Kept[q] => p = q
             /\ \A r \in mine : \E q \in is : Kept[q] = r
             /\ Min(mine) = Kept[Min(is)]
<1> DEFINE is == Like(KeyColumn, n, x)
           mine == RowsFor(KeyColumn[x])
<1>1. /\ \A p \in 1 .. n : Kept[p] \in UsableRows /\ KeyColumn[p] = KeyOf(Kept[p])
      /\ \A p, q \in 1 .. n : p < q <=> Kept[p] < Kept[q]
      /\ \A r \in UsableRows : \E p \in 1 .. n : Kept[p] = r
  BY KeptFacts DEF KeyColumn
<1>2. PICK m \in Nat : UsableRows \in SUBSET (1 .. m)
  BY KeptFacts
<1>3. IsFiniteSet(is) /\ IsFiniteSet(mine)
  <2>1. is \subseteq 1 .. n /\ mine \subseteq 1 .. m
    BY <1>2 DEF Like, RowsFor
  <2>2. IsFiniteSet(1 .. n) /\ IsFiniteSet(1 .. m)
    BY FS_Interval
  <2> HIDE DEF is, mine
  <2>3. QED
    BY <2>1, <2>2, FS_Subset
<1>4. ASSUME NEW q \in is PROVE Kept[q] \in mine
  BY <1>1 DEF Like, RowsFor
<1>5. ASSUME NEW r \in mine PROVE \E q \in is : Kept[q] = r
  <2>1. r \in UsableRows /\ KeyOf(r) = KeyColumn[x]
    BY DEF RowsFor
  <2>2. PICK q \in 1 .. n : Kept[q] = r
    BY <1>1, <2>1
  <2>3. QED
    BY <1>1, <2>1, <2>2 DEF Like
<1>6. ASSUME NEW p \in 1 .. n, NEW q \in 1 .. n PROVE Kept[p] \in Nat /\ (p <= q <=> Kept[p] <= Kept[q])
  <2>1. Kept[p] \in 1 .. m /\ Kept[q] \in 1 .. m
    BY <1>1, <1>2
  <2>2. q < p <=> Kept[q] < Kept[p]
    BY <1>1
  <2>3. QED
    BY <2>1, <2>2
<1>7. ASSUME NEW p \in is, NEW q \in is, Kept[p] = Kept[q] PROVE p = q
  <2>1. p \in 1 .. n /\ q \in 1 .. n
    BY DEF Like
  <2>2. p <= q /\ q <= p
    BY <1>6, <1>7, <2>1
  <2>3. QED
    BY <2>1, <2>2
<1>8. Min(mine) = Kept[Min(is)]
  <2>1. is \in SUBSET Nat /\ x \in is
    BY DEF Like
  <2>2. Min(is) \in is /\ \A q \in is : Min(is) <= q
    <3> HIDE DEF is
    <3>1. QED
      BY <2>1, MinOfNaturals
  <2>3. mine \in SUBSET Nat /\ Kept[Min(is)] \in mine
    <3>1. mine \subseteq 1 .. m
      BY <1>2 DEF RowsFor
    <3> HIDE DEF is, mine
    <3>2. QED
      BY <1>4, <2>2, <3>1
  <2>4. Min(mine) \in mine /\ \A r \in mine : Min(mine) <= r
    <3> HIDE DEF mine
    <3>1. QED
      BY <2>3, MinOfNaturals
  <2>5. PICK q \in is : Kept[q] = Min(mine)
    BY <1>5, <2>4
  <2>6. Min(is) \in 1 .. n /\ q \in 1 .. n /\ Min(is) <= q
    BY <2>2 DEF Like
  <2> HIDE DEF is, mine
  <2>7. Kept[Min(is)] <= Kept[q]
    BY <1>6, <2>6
  <2>8. Min(mine) <= Kept[Min(is)] /\ Min(mine) \in Nat /\ Kept[Min(is)] \in Nat
    BY <2>3, <2>4
  <2>9. QED
    BY <2>5, <2>7, <2>8
<1>9. QED
  BY <1>3, <1>4, <1>5, <1>7, <1>8

\* A row of the table has the numbers of the rows of the file it stands for.
LEMMA RowIsFrom ==
  ASSUME request \in Requests, names = Stripped(request.file), mapping["keyword"] \in ToSet(names),
         NEW n \in Nat, DOMAIN Kept = 1 .. n, NEW x \in 1 .. n,
         NEW role \in Numeric, mapping[role] \in ToSet(names), frame[role] = NumberColumn(role)
  PROVE  IsFrom(Collapsed(KeyColumn[x], Like(KeyColumn, n, x)), role, mapping[role])
<1> DEFINE is == Like(KeyColumn, n, x)
           k == KeyColumn[x]
           mine == RowsFor(k)
           f == NumberColumn(role)
           g == [r \in mine |-> ParseNumber[FileCells(mapping[role])[r]]]
           known == {g[r] : r \in mine} \ {NaN}
           row == Collapsed(k, is)
<1>1. /\ IsFiniteSet(is) /\ IsFiniteSet(mine)
      /\ \A q \in is : Kept[q] \in mine
      /\ \A p, q \in is : Kept[p] = Kept[q] => p = q
      /\ \A r \in mine : \E q \in is : Kept[q] = r
  BY LikeRows
<1>2. ASSUME NEW q \in is PROVE f[q] = g[Kept[q]] /\ f[q] \in Number
  <2>1. q \in DOMAIN Kept
    BY DEF Like
  <2>2. f[q] = ParseNumber[FileCells(mapping[role])[Kept[q]]]
    BY <2>1 DEF NumberColumn
  <2>3. FileCells(mapping[role])[Kept[q]] \in FileCell
    BY <2>1, KeptFacts
  <2>4. ParseNumber[FileCells(mapping[role])[Kept[q]]] \in Number
    BY <2>3, CellAssumption DEF FileCell, Number
  <2>5. QED
    BY <1>1, <2>2, <2>4
<1>3. row.normalized_keyword = k
  BY DEF Collapsed
<1>4. IsFrom(row, role, mapping[role]) <=>
        IF role # "volume" THEN row[role] = MeanOf(g, mine)
        ELSE IF known = {} THEN row.volume = NaN
        ELSE row.volume \in known /\ \A m \in known : m <= row.volume
  BY <1>3 DEF IsFrom
<1>5. /\ row.volume = MaxOf(frame["volume"], is)
      /\ row["difficulty"] = MeanOf(frame["difficulty"], is)
      /\ row["position"] = MeanOf(frame["position"], is)
  <2> HIDE DEF k, is
  <2>1. QED
    BY DEF Collapsed
<1> HIDE DEF is, k, mine, f, g, row
<1>6. PICK keep : keep = Kept
  OBVIOUS
<1>7. Numbered(keep, f, is, g, mine)
  BY <1>1, <1>2, <1>6 DEF Numbered, Carries
<1>8. frame[role] = f
  BY DEF f
<1>9. CASE role # "volume"
  <2>1. row[role] = MeanOf(f, is)
    BY <1>5, <1>8, <1>9 DEF Numeric
  <2>2. MeanOf(f, is) = MeanOf(g, mine)
    BY <1>7, MeanMoves
  <2>3. QED
    BY <1>4, <1>9, <2>1, <2>2 DEF row, k, is
<1>10. CASE role = "volume"
  <2>1. row.volume = MaxOf(f, is)
    BY <1>5, <1>8, <1>10
  <2>2. IF known = {} THEN MaxOf(f, is) = NaN
        ELSE MaxOf(f, is) \in known /\ \A m \in known : m <= MaxOf(f, is)
    BY <1>7, MaxMoves
  <2> HIDE DEF known
  <2>3. QED
    BY <1>4, <1>10, <2>1, <2>2 DEF row, k, is
<1>11. QED
  BY <1>9, <1>10

LEMMA DeduplicateFaithful ==
  ASSUME FrameTypes, FrameRight, Deduplicate
  PROVE  PreparedFaithful'
<1> DEFINE key == frame["normalized_keyword"]
           like(r) == {q \in DOMAIN key : key[q] = key[r]}
           first == Ascending({r \in DOMAIN key : r = Min(like(r))})
           table == [p \in DOMAIN first |-> Collapsed(key[first[p]], like(first[p]))]
<1>1. /\ stage = "assigning" /\ todo = <<>> /\ stage' = "prepared"
      /\ UNCHANGED <<request, total, frame, names, mapping, todo>>
      /\ prepared' = table
  BY DEF Deduplicate
<1>2. PICK n \in Nat \ {0} : AssigningTypes(n)
  BY <1>1 DEF FrameTypes
<1>3. key = KeyColumn /\ DOMAIN key = 1 .. n /\ DOMAIN Kept = 1 .. n
  <2>1. frame["normalized_keyword"] = KeyColumn /\ DOMAIN frame["normalized_keyword"] = 1 .. n
    BY <1>1, <1>2 DEF FrameRight, AssigningTypes, Holds
  <2>2. QED
    BY <2>1 DEF KeyColumn
<1>4. request \in Requests /\ names = Stripped(request.file) /\ mapping["keyword"] \in ToSet(names)
  BY <1>1 DEF FrameTypes, FrameRight, Stripped
<1>5. first = FirstRows(KeyColumn, n) /\ \A r : like(r) = Like(KeyColumn, n, r)
  BY <1>3 DEF FirstRows, Like
<1>6. table = [p \in DOMAIN first |-> Collapsed(KeyColumn[first[p]], Like(KeyColumn, n, first[p]))]
  BY <1>3, <1>5
<1> HIDE DEF key, like, first, table
<1>7. /\ \A p \in DOMAIN first : first[p] \in 1 .. n /\ first[p] = Min(Like(KeyColumn, n, first[p]))
      /\ \A p, q \in DOMAIN first : p < q => first[p] < first[q]
      /\ \A x \in 1 .. n : \E p \in DOMAIN first : KeyColumn[first[p]] = KeyColumn[x]
  <2>1. PICK k : k = KeyColumn
    OBVIOUS
  <2>2. /\ \A p \in DOMAIN FirstRows(k, n) : FirstRows(k, n)[p] \in 1 .. n
                /\ FirstRows(k, n)[p] = Min(Like(k, n, FirstRows(k, n)[p]))
        /\ \A p, q \in DOMAIN FirstRows(k, n) : p < q => FirstRows(k, n)[p] < FirstRows(k, n)[q]
        /\ \A x \in 1 .. n : \E p \in DOMAIN FirstRows(k, n) : k[FirstRows(k, n)[p]] = k[x]
    BY FirstRowFacts
  <2>3. QED
    BY <1>5, <2>1, <2>2
<1>8. DOMAIN table = DOMAIN first
  BY <1>6
<1>9. ASSUME NEW p \in DOMAIN first
      PROVE  /\ table[p] = Collapsed(KeyColumn[first[p]], Like(KeyColumn, n, first[p]))
             /\ table[p].normalized_keyword = KeyColumn[first[p]]
             /\ Min(RowsFor(table[p].normalized_keyword)) = Kept[first[p]]
  <2>1. table[p] = Collapsed(KeyColumn[first[p]], Like(KeyColumn, n, first[p]))
    BY <1>6
  <2>2. table[p].normalized_keyword = KeyColumn[first[p]]
    BY <2>1 DEF Collapsed
  <2>3. PICK x \in 1 .. n : x = first[p]
    BY <1>7
  <2>4. Min(RowsFor(KeyColumn[x])) = Kept[Min(Like(KeyColumn, n, x))]
    BY <1>3, <1>4, LikeRows
  <2>5. x = Min(Like(KeyColumn, n, x))
    BY <1>7, <2>3
  <2>6. QED
    BY <2>1, <2>2, <2>3, <2>4, <2>5
<1>10. {table[p].normalized_keyword : p \in DOMAIN table} = {KeyOf(r) : r \in UsableRows}
  <2>1. /\ \A p \in 1 .. n : Kept[p] \in UsableRows /\ KeyColumn[p] = KeyOf(Kept[p])
        /\ \A r \in UsableRows : \E p \in 1 .. n : Kept[p] = r
    BY <1>3, <1>4, KeptFacts DEF KeyColumn
  <2>2. ASSUME NEW p \in DOMAIN table
        PROVE  \E r \in UsableRows : table[p].normalized_keyword = KeyOf(r)
    BY <1>7, <1>8, <1>9, <2>1
  <2>3. ASSUME NEW r \in UsableRows
        PROVE  \E p \in DOMAIN table : table[p].normalized_keyword = KeyOf(r)
    <3>1. PICK x \in 1 .. n : Kept[x] = r
      BY <2>1
    <3>2. PICK p \in DOMAIN first : KeyColumn[first[p]] = KeyColumn[x]
      BY <1>7
    <3>3. QED
      BY <1>8, <1>9, <2>1, <3>1, <3>2
  <2>4. QED
    BY <2>2, <2>3
<1>11. ASSUME NEW p \in DOMAIN table, NEW q \in DOMAIN table, p < q
       PROVE  Min(RowsFor(table[p].normalized_keyword)) < Min(RowsFor(table[q].normalized_keyword))
  <2>1. first[p] \in 1 .. n /\ first[q] \in 1 .. n /\ first[p] < first[q]
    BY <1>7, <1>8, <1>11
  <2>2. Kept[first[p]] < Kept[first[q]]
    BY <1>3, <1>4, <2>1, KeptFacts
  <2>3. QED
    BY <1>8, <1>9, <2>2
<1>12. ASSUME NEW p \in DOMAIN table, NEW role \in Numeric, Faithful(role)
       PROVE  IsFrom(table[p], role, mapping[role])
  <2>1. PICK x \in 1 .. n : x = first[p]
    BY <1>7, <1>8
  <2>2. mapping[role] \in ToSet(names)
    BY <1>1, <1>12, RolesAre DEF FrameTypes, Faithful, Numeric
  <2>3. frame[role] = NumberColumn(role)
    <3>1. role \in Written
      BY <1>1, ToDo DEF Written, OtherRoles, Numeric
    <3>2. QED
      BY <1>1, <1>12, <3>1 DEF FrameRight
  <2>4. IsFrom(Collapsed(KeyColumn[x], Like(KeyColumn, n, x)), role, mapping[role])
    BY <1>3, <1>4, <2>2, <2>3, RowIsFrom
  <2>5. QED
    BY <1>8, <1>9, <2>1, <2>4
<1>13. TableFaithful(table)
  BY <1>10, <1>11, <1>12 DEF TableFaithful
<1>14. PICK t : t = table
  OBVIOUS
<1>15. TableFaithful(t)'
  BY <1>1, <1>13, <1>14, FaithfulStays
<1>16. prepared' = t
  BY <1>1, <1>14
<1>17. QED
  BY <1>15, <1>16 DEF PreparedFaithful, TableFaithful, Faithful

\* The prepared table has every usable keyword of the file once, in order of
\* appearance, with the numbers of its rows (pipeline.py, prepare_dataframe and
\* _dedupe_keywords), although columns are overwritten while others are read.
THEOREM TableIsFaithful ==
  PipelineSpec => []PreparedFaithful
<1>1. PipelineInit => FrameTypes /\ FrameRight /\ PreparedFaithful
  <2> SUFFICES ASSUME PipelineInit PROVE FrameTypes /\ FrameRight /\ PreparedFaithful
    OBVIOUS
  <2>1. stage = "arriving"
    BY DEF PipelineInit, IngestInit
  <2>2. QED
    BY <2>1, InitFrameTypes DEF FrameRight, PreparedFaithful
<1>2. FrameTypes /\ FrameRight /\ [PipelineNext]_pipelineVars => FrameTypes' /\ FrameRight'
  BY NextFrameTypes, NextFrameRight
<1>3. FrameTypes /\ FrameRight /\ PreparedFaithful /\ [PipelineNext]_pipelineVars => PreparedFaithful'
  <2> SUFFICES ASSUME FrameTypes, FrameRight, PreparedFaithful, [PipelineNext]_pipelineVars
               PROVE  PreparedFaithful'
    OBVIOUS
  <2>1. CASE UNCHANGED ingestVars
    <3>1. UNCHANGED <<stage, request, mapping, names, prepared>>
      BY <2>1 DEF ingestVars
    <3>2. PICK t : t = prepared
      OBVIOUS
    <3>3. TableFaithful(t)' = TableFaithful(t)
      BY <3>1, FaithfulStays
    <3>4. stage = "prepared" => TableFaithful(t)
      BY <3>2 DEF PreparedFaithful, TableFaithful, Faithful
    <3>5. prepared' = t
      BY <3>1, <3>2
    <3>6. QED
      BY <3>1, <3>3, <3>4, <3>5 DEF PreparedFaithful, TableFaithful, Faithful
  <2>2. CASE Deduplicate
    BY <2>2, DeduplicateFaithful
  <2>3. CASE IngestNext /\ ~ Deduplicate
    <3>1. stage' # "prepared"
      <4>1. CASE ReadTable
        BY <4>1, ReadErrors DEF ReadTable, FrameTypes
      <4>2. CASE ~ ReadTable
        BY <2>3, <4>2 DEF IngestNext, CheckDeclared, ReadChunk, Resolve, MaskKeywords, AssignRole
      <4>3. QED
        BY <4>1, <4>2
    <3>2. QED
      BY <3>1 DEF PreparedFaithful
  <2>4. QED
    BY <2>1, <2>2, <2>3 DEF PipelineNext, HandOver, pipelineVars
<1>4. QED
  BY <1>1, <1>2, <1>3, PTL DEF PipelineSpec
=============================================================================
