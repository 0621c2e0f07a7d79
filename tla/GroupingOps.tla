---------------------------- MODULE GroupingOps ----------------------------
(***************************************************************************)
(* The pure parts of ClusterPipeline.run after prepare_dataframe           *)
(* (clusteriq_engine/pipeline.py): the similarity graph, its connected     *)
(* components, the split of a component by intent and topic, the choice of *)
(* a cluster's canonical keyword and the tables that are returned.         *)
(*                                                                         *)
(* A table of n prepared keywords is a sequence; a row is its position, as *)
(* in the code, where reset_index makes positions and index agree.         *)
(***************************************************************************)
EXTENDS Numbers, Sequences

CONSTANTS Levels,            \* cosine similarities, in tenths: 10 is identical
          SemanticWeight, LexicalWeight, Threshold,  \* in tenths and hundredths
          NeighborK,         \* neighbor_k
          PairBlock,         \* SIM_PAIR_BLOCK
          MinClusterSize,
          SplitOnIntent, SplitOnModifiers,
          Labels             \* intents and page types, in alphabetical order

Same == 10

ASSUME GroupingAssumption ==
  /\ Levels \subseteq 0 .. Same
  /\ SemanticWeight \in Nat /\ LexicalWeight \in Nat /\ Threshold \in Nat \ {0}
  /\ NeighborK \in Nat \ {0} /\ PairBlock \in Nat \ {0} /\ MinClusterSize \in Nat
  /\ SplitOnIntent \in BOOLEAN /\ SplitOnModifiers \in BOOLEAN
  /\ Len(Labels) \in Nat /\ DOMAIN Labels = 1 .. Len(Labels)
  /\ {"commercial", "informational", "navigational", "transactional"}
       \subseteq {Labels[l] : l \in DOMAIN Labels}

-----------------------------------------------------------------------------
(* Similarities: a symmetric function is one on two-element sets of rows.  *)

Couples(rs) == {c \in SUBSET rs : Cardinality(c) = 2}
Similarity(f, i, j) == IF i = j THEN Same ELSE f[{i, j}]

\* How many neighbours are kept of each of n rows.
NeighborsOf(n) == Min({NeighborK, Max({1, n - 1})})

\* What NearestNeighbors may answer for row i: itself and its neighbours,
\* nearest first.  Rows at the same distance come in any order, and then the
\* row itself need not come first.
NearestLists(f, rs, i, k) ==
  {s \in [1 .. k + 1 -> rs] :
     /\ \A p, q \in 1 .. k + 1 :
          p < q => s[p] # s[q] /\ Similarity(f, i, s[p]) >= Similarity(f, i, s[q])
     /\ \A j \in rs :
          (\E p \in 1 .. k + 1 : s[p] = j)
          \/ Similarity(f, i, j) <= Similarity(f, i, s[k + 1])}

\* (rows, cols): k pairs per row; the first column is cut off, as the row itself.
Candidates(near, k) ==
  [p \in 1 .. Len(near) * k |->
     LET i == ((p - 1) \div k) + 1 IN <<i, near[i][((p - 1) % k) + 2]>>]

Hybrid(sem, lex) == SemanticWeight * sem + LexicalWeight * lex

\* The candidates that are similar enough, both ways, and every row with itself.
GraphOf(rs, pairs, sem, lexSims) ==
  LET kept == {p \in DOMAIN pairs :
                 Hybrid(Similarity(sem, pairs[p][1], pairs[p][2]), lexSims[p]) >= Threshold}
  IN  {pairs[p] : p \in kept} \cup {<<pairs[p][2], pairs[p][1]>> : p \in kept}
        \cup {<<i, i>> : i \in rs}

-----------------------------------------------------------------------------
(* Components and the split *)

\* i and j are joined by a path: no set closed under the edges keeps them apart.
Linked(g, rs, i, j) ==
  \A S \in SUBSET rs :
    i \in S /\ (\A e \in g : e[1] \in S => e[2] \in S) => j \in S

\* connected_components: components are numbered from 0 by their first rows.
ComponentsOf(g, rs) ==
  LET first == [i \in rs |-> Min({j \in rs : Linked(g, rs, i, j)})]
  IN  [i \in rs |-> Cardinality({first[j] : j \in {k \in rs : first[k] < first[i]}})]

\* The values of a row in group_cols.
SplitKey(row) ==
  <<row.topic_root,
    IF SplitOnIntent THEN row.intent ELSE NaN,
    IF SplitOnModifiers THEN row.modifier_group ELSE NaN>>

\* A group is a label with a key; the group of the first row of a label keeps
\* the label, every other group gets one of its own.
GroupOf(rows, snapshot, i) == <<snapshot[i], SplitKey(rows[i])>>
GroupsOf(rows, snapshot) == {GroupOf(rows, snapshot, i) : i \in DOMAIN rows}
FirstRow(rows, snapshot, g) == Min({i \in DOMAIN rows : GroupOf(rows, snapshot, i) = g})
FirstOfLabel(rows, snapshot, c) == Min({i \in DOMAIN rows : snapshot[i] = c})

\* Faulty: the first group of a label is not skipped.
KeepsLabelNever(rows, snapshot, g) == FALSE

KeepsLabel(rows, snapshot, g) ==
  FirstRow(rows, snapshot, g) = FirstOfLabel(rows, snapshot, g[1])

\* The order of the two loops: labels ascending, groups as they first appear.
GroupBefore(rows, snapshot, g, h) ==
  \/ g[1] < h[1]
  \/ g[1] = h[1] /\ FirstRow(rows, snapshot, g) < FirstRow(rows, snapshot, h)

-----------------------------------------------------------------------------
(* Descriptors *)

Members(labels, c) == {i \in DOMAIN labels : labels[i] = c}

TotalVolume(rows, ms) == MapThenSumSet(LAMBDA i : Known(rows[i].volume), ms)

\* log1p of a total volume of -1 or less is a ValueError.
Describable(rows, labels) ==
  \A i \in DOMAIN rows : TotalVolume(rows, Members(labels, labels[i])) > -1

\* Faulty: ties are not broken, the whole table is searched.
CanonicalOfAll(rows, ms, score) ==
  CHOOSE i \in DOMAIN rows : \A j \in DOMAIN rows : score[i] >= score[j]

\* lexsort: by score, then by volume, then the first row.
CanonicalOf(rows, ms, score) ==
  CHOOSE i \in ms : \A j \in ms :
    \/ score[i] > score[j]
    \/ score[i] = score[j] /\ Known(rows[i].volume) > Known(rows[j].volume)
    \/ score[i] = score[j] /\ Known(rows[i].volume) = Known(rows[j].volume) /\ i <= j

\* _fast_mode: the most frequent value, the first in alphabetical order of several.
ModeOf(value, ms) ==
  LET count(l) == Cardinality({i \in ms : value[i] = Labels[l]})
  IN  Labels[Min({l \in DOMAIN Labels : \A m \in DOMAIN Labels : count(l) >= count(m)})]

\* sort_values of the rows: by cluster, then by volume, missing volumes last.
RowBefore(rows, labels, i, j) ==
  \/ labels[i] < labels[j]
  \/ /\ labels[i] = labels[j]
     /\ LET v == rows[i].volume   w == rows[j].volume
        IN  \/ v # NaN /\ (w = NaN \/ v > w)
            \/ v = w /\ i < j

Sorted(rows, labels) ==
  [p \in DOMAIN rows |->
     CHOOSE i \in DOMAIN rows :
       Cardinality({j \in DOMAIN rows : RowBefore(rows, labels, j, i)}) = p - 1]
=============================================================================
