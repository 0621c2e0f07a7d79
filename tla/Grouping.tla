------------------------------ MODULE Grouping ------------------------------
(***************************************************************************)
(* ClusterPipeline.run after prepare_dataframe, a stage at a time.  The    *)
(* vectors are the business of numerical libraries: the model takes any    *)
(* similarities, any order of equally near neighbours, and any scores.     *)
(***************************************************************************)
EXTENDS GroupingOps

VARIABLES at,         \* the stage
          rows,       \* the prepared table
          sem, lex,   \* similarities of the semantic and lexical vectors
          pairs,      \* candidate pairs
          lexSims,    \* their lexical similarities, an uninitialised array at first
          start,      \* of the next block of pairs to be scored
          graph,
          snapshot,   \* the labels before the split
          labels,     \* current_labels
          nextLabel,
          pending,    \* the groups that still have to be given a label
          result      \* what run() returns

groupingVars == <<at, rows, sem, lex, pairs, lexSims, start, graph, snapshot, labels,
                  nextLabel, pending, result>>

Empty == <<>>
NoResult == [rows |-> Empty, clusters |-> Empty]
Rows == DOMAIN rows

GroupingInit ==
  /\ at = "idle"
  /\ rows = Empty
  /\ sem = Empty /\ lex = Empty /\ pairs = Empty /\ lexSims = Empty /\ start = 0
  /\ graph = {}
  /\ snapshot = Empty /\ labels = Empty /\ nextLabel = 0 /\ pending = {}
  /\ result = NoResult

\* run is called with what prepare_dataframe returned.
Run(table) ==
  /\ at = "idle"
  /\ at' = "vectors"
  /\ rows' = table
  /\ UNCHANGED <<sem, lex, pairs, lexSims, start, graph, snapshot, labels,
                 nextLabel, pending, result>>

\* _lexical_vectors and _semantic_vectors, or keywords with no features.
Vectorize ==
  /\ at = "vectors"
  /\ \/ /\ at' = "neighbors"
        /\ sem' \in [Couples(Rows) -> Levels]
        /\ lex' \in [Couples(Rows) -> Levels]
     \/ at' = "NO_KEYWORDS" /\ UNCHANGED <<sem, lex>>
  /\ UNCHANGED <<rows, pairs, lexSims, start, graph, snapshot, labels, nextLabel,
                 pending, result>>

\* A single row needs no neighbours.
Neighbors ==
  /\ at = "neighbors"
  /\ IF Len(rows) = 1
     THEN /\ graph' = {<<1, 1>>}
          /\ at' = "components"
          /\ UNCHANGED <<pairs, lexSims>>
     ELSE LET k == NeighborsOf(Len(rows))
              lists == [i \in Rows |-> NearestLists(sem, Rows, i, k)]
          IN  /\ \E near \in [Rows -> UNION {lists[i] : i \in Rows}] :
                   /\ \A i \in Rows : near[i] \in lists[i]
                   /\ pairs' = Candidates(near, k)
              /\ \E garbage \in Levels : lexSims' = [p \in 1 .. Len(rows) * k |-> garbage]
              /\ at' = "scoring"
              /\ UNCHANGED graph
  /\ UNCHANGED <<rows, sem, lex, start, snapshot, labels, nextLabel, pending, result>>

\* Faulty: only whole blocks are scored.
ScoreWholeBlock ==
  /\ at = "scoring"
  /\ LET end == start + PairBlock
     IN  IF end <= Len(pairs)
         THEN /\ lexSims' = [p \in DOMAIN pairs |->
                               IF start < p /\ p <= end
                               THEN Similarity(lex, pairs[p][1], pairs[p][2]) ELSE lexSims[p]]
              /\ start' = end
              /\ UNCHANGED at
         ELSE at' = "threshold" /\ UNCHANGED <<lexSims, start>>
  /\ UNCHANGED <<rows, sem, lex, pairs, graph, snapshot, labels, nextLabel, pending, result>>

\* One turn of the loop over blocks of pairs.
ScoreBlock ==
  /\ at = "scoring"
  /\ IF start < Len(pairs)
     THEN /\ lexSims' = [p \in DOMAIN pairs |->
                           IF start < p /\ p <= start + PairBlock
                           THEN Similarity(lex, pairs[p][1], pairs[p][2]) ELSE lexSims[p]]
          /\ start' = start + PairBlock
          /\ UNCHANGED at
     ELSE at' = "threshold" /\ UNCHANGED <<lexSims, start>>
  /\ UNCHANGED <<rows, sem, lex, pairs, graph, snapshot, labels, nextLabel, pending, result>>

BuildGraph ==
  /\ at = "threshold"
  /\ graph' = GraphOf(Rows, pairs, sem, lexSims)
  /\ at' = "components"
  /\ UNCHANGED <<rows, sem, lex, pairs, lexSims, start, snapshot, labels, nextLabel,
                 pending, result>>

\* Faulty: the next label is taken already when there is more than one.
ComponentsStale ==
  /\ at = "components"
  /\ snapshot' = ComponentsOf(graph, Rows)
  /\ labels' = snapshot'
  /\ nextLabel' = Max({snapshot'[i] : i \in Rows})
  /\ pending' = {g \in GroupsOf(rows, snapshot') : ~ KeepsLabel(rows, snapshot', g)}
  /\ at' = "splitting"
  /\ sem' = Empty /\ lex' = Empty /\ pairs' = Empty /\ lexSims' = Empty /\ start' = 0
  /\ graph' = {}
  /\ UNCHANGED <<rows, result>>

\* The vectors go (del lexical, semantic); _cluster_from_graph, and the labels
\* _post_split starts from.  The graph only serves the quality scores from here.
Components ==
  /\ at = "components"
  /\ snapshot' = ComponentsOf(graph, Rows)
  /\ labels' = snapshot'
  /\ nextLabel' = Max({snapshot'[i] : i \in Rows}) + 1
  /\ pending' = {g \in GroupsOf(rows, snapshot') : ~ KeepsLabel(rows, snapshot', g)}
  /\ at' = "splitting"
  /\ sem' = Empty /\ lex' = Empty /\ pairs' = Empty /\ lexSims' = Empty /\ start' = 0
  /\ graph' = {}
  /\ UNCHANGED <<rows, result>>

\* The innermost turn of _post_split: the next group gets a label of its own.
SplitOff ==
  /\ at = "splitting"
  /\ \E g \in pending :
       /\ \A h \in pending \ {g} : GroupBefore(rows, snapshot, g, h)
       /\ labels' = [i \in Rows |->
                       IF GroupOf(rows, snapshot, i) = g THEN nextLabel ELSE labels[i]]
       /\ nextLabel' = nextLabel + 1
       /\ pending' = pending \ {g}
  /\ UNCHANGED <<at, rows, sem, lex, pairs, lexSims, start, graph, snapshot, result>>

EndSplit ==
  /\ at = "splitting"
  /\ pending = {}
  /\ at' = "describing"
  /\ UNCHANGED <<rows, sem, lex, pairs, lexSims, start, graph, snapshot, labels,
                 nextLabel, pending, result>>

ClusterRecord(c, score) ==
  LET ms == Members(labels, c)
  IN  [canonical_keyword |-> rows[CanonicalOf(rows, ms, score)].keyword,
       intent |-> ModeOf([i \in ms |-> rows[i].intent], ms),
       page_type |-> ModeOf([i \in ms |-> rows[i].page_type], ms),
       is_clustered |-> Cardinality(ms) >= MinClusterSize,
       keyword_count |-> Cardinality(ms)]

\* A row as returned: what belongs to the cluster overwrites what it was tagged with.
RowRecord(i, clusters) ==
  LET c == clusters[labels[i]]
  IN  [keyword |-> rows[i].keyword, cluster_id |-> labels[i],
       is_clustered |-> Cardinality(Members(labels, labels[i])) >= MinClusterSize,
       canonical_keyword |-> c.canonical_keyword, intent |-> c.intent,
       page_type |-> c.page_type]

\* _min_size_mask, the loop over clusters, the maps back to the rows, the sort.
\* Scores are numbers of the data: any two rows may be in any order or equal.
Describe ==
  /\ at = "describing"
  /\ IF Describable(rows, labels)
     THEN \E score \in [Rows -> 0 .. Len(rows) - 1] :
            LET clusters == [c \in {labels[i] : i \in Rows} |-> ClusterRecord(c, score)]
                order == Sorted(rows, labels)
            IN  /\ result' = [rows |-> [p \in Rows |-> RowRecord(order[p], clusters)],
                              clusters |-> clusters]
                /\ at' = "done"
     ELSE at' = "INTERNAL_ERROR" /\ UNCHANGED result
  /\ UNCHANGED <<rows, sem, lex, pairs, lexSims, start, graph, snapshot, labels,
                 nextLabel, pending>>

GroupingNext ==
  \/ Vectorize \/ Neighbors \/ ScoreBlock \/ BuildGraph
  \/ Components \/ SplitOff \/ EndSplit \/ Describe

-----------------------------------------------------------------------------

\* After the split two keywords share a cluster just when they shared a component
\* and agree on topic and intent: no label is given twice, although labels are
\* taken while later components still hold theirs (pipeline.py, _post_split).
SplitExact ==
  at \in {"describing", "done"} =>
    \A i, j \in Rows :
      labels[i] = labels[j] <=>
        /\ snapshot[i] = snapshot[j]
        /\ rows[i].topic_root = rows[j].topic_root
        /\ SplitOnIntent => rows[i].intent = rows[j].intent
        /\ SplitOnModifiers => rows[i].modifier_group = rows[j].modifier_group
=============================================================================
