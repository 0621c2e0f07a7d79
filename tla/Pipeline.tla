------------------------------ MODULE Pipeline ------------------------------
(***************************************************************************)
(* A request from its upload to its outcome: Ingest prepares the table     *)
(* that Grouping clusters.  A preview ends with the mapping.               *)
(***************************************************************************)
EXTENDS Ingest, Grouping

pipelineVars == <<ingestVars, groupingVars>>

PipelineInit == IngestInit /\ GroupingInit

\* run: what prepare_dataframe returned goes on to the vectors.
HandOver ==
  /\ stage = "prepared"
  /\ Run(prepared)
  /\ UNCHANGED ingestVars

PipelineNext ==
  \/ IngestNext /\ UNCHANGED groupingVars
  \/ HandOver
  \/ GroupingNext /\ UNCHANGED ingestVars

PipelineSpec == PipelineInit /\ [][PipelineNext]_pipelineVars

Clustered == at = "done"

-----------------------------------------------------------------------------
(* Properties *)

\* Every variable has its type; a request that did not reach the grouping leaves
\* it idle, and nothing of the vectors is kept once there are components.
TypeOK ==
  /\ stage \in {"arriving", "receiving", "received", "parsed", "masking", "assigning",
                "prepared", "previewed", "FILE_TOO_LARGE", "EMPTY_FILE", "UNPARSEABLE_FILE",
                "UNPARSEABLE_XLSX", "UNPARSEABLE_XLS", "NO_ROWS", "TOO_MANY_ROWS",
                "KEYWORD_COLUMN_NOT_FOUND", "NO_KEYWORDS", "INTERNAL_ERROR"}
  /\ total \in 0 .. request.file.size
  /\ DOMAIN mapping \in {{}, ToSet(Roles)}
  /\ \A p \in DOMAIN prepared : prepared[p].volume \in Int \/ prepared[p].volume = NaN
  /\ at \in {"idle", "vectors", "neighbors", "scoring", "threshold", "components", "splitting",
             "describing", "done", "NO_KEYWORDS", "INTERNAL_ERROR"}
  /\ rows = IF at = "idle" THEN <<>> ELSE prepared
  /\ DOMAIN labels \in {{}, DOMAIN rows} /\ DOMAIN snapshot = DOMAIN labels
  /\ nextLabel \in 0 .. Len(rows)
  /\ at \in {"splitting", "describing", "done"} => lex = <<>> /\ lexSims = <<>>

\* The reader never holds more than the limit and one chunk, a file over a limit
\* is never parsed, and a file within the limits is refused as too large only for
\* a workbook that expands or a Content-Length beyond the slack
\* (hardening.py, read_upload_limited; ingest.py, read_table).
UploadTruthful ==
  LET f == request.file
  IN  /\ total <= EFFECTIVE_MAX_UPLOAD_BYTES + ChunkBytes
      /\ stage \notin {"arriving", "receiving", "FILE_TOO_LARGE"} => total = f.size
      /\ names # <<>> => f.size <= Min({EFFECTIVE_MAX_UPLOAD_BYTES, MAX_UPLOAD_BYTES})
      /\ stage = "FILE_TOO_LARGE" =>
           \/ f.size > Min({EFFECTIVE_MAX_UPLOAD_BYTES, MAX_UPLOAD_BYTES})
           \/ f.kind = "xlsx" /\ f.expands > MAX_XLSX_UNCOMPRESSED_BYTES
           \/ request.declared # None /\ request.declared > f.size + FramingSlack

-----------------------------------------------------------------------------
(* What the prepared table should be, from the file alone. *)

\* The cells of the file under a header.
FileCells(h) ==
  [r \in DOMAIN request.file.rows |->
     request.file.rows[r][CHOOSE i \in DOMAIN names : names[i] = h]]

UsableRows == {r \in DOMAIN request.file.rows : Usable(FileCells(mapping["keyword"])[r])}
KeyOf(r) == NormalizeText[StripCell[FileCells(mapping["keyword"])[r]]]
RowsFor(k) == {r \in UsableRows : KeyOf(r) = k}

\* A row's value of a role is that of the column with header h.
IsFrom(row, role, h) ==
  LET mine == RowsFor(row.normalized_keyword)
      numbers == [r \in mine |-> ParseNumber[FileCells(h)[r]]]
      known == {numbers[r] : r \in mine} \ {NaN}
  IN  IF role # "volume" THEN row[role] = MeanOf(numbers, mine)
      ELSE IF known = {} THEN row.volume = NaN
      ELSE row.volume \in known /\ \A n \in known : n <= row.volume

\* The columns written before a role is read.
WrittenBefore(role) ==
  {"keyword", "normalized_keyword"}
    \cup {Roles[i] : i \in 1 .. SelectInSeq(Roles, LAMBDA r : r = role) - 1}

\* The column of a role was written, with the cells of another, before it was read.
Overwritten(role) ==
  /\ mapping[role] \in WrittenBefore(role)
  /\ mapping[role] \notin ToSet(Roles) \/ mapping[mapping[role]] # mapping[role]

\* Each usable keyword of the file is in the table once, in order of appearance,
\* with the largest volume and the mean difficulty and position of its rows, and
\* a missing number only where all of them are missing (pipeline.py,
\* prepare_dataframe and _dedupe_keywords), for roles whose column is intact.
PreparedFaithful ==
  stage = "prepared" =>
    /\ {prepared[p].normalized_keyword : p \in DOMAIN prepared} = {KeyOf(r) : r \in UsableRows}
    /\ \A p, q \in DOMAIN prepared :
         p < q => Min(RowsFor(prepared[p].normalized_keyword))
                    < Min(RowsFor(prepared[q].normalized_keyword))
    /\ \A p \in DOMAIN prepared : \A role \in Numeric :
         mapping[role] # None /\ ~ Overwritten(role) => IsFrom(prepared[p], role, mapping[role])

\* An explicit mapping always wins: a role has the numbers of the column that was
\* asked for, when there is one (ingest.py:10, "an explicit user mapping always wins").
MappingWins ==
  stage = "prepared" =>
    \A p \in DOMAIN prepared : \A role \in Numeric :
      request.wanted[role] \in ToSet(names) => IsFrom(prepared[p], role, request.wanted[role])

-----------------------------------------------------------------------------
(* What the clusters should be *)

Near(i, j) == Hybrid(Similarity(sem, i, j), Similarity(lex, i, j)) >= Threshold

\* The one nearest row of i, when no other row has the vector of i.
Nearest(i, j) ==
  /\ i # j
  /\ \A k \in Rows \ {i} : Similarity(sem, i, k) < Same
  /\ \A k \in Rows \ {i, j} : Similarity(sem, i, k) < Similarity(sem, i, j)

\* When the components are made, a row is with its nearest row if the two are
\* similar enough, and only rows joined by similar pairs are together: blocks,
\* the cut of the first column and the symmetric graph lose and invent nothing
\* (pipeline.py, _hybrid_similarity_graph and _cluster_from_graph).
NearestJoined ==
  [][at = "components" =>
       \A i, j \in Rows :
         /\ Nearest(i, j) /\ Near(i, j) => snapshot'[i] = snapshot'[j]
         /\ snapshot'[i] = snapshot'[j]
              => Linked({e \in Rows \X Rows : Near(e[1], e[2])}, Rows, i, j)]_pipelineVars

\* The tables that are returned agree: every keyword is in one row, and the rows
\* of a cluster are as many as it counts, among them exactly one with its
\* canonical keyword; they have its intent, which is their own, and come with
\* falling volumes (pipeline.py, run).
ResultCoherent ==
  Clustered =>
    LET out == result.rows
        inCluster(c) == {p \in DOMAIN out : out[p].cluster_id = c}
        own(p) == CHOOSE i \in DOMAIN rows : rows[i].keyword = out[p].keyword
    IN  /\ {out[p].keyword : p \in DOMAIN out} = {rows[i].keyword : i \in DOMAIN rows}
        /\ {out[p].cluster_id : p \in DOMAIN out} = DOMAIN result.clusters
        /\ \A c \in DOMAIN result.clusters :
             LET cluster == result.clusters[c]
             IN  /\ cluster.keyword_count = Cardinality(inCluster(c))
                 /\ \E p \in inCluster(c) : \A q \in inCluster(c) :
                      out[q].keyword = cluster.canonical_keyword <=> q = p
                 /\ \A p \in inCluster(c) :
                      /\ out[p].is_clustered = cluster.is_clustered
                      /\ out[p].intent = cluster.intent
                      /\ SplitOnIntent => out[p].intent = rows[own(p)].intent
        /\ \A p, q \in DOMAIN out :
             p < q => \/ out[p].cluster_id < out[q].cluster_id
                      \/ /\ out[p].cluster_id = out[q].cluster_id
                         /\ rows[own(q)].volume # NaN =>
                              /\ rows[own(p)].volume # NaN
                              /\ rows[own(p)].volume >= rows[own(q)].volume
=============================================================================
