------------------------------- MODULE Ingest -------------------------------
(***************************************************************************)
(* What happens to an upload before it is clustered: read_upload_limited   *)
(* (hardening.py), read_table and resolve_columns (ingest.py) and          *)
(* prepare_dataframe (pipeline.py), for POST /preview and POST /cluster.   *)
(*                                                                         *)
(* prepare_dataframe works in place: each column it computes is written    *)
(* into the frame the next one is read from.  The model keeps that order,  *)
(* one column a step.                                                      *)
(*                                                                         *)
(* A cell is a model value.  What string functions make of headers, cells  *)
(* and keywords is given by constants, functions on the values in use.     *)
(***************************************************************************)
EXTENDS Numbers, SequencesExt

CONSTANTS Requests,                      \* what clients may send
          EFFECTIVE_MAX_UPLOAD_BYTES, MAX_UPLOAD_BYTES, ChunkBytes, FramingSlack,
          MAX_XLSX_UNCOMPRESSED_BYTES, MAX_ROWS, HEAVY_JOB_ROW_LIMIT,
          COLUMN_ALIASES,                \* of the headers in use
          StripHeader, NormHeader,       \* header to header
          StripCell,                     \* cell to cell
          NormalizeText,                 \* cell to normalized keyword
          ParseNumber,                   \* cell to number
          JUNK_STRINGS, Blank, None,
          Patterns, Modifiers, TopicRoot \* of a normalized keyword

Roles == <<"keyword", "volume", "difficulty", "position", "url">>
Numeric == {"volume", "difficulty", "position"}

\* declared is the Content-Length, None when absent or malformed; expands is the
\* uncompressed size a workbook declares.  A role name is not the header of two
\* columns: of what pandas does then, the model only has the read that fails.
ASSUME IngestAssumption ==
  /\ EFFECTIVE_MAX_UPLOAD_BYTES \in Nat /\ MAX_UPLOAD_BYTES \in Nat
  /\ ChunkBytes \in Nat \ {0} /\ FramingSlack \in Nat
  /\ None \notin {"EMPTY_FILE", "FILE_TOO_LARGE", "NO_ROWS", "TOO_MANY_ROWS"}
  /\ \A role \in ToSet(Roles) : Len(COLUMN_ALIASES[role]) \in Nat
  /\ \A r \in Requests :
       /\ r.endpoint \in {"preview", "cluster"}
       /\ Len(r.file.rows) \in Nat /\ DOMAIN r.file.rows = 1 .. Len(r.file.rows)
       /\ Len(r.file.headers) \in Nat /\ DOMAIN r.file.headers = 1 .. Len(r.file.headers)
       /\ \A row \in ToSet(r.file.rows) : DOMAIN row = DOMAIN r.file.headers
       /\ r.file.kind \in {"csv", "xlsx", "xls"}
       /\ r.file.size \in Nat /\ (r.file.size = 0 => r.file.blank)
       /\ r.declared # None => r.declared \in Nat /\ r.declared >= r.file.size
       /\ DOMAIN r.wanted = ToSet(Roles)
       /\ \A i, j \in DOMAIN r.file.headers :
            i # j /\ StripHeader[r.file.headers[i]] = StripHeader[r.file.headers[j]]
              => StripHeader[r.file.headers[i]] \notin ToSet(Roles)

Cells == DOMAIN ParseNumber

\* The conversions are defined on the cells of a file, and on what the others
\* make of them; a cell is a number, or it is none.  Blanks around a number do
\* not matter, and a number converts to itself.
ASSUME CellAssumption ==
  /\ \A cell \in Cells : ParseNumber[cell] \in Int \cup {NaN}
  /\ \A cell \in Cells \cap (Int \cup {NaN}) : ParseNumber[cell] = cell
  /\ \A cell \in DOMAIN StripCell :
       /\ StripCell[cell] \in Cells /\ NormalizeText[StripCell[cell]] \in Cells
       /\ cell \in Cells => ParseNumber[StripCell[cell]] = ParseNumber[cell]
  /\ \A r \in Requests : \A row \in ToSet(r.file.rows) :
       ToSet(row) \subseteq Cells /\ ToSet(row) \subseteq DOMAIN StripCell \cup {NaN}

VARIABLES stage,      \* where the request is, or the code it ended with
          request,
          total,      \* bytes read from the upload
          frame,      \* the table: header to column
          names,      \* its headers, stripped, as they came
          mapping,    \* column_mapping_
          todo,       \* roles whose column is still to be written
          prepared    \* what prepare_dataframe returns

ingestVars == <<stage, request, total, frame, names, mapping, todo, prepared>>

IngestInit ==
  /\ stage = "arriving"
  /\ request \in Requests
  /\ total = 0
  /\ frame = <<>> /\ names = <<>> /\ mapping = <<>> /\ todo = <<>> /\ prepared = <<>>

-----------------------------------------------------------------------------
(* read_upload_limited *)

CheckDeclared ==
  /\ stage = "arriving"
  /\ stage' = IF request.declared # None
                 /\ request.declared > EFFECTIVE_MAX_UPLOAD_BYTES + FramingSlack
              THEN "FILE_TOO_LARGE" ELSE "receiving"
  /\ UNCHANGED <<request, total, frame, names, mapping, todo, prepared>>

\* Faulty: the limit is checked once everything was read.
ReadChunkUnchecked ==
  /\ stage = "receiving"
  /\ IF total < request.file.size
     THEN /\ \E n \in 1 .. Min({ChunkBytes, request.file.size - total}) : total' = total + n
          /\ UNCHANGED stage
     ELSE /\ stage' = IF total > EFFECTIVE_MAX_UPLOAD_BYTES THEN "FILE_TOO_LARGE" ELSE "received"
          /\ UNCHANGED total
  /\ UNCHANGED <<request, frame, names, mapping, todo, prepared>>

\* A turn of the loop: a chunk that is kept, the first that is too much, or none.
ReadChunk ==
  /\ stage = "receiving"
  /\ IF total < request.file.size
     THEN /\ \E n \in 1 .. Min({ChunkBytes, request.file.size - total}) : total' = total + n
          /\ stage' = IF total' > EFFECTIVE_MAX_UPLOAD_BYTES THEN "FILE_TOO_LARGE" ELSE stage
     ELSE stage' = "received" /\ UNCHANGED total
  /\ UNCHANGED <<request, frame, names, mapping, todo, prepared>>

-----------------------------------------------------------------------------
(* read_table and resolve_columns *)

Unparseable == [csv |-> "UNPARSEABLE_FILE", xlsx |-> "UNPARSEABLE_XLSX", xls |-> "UNPARSEABLE_XLS"]

ReadError(f) ==
  CASE f.blank -> "EMPTY_FILE"
    [] ~ f.blank /\ \/ f.size > MAX_UPLOAD_BYTES
                    \/ f.kind = "xlsx" /\ f.expands > MAX_XLSX_UNCOMPRESSED_BYTES -> "FILE_TOO_LARGE"
    [] OTHER -> IF ~ f.readable THEN Unparseable[f.kind]
                ELSE IF \A r \in DOMAIN f.rows : ToSet(f.rows[r]) \subseteq {NaN} THEN "NO_ROWS"
                ELSE IF Len(f.rows) > MAX_ROWS THEN "TOO_MANY_ROWS" ELSE None

\* The worker refuses heavy jobs after reading; a preview has no such limit.
TooHeavy(f) ==
  /\ request.endpoint = "cluster"
  /\ HEAVY_JOB_ROW_LIMIT > 0 /\ Len(f.rows) > HEAVY_JOB_ROW_LIMIT

ReadTable ==
  /\ stage = "received"
  /\ LET f == request.file
         headers == [i \in DOMAIN f.headers |-> StripHeader[f.headers[i]]]
     IN  IF ReadError(f) # None
         THEN stage' = ReadError(f) /\ UNCHANGED <<frame, names>>
         ELSE /\ stage' = IF TooHeavy(f) THEN "TOO_MANY_ROWS" ELSE "parsed"
              /\ names' = headers
              /\ frame' = [h \in ToSet(headers) |->
                             [r \in DOMAIN f.rows |-> f.rows[r][SelectInSeq(headers, LAMBDA n : n = h)]]]
  /\ UNCHANGED <<request, total, mapping, todo, prepared>>

\* lookup: of the headers with one normalized form the last is found.
Lookup(headers, norm) == headers[SelectLastInSeq(headers, LAMBDA h : NormHeader[h] = norm)]

ColumnFor(headers, role, wanted) ==
  LET known == {NormHeader[h] : h \in ToSet(headers)}
      hit == SelectInSeq(COLUMN_ALIASES[role], LAMBDA a : a \in known)
  IN  IF wanted # None /\ NormHeader[wanted] \in known
      THEN Lookup(headers, NormHeader[wanted])
      ELSE IF hit # 0 THEN Lookup(headers, COLUMN_ALIASES[role][hit]) ELSE None

\* resolve_columns; a preview ends here.
Resolve ==
  /\ stage = "parsed"
  /\ mapping' = [r \in ToSet(Roles) |-> ColumnFor(names, r, request.wanted[r])]
  /\ stage' = IF mapping'["keyword"] = None THEN "KEYWORD_COLUMN_NOT_FOUND"
              ELSE IF request.endpoint = "preview" THEN "previewed" ELSE "masking"
  /\ UNCHANGED <<request, total, frame, names, todo, prepared>>

-----------------------------------------------------------------------------
(* prepare_dataframe *)

\* Reading a column by a header that two columns have gives no column.
Ambiguous(column) == Cardinality({i \in DOMAIN names : names[i] = column}) > 1

Usable(cell) ==
  cell # NaN /\ StripCell[cell] \notin JUNK_STRINGS /\ NormalizeText[StripCell[cell]] # Blank

\* The elements of a set of row numbers, in order.
Ascending(S) ==
  [p \in 1 .. Cardinality(S) |-> CHOOSE r \in S : Cardinality({q \in S : q < r}) = p - 1]

With(f, name, column) == [h \in DOMAIN f \cup {name} |-> IF h = name THEN column ELSE f[h]]

\* Rows without a usable keyword go; the keyword columns are written.
MaskKeywords ==
  /\ stage = "masking"
  /\ LET column == frame[mapping["keyword"]]
         usable == {r \in DOMAIN request.file.rows : Usable(column[r])}
         keep == Ascending(usable)
         kept == [h \in DOMAIN frame |-> [r \in DOMAIN keep |-> frame[h][keep[r]]]]
         keyword == [r \in DOMAIN keep |-> StripCell[column[keep[r]]]]
     IN  IF Ambiguous(mapping["keyword"]) \/ usable = {}
         THEN /\ stage' = IF Ambiguous(mapping["keyword"]) THEN "INTERNAL_ERROR" ELSE "NO_KEYWORDS"
              /\ UNCHANGED <<frame, todo>>
         ELSE /\ stage' = "assigning"
              /\ frame' = With(With(kept, "keyword", keyword), "normalized_keyword",
                               [r \in DOMAIN keep |-> NormalizeText[keyword[r]]])
              /\ todo' = Tail(Roles)
  /\ UNCHANGED <<request, total, names, mapping, prepared>>

\* A cell is text until its column was converted; numbers convert to themselves.
NumberOf(cell) == IF cell \in Cells THEN ParseNumber[cell] ELSE cell

UrlOf(cell) ==
  IF cell = NaN THEN Blank
  ELSE IF cell \notin DOMAIN StripCell THEN cell
  ELSE IF StripCell[cell] \in JUNK_STRINGS THEN Blank ELSE StripCell[cell]

\* What is written for a role that was mapped to a column, or to none.
Converted(role, column, n) ==
  IF role \in Numeric
  THEN [r \in 1 .. n |-> IF column = None THEN NaN ELSE NumberOf(frame[column][r])]
  ELSE [r \in 1 .. n |-> IF column = None THEN Blank ELSE UrlOf(frame[column][r])]

\* One line of prepare_dataframe: volume, difficulty, position, then url.
AssignRole ==
  /\ stage = "assigning" /\ todo # <<>>
  /\ LET role == Head(todo)
     IN  IF Ambiguous(mapping[role])
         THEN stage' = "INTERNAL_ERROR" /\ UNCHANGED <<frame, todo>>
         ELSE /\ frame' = With(frame, role, Converted(role, mapping[role], Len(frame["keyword"])))
              /\ todo' = Tail(todo)
              /\ UNCHANGED stage
  /\ UNCHANGED <<request, total, names, mapping, prepared>>

-----------------------------------------------------------------------------
(* _dedupe_keywords and _add_tags *)

InOrder(s) == \* unique_preserve_order
  SelectSeq([i \in DOMAIN s |-> IF \E j \in 1 .. i - 1 : s[j] = s[i] THEN Blank ELSE s[i]],
            LAMBDA u : u # Blank)

\* Later patterns take precedence.
IntentOf(k) ==
  CASE "transactional" \in Patterns[k] -> "transactional"
    [] "commercial" \in Patterns[k] /\ "transactional" \notin Patterns[k] -> "commercial"
    [] Patterns[k] = {"navigational"} -> "navigational"
    [] OTHER -> "informational"

PageTypeOf(k) ==
  CASE IntentOf(k) = "transactional" -> "money-page"
    [] IntentOf(k) = "commercial" -> "comparison"
    [] OTHER -> IF "learn" \in Modifiers[k] THEN "guide" ELSE "article"

\* The rows of one normalized keyword become one, with its tags.
Collapsed(k, is) ==
  [keyword |-> frame["keyword"][Min(is)],
   normalized_keyword |-> k,
   volume |-> MaxOf(frame["volume"], is),
   difficulty |-> MeanOf(frame["difficulty"], is),
   position |-> MeanOf(frame["position"], is),
   url |-> InOrder([r \in 1 .. Max(is) |-> IF r \in is THEN frame["url"][r] ELSE Blank]),
   intent |-> IntentOf(k), page_type |-> PageTypeOf(k),
   modifier_group |-> Modifiers[k], topic_root |-> TopicRoot[k]]

\* Groups come in the order of their first rows.
Deduplicate ==
  /\ stage = "assigning" /\ todo = <<>>
  /\ LET key == frame["normalized_keyword"]
         like(r) == {q \in DOMAIN key : key[q] = key[r]}
         first == Ascending({r \in DOMAIN key : r = Min(like(r))})
     IN  prepared' = [p \in DOMAIN first |-> Collapsed(key[first[p]], like(first[p]))]
  /\ stage' = "prepared"
  /\ UNCHANGED <<request, total, frame, names, mapping, todo>>

IngestNext ==
  \/ CheckDeclared \/ ReadChunk \/ ReadTable \/ Resolve
  \/ MaskKeywords \/ AssignRole \/ Deduplicate

=============================================================================
