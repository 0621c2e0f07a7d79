----------------------------- MODULE MCPipeline -----------------------------
(***************************************************************************)
(* Requests and conversions for TLC: for each error an upload that ends    *)
(* with it, and tables of up to three keywords with duplicates, junk,      *)
(* missing and negative numbers, ambiguous headers and mapped columns.     *)
(***************************************************************************)
EXTENDS Pipeline

CONSTANTS kwA, kwAAgain, kwB, kwBPadded, kwC, kwD, kwE,
          odd, dash,                          \* odd normalizes to nothing, dash is junk
          five, nine, minus,                  \* number cells
          url1, url2,
          na, nb, nc, nd, ne                  \* normalized keywords

Keywords == kwA :> na @@ kwAAgain :> na @@ kwB :> nb @@ kwC :> nc @@ kwD :> nd @@ kwE :> ne
              @@ odd :> Blank
Padded == kwBPadded :> kwB
Digits == five :> 5 @@ nine :> 9 @@ minus :> -3
Texts == DOMAIN Keywords \cup DOMAIN Padded \cup DOMAIN Digits \cup {dash, url1, url2, Blank}

MCStripCell == Padded @@ [t \in Texts |-> t]
MCJunk == {dash, Blank}
MCNormalizeText == Keywords @@ [t \in Texts |-> t]
MCParseNumber == Digits @@ [t \in Texts \cup {NaN, na, nb, nc, nd, ne} |-> NaN]

\* Same topic for kwA, kwB, kwC and kwD, same intent for kwA and kwB.
MCPatterns == na :> {} @@ nb :> {} @@ nc :> {"commercial", "navigational"}
                @@ nd :> {"commercial", "transactional"} @@ ne :> {"navigational"}
MCModifiers == na :> {} @@ nb :> {"learn"} @@ nc :> {"best"} @@ nd :> {"pricing"} @@ ne :> {}
MCTopicRoot == [k \in {na, nb, nc, nd} |-> "crm"] @@ ne :> "seo"

Headers == {"keyword", "Query", "volume", "Volume", " Volume", "difficulty", "position", "url", "x"}
MCStripHeader == " Volume" :> "Volume" @@ [h \in Headers |-> h]
MCNormHeader == "Query" :> "query" @@ "Volume" :> "volume" @@ " Volume" :> "volume"
                  @@ [h \in Headers |-> h]
MCAliases == [keyword |-> <<"keyword", "query">>, volume |-> <<"volume">>,
              difficulty |-> <<"difficulty">>, position |-> <<"position">>, url |-> <<"url">>]

Default == [r \in ToSet(Roles) |-> r]
Csv(headers, table) ==
  [kind |-> "csv", size |-> 3, blank |-> FALSE, readable |-> TRUE, expands |-> 0,
   headers |-> headers, rows |-> table]
Ask(file, wanted) ==
  [endpoint |-> "cluster", declared |-> None, file |-> file, wanted |-> wanted]

One == Csv(<<"Query", "volume">>, <<<<kwA, minus>>>>)
Uploads == {[One EXCEPT !.size = n, !.blank = (n = 0)] : n \in {0, 2, 4, 5, 9}}
             \cup {[One EXCEPT !.blank = TRUE], [One EXCEPT !.kind = "xlsx", !.expands = 9],
                   [One EXCEPT !.kind = "xlsx"]}
             \cup {[One EXCEPT !.kind = k, !.readable = FALSE] : k \in {"csv", "xlsx", "xls"}}
             \cup {[One EXCEPT !.rows = <<<<NaN, NaN>>>>], [One EXCEPT !.rows = <<>>]}

\* Pairs, and triples of which the last two keywords are of other intents or topics.
Pair(v, w) == Csv(<<"keyword", "Volume">>, <<<<kwA, v>>, <<kwB, w>>>>)
Triple(x, y, v) == Csv(<<"keyword", "volume", "url">>,
                       <<<<kwA, v, url1>>, <<x, five, NaN>>, <<y, NaN, url2>>>>)
Duplicates == Csv(<<"keyword", "volume", "difficulty", "position", "url">>,
                  <<<<dash, nine, nine, nine, url1>>, <<kwA, dash, five, five, url1>>,
                    <<odd, five, five, five, dash>>, <<kwBPadded, dash, dash, NaN, NaN>>,
                    <<NaN, five, five, five, url2>>, <<kwAAgain, minus, nine, NaN, url2>>>>)
Numbered == Csv(<<"keyword", "volume", "difficulty", "x">>, <<<<kwA, five, nine, minus>>>>)

Clusterings ==
  {Ask(Pair(five, nine), Default), Ask(Pair(minus, NaN), Default), Ask(Pair(minus, five), Default),
   Ask(Triple(kwC, kwD, five), Default), Ask(Triple(kwE, kwB, minus), Default),
   Ask(Duplicates, Default)}

Mappings ==
  {Ask(Numbered, [Default EXCEPT !["volume"] = v, !["difficulty"] = w, !["position"] = x]) :
     v \in {"volume", "difficulty"}, w \in {"volume", "x", None}, x \in {"difficulty", "keyword"}}

Refusals ==
  {Ask(f, Default) : f \in Uploads}
    \cup {[Ask(One, Default) EXCEPT !.declared = n] : n \in {3, 6, 7}}
    \cup {Ask(Csv(<<"x">>, <<<<kwA>>>>), Default), Ask(Csv(<<"keyword">>, <<<<dash>>, <<odd>>>>), Default),
          Ask(Csv(<<"keyword", "Volume", " Volume">>, <<<<kwA, five, nine>>>>), Default),
          Ask(Csv(<<" Volume", "Volume">>, <<<<kwA, kwB>>>>), [Default EXCEPT !["keyword"] = "Volume"]),
          Ask(Csv(<<"keyword">>, [i \in 1 .. 7 |-> <<kwA>>]), Default),
          Ask(Csv(<<"keyword">>, [i \in 1 .. 8 |-> <<kwA>>]), Default)}

Previews == {[Ask(f, Default) EXCEPT !.endpoint = "preview"] :
               f \in {Pair(five, nine), Csv(<<"x">>, <<<<kwA>>>>), Csv(<<"keyword">>, [i \in 1 .. 7 |-> <<kwA>>])}}

MCRequests == Clusterings \cup Mappings \cup Refusals \cup Previews

MCLabels == <<"article", "commercial", "comparison", "guide", "informational", "money-page",
              "navigational", "transactional">>
MCLevels == {0, 5, 10}
=============================================================================
