---------------------------- MODULE MCOfflineIndex ----------------------------
(***************************************************************************)
(* OfflineIndex on small instances, for TLC: three documents, the first    *)
(* and the third of one external id, with single, multiple, combined and   *)
(* numeric fields; and two schemas, which differ in their columns and in   *)
(* what they index and how.  The second document has tokens under the      *)
(* second schema only.                                                     *)
(***************************************************************************)
EXTENDS OfflineIndex

F(name, type, index) ==
  [name |-> name, type |-> type, index |-> index, stored |-> type = "Text",
   fast |-> type = "Int64", multi |-> FALSE, sources |-> <<>>]

MCSchemas ==
  {<<F("title", "Text", "FreqsPositions"),
     [F("tags", "Keyword", "FreqsOnly") EXCEPT !.multi = TRUE],
     [F("all", "Combined", "FreqsPositions") EXCEPT !.sources = <<"title", "tags", "kind">>],
     F("kind", "Keyword", "DocsOnly"), F("body", "Text", "None"),
     F("pubtime", "Int64", "None"), F("uid", "Int64", "None")>>,
   <<[F("tags", "Text", "FreqsPositions") EXCEPT !.multi = TRUE],
     F("title", "Text", "FreqsOnly"), F("body", "Text", "FreqsPositions"),
     F("kind", "Keyword", "FreqsPositions"), F("pubtime", "Int64", "None")>>}

Str(words) == [kind |-> "str", val |-> words]
Strs(texts) == [kind |-> "strs", val |-> texts]
Num(n) == [kind |-> "Int64", val |-> n]

MCContent ==
  <<[ext |-> 7, fields |-> [title |-> Str(<<"the", "a", "b", "as", "a", "a">>),
                            tags |-> Strs(<<<<"b", "the">>, <<>>, <<"a">>>>),
                            body |-> Str(<<"a", "as">>), pubtime |-> Num(2), uid |-> Num(1)]],
    [ext |-> 8, fields |-> [title |-> Str(<<"the">>), body |-> Str(<<"b", "a">>),
                            pubtime |-> Num(1)]],
    [ext |-> 7, fields |-> [title |-> Str(<<"a", "a">>), kind |-> Str(<<"a", "b">>),
                            tags |-> Strs(<<<<"a">>>>),
                            body |-> Str(<<"a", "b", "a", "a">>), uid |-> Num(1)]]>>

MCStem == [w \in {"a", "b", "as", "the", "title"} |-> IF w = "as" THEN "a" ELSE w]
MCStopWords == {"the"}

MCFilters == {[ranged |-> TRUE, lo |-> 2, hi |-> 3, uid |-> -1], [ranged |-> FALSE, lo |-> 0, hi |-> 0, uid |-> 1],
              [ranged |-> TRUE, lo |-> 0, hi |-> 2, uid |-> 1]}

T(sign, parts) == [sign |-> sign, parts |-> parts]

\* "as the", "+b a", "+a -b", "tags:a -:b", "+title: -kind:a the" and "-a"
MCQueries ==
  {<<T("", <<<<"as">>>>), T("", <<<<"the">>>>)>>,
   <<T("+", <<<<"b">>>>), T("", <<<<"a">>>>)>>,
   <<T("+", <<<<"a">>>>), T("-", <<<<"b">>>>)>>,
   <<T("", <<<<"tags">>, <<"a">>>>), T("-", <<<<>>, <<"b">>>>)>>,
   <<T("+", <<<<"title">>, <<>>>>), T("-", <<<<"kind">>, <<"a">>>>), T("", <<<<"the">>>>)>>,
   <<T("-", <<<<"a">>>>)>>}
=============================================================================
