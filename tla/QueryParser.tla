------------------------------ MODULE QueryParser ------------------------------
(***************************************************************************)
(* From a query string to the documents it asks for: query_parser.cpp, and *)
(* BooleanQuery::createScorer by the sets its scorers walk (ScorerTree has *)
(* the walking, and the cut of an inner OR to top_k, which is not reached  *)
(* here).                                                                  *)
(*                                                                         *)
(* A query is a sequence of blank-separated tokens [sign, parts]: "+", "-" *)
(* or "", and the words before and after the first colon, or one part when *)
(* there is no colon.  A part that has characters has a word.  A clause is *)
(* [occur, keys]: a TermQuery has one key (field, term), the inner OR of a *)
(* bare term one for each field.  No field is called "".                   *)
(***************************************************************************)
EXTENDS Fields

\* parseToken: a colon qualifies only between two parts that are not empty.
ParseToken(tok, default) ==
  LET qualified == Len(tok.parts) = 2 /\ \A i \in 1 .. 2 : tok.parts[i] # <<>>
  IN [occur |-> CASE tok.sign = "+" -> "MUST"
                  [] tok.sign = "-" -> "MUST_NOT"
                  [] OTHER          -> default,
      field |-> IF qualified THEN Head(tok.parts[1]) ELSE "",
      words |-> IF qualified THEN tok.parts[2] ELSE FlattenSeq(tok.parts)]

\* analyzeQuery: the terms of a text, without positions.
AnalyzeQuery(words) == {t.term : t \in ToSet(Analyze(words))}

\* A defect to detect: a bare +term or -term is one clause for each field.
ClausesPerField(pt, term, defaults) ==
  IF pt.field # "" THEN {[occur |-> pt.occur, keys |-> {<<pt.field, term>>}]}
  ELSE {[occur |-> pt.occur, keys |-> {<<f, term>>}] : f \in defaults}

\* The clauses parse() adds for one term.  Without default fields a bare term
\* keeps the field "", in which a TermScorer finds nothing.
ClausesFor(pt, term, defaults) ==
  IF pt.field # "" \/ defaults = {}
  THEN {[occur |-> pt.occur, keys |-> {<<pt.field, term>>}]}
  ELSE IF pt.occur = "SHOULD"
  THEN {[occur |-> "SHOULD", keys |-> {<<f, term>>}] : f \in defaults}
  ELSE {[occur |-> pt.occur, keys |-> {<<f, term>> : f \in defaults}]}

Parse(query, default, defaults) ==
  UNION {LET pt == ParseToken(tok, default)
         IN UNION {ClausesFor(pt, term, defaults) : term \in AnalyzeQuery(pt.words)}
           : tok \in ToSet(query)}

\* createScorer: MUSTs are intersected and make SHOULDs silent; with neither
\* there is no scorer.  docs has the hits of every term.
Matching(clauses, docs) ==
  LET DocsOfClause(c)  == UNION {docs[key] : key \in c.keys}
      DocsOfAll(occur) == UNION {DocsOfClause(c) : c \in {x \in clauses : x.occur = occur}}
      must             == {c \in clauses : c.occur = "MUST"}
  IN {id \in DocsOfAll(IF must = {} THEN "SHOULD" ELSE "MUST") :
        (\A c \in must : id \in DocsOfClause(c)) /\ id \notin DocsOfAll("MUST_NOT")}
=============================================================================
