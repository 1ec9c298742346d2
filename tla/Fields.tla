-------------------------------- MODULE Fields --------------------------------
(***************************************************************************)
(* From a document to postings: the schema and its JSON file, the          *)
(* analyzer, the field descriptors and the posting lists in memory.        *)
(*                                                                         *)
(* A string is the sequence of its words, as charFilter and tokenize       *)
(* leave them; the term of a text token is the sequence of one stem and    *)
(* the term of a keyword is its whole string.  A document's fields are a   *)
(* function from names to values [kind, val], the variant FieldVal.        *)
(***************************************************************************)
EXTENDS Naturals, SequencesExt, Ordered

CONSTANTS
  StopWords,   \* stop_words_
  Stem         \* word -> stem; "" when nothing is left

-----------------------------------------------------------------------------
(* field/schema.cpp *)

TypeStr  == [Text |-> "text", Keyword |-> "keyword", Int64 |-> "int64",
             Float32 |-> "float32", Combined |-> "combined"]
IndexStr == [None |-> "none", DocsOnly |-> "docs_only",
             FreqsOnly |-> "freqs_only", FreqsPositions |-> "freqs_positions"]

\* struct FieldSchema
FieldSchemas ==
  [name : STRING, type : DOMAIN TypeStr, index : DOMAIN IndexStr, stored : BOOLEAN,
   fast : BOOLEAN, multi : BOOLEAN, sources : Seq(STRING)]

\* The alternatives of the variant FieldVal that hold text.
IsFieldVal(v) ==
  /\ v.kind = "str"  => v.val \in Seq(DOMAIN Stem)
  /\ v.kind = "strs" => v.val \in Seq(Seq(DOMAIN Stem))

FromStr(names, s, default) ==
  IF \E v \in DOMAIN names : names[v] = s
  THEN CHOOSE v \in DOMAIN names : names[v] = s ELSE default

\* One object of Schema::save: multi and sources only when there is something.
JsonOf(f) ==
  [k \in {"name", "type", "index", "stored", "fast"}
         \cup {m \in {"multi"} : f.multi} \cup {s \in {"sources"} : f.sources # <<>>} |->
     CASE k = "type"  -> TypeStr[f.type]
       [] k = "index" -> IndexStr[f.index]
       [] OTHER       -> f[k]]

SaveSchema(schema) == [i \in DOMAIN schema |-> JsonOf(schema[i])]

\* Schema::fromJson: a key that is missing leaves the member's initial value.
FromJson(json) ==
  [i \in DOMAIN json |->
     LET Get(k, default) == IF k \in DOMAIN json[i] THEN json[i][k] ELSE default
     IN [name    |-> Get("name", ""),
         type    |-> FromStr(TypeStr, Get("type", ""), "Text"),
         index   |-> FromStr(IndexStr, Get("index", ""), "None"),
         stored  |-> Get("stored", FALSE),
         fast    |-> Get("fast", FALSE),
         multi   |-> Get("multi", FALSE),
         sources |-> Get("sources", <<>>)]]

\* What find(name)->index says; a field that is not there has no positions.
HasPositions(schema, name) ==
  LET found == {i \in DOMAIN schema : schema[i].name = name}
  IN found # {} /\ schema[Min(found)].index = "FreqsPositions"

-----------------------------------------------------------------------------
(* analysis/analyzer.cpp *)

\* analyze: a stop word, or a word without a stem, takes no position.
Analyze(text) ==
  LET kept == Picked(text, {i \in DOMAIN text : text[i] \notin StopWords /\ Stem[text[i]] # ""})
  IN [i \in DOMAIN kept |-> [term |-> <<Stem[kept[i]]>>, pos |-> i - 1]]

-----------------------------------------------------------------------------
(* field/field_descriptor.h: the tokens of one field from position base on *)
(* and the base of the next field.                                         *)

Nothing(base) == [tokens |-> <<>>, next |-> base]

Keyword(text, base) == [tokens |-> <<[term |-> text, pos |-> base]>>, next |-> base + 1]

\* A defect to detect: a text whose words are all dropped moves the base, the
\* others do not.
SingleTokensSameBase(f, text, base) ==
  IF f.type = "Keyword" THEN Keyword(text, base)
  ELSE LET toks == Analyze(text)
       IN [tokens |-> [i \in DOMAIN toks |-> [toks[i] EXCEPT !.pos = @ + base]],
           next   |-> base + 1]

\* VarSingleField::buildTokens; a text always moves the base by one or more.
SingleTokens(f, text, base) ==
  IF f.type = "Keyword" THEN Keyword(text, base)
  ELSE LET toks == Analyze(text)
       IN [tokens |-> [i \in DOMAIN toks |-> [toks[i] EXCEPT !.pos = @ + base]],
           next   |-> base + (IF toks = <<>> THEN 1 ELSE Len(toks))]

\* VarMultiField::buildTokens: one position after the other over all values.
MultiTokens(f, texts, base) ==
  LET terms(text) == IF f.type = "Keyword" THEN <<text>>
                     ELSE [i \in DOMAIN Analyze(text) |-> Analyze(text)[i].term]
      full == Picked(texts, {i \in DOMAIN texts : texts[i] # <<>>})
      all  == FlattenSeq([i \in DOMAIN full |-> terms(full[i])])
  IN [tokens |-> [i \in DOMAIN all |-> [term |-> all[i], pos |-> base + i - 1]],
      next   |-> base + Len(all)]

\* Both the token's own position and its predecessor's move the next.
PutToken(b, t) ==
  [tokens |-> Append(b.tokens, [t EXCEPT !.pos = @ + b.next]), next |-> b.next + t.pos + 1]

\* CombinedField::buildTokensDoc: the sources with a single string, each as a
\* text.
CombinedTokens(f, fields, base) ==
  LET single == Picked(f.sources, {i \in DOMAIN f.sources :
                                     /\ f.sources[i] \in DOMAIN fields
                                     /\ fields[f.sources[i]].kind = "str"})
  IN FoldLeft(PutToken, Nothing(base),
              FlattenSeq([i \in DOMAIN single |-> Analyze(fields[single[i]].val)]))

\* buildDescriptors' choice of a class and its buildTokensDoc; a value of the
\* wrong kind (get_if) and an empty one count as missing, numbers have none.
BuildTokens(f, fields, base) ==
  LET Has(kind) == f.name \in DOMAIN fields /\ fields[f.name].kind = kind
                   /\ fields[f.name].val # <<>>
  IN IF f.index = "None" THEN Nothing(base)
     ELSE CASE f.type = "Combined" -> CombinedTokens(f, fields, base)
            [] f.type \in {"Text", "Keyword"} /\ f.multi /\ Has("strs") ->
                 MultiTokens(f, fields[f.name].val, base)
            [] f.type \in {"Text", "Keyword"} /\ ~f.multi /\ Has("str") ->
                 SingleTokens(f, fields[f.name].val, base)
            [] OTHER -> Nothing(base)

\* IndexWriter::addDocument: every field starts where the one before ended.
AddField(b, f, fields) ==
  LET t == BuildTokens(f, fields, b.next)
  IN [tokens |-> b.tokens \o [i \in DOMAIN t.tokens |->
                   [key |-> <<f.name, t.tokens[i].term>>, pos |-> t.tokens[i].pos]],
      next   |-> t.next]

DocTokens(schema, fields) ==
  FoldLeft(LAMBDA b, f : AddField(b, f, fields), Nothing(0), schema).tokens

-----------------------------------------------------------------------------
(* store/posting_list.cpp: key (field, term) -> entries in order of arrival *)

\* PostingList::append
AppendPosting(list, id, pos) ==
  LET at == {i \in DOMAIN list : list[i].id = id}
  IN IF at = {} THEN Append(list, [id |-> id, tf |-> 1, pos |-> <<pos>>])
     ELSE [i \in DOMAIN list |->
             IF i \in at
             THEN [id |-> id, tf |-> list[i].tf + 1, pos |-> Append(list[i].pos, pos)]
             ELSE list[i]]

ListOf(lists, key) == IF key \in DOMAIN lists THEN lists[key] ELSE <<>>

\* InMemoryIndex::addToken
AddToken(index, id, tok) ==
  [key \in DOMAIN index \cup {tok.key} |->
     IF key = tok.key THEN AppendPosting(ListOf(index, key), id, tok.pos) ELSE index[key]]

\* All tokens of a document.
IndexTokens(index, id, tokens) ==
  FoldLeft(LAMBDA ix, tok : AddToken(ix, id, tok), index, tokens)
=============================================================================
