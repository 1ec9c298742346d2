----------------------------- MODULE OfflineIndex -----------------------------
(***************************************************************************)
(* The offline path of one index directory: an IndexWriter tokenizes and   *)
(* buffers documents and flushes them as segments, SegmentMerger objects   *)
(* delete documents softly and merge segments, and searches open what is   *)
(* there.                                                                  *)
(*                                                                         *)
(* The hard part is the three numberings of a document.  Its postings and  *)
(* lengths are under the doc_id its caller gave it; .liv, .fdx, the stored *)
(* fields and the columns go by position in the segment; a merge renumbers *)
(* by position and finds the postings by the doc_id it reads from the      *)
(* stored fields.  And a merge knows of the schema only what schema.json   *)
(* says.                                                                   *)
(*                                                                         *)
(* As in every caller of the repository, the writer is closed before a     *)
(* merger is made and one merger is used at a time (softDelete says that   *)
(* it has no concurrency control).  doc_ids are below 2^20, the width the  *)
(* keys of a merge's remap leave them.                                     *)
(***************************************************************************)
EXTENDS SegmentContent, QueryParser, MergedSearch

CONSTANTS
  Content,    \* the documents, in the order in which they are added:
              \* [ext |-> external id, fields |-> name -> value]
  Schemas,    \* the schemas an index may have
  Filters,    \* the numeric filters of the searches checked
  Queries,    \* the query strings of the searches checked
  MergeIds,   \* bound: the ids under which merges write their output
  MaxTopK     \* bound: top_k of the searches checked

ASSUME OfflineAssumption ==
  /\ Len(Content) \in Nat /\ DOMAIN Content = 1 .. Len(Content)
  /\ \A d \in DOMAIN Content : \A name \in DOMAIN Content[d].fields :
       IsFieldVal(Content[d].fields[name])
  /\ \A s \in Schemas : s \in Seq(FieldSchemas)
  /\ MergeIds \subseteq Nat

\* The parts of a query token are strings of words.
ASSUME SearchAssumption ==
  /\ \A query \in Queries : \A tok \in ToSet(query) : tok.parts \in Seq(Seq(STRING))
  /\ MaxTopK \in Nat

NumDocs == Len(Content)
Docs == DOMAIN Content

VARIABLES
  schema,     \* schema_ of the writer
  schemaFile, \* schema.json
  perSegment, \* does the caller number from 1 in every segment?
  total,      \* total_docs_
  buf,        \* stored_docs_buf_: [doc, id]; field_indexes_ and ff_writer_ are
              \* what these documents make of them
  nextSegId,  \* next_seg_id_
  wpc,        \* the writer: "open" or "closed"
  segs,       \* the segment_<id> directories: id -> segment
  loaded,     \* seg_ids_ of the merger in use; {} when there is none
  live,       \* the bitmaps its readers hold: id -> positions
  deleted     \* history: documents a softDelete has struck

schemaVars == <<schema, schemaFile>>
writerVars == <<schemaVars, perSegment, total, buf, nextSegId, wpc>>
vars == <<writerVars, segs, loaded, live, deleted>>

-----------------------------------------------------------------------------
\* What addDocument makes of a document, under each schema.
TokensOf  == [s \in Schemas |-> [d \in Docs |-> DocTokens(s, Content[d].fields)]]
NumbersOf == [s \in Schemas |-> [d \in Docs |-> Row(s, Content[d].fields)]]

Tokens(d)  == TokensOf[schema][d]
Numbers(d) == NumbersOf[schema][d]

Init ==
  /\ schema \in Schemas /\ schemaFile = SaveSchema(schema)
  /\ perSegment \in BOOLEAN
  /\ total = 0 /\ buf = <<>> /\ nextSegId = 0 /\ wpc = "open"
  /\ segs = [s \in {} |-> {}]
  /\ loaded = {} /\ live = [s \in {} |-> {}]
  /\ deleted = {}

HasTerms(docs) == \E i \in DOMAIN docs : Tokens(docs[i].doc) # <<>>

WriteSegment(docs) ==
  segs' = [s \in DOMAIN segs \cup {nextSegId} |->
             IF s = nextSegId THEN FlushedSegment(schema, docs, TokensOf[schema], NumbersOf[schema])
             ELSE segs[s]]

\* A defect to detect: the buffer is emptied although nothing was written.
FlushAlwaysClears(docs) ==
  \/ /\ HasTerms(docs)
     /\ WriteSegment(docs)
     /\ buf' = <<>> /\ nextSegId' = nextSegId + 1
  \/ /\ ~HasTerms(docs)
     /\ buf' = <<>> /\ UNCHANGED <<segs, nextSegId>>

\* flush(): documents without any term wait for the next one that has some.
FlushBuffer(docs) ==
  \/ /\ HasTerms(docs)
     /\ WriteSegment(docs)
     /\ buf' = <<>> /\ nextSegId' = nextSegId + 1
  \/ /\ ~HasTerms(docs)
     /\ buf' = docs /\ UNCHANGED <<segs, nextSegId>>

\* The document joins the buffer, which may have outgrown ram_buffer_mb.  A
\* caller who numbers per segment flushes himself, before that happens.
AddDocument ==
  /\ wpc = "open" /\ total < NumDocs
  /\ total' = total + 1
  /\ LET id   == IF perSegment THEN Len(buf) + 1 ELSE total'
         docs == Append(buf, [doc |-> total', id |-> id])
     IN \/ buf' = docs /\ UNCHANGED <<segs, nextSegId>>
        \/ ~perSegment /\ FlushBuffer(docs)
  /\ UNCHANGED <<schemaVars, perSegment, wpc, loaded, live, deleted>>

Flush ==
  /\ wpc = "open" /\ FlushBuffer(buf)
  /\ UNCHANGED <<schemaVars, perSegment, total, wpc, loaded, live, deleted>>

\* The destructor flushes what has terms.
CloseWriter ==
  /\ wpc = "open" /\ wpc' = "closed"
  /\ FlushBuffer(buf)
  /\ UNCHANGED <<schemaVars, perSegment, total, loaded, live, deleted>>

-----------------------------------------------------------------------------
\* A SegmentReader is constructed for each; one that throws ends it.
OpenMerger ==
  /\ wpc = "closed" /\ loaded = {}
  /\ \E ids \in SUBSET DOMAIN segs \ {{}} :
       /\ \A s \in ids : Opens(segs[s])
       /\ loaded' = ids
       /\ live'   = [s \in ids |-> segs[s].live]
  /\ UNCHANGED <<writerVars, segs, deleted>>

CloseMerger ==
  /\ loaded # {} /\ loaded' = {}
  /\ live' = [s \in {} |-> {}]
  /\ UNCHANGED <<writerVars, segs, deleted>>

\* The first segment in which the position is alive, in memory and in .liv.
SoftDelete(i) ==
  /\ \E s \in loaded :
       /\ i \in live[s] /\ \A r \in loaded : i \in live[r] => s <= r
       /\ live'    = [live EXCEPT ![s] = @ \ {i}]
       /\ segs'    = [segs EXCEPT ![s].live = @ \ {i}]
       /\ deleted' = deleted \cup {segs[s].stored[i].doc}
  /\ UNCHANGED <<writerVars, loaded>>

\* mergeAll(out), and mergeIfNeeded with its out one above the sources: the
\* output is written, the sources go, and the merger goes on with the output,
\* if the reader it constructs for it does not throw.
Merge(out) ==
  /\ loaded # {} /\ out \notin DOMAIN segs
  /\ LET ids == InOrder(loaded)
         merged == MergedSegment(FromJson(schemaFile),
                                 [k \in DOMAIN ids |-> segs[ids[k]]],
                                 [k \in DOMAIN ids |-> live[ids[k]]])
     IN segs' = [s \in (DOMAIN segs \ loaded) \cup {out} |->
                   IF s = out THEN merged ELSE segs[s]]
  /\ loaded' = IF Opens(segs'[out]) THEN {out} ELSE {}
  /\ live'   = [s \in loaded' |-> segs'[out].live]
  /\ UNCHANGED <<writerVars, deleted>>

Next ==
  \/ AddDocument \/ Flush \/ CloseWriter
  \/ OpenMerger \/ CloseMerger
  \/ \E i \in Docs : SoftDelete(i)
  \/ \E out \in MergeIds : Merge(out)

Spec == Init /\ [][Next]_vars

-----------------------------------------------------------------------------
(* Properties *)

LivingDocs(s) == {segs[s].stored[i].doc : i \in segs[s].live}

\* The segments a search answers exactly: renumbered by a merge, or numbered
\* by position by the caller.
ByPosition == {s \in DOMAIN segs : segs[s].merged \/ perSegment}

\* The places at which a document is alive on disk.
AliveAt(d) ==
  {at \in (DOMAIN segs) \X Docs :
     at[2] \in segs[at[1]].live /\ segs[at[1]].stored[at[2]].doc = d}

\* Through any sequence of deletions and merges of merges, a document is alive
\* at one place from its flush on until a deletion strikes it, and at none
\* after that; the segment opens as long as a living document of it has a
\* term; and an open merger agrees with the bitmaps on disk.
AliveOnce ==
  /\ \A d \in 1 .. total :
       Cardinality(AliveAt(d)) =
         IF d \in deleted \/ \E i \in DOMAIN buf : buf[i].doc = d THEN 0 ELSE 1
  /\ \A s \in DOMAIN segs :
       (\E d \in LivingDocs(s) : Tokens(d) # <<>>) => Opens(segs[s])
  /\ \A s \in loaded : s \in DOMAIN segs /\ live[s] = segs[s].live

\* The terms of a document, and what a search says of it for one of them: its
\* tf, and its positions when the field has some.
TermsOf == [s \in Schemas |-> [d \in Docs |-> {t.key : t \in ToSet(TokensOf[s][d])}]]

ExpectedOf ==
  [s \in Schemas |-> [d \in Docs |-> [key \in TermsOf[s][d] |->
     LET at == Picked(TokensOf[s][d], {n \in DOMAIN TokensOf[s][d] : TokensOf[s][d][n].key = key})
     IN [doc |-> d, tf |-> AtMost(Len(at), MaxTf),
         pos |-> IF HasPositions(s, key[1]) THEN [n \in DOMAIN at |-> at[n].pos] ELSE <<>>]]]]

LengthsOf ==
  [s \in Schemas |-> [d \in Docs |-> [field \in {key[1] : key \in UNION {TermsOf[s][e] : e \in Docs}} |->
     AtMost(Cardinality({n \in DOMAIN TokensOf[s][d] : TokensOf[s][d][n].key[1] = field}), MaxLen)]]]

Keys == UNION {TermsOf[schema][d] : d \in Docs}

Having(s, key) == {d \in LivingDocs(s) : key \in TermsOf[schema][d]}

AnyNumber == [ranged |-> FALSE, lo |-> 0, hi |-> 0, uid |-> -1]

\* What a search for one term shows of a segment: the stored document at the
\* posting's doc_id with the posting's tf and positions.
Shown(s, key) ==
  {[doc |-> ReadStoredDoc(segs[s], id).doc, tf |-> Posting(segs[s], key, id).tf,
    pos |-> Posting(segs[s], key, id).pos]
     : id \in Found(schema, segs[s], key, AnyNumber)}

\* In a merged segment, and in any segment whose caller numbered by position,
\* a search for a term finds every living document that has it, with its own
\* stored fields, its tf and the positions its tokens were given, and nothing
\* else: what tokenizing, indexing, saving and reading the schema, flushing
\* and any number of merges make of a document is the document's.
SearchExact ==
  \A s \in ByPosition : \A key \in Keys :
    Shown(s, key) = {ExpectedOf[schema][d][key] : d \in Having(s, key)}

\* The length a scorer is told of a living document is its number of tokens in
\* the field, when the caller numbers by position (a flush writes the lengths
\* of the doc_ids 1 to n only).
LengthsExact ==
  perSegment =>
    \A s \in DOMAIN segs : \A key \in DOMAIN segs[s].lists : \A i \in segs[s].live :
      DocLen(segs[s], key[1], segs[s].stored[i].id) =
        LengthsOf[schema][segs[s].stored[i].doc][key[1]]

\* Two different terms of a document in a segment share no position, whether
\* they are terms of one field or of two, as a term is a key of its field:
\* every field with positions starts beyond the one before it.
PositionsDistinct ==
  \A s \in ByPosition : \A i \in segs[s].live :
    \A k1, k2 \in {key \in DOMAIN segs[s].lists :
                     \E e \in ToSet(segs[s].lists[key]) : e.id = i} :
      k1 # k2 => ToSet(Posting(segs[s], k1, i).pos)
                   \cap ToSet(Posting(segs[s], k2, i).pos) = {}

\* A filtered search finds the living documents with the term whose own numbers
\* pass, in any number of merges: a column never slips against the documents.
FilterExact ==
  \A s \in ByPosition : \A key \in Keys : \A filter \in Filters :
    {ReadStoredDoc(segs[s], id).doc : id \in Found(schema, segs[s], key, filter)} =
      {d \in Having(s, key) :
         LET Number(name) == IF name \in DOMAIN Numbers(d) THEN Numbers(d)[name] ELSE 0
         IN /\ filter.ranged => Number("pubtime") \in filter.lo .. filter.hi
            /\ filter.uid >= 0 => Number("uid") = filter.uid}

\* An IndexSearcher constructed now searches bare words in these fields.
DefaultFields ==
  IF DOMAIN segs = {} THEN {} ELSE IndexedFields(segs[Min(DOMAIN segs)])

\* The stored documents a query shows, in any segment.
Answer(query, occur) ==
  LET clauses == Parse(query, occur, DefaultFields)
  IN UNION {{ReadStoredDoc(segs[s], id).doc :
               id \in Matching(clauses, [key \in UNION {c.keys : c \in clauses} |->
                                            Found(schema, segs[s], key, AnyNumber)])}
              : s \in DOMAIN segs}

\* What a reader of the query means: a word counts by its stem, in the field
\* that is named or in any; stop words and words without a stem do not count.
HasWord(d, field, w) ==
  \E key \in TermsOf[schema][d] : key[2] = <<Stem[w]>> /\ field \in {"", key[1]}

Satisfies(d, query, occur) ==
  LET Asked(pt) == {[occur |-> pt.occur, has |-> HasWord(d, pt.field, w)] :
                      w \in {v \in ToSet(pt.words) : v \notin StopWords /\ Stem[v] # ""}}
      asked == UNION {Asked(ParseToken(tok, occur)) : tok \in ToSet(query)}
      Occurs(o) == {a \in asked : a.occur = o}
  IN /\ \A a \in Occurs("MUST") : a.has
     /\ \A a \in Occurs("MUST_NOT") : ~a.has
     /\ Occurs("MUST") = {} => \E a \in Occurs("SHOULD") : a.has

\* A query over all segments shows exactly the living documents a reader of it
\* would expect, whether its words are qualified or bare and in both modes, if
\* the first segment has every field that occurs; and if it has not, it still
\* shows no document it should not, unless something is excluded.
QueryExact ==
  ByPosition = DOMAIN segs /\ (\A s \in DOMAIN segs : Opens(segs[s])) =>
    \A query \in Queries : \A occur \in {"MUST", "SHOULD"} :
      LET shown    == Answer(query, occur)
          expected == {d \in UNION {LivingDocs(s) : s \in DOMAIN segs} :
                         Satisfies(d, query, occur)}
      IN /\ (\A tok \in ToSet(query) : tok.sign # "-") => shown \subseteq expected
         /\ (\A s \in DOMAIN segs : IndexedFields(segs[s]) \subseteq DefaultFields)
              => shown = expected

\* The hits of a term in every segment; the score is the tf.
HitsOf(key) ==
  [s \in DOMAIN segs |->
     {[seg |-> s, id |-> id, ext |-> Content[segs[s].stored[id].doc].ext,
       score |-> Posting(segs[s], key, id).tf]
        : id \in Found(schema, segs[s], key, AnyNumber)}]

\* Whatever segments the versions of a document have come to lie in, a search
\* over all of them never shows an external id twice; and unless one segment
\* holds two living versions that match, it shows the best distinct ones.
DistinctTopK ==
  ByPosition = DOMAIN segs =>
    \A key \in Keys : \A topK \in 1 .. MaxTopK :
      LET hits == HitsOf(key)
          top  == Search(hits, topK)
      IN /\ \A i, j \in DOMAIN top : top[i].ext = top[j].ext /\ top[i].ext # 0 => i = j
         /\ (\A s \in DOMAIN segs : \A g, h \in hits[s] : g.ext = h.ext /\ g.ext # 0 => g = h)
              => [i \in DOMAIN top |-> top[i].score] = BestScores(hits, topK)
=============================================================================
