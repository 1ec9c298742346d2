---------------------------- MODULE MemorySegment ----------------------------
(***************************************************************************)
(* One memory segment from its first document to its files: the arena of   *)
(* pages, the hash table of terms with its string arena, addDocument step  *)
(* by step with the exceptions it can leave with, the ids RTIndexThread    *)
(* gives its documents, the memory reader with its cache of term bounds,   *)
(* flushToDisk and what a SegmentReader makes of the files, and reset.     *)
(*                                                                         *)
(* One indexed field; a term is a "field:term" key.  An offset is the      *)
(* number of a page (0 is INVALID_OFFSET), so every page has size one: all *)
(* sizes are multiples of the alignment.  A document is its stream of      *)
(* tokens and the number of pages its stored fields take.  Searches come   *)
(* between two calls of addDocument, as memory_segment_reader.h asks.      *)
(***************************************************************************)
EXTENDS Integers, Sequences, FiniteSets, Functions, Ordered

CONSTANTS
  Terms,        \* the keys of the hash table
  Hash,         \* start slot of a term
  StrLen,       \* length of its string
  Docs,         \* the documents
  Toks,         \* tokens of a document
  Parts,        \* pages its stored fields take
  NoDoc,        \* ext_id 0
  ArenaPages,   \* arena capacity
  HashCap,      \* slots of the hash table
  StrCap,       \* string arena capacity
  InlineLimit,  \* INLINE_POS_LIMIT
  PosPerPage,   \* POS_PER_PAGE
  TfCap,        \* 255, the largest tf on disk
  LenCap,       \* 65535, the largest length on disk
  MaxAdds       \* bound: calls of addDocument per segment

ASSUME MemorySegmentAssumption ==
  /\ ArenaPages \in Nat /\ HashCap \in Nat \ {0} /\ StrCap \in Nat
  /\ InlineLimit \in Nat /\ PosPerPage \in Nat \ {0}
  /\ TfCap \in Nat \ {0} /\ LenCap \in Nat \ {0}
  /\ "" \notin Terms
  /\ Hash \in [Terms -> 0 .. HashCap - 1] /\ StrLen \in [Terms -> Nat]
  /\ Toks \in [Docs -> Seq(Terms)] /\ Parts \in [Docs -> Nat]
  /\ NoDoc \notin Docs

VARIABLES
  pages,      \* arena_: the pages allocated so far
  buckets,    \* buckets_ of the hash table
  strUsed,    \* used bytes of its string arena
  stored,     \* stored_heads_
  ext,        \* doc_ext_ids_
  len,        \* doc_field_len_
  total,      \* field_total_tokens_
  docCount,   \* doc_count_
  nextId,     \* RTIndexThread::next_local_id_
  cur,        \* the addDocument call in progress: document, id, terms to index
  cache,      \* term_meta_cache_ of the reader: the upper bounds
  file,       \* the files flushToDisk has written
  pc,         \* idle, index (inside addDocument) or flushed
  acked,      \* history: id -> document of the calls that returned
  failed      \* history: ids of the calls that threw

vars == <<pages, buckets, strUsed, stored, ext, len, total, docCount, nextId,
          cur, cache, file, pc, acked, failed>>

Free    == [term |-> "", head |-> 0, df |-> 0, ttf |-> 0]
NoCall  == [doc |-> NoDoc, id |-> 0, todo |-> {}]
NoFile  == [docs |-> 0]
Nothing == [i \in {} |-> 0]

Least(a, b)  == IF a < b THEN a ELSE b
With(f, k, v) == [x \in DOMAIN f \cup {k} |-> IF x = k THEN v ELSE f[x]]

-----------------------------------------------------------------------------
(* Pages and chains                                                        *)

\* Consecutive pages that hold the sequence s, `per' elements each, after the
\* page `last': writePosChain, and the loop of writeStoredFields.
ChainOf(last, s, per) ==
  LET n == (Len(s) + per - 1) \div per IN
  [k \in 1 .. n |->
     [data |-> SubSeq(s, (k - 1) * per + 1, Least(k * per, Len(s))),
      next |-> IF k = n THEN 0 ELSE last + k + 1]]

\* What the chain of pages arena that starts at an offset yields, if the page at
\* offset o yields of[o].
Follow(arena, of, head) ==
  LET from[o \in 0 .. Len(arena)] ==
        IF o = 0 THEN <<>> ELSE of[o] \o from[arena[o].next]
  IN from[head]

\* The pages of a chain, and their data.
Walk(head) == Follow(pages, [o \in DOMAIN pages |-> <<pages[o]>>], head)
Data(head) == Follow(pages, [o \in DOMAIN pages |-> pages[o].data], head)

\* What an exception leaves behind: pages no chain reaches.
Lost(n) == [k \in 1 .. n |-> [data |-> <<>>, next |-> 0]]

-----------------------------------------------------------------------------
(* The term hash table                                                     *)

Slot(t, probe) == (Hash[t] + probe) % HashCap

\* A slot that ends the search for t, a free one or its own.
Ends(t, probe) == buckets[Slot(t, probe)].term \in {"", t}

\* findSlot throws if it has gone round.
TableFull(t) == \A probe \in 0 .. HashCap - 1 : ~Ends(t, probe)

FindSlot(t) ==
  Slot(t, CHOOSE p \in 0 .. HashCap - 1 :
            Ends(t, p) /\ \A q \in 0 .. p - 1 : ~Ends(t, q))

\* The terms that lookup finds; of another one findSlot says that there is none,
\* or throws.
Present == {t \in Terms : ~TableFull(t) /\ buckets[FindSlot(t)].term = t}

Bucket(t) == buckets[FindSlot(t)]

\* upsert: a new term stores its string, an old one gets the new head.
Upsert(t, head, tf) ==
  LET b == Bucket(t) IN
  /\ b = Free => strUsed + StrLen[t] <= StrCap
  /\ strUsed' = IF b = Free THEN strUsed + StrLen[t] ELSE strUsed
  /\ buckets' = [buckets EXCEPT ![FindSlot(t)] =
       [term |-> t, head |-> head, df |-> b.df + 1, ttf |-> b.ttf + tf]]

-----------------------------------------------------------------------------
(* addDocument                                                             *)

Init ==
  /\ pages = <<>>
  /\ buckets = [s \in 0 .. HashCap - 1 |-> Free]
  /\ strUsed = 0
  /\ stored = Nothing /\ ext = Nothing /\ len = Nothing
  /\ total = 0 /\ docCount = 0
  /\ nextId = 1
  /\ cur = NoCall
  /\ cache = Nothing
  /\ file = NoFile
  /\ pc = "idle"
  /\ acked = Nothing /\ failed = {}

\* The stored fields of a document, as the parts its pages hold.
Stored(d) == [k \in 1 .. Parts[d] |-> <<d, k>>]

\* Where the tokens of a term are in a document.
Positions(d, t) == InOrder({i \in DOMAIN Toks[d] : Toks[d][i] = t})

\* The test of writeStoredFields before it writes.
StoredFits(d) == Len(pages) + Parts[d] <= ArenaPages

StoredChain(d) == ChainOf(Len(pages), Stored(d), 1)

\* The argument next_local_id_++ is spent whatever becomes of the call.  The
\* stored fields go first; a document with tokens is left to IndexTerm.
AddDocument(d) ==
  /\ pc = "idle" /\ nextId <= MaxAdds
  /\ nextId' = nextId + 1
  /\ \/ /\ StoredFits(d)
        /\ pages'  = pages \o StoredChain(d)
        /\ stored' = IF Parts[d] = 0 THEN stored
                                     ELSE With(stored, nextId, Len(pages) + 1)
        /\ ext'    = With(ext, nextId, d)
        /\ IF Toks[d] = <<>>
             THEN /\ docCount' = docCount + 1
                  /\ acked' = With(acked, nextId, d)
                  /\ UNCHANGED <<len, total, cur, pc>>
             ELSE /\ len'   = With(len, nextId, Len(Toks[d]))
                  /\ total' = total + Len(Toks[d])
                  /\ cur'   = [doc |-> d, id |-> nextId, todo |-> Range(Toks[d])]
                  /\ pc'    = "index"
                  /\ UNCHANGED <<docCount, acked>>
        /\ UNCHANGED failed
     \/ /\ ~StoredFits(d)
        /\ failed' = failed \cup {nextId}
        /\ UNCHANGED <<pages, stored, ext, len, total, docCount, cur, pc, acked>>
  /\ UNCHANGED <<buckets, strUsed, cache, file>>

\* The pages that the positions of a term need beside its TermPage.
PosChain(t) ==
  LET pos == Positions(cur.doc, t) IN
  IF Len(pos) <= InlineLimit THEN <<>> ELSE ChainOf(Len(pages) + 1, pos, PosPerPage)

\* The new TermPage of a term, in front of its list.
TermPage(t) ==
  LET pos    == Positions(cur.doc, t)
      inside == Len(pos) <= InlineLimit
  IN [doc  |-> cur.id,
      tf   |-> Len(pos),
      next |-> Bucket(t).head,
      data |-> IF inside THEN pos ELSE <<>>,
      head |-> IF inside THEN 0 ELSE Len(pages) + 2]

PagesNeeded(t) == 1 + Len(PosChain(t))

\* One term of indexField, in the arbitrary order of an unordered_map; after
\* the last one the document is counted and addDocument returns.
IndexTerm(t) ==
  /\ pc = "index" /\ t \in cur.todo
  /\ ~TableFull(t)
  /\ Len(pages) + PagesNeeded(t) <= ArenaPages
  /\ Upsert(t, Len(pages) + 1, TermPage(t).tf)
  /\ pages' = pages \o <<TermPage(t)>> \o PosChain(t)
  /\ IF cur.todo = {t}
       THEN /\ docCount' = docCount + 1
            /\ acked' = With(acked, cur.id, cur.doc)
            /\ cur' = NoCall
            /\ pc'  = "idle"
       ELSE /\ cur' = [cur EXCEPT !.todo = @ \ {t}]
            /\ UNCHANGED <<docCount, acked, pc>>
  /\ UNCHANGED <<stored, ext, len, total, nextId, cache, file, failed>>

\* How many pages are lost when a term cannot be indexed: allocTermPage,
\* lookup, writePosChain or upsert throws, in this order.
PagesLost(t) ==
  LET room == ArenaPages - Len(pages) IN
  IF room = 0 THEN 0
  ELSE IF TableFull(t) THEN 1 ELSE Least(room, PagesNeeded(t))

CannotIndex(t) ==
  \/ TableFull(t)
  \/ Len(pages) + PagesNeeded(t) > ArenaPages
  \/ ~TableFull(t) /\ Bucket(t) = Free /\ strUsed + StrLen[t] > StrCap

\* A defect to detect: the id is spent only when addDocument returns.
IdReusedAfterThrow(t) ==
  /\ pc = "index" /\ t \in cur.todo /\ CannotIndex(t)
  /\ pages'  = pages \o Lost(PagesLost(t))
  /\ failed' = failed \cup {cur.id}
  /\ nextId' = cur.id
  /\ cur'    = NoCall
  /\ pc'     = "idle"
  /\ UNCHANGED <<buckets, strUsed, stored, ext, len, total, docCount, cache,
                 file, acked>>

\* addDocument throws half way: what was written before stays.
IndexTermThrows(t) ==
  /\ pc = "index" /\ t \in cur.todo /\ CannotIndex(t)
  /\ pages'  = pages \o Lost(PagesLost(t))
  /\ failed' = failed \cup {cur.id}
  /\ cur'    = NoCall
  /\ pc'     = "idle"
  /\ UNCHANGED <<buckets, strUsed, stored, ext, len, total, docCount, nextId,
                 cache, file, acked>>

-----------------------------------------------------------------------------
(* Reading from memory                                                     *)

\* The list of a term, newest first.
TermPages(t) == Walk(Bucket(t).head)

\* A defect to detect: the list is used in the order of the chain.
NewestFirst(list) == list

\* The order postingIterator and flushToDisk bring it into: each entry comes
\* after those with a smaller document number.
Sorted(list) ==
  LET Upto(i) == {j \in DOMAIN list : \/ list[j].doc < list[i].doc
                                      \/ list[j].doc = list[i].doc /\ j <= i}
  IN [k \in DOMAIN list |->
        list[CHOOSE i \in DOMAIN list : Cardinality(Upto(i)) = k]]

\* BM25's tf factor, tf * 2.2 / (tf + 1.2 * (0.25 + 0.75 * dl / avg)), grows
\* with tf * avg / (avg + 3 * dl).  Averages and factors are fractions.
Factor(tf, dl, avg) == <<tf * avg[1], avg[1] + 3 * avg[2] * dl>>
AtMost(x, y) == x[1] * y[2] <= y[1] * x[2]

\* fieldAvgDocLen, and getTermMeta's copy of it that is at least one.
MemAverage == IF docCount = 0 THEN <<1, 1>> ELSE <<total, docCount>>
AtLeastOne(avg) == IF avg[1] < avg[2] THEN <<1, 1>> ELSE avg

\* A defect to detect: the bound is computed for the average tf.
BoundOfMeanTf(t) ==
  Factor(Bucket(t).ttf \div Bucket(t).df, 1, AtLeastOne(MemAverage))

\* upper_bound: all occurrences of the term in one document of length one.
ComputedBound(t) == Factor(Bucket(t).ttf, 1, AtLeastOne(MemAverage))

\* getTermMeta answers from the cache; the first call fills it.
TermBound(t) == IF t \in DOMAIN cache THEN cache[t] ELSE ComputedBound(t)

\* postingIterator and getTermMeta look the term up: the overflow_error that
\* findSlot throws for a new term and a table without a free slot leaves them.
SearchThrows(t) == TableFull(t)

\* What postingIterator answers if it does not throw: of a term without a
\* bucket, the empty list.
MemoryPostings(t) == IF t \in Present THEN Sorted(TermPages(t)) ELSE <<>>

\* A search: it fills the cache for a term that is there, and changes nothing
\* for any other, whether it throws or not.
Search(t) ==
  /\ pc = "idle"
  /\ cache' = IF t \in Present THEN With(cache, t, TermBound(t)) ELSE cache
  /\ UNCHANGED <<pages, buckets, strUsed, stored, ext, len, total, docCount,
                 nextId, cur, file, pc, acked, failed>>

-----------------------------------------------------------------------------
(* flushToDisk, the SegmentReader of its files, reset                      *)

LenOf(i)  == IF i \in DOMAIN len THEN len[i] ELSE 0

\* Positions of an entry: from the page itself or from its PosPage chain.
EntryPositions(p) == IF p.tf <= InlineLimit THEN p.data ELSE SubSeq(Data(p.head), 1, p.tf)

\* The sorted list of a term with the tf of .doc, cut to a byte, and the
\* positions of .pos.
Entries(t) ==
  LET list == Sorted(TermPages(t)) IN
  [i \in 1 .. Len(list) |->
     [doc |-> list[i].doc, tf |-> Least(list[i].tf, TfCap),
      pos |-> EntryPositions(list[i])]]

\* The largest factor of the documents of a term.
FlushBound(t) ==
  LET f == {Factor(p.tf, LenOf(p.doc), <<total, docCount>>) :
              p \in Range(TermPages(t))}
  IN CHOOSE x \in f : \A y \in f : AtMost(y, x)

\* The row of a document in .fdt, by its number and not by its postings.
FdtRow(i) ==
  [ext |-> IF i \in DOMAIN ext THEN ext[i] ELSE NoDoc,
   fields |-> IF i \in DOMAIN stored THEN Data(stored[i]) ELSE <<>>]

\* A thread freezes a segment when it grows over a threshold, or at shutdown
\* if it is not empty; it is written to no more, so that flushToDisk of the
\* worker can be taken together with the freeze.
FlushToDisk ==
  /\ pc = "idle" /\ docCount > 0
  /\ file' = [docs  |-> docCount,
              post  |-> [t \in Present |-> Entries(t)],
              ttf   |-> [t \in Present |-> Bucket(t).ttf],
              bound |-> [t \in Present |-> FlushBound(t)],
              len   |-> [i \in 1 .. docCount |-> Least(LenOf(i), LenCap)],
              fdt   |-> [i \in 1 .. docCount |-> FdtRow(i)]]
  /\ pc' = "flushed"
  /\ UNCHANGED <<pages, buckets, strUsed, stored, ext, len, total, docCount,
                 nextId, cur, cache, acked, failed>>

\* What the SegmentReader of the files answers: isAlive (every bit of .liv is
\* set), the postings and positions of a term, the length of a document, the
\* row .fdx leads to, and the average that loadPerFieldTims computes: the sum
\* of the ttf over the number of documents.
DiskAlive(i) == i \in 1 .. file.docs

DiskPostings(t) == IF t \in DOMAIN file.post THEN file.post[t] ELSE <<>>

DiskPositions(t, i) == {e.pos : e \in {x \in Range(DiskPostings(t)) : x.doc = i}}

DiskLen(i) == IF DiskAlive(i) THEN file.len[i] ELSE 0

NoRow == [ext |-> NoDoc, fields |-> <<>>]
Fdx == DOMAIN file.fdt
DiskRow(i) == IF i \in Fdx THEN file.fdt[i] ELSE NoRow

DiskAverage == <<FoldFunction(LAMBDA x, y : x + y, 0, file.ttf), file.docs>>

\* reset(), or the fresh segment and reader that freeze() puts in place: the
\* next life begins as the first one.
Reset ==
  /\ pc = "flushed"
  /\ pages' = <<>>
  /\ buckets' = [s \in 0 .. HashCap - 1 |-> Free]
  /\ strUsed' = 0
  /\ stored' = Nothing /\ ext' = Nothing /\ len' = Nothing
  /\ total' = 0 /\ docCount' = 0
  /\ nextId' = 1
  /\ cache' = Nothing
  /\ file' = NoFile
  /\ pc' = "idle"
  /\ acked' = Nothing /\ failed' = {}
  /\ UNCHANGED cur

Next ==
  \/ \E d \in Docs : AddDocument(d)
  \/ \E t \in Terms : IndexTerm(t) \/ IndexTermThrows(t) \/ Search(t)
  \/ FlushToDisk
  \/ Reset

Spec == Init /\ [][Next]_vars

-----------------------------------------------------------------------------
(* Properties                                                              *)

\* Between two calls the memory reader shows every document that was added,
\* under one id, for each of its terms and for no other, with its tf, length
\* and stored fields, whatever calls threw in between and however the terms
\* collide; the list of a term names no document twice and has df entries;
\* what else it names is left over from a call that threw.  A search throws
\* exactly when no slot of the table is free and none has its term, so never
\* for a term of a document that was added.
MemoryExact ==
  pc = "idle" =>
    /\ Cardinality(DOMAIN acked) = docCount
    /\ \A t \in Present :
         LET list == MemoryPostings(t) IN
         /\ Len(list) = Bucket(t).df
         /\ \A i \in 2 .. Len(list) : list[i - 1].doc < list[i].doc
         /\ \A i \in 1 .. Len(list) : list[i].doc \in DOMAIN acked \cup failed
    /\ \A t \in Terms :
         SearchThrows(t) <=> \A s \in DOMAIN buckets : buckets[s].term \notin {"", t}
    /\ \A i \in DOMAIN acked :
         /\ ext[i] = acked[i]
         /\ FdtRow(i).fields = Stored(acked[i])
         /\ LenOf(i) = Len(Toks[acked[i]])
         /\ \A t \in Range(Toks[acked[i]]) : ~SearchThrows(t)
         /\ \A t \in Terms : SearchThrows(t) \/
              {p.tf : p \in {q \in Range(MemoryPostings(t)) : q.doc = i}}
                = {Len(Positions(acked[i], t))} \ {0}

\* A flushed segment from which no call threw shows from disk exactly what was
\* added: alive, with the stored fields of its own row, its length, and its
\* entry with all positions in the lists of its terms, which are in the order
\* PForDelta's differences need.  After a throw this still holds for the
\* documents whose id is among the first docCount.
FlushExact ==
  pc = "flushed" =>
    /\ \A t \in Terms : \A k \in 2 .. Len(DiskPostings(t)) :
         DiskPostings(t)[k - 1].doc < DiskPostings(t)[k].doc
    /\ \A i \in DOMAIN acked : failed = {} \/ i <= docCount =>
         /\ DiskAlive(i)
         /\ DiskRow(i) = [ext |-> acked[i], fields |-> Stored(acked[i])]
         /\ DiskLen(i) = Least(Len(Toks[acked[i]]), LenCap)
         /\ \A t \in Terms :
              LET pos == Positions(acked[i], t) IN
              /\ {e.tf : e \in {x \in Range(DiskPostings(t)) : x.doc = i}}
                   = {Least(Len(pos), TfCap)} \ {0}
              /\ DiskPositions(t, i) = {pos} \ {<<>>}

\* The bound of a term is one: no document of its list scores higher, neither
\* from memory with the bound as getTermMeta computes it at that moment, nor
\* from disk with the bound flushToDisk took from the exact values, the tf
\* cut to a byte and the average recomputed from the term dictionary (a
\* document longer than LenCap is scored as a shorter one and may exceed it).
BoundsHold ==
  /\ pc = "idle" => \A t \in Present : \A p \in Range(TermPages(t)) :
       AtMost(Factor(p.tf, LenOf(p.doc), MemAverage), ComputedBound(t))
  /\ pc = "flushed" => \A t \in Terms : \A e \in Range(DiskPostings(t)) :
       DiskAlive(e.doc) /\ LenOf(e.doc) <= LenCap =>
         AtMost(Factor(e.tf, DiskLen(e.doc), DiskAverage), file.bound[t])

\* memory_segment_reader.cpp:104 says of the bound a search works with that it
\* is the largest tf factor across all documents: those that came after the
\* first search for the term included.
SearchBoundHolds ==
  pc = "idle" => \A t \in Present : \A p \in Range(TermPages(t)) :
    AtMost(Factor(p.tf, LenOf(p.doc), MemAverage), TermBound(t))
=============================================================================
