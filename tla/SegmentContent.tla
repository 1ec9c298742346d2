---------------------------- MODULE SegmentContent ----------------------------
(***************************************************************************)
(* What is in the files of a segment, as a flush writes them and a merge   *)
(* reads and rewrites them.  A segment is a record of                      *)
(*   stored  .fdt and .fdx: by position, the document and its stored       *)
(*           doc_id (external id and stored strings stand for the document) *)
(*   lists   .tim, .doc and .pos: (field, term) -> entries [id, tf, pos] in *)
(*           the order of the doc_ids; pos is empty without .pos           *)
(*   lens    .len: field -> token counts by doc_id                         *)
(*   columns ff_*: by position                                             *)
(*   live    .liv: the positions that are not deleted                      *)
(* How the lists lie in their files is SegmentFile's matter.               *)
(***************************************************************************)
EXTENDS Fields, Columns, KwayMerge, FiniteSetsExt

CONSTANTS
  MaxTf,       \* largest tf a byte of .doc holds (255)
  MaxLen       \* largest length in .len (65535)

ASSUME ContentAssumption == MaxTf \in Nat \ {0} /\ MaxLen \in Nat \ {0}

AtMost(n, cap) == IF n <= cap THEN n ELSE cap

\* The fields with a .tim: those that had a term.
FieldsOf(lists) == {key[1] : key \in DOMAIN lists}

-----------------------------------------------------------------------------
(* SegmentWriter::flush *)

\* field_indexes_ after the documents of the buffer; tokens[d] are those of d.
IndexOf(stored, tokens) ==
  FoldLeft(LAMBDA index, row : IndexTokens(index, row.id, tokens[row.doc]),
           [key \in {} |-> <<>>], stored)

\* writeFieldDoc and writeFieldPos: tf saturates in .doc, and only a field with
\* positions has a .pos.
WriteLists(schema, index) ==
  [key \in DOMAIN index |->
     [i \in DOMAIN index[key] |->
        [id  |-> index[key][i].id,
         tf  |-> AtMost(index[key][i].tf, MaxTf),
         pos |-> IF HasPositions(schema, key[1]) THEN index[key][i].pos ELSE <<>>]]]

TfOf(list, id) == MapThenSumSet(LAMBDA i : IF list[i].id = id THEN list[i].tf ELSE 0, DOMAIN list)

\* computeFieldDocLens and writeFieldLen: the lengths of doc_ids 1 to n; a
\* doc_id above the number of documents has no place in the file.
WriteLens(index, n) ==
  [field \in FieldsOf(index) |->
     [id \in 1 .. n |->
        AtMost(MapThenSumSet(LAMBDA key : TfOf(index[key], id),
                             {key \in DOMAIN index : key[1] = field}), MaxLen)]]

\* writeFdt, writeFdx and writeLiv: a row for each document, found by its
\* position whatever doc_id is in it, and a bit, which is set.
FlushedSegment(schema, rows, tokens, numbers) ==
  LET index == IndexOf(rows, tokens)
  IN [stored  |-> rows,
      live    |-> DOMAIN rows,
      lists   |-> WriteLists(schema, index),
      lens    |-> WriteLens(index, Len(rows)),
      columns |-> WriteColumns(schema, [p \in DOMAIN rows |-> numbers[rows[p].doc]]),
      merged  |-> FALSE]

-----------------------------------------------------------------------------
(* The reader of a segment *)

\* readStoredDoc: document 0 stands for the empty result.
ReadStoredDoc(seg, p) == IF p \in DOMAIN seg.stored THEN seg.stored[p] ELSE [doc |-> 0, id |-> 0]

IsAlive(seg, id) == id \in seg.live

\* fieldDocLen
DocLen(seg, field, id) ==
  IF field \in DOMAIN seg.lens /\ id \in DOMAIN seg.lens[field] THEN seg.lens[field][id] ELSE 0

\* indexedFieldNames: the fields of .si that have a .tim, and so a .len.
IndexedFields(seg) == DOMAIN seg.lens

\* The constructor takes a segment without such a field for one of the old
\* format, whose .doc it does not find, and throws.
Opens(seg) == IndexedFields(seg) # {}

-----------------------------------------------------------------------------
(* SegmentMerger::doMerge of the segments srcs[1], srcs[2], ... with the   *)
(* bitmaps of the merger's readers.                                        *)

\* Step 1: the living documents in the order of segments and positions; a
\* document's place in it is its new doc_id.
Survivors(srcs, live) ==
  FlattenSeq([k \in DOMAIN srcs |->
    LET rows == Picked(srcs[k].stored, live[k])
    IN [j \in DOMAIN rows |-> [src |-> k, pos |-> InOrder(live[k])[j],
                               doc |-> rows[j].doc, id |-> rows[j].id]]])

\* remap: the new doc_id of what segment k posted under id; the keys hold the
\* doc_id that was read from the stored fields.
NewIds(alive, k, id) == {n \in DOMAIN alive : alive[n].src = k /\ alive[n].id = id}

\* Step 3, the source of a term and segment: its entries in the order of the
\* list, the deleted ones passed over.  With positions the tf is theirs.
Source(srcs, alive, key, k, positions) ==
  LET list == ListOf(srcs[k].lists, key)
      kept == Picked(list, {i \in DOMAIN list : NewIds(alive, k, list[i].id) # {}})
  IN [i \in DOMAIN kept |->
        [id  |-> Max(NewIds(alive, k, kept[i].id)),
         tf  |-> IF positions THEN Len(kept[i].pos) ELSE kept[i].tf,
         pos |-> IF positions THEN kept[i].pos ELSE <<>>]]

MergedList(schema, srcs, alive, key) ==
  LET positions == HasPositions(schema, key[1])
      list == Merged([k \in DOMAIN srcs |-> Source(srcs, alive, key, k, positions)])
  IN [i \in DOMAIN list |-> [list[i] EXCEPT !.tf = AtMost(@, MaxTf)]]

\* A term no living document has is left out of the new dictionary.
MergedLists(schema, srcs, alive) ==
  LET keys == UNION {DOMAIN srcs[k].lists : k \in DOMAIN srcs}
      all  == [key \in keys |-> MergedList(schema, srcs, alive, key)]
  IN [key \in {key \in keys : all[key] # <<>>} |-> all[key]]

\* A defect to detect: the length is asked for by the place in the output.
MergedLensNewIds(srcs, alive) ==
  [field \in UNION {FieldsOf(srcs[k].lists) : k \in DOMAIN srcs} |->
     [n \in DOMAIN alive |->
        AtMost(DocLen(srcs[alive[n].src], field, n), MaxLen)]]

\* The lengths are asked for by the old doc_id and written by the new one.
MergedLens(srcs, alive) ==
  [field \in UNION {FieldsOf(srcs[k].lists) : k \in DOMAIN srcs} |->
     [n \in DOMAIN alive |->
        AtMost(DocLen(srcs[alive[n].src], field, alive[n].id), MaxLen)]]

\* A defect to detect: the stored doc_id is copied instead of renewed.
MergedStoredOldIds(alive) == [n \in DOMAIN alive |-> [doc |-> alive[n].doc, id |-> alive[n].id]]

\* Step 5: the stored documents, with their new doc_ids.
MergedStored(alive) == [n \in DOMAIN alive |-> [doc |-> alive[n].doc, id |-> n]]

\* A defect to detect: the columns are asked for by doc_id.
MergedColumnsById(schema, srcs, alive) ==
  WriteColumns(schema, [n \in DOMAIN alive |->
    LET src == srcs[alive[n].src]
        columns == LoadColumns(src.columns, schema, Len(src.stored))
    IN [name \in {f.name : f \in NumericFields(schema)} |->
          Value(columns, name, alive[n].id)]])

\* Step 8: the columns, by position, in the order of the survivors.
MergedColumns(schema, srcs, alive) ==
  WriteColumns(schema, [n \in DOMAIN alive |->
    LET src == srcs[alive[n].src]
        columns == LoadColumns(src.columns, schema, Len(src.stored))
    IN [name \in {f.name : f \in NumericFields(schema)} |->
          Value(columns, name, alive[n].pos)]])

MergedSegment(schema, srcs, live) ==
  LET alive == Survivors(srcs, live)
  IN [stored  |-> MergedStored(alive),
      live    |-> DOMAIN alive,
      lists   |-> MergedLists(schema, srcs, alive),
      lens    |-> MergedLens(srcs, alive),
      columns |-> MergedColumns(schema, srcs, alive),
      merged  |-> TRUE]

-----------------------------------------------------------------------------
(* A search of one segment *)

\* The entry of a list that the iterators show for a doc_id.
Posting(seg, key, id) ==
  LET list == ListOf(seg.lists, key) IN list[CHOOSE i \in DOMAIN list : list[i].id = id]

\* The living doc_ids of a term that pass the filter; .liv and the columns are
\* asked with the doc_id of the posting.
Found(schema, seg, key, filter) ==
  LET columns == LoadColumns(seg.columns, schema, Len(seg.stored))
  IN {e.id : e \in {f \in ToSet(ListOf(seg.lists, key)) :
                      IsAlive(seg, f.id) /\ PassesFilter(columns, f.id, filter)}}
=============================================================================
