------------------------------ MODULE SegmentFile ------------------------------
(***************************************************************************)
(* The .tim, .doc and .pos files of one field: where the two writers put   *)
(* things, and where the readers look for them.                            *)
(*                                                                         *)
(* A file is [end |-> its size, at |-> byte offset -> the thing that lies  *)
(* there].  The things have their size in bytes and are read whole: a      *)
(* number, a term, a skip list, a block.  The terms of a field are a       *)
(* sequence of [name, list] in the order of the map, with the entries      *)
(* [id, tf, pos] of the posting list.                                      *)
(***************************************************************************)
EXTENDS PForDelta, SkipList, SequencesExt

MaxTfByte == 255

EmptyFile == [end |-> 0, at |-> [o \in {} |-> 0]]

\* What Op makes of w with one element of s after another: FoldLeft, by the
\* number of elements, which proofs can unfold.
Each(Op(_, _), w, s) ==
  LET after[n \in 0 .. Len(s)] == IF n = 0 THEN w ELSE Op(after[n - 1], s[n])
  IN after[Len(s)]

\* The function f with v at x.
With(f, x, v) == [y \in {x} \cup DOMAIN f |-> IF y = x THEN v ELSE f[y]]

\* writeU32 and the like append; a thing is <<bytes, value>>.
Put(file, thing) ==
  [end |-> file.end + thing[1], at |-> With(file.at, file.end, thing[2])]

PutAll(file, things) == Each(Put, file, things)

-----------------------------------------------------------------------------
(* compress and serialize *)

Ids(list) == [i \in DOMAIN list |-> list[i].id]

Blocks(ids) == [k \in 1 .. BlockCount(ids) |-> Encode(BlockDocs(ids, k))]

\* The bound of the k-th block stands for itself: what matters is whose it is.
SkipNodes(blocks) ==
  LET offset[k \in DOMAIN blocks] ==
        IF k = 1 THEN 0 ELSE offset[k - 1] + BlockBytes(blocks[k - 1])
  IN [k \in DOMAIN blocks |->
        [maxDoc |-> blocks[k].maxDoc, offset |-> offset[k], score |-> k, count |-> blocks[k].size]]

Skips(blocks) ==
  LET level0 == SkipNodes(blocks) IN [level0 |-> level0, level1 |-> BuildLevel1(level0)]

\* serializedSize; a SkipNode has 24 bytes.
SkipBytes(skips) == 8 + (Len(skips.level0) + Len(skips.level1)) * 24

TotalTf(list) == FoldLeft(LAMBDA n, e : n + e.tf, 0, list)

-----------------------------------------------------------------------------
(* What both writers do for a term in .doc, w = [file, metas] with the      *)
(* offsets for .tim, and in .pos, w = [file, at].                          *)

PutDoc(w, t) ==
  LET blocks  == Blocks(Ids(t.list))
      skips   == Skips(blocks)
      skipped == Put(w.file, <<SkipBytes(skips), skips>>)
      packed  == PutAll(skipped, [k \in DOMAIN blocks |-> <<BlockBytes(blocks[k]), blocks[k]>>])
  IN [file  |-> PutAll(packed, [i \in DOMAIN t.list |-> <<1, Min({t.list[i].tf, MaxTfByte})>>]),
      metas |-> Append(w.metas, [skip |-> w.file.end, posting |-> skipped.end,
                                 tfData |-> packed.end])]

PosThings(e) ==
  <<<<4, e.id>>, <<4, e.tf>>>> \o [n \in DOMAIN e.pos |-> <<4, e.pos[n]>>]

PutEntry(file, e) == PutAll(file, PosThings(e))

PutEntries(file, list) == Each(PutEntry, file, list)

\* A defect to detect: the place is taken after the entries are written.
PutPosAfter(w, t) ==
  LET file == PutEntries(w.file, t.list)
  IN [file |-> file, at |-> Append(w.at, file.end)]

PutPos(w, t) == [file |-> PutEntries(w.file, t.list), at |-> Append(w.at, w.file.end)]

\* An entry of .tim up to its offsets, and the offsets with the upper bound
\* between them (the bound is not modelled).
TermThings(t) ==
  <<<<4 + Len(t.name), t.name>>, <<4, Len(t.list)>>, <<4, TotalTf(t.list)>>>>

OffsetThings(posting, skip, pos, tfData) ==
  <<<<8, posting>>, <<8, skip>>, <<8, pos>>, <<4, 0>>, <<8, tfData>>>>

NewDoc == [file |-> EmptyFile, metas |-> <<>>]
NewPos == [file |-> EmptyFile, at |-> <<>>]

-----------------------------------------------------------------------------
(* SegmentWriter: .tim first with zeros, then patched from .doc and .pos   *)

\* writeFieldTim, and tim_patch: where the offsets of each term begin.
PutZeros(w, t) ==
  LET begun == PutAll(w.file, TermThings(t))
  IN [file  |-> PutAll(begun, OffsetThings(0, 0, 0, 0)),
      patch |-> Append(w.patch, begun.end)]

WriteTim(terms) ==
  Each(PutZeros, [file |-> Put(EmptyFile, <<4, Len(terms)>>), patch |-> <<>>], terms)

\* The end of writeFieldDoc for a term, p = [base, meta]: the bytes from +16 to
\* +27 are not touched.
PatchDoc(file, p) ==
  [file EXCEPT !.at = With(With(With(@, p.base, p.meta.posting), p.base + 8, p.meta.skip),
                           p.base + 28, p.meta.tfData)]

\* The end of writeFieldPos for a term, p = [base, pos].
PatchPos(file, p) == [file EXCEPT !.at = With(@, p.base + 16, p.pos)]

FlushedFiles(terms) ==
  LET tim == WriteTim(terms)
      doc == Each(PutDoc, [NewDoc EXCEPT !.file = Put(@, <<4, Len(terms)>>)], terms)
      pos == Each(PutPos, NewPos, terms)
      withDoc == Each(PatchDoc, tim.file,
                      [i \in DOMAIN terms |-> [base |-> tim.patch[i], meta |-> doc.metas[i]]])
  IN [tim |-> Each(PatchPos, withDoc,
                   [i \in DOMAIN terms |-> [base |-> tim.patch[i], pos |-> pos.at[i]]]),
      doc |-> doc.file, pos |-> pos.file]

-----------------------------------------------------------------------------
(* SegmentMerger::doMerge: no count in .doc, and .tim when all is known    *)

\* An entry of .tim, t = [term, meta, pos].
PutTerm(file, t) ==
  PutAll(file, TermThings(t.term)
                 \o OffsetThings(t.meta.posting, t.meta.skip, t.pos, t.meta.tfData))

MergedFiles(terms) ==
  LET doc == Each(PutDoc, NewDoc, terms)
      pos == Each(PutPos, NewPos, terms)
  IN [tim |-> Each(PutTerm, Put(EmptyFile, <<4, Len(terms)>>),
                   [i \in DOMAIN terms |->
                      [term |-> terms[i], meta |-> doc.metas[i], pos |-> pos.at[i]]]),
      doc |-> doc.file, pos |-> pos.file]

-----------------------------------------------------------------------------
(* SegmentReader and PosIterator                                           *)

\* loadPerFieldTims: the entries one after the other, by the length of each.
LoadTim(file) ==
  LET state[n \in 0 .. file.at[0]] ==
        IF n = 0 THEN [next |-> 4, dict |-> [t \in {} |-> 0]]
        ELSE LET o    == state[n - 1].next
                 base == o + 4 + Len(file.at[o]) + 8
                 meta == [df |-> file.at[base - 8], ttf |-> file.at[base - 4],
                          posting |-> file.at[base], skip |-> file.at[base + 8],
                          pos |-> file.at[base + 16], tfData |-> file.at[base + 28]]
             IN [next |-> base + 36, dict |-> With(state[n - 1].dict, file.at[o], meta)]
  IN state[file.at[0]].dict

\* all_tfs_: one byte for each document.
LoadTfs(file, meta) ==
  IF meta.tfData = 0 THEN <<>> ELSE [i \in 1 .. meta.df |-> file.at[meta.tfData + i - 1]]

\* PosIterator, to its end: remaining_ entries from pos_offset on.
ReadPositions(file, meta) ==
  LET state[n \in 0 .. meta.df] ==
        IF n = 0 THEN [next |-> meta.pos, out |-> <<>>]
        ELSE LET o  == state[n - 1].next
                 tf == file.at[o + 4]
             IN [next |-> o + 8 + 4 * tf,
                 out  |-> Append(state[n - 1].out,
                            [id |-> file.at[o], tf |-> tf,
                             pos |-> [i \in 1 .. tf |-> file.at[o + 4 + 4 * i]]])]
  IN state[meta.df].out
=============================================================================
