----------------------------- MODULE MergedSearch -----------------------------
(***************************************************************************)
(* IndexSearcher::search over several segments: each is cut to its best    *)
(* top_k hits, then the cut lists are ranked together, an external id is   *)
(* kept once and the rest is cut to top_k.                                 *)
(*                                                                         *)
(* A hit is [seg, id, ext, score].  Hits of one score are ranked by        *)
(* segment and doc_id here; std::sort leaves their order open.             *)
(***************************************************************************)
EXTENDS Naturals, FiniteSets, SequencesExt, Ordered

Better(a, b) ==
  \/ a.score > b.score
  \/ a.score = b.score /\ \/ a.seg < b.seg
                          \/ a.seg = b.seg /\ a.id < b.id

Ranked(hits) ==
  [i \in 1 .. Cardinality(hits) |->
     CHOOSE h \in hits : Cardinality({g \in hits : Better(g, h)}) = i - 1]

Cut(seq, topK) == SubSeq(seq, 1, IF Len(seq) < topK THEN Len(seq) ELSE topK)

\* searchImpl: sorted by score and resized.
SegmentTopK(hits, topK) == Cut(Ranked(hits), topK)

\* Of each external id but 0 the first, that is the best, hit.
Deduped(all) ==
  Picked(all, {i \in DOMAIN all :
                 all[i].ext = 0 \/ \A j \in 1 .. i - 1 : all[j].ext # all[i].ext})

\* A defect to detect: the cut comes before the duplicates are dropped.
MergeTopKCutFirst(perSeg, topK) ==
  Deduped(Cut(Ranked(UNION {ToSet(perSeg[s]) : s \in DOMAIN perSeg}), topK))

\* mergeTopK
MergeTopK(perSeg, topK) ==
  Cut(Deduped(Ranked(UNION {ToSet(perSeg[s]) : s \in DOMAIN perSeg})), topK)

\* search: perSeg[s] are the hits the scorers of segment s find.
Search(hits, topK) ==
  MergeTopK([s \in DOMAIN hits |-> SegmentTopK(hits[s], topK)], topK)

-----------------------------------------------------------------------------
\* The reference: of every external id its best hit, and the best of these.
BestScores(hits, topK) ==
  LET best == {h \in UNION {hits[s] : s \in DOMAIN hits} :
                 h.ext = 0 \/ \A s \in DOMAIN hits : \A g \in hits[s] :
                                g.ext = h.ext /\ g # h => Better(h, g)}
  IN [i \in 1 .. (IF Cardinality(best) < topK THEN Cardinality(best) ELSE topK) |->
        Ranked(best)[i].score]
=============================================================================
