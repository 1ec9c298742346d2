---------------------------- MODULE PostingIterator ----------------------------
(***************************************************************************)
(* store/posting_iterator.cpp: the lazy iterator over one term's posting   *)
(* list on disk.  It decodes one block at a time, searches the block it    *)
(* stands in, and jumps over blocks with the skip list.                    *)
(*                                                                         *)
(* next() is one step.  advance() is its call, the search of the block it   *)
(* stands in, the jump, and a step for each block it loads after that.     *)
(*                                                                         *)
(* The list lies in files as a flush or a merge writes them, between the   *)
(* lists of two other terms.  What the tf bytes are worth does not matter, *)
(* but that they differ from one another does: the i-th posting of the     *)
(* term has tf i, and a position in it is unlike those of all others.      *)
(***************************************************************************)
EXTENDS SegmentFile

CONSTANT
  MaxDoc      \* bound: the largest doc id

\* More than three, for the lists of the other terms.
ASSUME IteratorAssumption == MaxDoc \in Nat /\ MaxDoc > 3 /\ MaxDoc < 2 ^ Width

Docs == 1 .. MaxDoc
End  == MaxDoc + 1     \* INVALID_DOC

VARIABLES
  ids,        \* the term's doc ids, as a strictly increasing sequence
  merged,     \* were the files written by a merge?
  disk,       \* what is in them; meta_, skip_list_ and all_tfs_ among it
  remaining,  \* remaining_
  blockIdx,   \* cur_block_idx_: blocks before the next one to load
  filePos,    \* where file_ will read
  block,      \* cur_block_
  tfs,        \* cur_tf_block_
  pos,        \* cur_pos_
  doc,        \* cur_doc_
  tf,         \* cur_tf_
  score,      \* block_max_score_
  goal,       \* the target of the advance() in progress, or 0
  pc          \* between calls "idle"; in advance() "scan", then "seek"

onDisk == <<ids, merged, disk>>
vars == <<onDisk, remaining, blockIdx, filePos, block, tfs, pos, doc, tf, score,
          goal, pc>>

-----------------------------------------------------------------------------
(* What lies on disk                                                       *)

Increasing(S) ==
  [i \in 1 .. Cardinality(S) |-> CHOOSE d \in S : Cardinality({e \in S : e < d}) = i - 1]

Entry(id, n) == [id |-> id, tf |-> n, pos |-> [k \in 1 .. n |-> 100 * n + k]]

Term(s) == [name |-> <<"m", "m">>, list |-> [i \in DOMAIN s |-> Entry(s[i], i)]]

Terms(s) == <<[name |-> <<"b">>, list |-> <<Entry(2, 3), Entry(3, 1), Entry(MaxDoc, 2)>>],
              Term(s),
              [name |-> <<"x", "y", "z">>, list |-> <<Entry(1, 2)>>]>>

\* What the constructor, and a PosIterator, find there.
Opened(s, files) ==
  LET meta  == LoadTim(files.tim)[Term(s).name]
      skips == files.doc.at[meta.skip]
  IN [meta |-> meta, data |-> files.doc.at, level0 |-> skips.level0, level1 |-> skips.level1,
      allTfs |-> LoadTfs(files.doc, meta), entries |-> ReadPositions(files.pos, meta)]

Lists == {Increasing(S) : S \in (SUBSET Docs) \ {{}}}

meta   == disk.meta
data   == disk.data
level0 == disk.level0
level1 == disk.level1
allTfs == disk.allTfs
DocFreq == meta.df

\* The constructor ends with next(), which loads the first block.
Init ==
  /\ ids \in Lists /\ merged \in BOOLEAN
  /\ disk = Opened(ids, IF merged THEN MergedFiles(Terms(ids)) ELSE FlushedFiles(Terms(ids)))
  /\ LET first == data[meta.posting]
     IN /\ block     = Decode(first)
        /\ remaining = DocFreq - first.size
        /\ filePos   = meta.posting + BlockBytes(first)
  /\ tfs = SubSeq(allTfs, 1, Min({Len(block), Len(allTfs)}))
  /\ blockIdx = 1 /\ pos = 1
  /\ doc = block[1] /\ tf = IF tfs = <<>> THEN 1 ELSE tfs[1]
  /\ score = level0[1].score
  /\ goal = 0 /\ pc = "idle"

-----------------------------------------------------------------------------
\* A defect to detect: the bound is read after the index has moved on.
LoadNextBlockLate ==
  /\ remaining > 0 /\ filePos \in DOMAIN data
  /\ block'     = Decode(data[filePos])
  /\ remaining' = remaining - Min({remaining, data[filePos].size})
  /\ filePos'   = filePos + BlockBytes(data[filePos])
  /\ blockIdx'  = blockIdx + 1
  /\ score'     = IF blockIdx' < Len(level0) THEN level0[blockIdx' + 1].score ELSE 0
  /\ tfs'       = SubSeq(allTfs, blockIdx * BlockSize + 1,
                         Min({blockIdx * BlockSize + Len(block'), Len(allTfs)}))

\* loadNextBlock when it returns true; the caller sets cur_pos_.
LoadNextBlock ==
  /\ remaining > 0 /\ filePos \in DOMAIN data
  /\ block'     = Decode(data[filePos])
  /\ remaining' = remaining - Min({remaining, data[filePos].size})
  /\ filePos'   = filePos + BlockBytes(data[filePos])
  /\ blockIdx'  = blockIdx + 1
  /\ score'     = IF blockIdx < Len(level0) THEN level0[blockIdx + 1].score ELSE 0
  /\ tfs'       = SubSeq(allTfs, blockIdx * BlockSize + 1,
                         Min({blockIdx * BlockSize + Len(block'), Len(allTfs)}))

NoBlockLeft == remaining = 0 \/ filePos \notin DOMAIN data

\* The iterator stands on the i-th entry of a block.
StandOn(b, t, i) ==
  /\ doc' = b[i]
  /\ tf'  = IF i \in DOMAIN t THEN t[i] ELSE 1
  /\ pos' = i

\* next()
NextInBlock ==
  /\ pc = "idle" /\ pos < Len(block)
  /\ StandOn(block, tfs, pos + 1)
  /\ UNCHANGED <<onDisk, remaining, blockIdx, filePos, block, tfs, score, goal, pc>>

NextBlock ==
  /\ pc = "idle" /\ pos = Len(block)
  /\ \/ /\ LoadNextBlock
        /\ StandOn(block', tfs', 1)
     \/ /\ NoBlockLeft
        /\ doc' = End
        /\ UNCHANGED <<remaining, blockIdx, filePos, block, tfs, pos, tf, score>>
  /\ UNCHANGED <<onDisk, goal, pc>>

\* scanBlock: the entries from `from` on that reach the target.
Reaching(b, from, t) == {i \in from .. Len(b) : b[i] >= t}

\* advance() that does not return at once.
Advance(t) ==
  /\ pc = "idle" /\ doc < t /\ doc # End
  /\ goal' = t /\ pc' = "scan"
  /\ UNCHANGED <<onDisk, remaining, blockIdx, filePos, block, tfs, pos, doc, tf, score>>

\* Its target is in the block it stands in.
ScanBlock ==
  /\ pc = "scan"
  /\ Reaching(block, pos + 1, goal) # {}
  /\ StandOn(block, tfs, Min(Reaching(block, pos + 1, goal)))
  /\ goal' = 0 /\ pc' = "idle"
  /\ UNCHANGED <<onDisk, remaining, blockIdx, filePos, block, tfs, score>>

DocsBefore(k) == MapThenSumSet(LAMBDA i : level0[i].count, 1 .. k - 1)

\* seekToBlock jumps to the block that the skip list names.
Jump(k) ==
  /\ blockIdx'  = k - 1
  /\ filePos'   = meta.posting + level0[k].offset
  /\ remaining' = IF DocFreq > DocsBefore(k) THEN DocFreq - DocsBefore(k) ELSE 0
  /\ block' = <<>> /\ pos' = 0

\* It is not: jump, or read on from here.
SeekToBlock ==
  /\ pc = "scan"
  /\ Reaching(block, pos + 1, goal) = {}
  /\ LET k == Find(level0, level1, goal)
     IN \/ /\ k # NotFound /\ k > blockIdx
           /\ Jump(k)
        \/ /\ k = NotFound \/ k <= blockIdx
           /\ pos' = Len(block)
           /\ UNCHANGED <<remaining, blockIdx, filePos, block>>
  /\ pc' = "seek"
  /\ UNCHANGED <<onDisk, tfs, doc, tf, score, goal>>

\* One round of seekToBlock's loop.
SeekRound ==
  /\ pc = "seek"
  /\ \/ /\ LoadNextBlock
        /\ \/ /\ Reaching(block', 1, goal) # {}
              /\ StandOn(block', tfs', Min(Reaching(block', 1, goal)))
              /\ goal' = 0 /\ pc' = "idle"
           \/ /\ Reaching(block', 1, goal) = {}
              /\ pos' = Len(block')
              /\ UNCHANGED <<doc, tf, goal, pc>>
     \/ /\ NoBlockLeft
        /\ doc' = End /\ goal' = 0 /\ pc' = "idle"
        /\ UNCHANGED <<remaining, blockIdx, filePos, block, tfs, pos, tf, score>>
  /\ UNCHANGED onDisk

Next ==
  \/ NextInBlock \/ NextBlock
  \/ \E t \in Docs \cup {End} : Advance(t)
  \/ ScanBlock \/ SeekToBlock \/ SeekRound

Spec == Init /\ [][Next]_vars

-----------------------------------------------------------------------------
(* Properties *)

\* Compressing and decompressing a block gives back its documents, whatever
\* the differences are and however many of them need a patch.
ReadsBack == \A k \in 1 .. BlockCount(ids) : Decode(Blocks(ids)[k]) = BlockDocs(ids, k)

\* Between calls the block, its bound and the tf belong to the document the
\* iterator stands on, by whichever way it came there: blockMaxDocId() and
\* blockMaxScore() are what WAND skips by, tf() is what it scores with.
BoundsOfDoc ==
  pc = "idle" /\ doc # End =>
    \E n \in DOMAIN ids :
      /\ ids[n] = doc /\ tf = Min({n, MaxTfByte})
      /\ score = (n - 1) \div BlockSize + 1
      /\ block = BlockDocs(ids, score)

\* The streaming reader of .pos, which merges use for fields with positions,
\* tells what the term's list was, and the iterator over .doc, which searches and
\* the other merges use, tells the same of every document but that a tf is cut;
\* the offsets of neither lead into the lists of another term, in the files of
\* a flush (patched twice after the fact) as in those of a merge.
PositionsOfDoc ==
  pc = "idle" /\ doc # End =>
    /\ disk.entries = Term(ids).list
    /\ \E e \in ToSet(disk.entries) : e.id = doc /\ tf = Min({e.tf, MaxTfByte})

\* Whatever the calls, the iterator is a cursor on the sorted list: advance
\* finds the first document at or after its target although it jumps.
Cursor == INSTANCE PostingCursor WITH list <- ToSet(ids)

IsCursor == Cursor!Spec
=============================================================================
