# A TLA+ model of piggy_engine

piggy_engine is a Lucene-style full-text search engine in C++17: an offline
path builds immutable disk segments, a real-time path collects documents in
memory segments that a background worker flushes, and a searcher evaluates
Boolean queries over all of them with BM25 and block-max WAND. This directory
holds TLA+ modules that model its stateful parts, TLC configurations that
check them on small instances, and TLAPS proofs of the properties that matter
most. File and line references are to `src/`, short paths to `src/modules/`.

## 1. Inventory

| Component | State it keeps | Operations | Talks to |
|---|---|---|---|
| RTIndexThread (`memory/src/rt_index_thread.cpp`) | active segment, its reader and id, next local doc id, shut_down_ | addDocument, freeze, shutdown | IndexSearcher (addReader, removeReader), FlushQueue (push), the shared counter global_seg_id_ |
| FlushQueue (`memory/src/flush_queue.cpp`) | deque of FrozenEntry, shutdown flag, mutex, condition variable | push, takeBatch (batch full, time-out or shutdown), shutdown | RTIndexThreads and the FlushWorker |
| FlushWorker (`memory/src/flush_worker.cpp`) | a thread, the batch and its tmp ids, stop_requested_ | run, processBatch, stop | FlushQueue, MemorySegment::flushToDisk, SegmentMerger, SegmentReader, IndexSearcher |
| RealtimeIndexManager (`memory/src/realtime_index_manager.cpp`) | the threads, global_seg_id_, round robin, started_/stopped_ | start, addDocument, stop | all of the above |
| MemorySegment and its reader (`memory/src/memory_segment*.cpp`, arena, term hash table) | arena pages, buckets, stored fields, field statistics, cached TermMeta | addDocument, reset, flushToDisk; postingIterator, getTermMeta | written by one thread, read by searches without a lock |
| IndexSearcher (`query/src/index_searcher.cpp`) | all_readers_ under a shared_mutex, default fields, global document count | addReader, removeReader, commitDiskSegment, search, mergeTopK | every reader; scorers; QueryParser |
| QueryParser (`query/src/query_parser.cpp`) | none | parse a string to a BooleanQuery | Analyzer, the default fields |
| Scorers (`query/src/*_scorer.cpp`, `boolean_query.cpp`) | cursors, heap, threshold | next, advance, runWAND, collectTopK | posting iterators |
| Posting and position iterators, posting lists, codec (`store/`, `codec/`) | decoded blocks, position in the block, skip list | next, advance, block bounds; compress, decompress; find | segment reader and writer |
| SegmentWriter, SegmentReader, SegmentMerger (`index/src/segment_*.cpp`) | files of segment_<id>, `.ing` and `.done` markers, `.liv` bitmap | flush, merge, mergeIfNeeded, softDelete, listSegmentIds, open | the file system; the worker, the offline writers, the searcher |
| IndexWriter (`index/src/index_writer.cpp`) | buffered documents and postings | addDocument, flush, commit | SegmentWriter, SegmentMerger |
| ParallelIndexWriter, IndexWorker (`index/src/parallel_index_writer.cpp`, `index_worker.cpp`) | one queue per worker, per-worker buffers, segment ids | addDocument, commit (close, join, merge groups) | BlockingQueue, SegmentWriter, SegmentMerger |
| BlockingQueue, ThreadPool (`common/`) | bounded deque, closed flag; task queue, active count | push, pop, close; submit, waitAll | the parallel builder |
| Schema and fields (`field/`) | schema.json, descriptors, fast-field columns by position | save, load; a document to tokens; write, load and read columns | IndexWriter, IndexWorker, SegmentMerger, IndexSearcher |
| Analyzer (`analysis/`) | stop words | analyze, analyzeQuery | field descriptors, QueryParser |
| k-way merge (`common/include/common/kway_merge.h`) | a heap of heads | next | SegmentMerger |
| Tools (`tools/`) | command lines | | everything above |

Behaviours that are hard, per component, with the properties that make it
correct:

- Real-time path: a document must be visible to searches at every moment from
  its addDocument on, exactly once, while its segment is frozen by one thread,
  flushed and merged by another and swapped into the reader list that clients
  copy at any time; the partial batch of a time-out must be taken; stop() must
  lose nothing and must return.
- Several writers on one RTIndexThread (the end-to-end test does it): nothing
  is locked, so ids, counters and freezes may collide.
- Segments on disk: a crash may strike between any two file operations of a
  flush or a merge; a restart must neither lose a document nor show it twice,
  and must not reuse an id that is taken.
- Parallel build: bounded queues with back-pressure, close and join, worker
  buffers flushed at their limits, merge groups run by a thread pool.
- One directory offline: a document has its caller's doc_id, its position in the segment and a
  renewed doc_id after each merge; lists, lengths, columns, stored fields and `.liv` are each looked up by
  one of them, and a merge of merges must keep all of them together.
- Query evaluation: conjunctions, exclusions and block-max WAND skip documents;
  they must skip no document of the result.
- Codec and iterators: block boundaries, the last partial block, skip pointers,
  width selection.

## 2. Plan

Modules in order of importance. Modules that hold theorems use no RECURSIVE
operator; each component's constants are named in an ASSUME.

| Step | Modules | What for | State |
|---|---|---|---|
| 1 | `RealtimeIndex`, `DocVisibility`, `RealtimeIndexProps`, `RealtimeIndexProofs` | the write path and its promise to clients | checked and proved |
| 2 | `BlockingQueue`, `Ordered`, `ParallelBuild` (which EXTENDS them), `ParallelBuildProofs` | the parallel offline build | checked and proved |
| 3 | `SegmentStore`, `SegmentStoreProofs` | markers, crashes and restarts | checked and proved |
| 4 | `Scorer`; `ScorerTree`, `Wand` (both EXTEND it); `ScorerProofs` (EXTENDS both) | query evaluation on one segment | checked and proved |
| 5 | `PForDelta`, `SkipList`; `SegmentFile` (EXTENDS both), `PostingIterator` (EXTENDS it), `PostingCursor`, `PostingIteratorProofs` | the files of posting lists and the iterators under the scorers | checked and proved |
| 6 | `Fields`, `Columns`, `KwayMerge`; `SegmentContent` (EXTENDS them); `QueryParser`, `MergedSearch`; `OfflineIndex` (composes all), `OfflineIndexProofs` | a document from its fields through tokens, flush, deletions and merges to the answers of queries | checked and proved |
| 7 | `MemorySegment` (EXTENDS `Ordered`), `MemorySegmentProofs` | arena, term hash table, page chains, the reader's cache, flushToDisk; a document that throws half way | checked and proved |
| 8 | `ThreadPool`, the memory posting iterator, several fields in one memory segment | | open |

The proofs share `DataLemmas`: least and greatest elements, minimal subsets, products, the elements of
a finite set in order (`InOrder`, `Picked` of `Ordered`), and sums over finite sets. The library's induction theorems take an operator as a parameter and cannot be cited
here; induction is by the least counterexample instead, which a set of numbers or of
finite sets always has. So the values of recursive functions (sums, concatenations) are proved too.

Abstract specifications: `DocVisibility` (clients of the write path),
`PostingCursor` (scorers' view of an iterator; `ScorerTree` and `Wand` are
written against cursors of this kind). What a document should be found as is stated in `OfflineIndex`
from its tokens alone (`ExpectedOf`, `Satisfies`), beside the files that implement it.
Small instances are MC modules that extend the specification; each run asks
one question (the table in section 10).

## 3. The real-time write path

`RealtimeIndex` composes RTIndexThread, FlushQueue, FlushWorker, the reader
list of IndexSearcher and RealtimeIndexManager::stop, because every property
worth having relates at least three of them.

| Code | Model |
|---|---|
| global_seg_id_ | nextSegId |
| active_seg_, active_reader_, active_seg_id_ | active[t]: a segment, its reader and its entry have one id |
| the new_seg of freeze() | fresh[t] |
| position inside addDocument, freeze, shutdown | tpc[t] |
| all_readers_ | readers, a set of Mem(s) and Disk(s) |
| FlushQueue::queue_ | queue |
| FrozenSegStats::state | stat |
| locals of processBatch | batch, tmp (tmp_ids), final (final_id), wpc |
| segment_<id> directories with all data files, and those that have `.ing` and no `.done` | disk: id -> documents; ing |
| stop_requested_, queue.shutdown_ | stopReq; the queue's flag only ends a wait that the time-out can end at any moment anyway |
| a search: its copy of all_readers_ and the results so far | todo, found, and floor (history: what was written when it started) |

Steps are critical sections, atomic operations or accesses to shared state:
freeze() is three steps (register the new reader, push, switch), processBatch
is a step per entry and phase, doMerge writes the output, deletes its sources one by one
and writes `.done` in steps of their own, and a search copies the list in one step and
scans each reader in a later one. shouldFreeze() compares sizes that are not
counted: either answer is possible after any document.

Abstractions: a document stands for one addDocument call; every search is one
that all documents match, with top_k at least the number of hits, so that a
missing hit means a missing reader. A document being indexed into the active
segment and the scan of a reader are atomic steps: within a segment the code
races (section 12). stop() begins when no addDocument is in progress, as in
every caller of the repository.

Run `realtime` (2 threads, 2 documents, 1 client that searches, batches of up to 2,
flushes that may throw): both threads freeze independently, each also at shutdown, so
single, partial and full batches and merges occur, and a search may start and scan
between any two steps. One client is enough because searches change nothing that a
thread or another search reads. The run checks `IInv`, the inductive invariant of the
proofs (its first part is the type invariant), the properties that follow from it, the refinement and
liveness.

A flush, a merge or a commit may throw (`WorkerThrow`). Nothing
between FlushWorker::run and processBatch catches, so std::terminate ends the
process, where design/real_time_flush_disk.md:360 lets the worker go on with the
next batch. shutdown() of a thread with documents registers the reader of a fresh,
empty segment that stays in all_readers_ (the same document says at :576 that none is left): it
shows no document, so no property is affected.

Deadlock checking is off: after stop(), and after an exception
that nobody catches, the system rests.

Fairness (`FairSpec`): a thread inside freeze or shutdown runs on, stop() runs
on once called, the worker thread is scheduled; the wait of takeBatch ends by
its 500 ms time-out at the latest. Nobody must call addDocument, search or
stop. `FrozenReachesDisk` then says that a frozen document is eventually
served from disk even if no other document ever comes, and `StopReturns` that stop()
returns; both up to the exception that ends the process.

`StatsHonest` follows the order of doMerge: a segment reported OnDisk has its documents in
complete directories, one reported Merging in directories with all their data files. Between the
deletion of the sources (segment_merger.cpp:542) and `.done` (547) the only copy is
the output, which is not complete; what a crash makes of that is in section 5.

`DocVisibility` is the client's view: a document becomes visible, stays
visible, and a search returns everything visible at its start and nothing that
was never written. Every step of freezing, flushing, merging and committing
maps to a stutter, under the mapping visible <- the union of what the readers
show.

### Proof

`RealtimeIndexProofs` proves for every number of threads, documents and
searchers, every batch size and first id, with and without failing flushes:
`IInv` is an invariant, and from it `TypeOK`, `ExactlyOneReader`,
`SearchComplete`, `StopFlushesAll`, `StatsHonest`, `NoSegmentTwice` and the
refinement `KeepsPromise`. The only assumption is `ConstantsAssumption`.

None of these is inductive alone. ExactlyOneReader across a commit needs to
know that the disk segment holds exactly the documents of the batch
(`BatchProgress`), that these were not published before (`DiskReaders`), that
nobody writes to a frozen segment (`OneHolder`) and that ids are fresh
(`IdsBelowNext`). `MergeProgress` says that nothing a merge deletes, or has not completed, is shown. `Live` is the set of segments not yet committed: `MemReaders`
says the memory readers are those of Live, `DiskReaders` that a document is in a
published disk segment exactly when its segment has left Live. `SearchesOwe`
carries SearchComplete through a scan, and `StopOrder` orders the worker's exit
after the last push. The proof has one lemma per action (`...Keeps`) and one
step per conjunct of IInv under it; `StepRefines` maps each action to a step or
a stutter of DocVisibility.

Liveness (`FrozenReachesDisk`, `StopReturns`) is model-checked only.

## 4. The parallel build

`BlockingQueue` is common/blocking_queue.h, `ParallelBuild` the rest:
ParallelIndexWriter, its IndexWorkers, and commit() with a merger per group.

| Code | Model |
|---|---|
| buf_, closed_, waiters of not_full_ and not_empty_ | buf, closed, notFull, notEmpty |
| the document of an addDocument call | offered[p] |
| position in IndexWorker::run, doc_ref | wpc[w], hand[w] |
| stored_docs_buf_, local_doc_count_, flushed_seg_ids_ | stored, count, flushed |
| g_next_doc_id_, g_next_seg_id_ | nextDocId, nextSegId |
| groups and out_ids of commit(), final_seg_ids_ | groups, finalIds |
| segment_<id> | dirs[id]: stored documents in order, posting -> doc id, done |

A critical section of the queue's mutex is one step. A thread whose predicate
is false joins a wait set; notify_one takes any of them, and a spurious wake-up
may end any wait. maybeFlush compares a size that is not counted: either answer
is possible after any document. Workers number documents globally and index
concurrently; the merge threads run concurrently, each in two steps (output
written; sources deleted and `.done`).

doMerge renumbers postings through remap, whose key is (sid << 20) | doc_id
(segment_merger.cpp:188). `Key` keeps its two parts, with `IdSpan` for 2^20: the bits of a doc_id
from 2^20 on run into those of the segment id, and of documents with one key remap holds the position of
the last. The doc_ids of temporary segments are global, so a parallel build of 2^20 documents or more
may have postings that lead to other documents. `MergedFindable` is stated for every document of a merged
segment that holds no other one whose id differs by a multiple of 2^20 (`Aliased`), so for all documents of a smaller
build; without that exception TLC refutes it.

Every producer calls on its own, a superset of the tests, whose callers hold a
mutex. commit() begins when no addDocument is in progress, as in every caller.
A document with no token (`e1`) is indexed, counted and stored, but a worker
that ends with only such documents never writes them (index_worker.cpp:92):
`CommitKeepsDocs` speaks of documents with a term.

Run `parallel_build` (2 producers, 2 workers, 4 documents, one of them without a
token, capacity 1): the queue is full with one document, so producers and
workers both wait; SmallTotal, the 8 of computeGroupCount, is 2, so that three
segments make two merge groups. `HeldOnce` follows a document through queue,
worker and segments; `MergedFindable` says that a merged posting leads to its
document although ids were drawn globally. IdSpan is 2 and four ids are drawn, so that some merges
have two documents with one key and others none. With one temporary segment commit()
skips the merge and the segment keeps its global ids: right only because ids
then start at 1 without gaps, which holds if no document was dropped before.

Fairness: a call inside addDocument, each worker and commit() run on while they do not wait on
the condition variable (weak fairness of their own steps). A waiting thread has no enabled step, so
`AddReturns` and `CommitReturns` need the notifications of the code. Nobody has to call
addDocument or commit. Deadlock checking is off: after commit() the system rests.

Proof (`ParallelBuildProofs`): `HeldOnce`, `CommitKeepsDocs` and `MergedFindable` for any number of
callers, workers and documents, any capacity, any span of the key that is a power of two, and any number of segments and groups. `HeldOnce`
counts; the inductive form is `Placed`: of the four places one holds an accepted document,
as a single element, and the others are empty. It is preserved by a merge only because the groups
are disjoint and their outputs new (`GroupsApart`) and because the output has, at the moment
it counts, the documents of the sources that go (`GroupsInStep`); that every directory
belongs to a group (`DuringMerge`) gives the final state. `Counted` ties the two counters to the
documents that have left queue and hands, and says that no two of these have one id (`Numbered`); where no two ids are equal modulo the span
no two keys are either, so that `Remap` yields the position of the document (`PositionsFacts`). `WorkersInStep` says why nothing is left in a worker that
has exited but documents without terms. The lemmas about the operators are of interest by
themselves: `SplitFacts` (every id goes to exactly one group, for every number of groups),
`GroupCountFacts` (there is a square root to choose, and no empty group), `InOrderFacts` (on `Ordered`), and
`FlattenFacts` (a concatenation has the elements of its parts). Assumed are `BuildAssumption` and
`CapacityAssumption`. That the calls return is model-checked only.

## 5. Segments on disk

`SegmentStore` takes one process that flushes and merges, one segment at a time, and
may crash between any two file operations; `ParallelBuild` and `RealtimeIndex` have
the threads.

| Code | Model |
|---|---|
| segment_<id>/ | dirs[id] = its `.ing`, `.done`, whole (postings and stored fields), cols (the documents whose values its fast-field columns hold), docs |
| global_seg_id_, next_seg_id_ | nextId |
| where flushToDisk, SegmentWriter::flush or doMerge is | pc, id, payload, sources |
| FastFieldWriter::flush after SegmentWriter::flush | late, WriteColumns |
| listSegmentIds | Loadable; with openable files, Complete |

The three writers share a protocol: directory and `.ing`, files, `.done`, remove
`.ing`. They differ in what a crash may leave:

- doMerge deletes its sources before it writes `.done`. remove_all deletes the files
  of a directory in any order, so a source may keep its `.done` without its files.
- IndexWriter::flush and IndexWorker::doFlush write the columns after `.done`.
  FastFieldReader takes a missing column for zeros, so a searcher that opens
  the segment in between, or after a crash, reads 0 in every column.
  flushToDisk writes no columns (design/real_time_search.md:318). The merger copies the values
  its sources have and writes zeros for a source without columns (segment_merger.cpp:528-533).
  `DoneMeansWhole` states exactly which values are there: the history `bare` collects the documents of
  flushToDisk, those of a segment whose columns were still to come at a crash, and those of a source that a
  crash left with its `.done` and postings and without its columns, which loads like any other
  segment; a complete segment has the values of all its other documents, in any number of
  merges, before and after any crash. Only while its columns are about to be written has it none.

Run `segment_store` (3 documents, 5 ids, 2 crashes): flushes of any subset, merges of
any set of complete segments, two crashes with restarts, so a crash during the
recovery of a crash occurs. `ShownOnce`: no crash makes two loadable segments
share a document. `AckedOnDisk`: the last copy of an acknowledged document is
never destroyed; it holds only because nothing cleans up: the
cleanupIncompleteSegments of design/real_time_search.md:573, which the code
does not have, would remove directories with `.ing` and no `.done` and with them the
only copy after a merge crash. Line 576 there calls `.ing` beside `.done` impossible; a
crash between writing the one and removing the other leaves both.
`NeverOverwrites` is checked for callers that start above the existing ids, as
realtime_index_manager.h:33 asks of them. Nothing in the code looks at the directory: a second
process with the default start id, or a second IndexWriter, writes into existing
segments, and mergeIfNeeded takes an id above its own sources only.

Run `store_merge_crash`: `AckedLoads`, the promise of design/real_time_search.md:640, is
violated (section 11).

Proof (`SegmentStoreProofs`): the four properties, for any documents and any number of ids and
crashes. None is inductive. `IdsBelow` keeps ids fresh across restarts; `Written` says what is on
disk at each position of the writer; `SourcesCovered` that the sources a merge deletes, in
whatever state of deletion a crash leaves them, hold nothing that the finished output does
not; `PayloadElsewhere` that until then every document of the output is still whole somewhere else;
`OnlyFlushed` that nothing else has a right to be on disk. For the columns, `Columns` says of every
complete segment, and of the sources of the merge at work, whose values they have, and `Deleting` which
segments may be less than that: sources whose deletion began in this process and has not ended. Only `StoreAssumption` is assumed.

No fairness and no liveness here: a crash may always come. Deadlock checking is off
because the bounds on ids and crashes end every behaviour.

## 6. Query evaluation on one segment

### The scorer tree

`ScorerTree` is BooleanQuery::createScorer, ConjunctionScorer, ExclusionScorer and
the driver loop of IndexSearcher::searchImpl.

| Code | Model |
|---|---|
| children_ of the conjunction | Main, with children_[0] = lead |
| the child doNext is at | todo, the children still to ask about pos[lead] |
| nested ExclusionScorers | Nots, asked in order; level |
| docId() of a scorer | pos[c], End for INVALID_DOC |
| isAlive and passesFilter | alive |
| an inner OR (WANDScorer with top_k, built at creation) | list[c], any min(TopK, n) of its eligible documents |

The order of children is by maxScore in the code; here lead and order are free, a
superset. Scores are abstract: which of the hits beyond top_k are cut is free. A query
of one main clause is that clause's cursor as lead with nobody to ask.

Run `scorer_tree` (2 MUST, 2 MUST_NOT, one of them an inner OR, every posting list over 3
documents, every set of living documents): `ScanExact` says at every step that the
hits so far are the right ones before the candidate; `AnswerExact` that the result
is a top_k of the documents that satisfy the query when no inner OR is truncated.
`Terminates` needs weak fairness of Next, as one search is one call of one thread that
nothing blocks. Run `scorer_nested_or` shows what a truncated inner OR does (section 11).

Proof (`ScorerProofs`): `TypeOK`, `ScanExact` and `AnswerExact` for any number of
clauses, any number of documents and any lists. ScanExact is not inductive: `NothingSkipped` (every
cursor's documents before its position are no candidates at or after the lead) and
`Agreed` (children not in todo stand on the lead's document) are needed. `LeadMoves` is the
common lemma of the three steps that move the lead. Only `ScorerAssumption` is assumed.
Termination is model-checked only.

### WAND

`Wand` is WANDScorer::runWAND with TermScorer's bounds: one action is one round of the
loop (skip a block, score the pivot, align). Contributions are naturals, bounds are
exact maxima of the list and of the block; rounding, saturation and the IDF
factor are left out. The pivot is a document, not an index: cursors on the same document
are interchangeable.

Run `wand` (2 terms, 4 documents, contributions 0..2, blocks of 2, top_k 2, one
document deleted): every pair of lists. Block skipping is not safe in general
(section 11), so `PassedTogether`, `HeapExact` and `TopKExactWhenSafe` hold for lists where
it is (`SkipsSafe`: a list of several blocks shares no document with another). The
instances contain such lists with skips, pivots beyond the front, full heaps and ties.
`RoundsBounded` gives termination without fairness: the rounds never exceed the entries
passed. Run `wand_block_max`: without the condition the result differs from plain WAND.

Proof (`ScorerProofs`): the four properties, for any terms, lists, contributions, block size and
top_k. `ThetaBound` says that theta is 0 or the least score of a full heap, `HeapBehind` that the
heap holds documents that are passed, with their scores, and misses none that would have entered
it, `DoneMeansDry` that the loop ends only when what is left cannot pass theta. That a skip is
harmless needs the sums of bounds (`SumLeq` of DataLemmas): a document before the pivot scores at
most the bounds of the lists it is in. Only `WandAssumption` is assumed.

## 7. The disk posting list

`PForDelta` is the block codec, `SkipList` the two-level skip list, `SegmentFile` the
`.tim`, `.doc` and `.pos` files of a field, `PostingIterator` the lazy reader of the
`.doc` file over all three, and `PostingCursor` the contract of
store/i_posting_iterator.h, which `PostingIterator` is checked to implement
(`IsCursor`).

| Code | Model |
|---|---|
| a file | [end, at]: its size, and at each byte offset the number, term, skip list or block that lies there |
| writeFieldTim, then the offsets put back by writeFieldDoc and writeFieldPos | WriteTim, PatchDoc, PatchPos |
| doMerge's .doc and .pos, and .tim once all is known | MergedFiles |
| loadPerFieldTims, PosIterator | LoadTim, ReadPositions |
| doc ids of the term | ids |
| meta_, skip_list_, all_tfs_ as the constructor finds them | disk: meta, level0, level1, allTfs, with data (byte offset -> block) and entries (of `.pos`) |
| remaining_, cur_block_idx_, file position | remaining, blockIdx, filePos |
| cur_block_, cur_tf_block_, cur_pos_, cur_doc_, cur_tf_, block_max_score_ | block, tfs, pos, doc, tf, score |
| an advance() under way: its target, and how far it is | goal, pc |

A block is its slots of b bits and its patches; how bits lie in bytes is left out, how many bytes
a block takes is not, because skip list and `.tim` point to byte offsets. The term under test lies
between the lists of two others, so that an offset taken too early or too late reads
a neighbour. Its i-th posting has tf i and the bound of its k-th block is k: a slice or a bound that
belongs to another block shows. next() is a step; advance() is its call, the search of its block, the
jump, and a step per block it loads; the abstract cursor has the call and the return.

Run `posting_iterator`: every set of ids up to 9, in the files of a flush and of a merge (which
differ in the count at the head of `.doc` and in how `.tim` gets its offsets), block
size 3 (128), skip interval 2 (128), half of the differences instead of nine tenths covered
by the width, 4-bit ids: lists of up to three blocks, last groups and last blocks
that are partial, patches, jumps over several blocks, targets beyond the end, and calls after
the end, in any order. `ReadsBack` compares decoding with the list, `BoundsOfDoc` says that block,
bound and tf are those of the current document, which WAND relies on, and `PositionsOfDoc` that
`.pos`, read as a stream, tells the same documents and tfs as `.doc`. Deadlock checking is on: an
iterator always answers. Not modelled: a file cut short, and that blockMaxDocId() of an exhausted
iterator is its last block's, not INVALID_DOC as the interface's comment says
(i_posting_iterator.h:26), which no caller asks.

Proof (`PostingIteratorProofs`): all four properties, for every list, block size, coverage and skip
interval, and for ids up to MaxDoc < 2^Width, the width of a doc id. Assumed are `CodecAssumption`, `SkipAssumption` and
`IteratorAssumption`, nothing else: that what the readers find is what the writers put is proved. The
argument goes up through the layers:

1. a block: every difference is in a slot it fits or in a patch, so the prefix sums give back the documents
   (`DecodesEncoded`, `ReadsBackHolds`);
2. a file: appending keeps what lies in it (`PutAllFacts`), so a skip list, its blocks and the tf bytes
   (`PutDocFacts`) and the entries of `.pos` (`PutPosFacts`) lie where the offsets taken on the way say;
3. `.tim`: the zeros written first, patched from `.doc` and then from `.pos`, hold the same in the end as what a
   merge writes at once; no patch meets another or the head of an entry (`FlushedTim`, `MergedTim`), and
   walking the entries by their lengths finds each (`LoadTimFacts`);
4. hence the constructor finds the list on disk, each block at the place the skip list counts (`OpenedOnDisk`);
5. find never names a block behind the target, for either level, whole last group or not (`FindFacts`), and the
   counts of the nodes before it sum up to its place in the list (`DocsBeforeIs`), so a jump restores
   remaining_, block index and file position together (`JumpLands`).

The inductive invariant `IInv` (TLC evaluates it on small instances of the same module) says: the disk is as in 4; remaining, blockIdx and filePos agree on the next block
(`AtBlock`); a block in memory, its bound and its tf slice are those of blockIdx (`InBlock`);
and an idle or scanning iterator stands on an entry or at the end, a seeking one has
nothing at or after its target behind it and a block or one to load (`Calls`). Without the last part the
refinement is not inductive: seekToBlock may have thrown its block away and not yet loaded the next.
`IsCursorHolds` maps next() to CursorNext, the call of advance() to CallAdvance, the step that finds the target
or the end to Return, and all others to a stutter. The lists of the two other terms
are fixed, as in the run; the list under test is any.

## 8. The offline index

`OfflineIndex` is one directory from the documents a caller adds to the answers of queries. It
composes the pure parts, each a module of its own:

| Module | Code |
|---|---|
| `Fields` | Schema (save, fromJson, find), Analyzer::analyze, the field descriptors, PostingList and InMemoryIndex |
| `Columns` | FastFieldWriter, FastFieldReader, passesFilter |
| `KwayMerge` | the heap that merges the posting lists of a term |
| `SegmentContent` (EXTENDS these) | SegmentWriter::flush, SegmentReader and doMerge by what the files hold |
| `QueryParser` | parseToken and parse, analyzeQuery, and createScorer by the sets its scorers walk |
| `MergedSearch` | the cut of each segment to top_k, then mergeTopK |
| `OfflineIndex` | IndexWriter, SegmentMerger's life, softDelete, the fields an IndexSearcher starts with |

| Code | Model |
|---|---|
| schema_, schema.json | schema, schemaFile |
| total_docs_, stored_docs_buf_ with field_indexes_ and ff_writer_, next_seg_id_ | total, buf, nextSegId |
| segment_<id> | segs[id]: stored, lists, lens, columns, live (`.liv`), merged |
| readers_ of the merger and their bitmaps | loaded, live |
| how the caller numbers | perSegment: from 1 in every segment it commits (test_block_max_wand), or on and on (demo.cpp, wiki_indexer.cpp:457, test_all.cpp) |

A document has three numbers: the caller's doc_id in its postings and lengths, its position in
the segment for `.liv`, `.fdx` and columns, and the doc_id in its stored fields by which a merge
finds its postings. A string is the sequence of its words; the suffix rules of the stemmer are the
constant Stem. The automatic flush of addDocument is nondeterministic for callers that number
on; a caller that numbers per segment commits before the buffer is full. flush() without
any term writes nothing: such documents wait for the next flush with a term, and are
dropped when the writer closes (index_writer.cpp:82, the destructor).
mergeIfNeeded is Merge with a particular output id. As in every caller the writer is closed
before a merger is opened, one merger is used at a time, and the output id is new.

Run `offline_index`: three documents (two versions of one external id; the second document has no token
under one of the schemas), two schemas with text, keyword, multi-value, combined, unindexed and
numeric fields and every index option, callers of both kinds, up to three segments,
deletions in any of them, merges of any subset into the ids 0 or 3, hence merges
of merges, mergers closed and opened again. A tf byte holds 3 and a length 4, so that both saturate. Three filters: a range, a uid, both
(hasPubtimeRange of types.h:129 is the flag ranged). The run takes about two minutes.
The properties are about what is found, not about how it is stored: what a
document should be found as is computed from its tokens alone (ExpectedOf, LengthsOf, Satisfies).

- `AliveOnce`: a document is alive at one place until a deletion strikes it, and
  the segment it is in opens while it has a term. softDelete strikes a position of the first
  segment in which it is alive, so with running ids a second call of one id strikes another
  document; the history variable records what was struck, not what was meant.
- `SearchExact`, `FilterExact`: merged segments, and segments numbered by position, show for
  every term the living documents that have it with their own stored fields, tf, positions
  and numbers; segments of an automatic flush do not (section 11).
- `LengthsExact`: the same for the lengths, for callers that number by position: `.len` is written for the
  doc_ids 1 .. n, so that with running ids later segments have zeros, also after a merge.
- `PositionsDistinct`: two different terms of a document share no position, over all its fields.
- `QueryExact`: queries of bare and qualified words with + and -, in both modes, show what a reader
  of the query means, if every segment opens and the first has all fields that occur;
  otherwise they show, unless something is excluded, nothing wrong. The six queries have stop words, words that share a stem,
  empty parts around a colon, excluded and only excluded words.
- `DistinctTopK`: with top_k 1 and 2 and the tf as score, no external id is shown twice, and the best
  distinct ones are shown unless one segment holds two matching versions.

Deadlock checking is off: a closed writer with no segment has nothing to do.

Proof (`OfflineIndexProofs`): all seven properties, for any documents, schemas, filters, queries, merge ids,
stems and limits of tf, length and top_k. Assumed are `OfflineAssumption` (fields are of their type, a schema is a
sequence of FieldSchemas, ids are numbers), `SearchAssumption` (the parts of a query token are strings, MaxTopK is
a number) and `ContentAssumption` (a byte holds at least 1). The argument:

1. the tokens of a document, field after field, have positions of their own, whatever the descriptors
   (`DocTokensFacts`); reading schema.json gives back the schema (`SchemaRoundTrip`);
2. what a flush writes of buffered rows is, list by list, what the tokens of each row say (`IndexOfFacts`,
   `WriteListsFacts`, `FlushedLensGood`), and `FlushedGood` puts it together;
3. the heap of the k-way merge returns every head once and in order (`MergedFacts`), so a merge of good segments is
   good again: its renewed doc_ids, positions in the columns and lengths belong to the same documents
   (`MergedListsFacts`, `MergedColumnsGood`, `MergedLensGood`);
4. the words of a query and the clauses the parser makes of them ask for the same (`ParseFacts`, `ClausesFacts`,
   `WalksMeans`), and a good segment answers clauses from the documents alone (`SegmentAnswers`);
5. hits that no two of are at one place are ranked in one way (`RankedIs`, `RankedLists`); dropping the later hits of
   an id leaves its best (`DedupedIs`); a best hit cut off by its segment is beaten by top_k hits of other ids
   there, each of which has a best one somewhere (`BestHandedIn`), so the list of all begins as it would
   without the cuts (`SameBeginning`).

The inductive invariant `IInv` joins five parts: `Types`; `WriterFirst` (the writer's next id is above every segment
while it is open); `Numbered` (what doc_id a buffered row has); `SegsGood` (the files of each segment are the
function of its rows named in 2 and 3, `GoodSeg`); `Placed` (a document
is stored at one place at most, in the buffer or in a segment, and each that was added is in the buffer, alive in a
segment, or struck). None of the seven properties is
inductive. AliveOnce asks for SegsGood, because a merge keeps a document only if the bitmap and the rows it reads fit
together; SegsGood asks for Placed, because a list has one entry per doc_id only if no document is twice in the
buffer or in what is merged. TLC cannot evaluate GoodSeg (it speaks of any key and any place of an entry), so
TLC checks what follows from it, the seven properties, and IInv is proved without it.

## 9. One memory segment

`MemorySegment` is one segment from its first document to its files: SegmentArena and
StringArena, TermHashTable, MemorySegment::addDocument, MemorySegmentReader with its cache,
flushToDisk with the SegmentReader of its files, and reset. `RealtimeIndex` takes all this as one step.

| Code | Model |
|---|---|
| arena_ | pages; an offset is the number of a page, 0 is INVALID_OFFSET |
| buckets_, used bytes of the string arena | buckets, strUsed |
| stored_heads_, doc_ext_ids_, doc_field_len_, field_total_tokens_, doc_count_ | stored, ext, len, total, docCount |
| next_local_id_ of the RTIndexThread | nextId |
| position inside addDocument | cur, pc |
| term_meta_cache_ | cache |
| the files of segment_<id> | file |

addDocument is a step for the stored fields and one for each term, in any order, as
the map of the code is unordered; each may end with an exception (arena full,
hash table full, string arena full), and what was written before stays. What a page of a failed
term took is lost until reset. There is one indexed field, and all pages have one size; a term's start slot is a constant,
so that collisions are chosen by the instance. A tf factor is compared as the fraction
tf * avg / (avg + 3 dl), which orders factors as BM25 does with k1 = 1.2 and b = 0.75.

lookup, and with it a search, has the exception of a full table too: findSlot throws overflow_error
(term_hash_table.cpp:57) for a term that is not there when no slot is free, and neither postingIterator,
getTermMeta nor IndexSearcher::search catches it. So a search for a word that one full segment lacks fails, whatever
the other segments hold. A table fills up inside one addDocument only, as shouldFreeze looks at
its load after each call; but when that call throws, RTIndexThread::addDocument is left before
shouldFreeze (rt_index_thread.cpp:42) and the full segment stays until a later call returns.
flushToDisk walks the buckets and looks nothing up. `SearchThrows` and `MemoryPostings` are the two outcomes.
`RealtimeIndex`, whose searches do not fail, leaves this out.

Searches come between two calls only. In the code they may come during one (section 12), which is
a data race; the model shows what is wrong or right even without it.

Run `memory_segment` (3 terms of which all collide in a table of 2, 4 documents, up to 6 calls, an arena of 11 pages): table,
string arena and arena each become full, in front of, inside and behind a page chain; one document
has two stored pages, one has no token, one is longer than LenCap.
`MemoryExact` and `FlushExact` compare memory and files with the documents whose call
returned (the files, after a throw, with those whose id is among the first docCount), and
`MemoryExact` says that a search throws exactly for a term that a table without a free slot lacks, which
three terms in two slots reach; `BoundsHold` says that the bound, computed now or by flushToDisk, exceeds the factor of
every document although tf is cut to a byte and the average is recomputed. A length cut to 16 bits raises the
factor of a document beyond the bound flushToDisk took from the true length; BoundsHold leaves documents longer than
65535 tokens out. Run `memory_stale_bound`: the bound from the cache does not hold
(section 11). Deadlock checking is off: with MaxAdds calls spent and no document counted there is nothing to do.

Proved in `MemorySegmentProofs`, for any terms, hash values, documents and capacities: `MemoryExact`,
`FlushExact` and `BoundsHold`. None is inductive. `IInv` adds what they rest on:

- The table finds what it holds (`TableOK`): a term is in the slot where a search for it ends, also after
  upsert filled a slot that other searches pass (`UpsertFinds`). The probes reach every slot
  (`SlotReached`), so that findSlot throws only if none is free (`ThrowsIfFull`).
- Page chains end (`Ranked`: a number per page falls along next). `Follow` is a recursive function along
  next; `FollowExists` shows that it is defined on such an arena, by the page of least rank for
  which it is not, and `FollowKept` that pages added behind change no chain, so that an exception's lost
  pages do not. `AppendChain` shows that writePosChain's pages yield the positions they were cut from.
- A term's list is newest first, and df its length (`ListsOK`); `SortedFacts` turns it round.
- The ids given out are those of calls that returned, threw or run, each once (`IdsOK`), which is why a
  list names no document twice after a throw.
- Each document is filed and posted for the terms it has come to (`AckedOK`, `CurOK`).

For `BoundsHold` a second invariant `BInv` counts: no entry's tf exceeds its term's ttf, and the ttf of all
terms plus the occurrences of the terms still to be indexed do not exceed field_total_tokens_ (equal until a call
throws). `TokensCounted` shows that the terms of a document add up to its tokens, and `DiskFactor` that a smaller
average and a smaller tf give no larger factor. `FlushBound` chooses the greatest factor; `GreatestFraction` shows
that there is one.

## 10. Runs

| Run | Shows | Distinct states |
|---|---|---|
| `realtime` | write path with searches and failures: inductive invariant, safety, refinement, liveness | 410574 |
| `parallel_build` | parallel build, safety and liveness | 195878 |
| `segment_store` | crashes and restarts | 4725453 |
| `store_merge_crash` | violation: a merge crash hides documents | |
| `scorer_tree` | scorer tree is exact and terminates | 443012 |
| `scorer_nested_or` | violation: a truncated inner OR | |
| `wand` | WAND is exact where block skipping is safe | 184939 |
| `wand_block_max` | violation: block skipping in general | |
| `posting_iterator` | the iterator is a cursor on the list, in the files of a flush and a merge | 52966 |
| `offline_index` | fields, numberings, columns and queries through flush, delete, merge | 12370 |
| `memory_segment` | one memory segment, its exceptions and its files | 328981 |
| `memory_stale_bound` | violation: the cached bound of a term | |

Every property of a passing run has a mutant in `PROJECT.json`: an operator in the
modules marked "A defect to detect" that, put in the place of the definition
it follows, makes TLC refute the property.

## 11. Disagreements between the documents and the code

- `store_merge_crash`: doMerge deletes its sources (segment_merger.cpp:542) before it writes the
  `.done` of its output (547). After a crash in between, no directory with `.done` holds
  their documents; design/real_time_search.md:640 promises that flushed segments load
  completely.
- `scorer_nested_or`: an inner OR is a WANDScorer with the search's top_k
  (boolean_query.cpp:56), and the parser makes one of every bare +term and -term. Documents beyond the first top_k of an
  excluded clause are returned, MUST matches beyond it are lost;
  design/scorer_tree.md:374 wants a plain OR there.
- `wand_block_max`: skipBlock (wand_scorer.cpp:85) moves every cursor past its own
  block. A cursor with a long block passes documents that another list holds in a later
  block, whose bound was not in the sum; such a document loses that contribution.
  design/blockmax_wand.md:142 says that the result is that of plain WAND.
- `memory_stale_bound`: getTermMeta caches the bound of a term (memory_segment_reader.cpp:96) while the
  segment still grows. A later document raises the average length or has a larger tf, and its
  factor exceeds the bound that line 104 of the same file calls the maximum across all documents;
  block-max WAND may then pass over it.
- Without a run, because FlushExact is stated for what does hold: after an exception
  next_local_id_ has moved on and doc_count_ has not, while flushToDisk writes the rows of
  `.liv`, `.fdt` and `.len` for the ids 1 .. doc_count_. As many of the last documents as calls threw
  are dropped by isAlive, although their addDocument returned. memory_segment.cpp:28 says that the state is
  clean after an exception.
- Without a run, because SearchExact is stated for what does hold: IndexWriter::addDocument flushes by itself when the buffer is full
  (index_writer.cpp:68) and the next segment keeps the caller's running doc_ids in its postings, while
  everything else goes by position. A search drops its documents or shows other documents'
  fields until a merge renumbers them. core/types.h:69 calls doc_id local to the segment;
  demo.cpp:120 numbers on, makes the buffer small to get several segments, and searches before it merges.
- Without a run, because AliveOnce and QueryExact are stated for what does hold: a merge gives a field without
  living terms no `.tim` and no `.doc` (segment_merger.cpp:232) but keeps it in `.si`. When
  all fields of the output are like that, SegmentReader takes the segment for one of the old format and throws
  "Cannot open .doc" (segment_reader.cpp:72); so a merge whose survivors are all without tokens
  leaves a directory that neither a merger nor an IndexSearcher can open.
- Without a run, because QueryExact is stated for what does hold: bare words are searched in the fields of the first segment that was
  there when the IndexSearcher was constructed (index_searcher.cpp:49). A field that only later segments have is
  not searched, and on a directory that was empty at the start, as the real-time path begins, no bare word finds anything, whatever is
  flushed later; design/per_field_inverted_index.md:346 equates
  these fields with the indexed ones of the schema. The comment at
  index_searcher.cpp:48 says that in AND mode all default fields must have the word; the parser lets
  any of them do, as test_scorer_tree_e2e.cpp:243 expects.
- Without a run, because SearchExact asks by terms: a keyword is indexed as its whole string, while the words of
  a query are lower-cased, split and stemmed (query_parser.cpp:52), so a keyword with a blank, a
  capital letter or a suffix is never found by a query; design/multi_field_index_build.md:58 calls for equality queries on keywords.

## 12. What is only model-checked, and what is not modelled

- Proved for all constants: the safety of the write path with its refinement (`ConstantsAssumption`), of
  the parallel build (`BuildAssumption`, `CapacityAssumption`), of the segment directories
  (`StoreAssumption`), of the scorer tree (`ScorerAssumption`), of WAND (`WandAssumption`), of
  the posting lists on disk with their refinement (`CodecAssumption`, `SkipAssumption`,
  `IteratorAssumption`), of the memory segment (`MemorySegmentAssumption`) and of the offline
  index (`OfflineAssumption`, `SearchAssumption`, `ContentAssumption`).
  These assumptions are all that is assumed, and TLC checks them on the instances.
- Model-checked only: liveness under fairness, which the proof system does not reach. Every invariant and
  every action property of a passing run is proved; the four runs of section 11 are counterexamples.
- Data races: searches read a memory segment's arena, hash table and stored fields while
  addDocument grows them (MemorySegment has no search inside a call), and two searches share the file stream of one reader
  (segment_reader.cpp:532). A document is added in one step here and a reader is scanned in one.
- Scores as floating-point numbers: idf, BM25's values, average lengths (IndexWriter divides by a total that it
  never resets), the bounds of lists, and the scores of one term in several segments.
- Text below words: cutting characters into words, the stemmer's suffix rules, the text of
  schema.json, number ranges. Files below their things: the bits of a block, files cut short.
- The memory posting iterator's search in its vector, several fields in one memory segment, and the
  columns of the parallel build (its segments are written and merged by the code of sections 5 and 8).
- The deprecated search paths searchAND, searchOR and searchOR_WAND (kept for old callers), ThreadPool (no caller
  outside its tests), the command-line tools, the benchmark and the tests.
