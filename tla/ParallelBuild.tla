---------------------------- MODULE ParallelBuild ----------------------------
(***************************************************************************)
(* The parallel offline build: callers push documents into a bounded queue *)
(* (ParallelIndexWriter::addDocument), IndexWorker threads index them and  *)
(* flush their buffers as temporary segments, and commit() closes the      *)
(* queue, joins the workers and merges the temporary segments in groups,   *)
(* one SegmentMerger thread per group.                                     *)
(*                                                                         *)
(* A segment is what a search can tell of it: its stored documents, in     *)
(* order (.fdt/.fdx, .liv), and the doc id under which the postings list   *)
(* each document that has terms.  Workers number documents globally; a     *)
(* merge renumbers them by position, through a map whose key packs segment *)
(* id and global id into one number: from 2^20 documents on two documents  *)
(* may have one key.  Crashes are the subject of SegmentStore: here no     *)
(* file operation fails.                                                   *)
(***************************************************************************)
EXTENDS BlockingQueue, FiniteSets, SequencesExt, Ordered

CONSTANTS
  Producers,    \* threads that call addDocument
  Workers,      \* the n_workers_ IndexWorkers
  Docs,         \* the documents, one addDocument call each
  Termless,     \* those that yield no token in any indexed field
  SmallTotal,   \* the 8 of computeGroupCount: up to here one group
  IdSpan,       \* the 2^20 of remap's key: ids below it have their own bits
  NoDoc         \* no document

ASSUME BuildAssumption ==
  /\ IsFiniteSet(Workers) /\ Workers # {}
  /\ Producers \cap Workers = {}
  /\ Termless \subseteq Docs /\ NoDoc \notin Docs
  /\ SmallTotal \in Nat \ {0}
  /\ IdSpan \in Nat \ {0} /\ \E k \in 0 .. IdSpan : IdSpan = 2^k

VARIABLES
  offered,      \* per producer: the document of its addDocument call, or NoDoc
  accepted,     \* history: documents whose push returned true
  wpc,          \* where each worker is in run()
  hand,         \* doc_ref of each worker
  stored,       \* stored_docs_buf_ of each worker
  count,        \* local_doc_count_ of each worker
  flushed,      \* flushed_seg_ids_ of each worker, as a set
  docId,        \* the ids processDoc has assigned
  nextDocId,    \* g_next_doc_id_
  nextSegId,    \* g_next_seg_id_
  dirs,         \* the segment_<id> directories: id -> segment
  cpc,          \* where commit() is
  groups,       \* groups and out_ids of commit(), with each merge's progress
  finalIds      \* final_seg_ids_

workerVars == <<wpc, hand, stored, count, flushed>>
commitVars == <<cpc, groups, finalIds>>
vars == <<queueVars, offered, accepted, workerVars, docId, nextDocId,
          nextSegId, dirs, commitVars>>

-----------------------------------------------------------------------------
Segment(docs, id) ==
  [stored |-> docs,
   post   |-> [d \in ToSet(docs) \ Termless |-> id[d]],
   done   |-> TRUE]

Init ==
  /\ QueueInit
  /\ offered   = [p \in Producers |-> NoDoc]
  /\ accepted  = {}
  /\ wpc       = [w \in Workers |-> "pop"]
  /\ hand      = [w \in Workers |-> NoDoc]
  /\ stored    = [w \in Workers |-> <<>>]
  /\ count     = [w \in Workers |-> 0]
  /\ flushed   = [w \in Workers |-> {}]
  /\ docId     = [d \in {} |-> 0]
  /\ nextDocId = 1
  /\ nextSegId = 0
  /\ dirs      = [s \in {} |-> Segment(<<>>, <<>>)]
  /\ cpc       = "open"
  /\ groups    = <<>>
  /\ finalIds  = {}

-----------------------------------------------------------------------------
(* ParallelIndexWriter::addDocument                                        *)

Offer(p, d) ==
  /\ cpc = "open" /\ offered[p] = NoDoc
  /\ d \notin accepted /\ \A q \in Producers : offered[q] # d
  /\ offered' = [offered EXCEPT ![p] = d]
  /\ UNCHANGED <<queueVars, accepted, workerVars, docId, nextDocId, nextSegId,
                 dirs, commitVars>>

AddDocument(p) ==
  /\ offered[p] # NoDoc
  /\ \/ /\ PushWait(p)
        /\ UNCHANGED <<offered, accepted>>
     \/ /\ Push(p, offered[p])
        /\ accepted' = accepted \cup {offered[p]}
        /\ offered'  = [offered EXCEPT ![p] = NoDoc]
  /\ UNCHANGED <<workerVars, docId, nextDocId, nextSegId, dirs, commitVars>>

-----------------------------------------------------------------------------
(* IndexWorker                                                             *)

\* run(): pop a document, or leave the loop when the queue is closed and empty.
WorkerPop(w) ==
  /\ wpc[w] = "pop"
  /\ \/ /\ PopWait(w)
        /\ UNCHANGED <<wpc, hand>>
     \/ /\ Pop(w)
        /\ hand' = [hand EXCEPT ![w] = Head(buf)]
        /\ wpc'  = [wpc EXCEPT ![w] = "process"]
     \/ /\ PopEnd(w)
        /\ wpc' = [wpc EXCEPT ![w] = "last"]
        /\ UNCHANGED hand
  /\ UNCHANGED <<offered, accepted, stored, count, flushed, docId, nextDocId,
                 nextSegId, dirs, commitVars>>

\* processDoc, then the test of maybeFlush, which compares a size the model
\* does not count.
WorkerProcess(w) ==
  /\ wpc[w] = "process"
  /\ docId'     = [d \in DOMAIN docId \cup {hand[w]} |->
                     IF d = hand[w] THEN nextDocId ELSE docId[d]]
  /\ nextDocId' = nextDocId + 1
  /\ count'     = [count EXCEPT ![w] = @ + 1]
  /\ stored'    = [stored EXCEPT ![w] = Append(@, hand[w])]
  /\ hand'      = [hand EXCEPT ![w] = NoDoc]
  /\ wpc'       \in {[wpc EXCEPT ![w] = "pop"], [wpc EXCEPT ![w] = "flush"]}
  /\ UNCHANGED <<queueVars, offered, accepted, flushed, nextSegId, dirs,
                 commitVars>>

AfterFlush(w) ==
  wpc' = [wpc EXCEPT ![w] = IF @ = "flush" THEN "pop" ELSE "exited"]

HasTerms(w) == ToSet(stored[w]) \ Termless # {}

\* A defect to detect: the buffers survive the flush.
DoFlushKeepsBuffer(w) ==
  /\ wpc[w] \in {"flush", "last"} /\ AfterFlush(w)
  /\ HasTerms(w)
  /\ dirs' = [s \in DOMAIN dirs \cup {nextSegId} |->
                IF s = nextSegId THEN Segment(stored[w], docId) ELSE dirs[s]]
  /\ nextSegId' = nextSegId + 1
  /\ flushed' = [flushed EXCEPT ![w] = @ \cup {nextSegId}]
  /\ UNCHANGED <<queueVars, offered, accepted, hand, stored, count, docId,
                 nextDocId, commitVars>>

\* doFlush: nothing to do without a term; else take a segment id, write the
\* segment and clear the buffers, but not local_doc_count_.
DoFlush(w) ==
  /\ wpc[w] \in {"flush", "last"} /\ AfterFlush(w)
  /\ \/ /\ ~HasTerms(w)
        /\ UNCHANGED <<stored, flushed, nextSegId, dirs>>
     \/ /\ HasTerms(w)
        /\ dirs' = [s \in DOMAIN dirs \cup {nextSegId} |->
                      IF s = nextSegId THEN Segment(stored[w], docId)
                                       ELSE dirs[s]]
        /\ nextSegId' = nextSegId + 1
        /\ flushed' = [flushed EXCEPT ![w] = @ \cup {nextSegId}]
        /\ stored'  = [stored EXCEPT ![w] = <<>>]
  /\ UNCHANGED <<queueVars, offered, accepted, hand, count, docId, nextDocId,
                 commitVars>>

-----------------------------------------------------------------------------
(* ParallelIndexWriter::commit, called when no addDocument is in progress. *)

CommitClose ==
  /\ cpc = "open" /\ \A p \in Producers : offered[p] = NoDoc
  /\ Close
  /\ cpc' = "join"
  /\ UNCHANGED <<offered, accepted, workerVars, docId, nextDocId, nextSegId,
                 dirs, groups, finalIds>>

TempSegIds == UNION {flushed[w] : w \in Workers}

\* ceil(sqrt(total)) groups at most, no more than workers.
GroupCount(total) ==
  IF total <= SmallTotal THEN 1
  ELSE LET root == CHOOSE n \in 1 .. total :
                     n * n >= total /\ (n - 1) * (n - 1) < total
       IN  IF root < Cardinality(Workers) THEN root ELSE Cardinality(Workers)

\* A defect to detect: every group has the size of the division rounded down.
SplitTruncating(ids, n) ==
  [g \in 1 .. n |-> SubSeq(ids, (g - 1) * (Len(ids) \div n) + 1,
                                g * (Len(ids) \div n))]

\* Group g gets every n-th id, beginning with the g-th.
SplitIntoGroups(ids, n) ==
  [g \in 1 .. n |-> [k \in 1 .. (Len(ids) - g) \div n + 1 |->
                       ids[(k - 1) * n + g]]]

CommitCollect ==
  /\ cpc = "join" /\ \A w \in Workers : wpc[w] = "exited"
  /\ LET ids   == InOrder(TempSegIds)
         split == SplitIntoGroups(ids, GroupCount(Len(ids)))
     IN \/ /\ Len(ids) < 2
           /\ finalIds' = TempSegIds
           /\ cpc'      = "done"
           /\ UNCHANGED <<groups, nextSegId>>
        \/ /\ Len(ids) >= 2
           /\ groups'    = [g \in DOMAIN split |->
                              [ids |-> split[g], out |-> nextSegId + g - 1,
                               state |-> "begin"]]
           /\ nextSegId' = nextSegId + Len(split)
           /\ cpc'       = "merge"
           /\ UNCHANGED finalIds
  /\ UNCHANGED <<queueVars, offered, accepted, workerVars, docId, nextDocId,
                 dirs>>

-----------------------------------------------------------------------------
(* SegmentMerger::mergeAll, one thread per group                           *)

\* The live documents of a group's segments, in the order of doMerge's remap:
\* all of them, as nothing deletes during a build.
Concatenation(g) ==
  FlattenSeq([k \in 1 .. Len(groups[g].ids) |-> dirs[groups[g].ids[k]].stored])

\* A defect to detect: the postings keep the ids of their sources.
MergeWithoutRemap(g) ==
  /\ cpc = "merge" /\ groups[g].state = "begin"
  /\ dirs' = [s \in DOMAIN dirs \cup {groups[g].out} |->
                IF s = groups[g].out
                THEN [Segment(Concatenation(g), docId) EXCEPT !.done = FALSE]
                ELSE dirs[s]]
  /\ groups' = [groups EXCEPT ![g].state = "written"]
  /\ UNCHANGED <<queueVars, offered, accepted, workerVars, docId, nextDocId,
                 nextSegId, cpc, finalIds>>

Bits(n) == {k \in 0 .. n : (n \div 2^k) % 2 = 1}

BitOr(a, b) == IF b = 0 THEN a ELSE SumSet({2^k : k \in Bits(a) \cup Bits(b)})

\* (sid << 20) | doc_id, as its upper and its lower part: the bits of a doc_id
\* that does not fit below 2^20 run into those of the segment id.
Key(sid, id) == <<BitOr(sid, id \div IdSpan), id % IdSpan>>

\* The new id of document d: remap[key] is overwritten by each further document
\* with the same key, and holds the position of the last.
Remap(docs, key, d) ==
  CHOOSE i \in DOMAIN docs :
    /\ key[docs[i]] = key[d]
    /\ \A j \in DOMAIN docs : j > i => key[docs[j]] # key[d]

\* Steps 1 to 8 of doMerge: the output, with every posting renumbered through
\* remap, whose keys are of the source segment and the id in it.
MergeWrite(g) ==
  /\ cpc = "merge" /\ groups[g].state = "begin"
  /\ LET docs == Concatenation(g)
         src  == [d \in ToSet(docs) |->
                    CHOOSE s \in ToSet(groups[g].ids) : d \in ToSet(dirs[s].stored)]
         key  == [d \in ToSet(docs) |-> Key(src[d], docId[d])]
         pos  == [d \in ToSet(docs) |-> Remap(docs, key, d)]
     IN  dirs' = [s \in DOMAIN dirs \cup {groups[g].out} |->
                    IF s = groups[g].out
                    THEN [Segment(docs, pos) EXCEPT !.done = FALSE]
                    ELSE dirs[s]]
  /\ groups' = [groups EXCEPT ![g].state = "written"]
  /\ UNCHANGED <<queueVars, offered, accepted, workerVars, docId, nextDocId,
                 nextSegId, cpc, finalIds>>

\* Step 9 and the markers: the sources go, .done appears.
MergeFinish(g) ==
  /\ cpc = "merge" /\ groups[g].state = "written"
  /\ dirs' = [s \in DOMAIN dirs \ ToSet(groups[g].ids) |->
                IF s = groups[g].out THEN [dirs[s] EXCEPT !.done = TRUE]
                                     ELSE dirs[s]]
  /\ groups' = [groups EXCEPT ![g].state = "done"]
  /\ UNCHANGED <<queueVars, offered, accepted, workerVars, docId, nextDocId,
                 nextSegId, cpc, finalIds>>

\* All merge threads are joined.
CommitFinish ==
  /\ cpc = "merge" /\ \A g \in DOMAIN groups : groups[g].state = "done"
  /\ finalIds' = {groups[g].out : g \in DOMAIN groups}
  /\ cpc'      = "done"
  /\ UNCHANGED <<queueVars, offered, accepted, workerVars, docId, nextDocId,
                 nextSegId, dirs, groups>>

-----------------------------------------------------------------------------
Wake(t) ==
  /\ SpuriousWake(t)
  /\ UNCHANGED <<offered, accepted, workerVars, docId, nextDocId, nextSegId,
                 dirs, commitVars>>

WorkerStep(w) == WorkerPop(w) \/ WorkerProcess(w) \/ DoFlush(w)

CommitStep ==
  \/ CommitCollect \/ CommitFinish
  \/ \E g \in DOMAIN groups : MergeWrite(g) \/ MergeFinish(g)

Next ==
  \/ \E p \in Producers : AddDocument(p) \/ \E d \in Docs : Offer(p, d)
  \/ \E w \in Workers : WorkerStep(w)
  \/ CommitClose \/ CommitStep
  \/ \E t \in Producers \cup Workers : Wake(t)

Spec == Init /\ [][Next]_vars

\* A thread that is not waiting runs on: the callers inside addDocument, the
\* workers, and commit() once it has closed the queue.  No wait has to end by
\* itself, and nobody has to call addDocument or commit.
Fairness ==
  /\ \A p \in Producers : WF_vars(AddDocument(p))
  /\ \A w \in Workers : WF_vars(WorkerStep(w))
  /\ WF_vars(CommitStep)

FairSpec == Spec /\ Fairness

-----------------------------------------------------------------------------
(* Correctness                                                             *)

StoredIn(d) == {s \in DOMAIN dirs : d \in ToSet(dirs[s].stored)}

\* Nothing is lost between addDocument and the end of commit(): from the push
\* that accepts it on, a document is in one place, the queue, a worker or a
\* segment (two only while a merge has written its copy and not yet deleted
\* the source), and no place holds it twice; the queue, where most of them
\* wait, never outgrows its capacity.
HeldOnce ==
  /\ Len(buf) <= Capacity
  /\ \A d \in accepted :
       LET queued   == {i \in DOMAIN buf : buf[i] = d}
           inHand   == {w \in Workers : hand[w] = d}
           buffered == UNION {{w} \X {i \in DOMAIN stored[w] : stored[w][i] = d} : w \in Workers}
           finished == {s \in StoredIn(d) : dirs[s].done}
       IN Cardinality(queued) + Cardinality(inHand) + Cardinality(buffered)
            + Cardinality(finished) = 1

\* After commit() every accepted document with a term is in exactly one of the
\* final segments, the temporary segments are gone, and totalDocs() and the
\* counts of the workers agree with what was accepted.
CommitKeepsDocs ==
  cpc = "done" =>
    /\ buf = <<>>
    /\ DOMAIN dirs = finalIds
    /\ \A s \in DOMAIN dirs : dirs[s].done
    /\ \A d \in accepted \ Termless : Cardinality(StoredIn(d)) = 1
    /\ nextDocId - 1 = Cardinality(accepted)
    /\ FoldSet(LAMBDA w, sum : count[w] + sum, 0, Workers) = Cardinality(accepted)

\* A search reads .liv and .fdx with the id it finds in the postings.
Findable(d, s) ==
  /\ d \in DOMAIN dirs[s].post
  /\ dirs[s].post[d] \in DOMAIN dirs[s].stored
  /\ dirs[s].stored[dirs[s].post[d]] = d

\* The global ids of d and of another document of the segment differ by a
\* multiple of 2^20, so that they may have had one key.
Aliased(d, s) ==
  \E e \in ToSet(dirs[s].stored) :
    docId[e] # docId[d] /\ docId[e] % IdSpan = docId[d] % IdSpan

\* In a merged segment a posting leads to the stored document it is of, although
\* the sources were numbered globally, in the order in which the workers
\* happened to draw the ids, unless the id of another document there differs by
\* a multiple of 2^20: then it may lead to that one.  With fewer than 2^20
\* documents every posting leads to its own.
MergedFindable ==
  cpc = "done" /\ groups # <<>> =>
    \A s \in finalIds : \A d \in ToSet(dirs[s].stored) \ Termless :
      Findable(d, s) \/ Aliased(d, s)

\* An addDocument call returns, whoever else waits for room.
AddReturns == \A p \in Producers : offered[p] # NoDoc ~> offered[p] = NoDoc

\* commit() returns: every worker learns that the queue is closed, also one
\* that waits in pop(), and every merge thread is joined.
CommitReturns == cpc = "join" ~> cpc = "done"
=============================================================================
