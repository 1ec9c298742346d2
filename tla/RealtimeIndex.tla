---------------------------- MODULE RealtimeIndex ----------------------------
(***************************************************************************)
(* The real-time write path of piggy_engine: the RTIndexThread objects     *)
(* that fill memory segments, the FlushQueue they push frozen segments to, *)
(* the FlushWorker thread that writes, merges and commits them, the reader *)
(* list of the IndexSearcher, searches that scan a snapshot of that list,  *)
(* and RealtimeIndexManager::stop.                                         *)
(*                                                                         *)
(* One step is one critical section, one atomic operation or one access to *)
(* shared state of the code; what lies between two of them is private to   *)
(* the thread that runs it.  Each RTIndexThread has at most one caller at  *)
(* a time, as its header requires (every write thread owns its segment,    *)
(* no lock is taken); what a segment does when an addDocument throws is    *)
(* the subject of MemorySegment.                                           *)
(*                                                                         *)
(* A segment, its reader and its FrozenEntry are identified by the id the  *)
(* counter global_seg_id_ gave the segment.  A document stands for one     *)
(* addDocument call, and every search is one that all documents match.     *)
(***************************************************************************)
EXTENDS Integers, Sequences

CONSTANTS
  NumThreads,   \* n_rt_threads_
  Docs,         \* the addDocument calls of a run
  Searchers,    \* client threads that call IndexSearcher::search
  MaxBatch,     \* the 3 of takeBatch(3, ...)
  FirstSegId,   \* global_seg_id_start
  MayFail       \* can flushToDisk, mergeAll or SegmentReader throw?

ASSUME ConstantsAssumption ==
  /\ NumThreads \in Nat \ {0}
  /\ MaxBatch   \in Nat \ {0}
  /\ FirstSegId \in Nat
  /\ MayFail    \in BOOLEAN

Threads  == 0 .. NumThreads - 1
NotAdded == -1

Mem(s)  == [kind |-> "mem",  seg |-> s]     \* MemorySegmentReader of segment s
Disk(s) == [kind |-> "disk", seg |-> s]     \* SegmentReader of segment_<s>

VARIABLES
  nextSegId,   \* global_seg_id_
  active,      \* active_seg_ / active_reader_ / active_seg_id_ per thread
  fresh,       \* new_seg of freeze(); equals active outside freeze()
  tpc,         \* where each RTIndexThread is in addDocument / freeze / shutdown
  shut,        \* shut_down_ per thread
  home,        \* the memory segment each document was written to
  readers,     \* IndexSearcher::all_readers_
  queue,       \* FlushQueue::queue_
  stat,        \* FrozenSegStats::state per frozen segment
  wpc,         \* where the FlushWorker thread is
  batch,       \* the entries processBatch works on
  tmp,         \* tmp_ids
  final,       \* final_id
  disk,        \* the segment_<id> directories with all data files: id -> documents
  ing,         \* those of them that still have .ing and no .done
  stopReq,     \* stop_requested_
  mpc,         \* where RealtimeIndexManager::stop is
  todo,        \* per searcher: readers of its snapshot not scanned yet
  found,       \* per searcher: documents found so far (its result when idle)
  floor,       \* per searcher, history: documents written before its snapshot
  busy         \* searchers inside search()

threadVars == <<active, fresh, tpc, shut>>
workerVars == <<wpc, batch, tmp, final>>
searchVars == <<todo, found, floor, busy>>
vars == <<nextSegId, threadVars, home, readers, queue, stat, workerVars,
          disk, ing, stopReq, mpc, searchVars>>

-----------------------------------------------------------------------------
Elems(s) == {s[i] : i \in 1 .. Len(s)}

DocsOf(s) == {d \in Docs : home[d] = s}

Written == {d \in Docs : home[d] # NotAdded}

ReaderDocs(r) == IF r.kind = "mem" THEN DocsOf(r.seg) ELSE disk[r.seg]

\* Updates or extends a function at one point.
Put(f, k, v) == [x \in DOMAIN f \cup {k} |-> IF x = k THEN v ELSE f[x]]

\* RealtimeIndexManager's constructor and start(): the worker runs and every
\* RTIndexThread has registered an empty active segment.
Init ==
  /\ nextSegId = FirstSegId + NumThreads
  /\ active  = [t \in Threads |-> FirstSegId + t]
  /\ fresh   = active
  /\ tpc     = [t \in Threads |-> "idle"]
  /\ shut    = [t \in Threads |-> FALSE]
  /\ home    = [d \in Docs |-> NotAdded]
  /\ readers = {Mem(active[t]) : t \in Threads}
  /\ queue   = <<>>
  /\ stat    = [s \in {} |-> "Queued"]
  /\ wpc     = "loop"
  /\ batch   = <<>>
  /\ tmp     = <<>>
  /\ final   = NotAdded
  /\ disk    = [s \in {} |-> {}]
  /\ ing     = {}
  /\ stopReq = FALSE
  /\ mpc     = "running"
  /\ todo    = [c \in Searchers |-> {}]
  /\ found   = [c \in Searchers |-> {}]
  /\ floor   = [c \in Searchers |-> {}]
  /\ busy    = {}

-----------------------------------------------------------------------------
(* RTIndexThread                                                           *)

\* addDocument writes into the active segment; shouldFreeze() then compares
\* sizes the model does not count, so either answer is possible.
AddDocument(t, d) ==
  /\ mpc = "running" /\ ~shut[t] /\ tpc[t] = "idle"
  /\ home[d] = NotAdded
  /\ home' = [home EXCEPT ![d] = active[t]]
  /\ \/ UNCHANGED tpc
     \/ tpc' = [tpc EXCEPT ![t] = "register"]
  /\ UNCHANGED <<nextSegId, active, fresh, shut, readers, queue, stat,
                 workerVars, disk, ing, stopReq, mpc, searchVars>>

\* A defect to detect: the reader of the new segment is not registered.
FreezeWithoutReader(t) ==
  /\ tpc[t] = "register"
  /\ fresh'     = [fresh EXCEPT ![t] = nextSegId]
  /\ nextSegId' = nextSegId + 1
  /\ tpc'       = [tpc EXCEPT ![t] = "push"]
  /\ UNCHANGED <<active, shut, home, readers, queue, stat, workerVars, disk, ing,
                 stopReq, mpc, searchVars>>

\* freeze(), 1: take an id and register the reader of the new segment.
FreezeRegister(t) ==
  /\ tpc[t] = "register"
  /\ fresh'     = [fresh EXCEPT ![t] = nextSegId]
  /\ nextSegId' = nextSegId + 1
  /\ readers'   = readers \cup {Mem(nextSegId)}
  /\ tpc'       = [tpc EXCEPT ![t] = "push"]
  /\ UNCHANGED <<active, shut, home, queue, stat, workerVars, disk, ing, stopReq,
                 mpc, searchVars>>

\* freeze(), 2: FlushQueue::push of the old segment, its state Queued.
FreezePush(t) ==
  /\ tpc[t] = "push"
  /\ queue' = Append(queue, active[t])
  /\ stat'  = Put(stat, active[t], "Queued")
  /\ tpc'   = [tpc EXCEPT ![t] = "switch"]
  /\ UNCHANGED <<nextSegId, active, fresh, shut, home, readers, workerVars,
                 disk, ing, stopReq, mpc, searchVars>>

\* Defects to detect: the thread goes on writing into the segment it pushed;
\* the new segment is moved from before it is installed.
FreezeNoSwitch(t) ==
  /\ tpc[t] = "switch"
  /\ tpc' = [tpc EXCEPT ![t] = "idle"]
  /\ UNCHANGED <<nextSegId, active, fresh, shut, home, readers, queue, stat,
                 workerVars, disk, ing, stopReq, mpc, searchVars>>

FreezeMovedFrom(t) ==
  /\ tpc[t] = "switch"
  /\ fresh'  = [fresh EXCEPT ![t] = NotAdded]
  /\ active' = [active EXCEPT ![t] = fresh'[t]]
  /\ tpc'    = [tpc EXCEPT ![t] = "idle"]
  /\ UNCHANGED <<nextSegId, shut, home, readers, queue, stat, workerVars,
                 disk, ing, stopReq, mpc, searchVars>>

\* freeze(), 3: switch to the new segment.
FreezeSwitch(t) ==
  /\ tpc[t] = "switch"
  /\ active' = [active EXCEPT ![t] = fresh[t]]
  /\ tpc'    = [tpc EXCEPT ![t] = "idle"]
  /\ UNCHANGED <<nextSegId, fresh, shut, home, readers, queue, stat,
                 workerVars, disk, ing, stopReq, mpc, searchVars>>

ThreadDone(t) == shut[t] /\ tpc[t] = "idle"

\* shutdown(), called by stop() for one thread after the other.
Shutdown(t) ==
  /\ mpc = "shutting" /\ ~shut[t] /\ tpc[t] = "idle"
  /\ \A u \in Threads : u < t => ThreadDone(u)
  /\ shut' = [shut EXCEPT ![t] = TRUE]
  /\ \/ /\ DocsOf(active[t]) # {}
        /\ tpc' = [tpc EXCEPT ![t] = "register"]
        /\ UNCHANGED readers
     \/ /\ DocsOf(active[t]) = {}
        /\ readers' = readers \ {Mem(active[t])}
        /\ UNCHANGED tpc
  /\ UNCHANGED <<nextSegId, active, fresh, home, queue, stat, workerVars,
                 disk, ing, stopReq, mpc, searchVars>>

-----------------------------------------------------------------------------
(* RealtimeIndexManager::stop, called when no addDocument is in progress.  *)

StopBegin ==
  /\ mpc = "running"
  /\ \A t \in Threads : tpc[t] = "idle"
  /\ mpc' = "shutting"
  /\ UNCHANGED <<nextSegId, threadVars, home, readers, queue, stat,
                 workerVars, disk, ing, stopReq, searchVars>>

\* FlushWorker::stop: raise the flag (and shut the queue), then join.
StopWorker ==
  /\ mpc = "shutting"
  /\ \A t \in Threads : ThreadDone(t)
  /\ mpc'     = "joining"
  /\ stopReq' = TRUE
  /\ UNCHANGED <<nextSegId, threadVars, home, readers, queue, stat,
                 workerVars, disk, ing, searchVars>>

StopJoin ==
  /\ mpc = "joining" /\ wpc = "exited"
  /\ mpc' = "stopped"
  /\ UNCHANGED <<nextSegId, threadVars, home, readers, queue, stat,
                 workerVars, disk, ing, stopReq, searchVars>>

-----------------------------------------------------------------------------
(* FlushWorker::run                                                        *)

\* A defect to detect: the thread function ends with the main loop.
LoopWithoutDrain ==
  /\ wpc = "loop"
  /\ wpc' = IF stopReq THEN "exited" ELSE "take"
  /\ UNCHANGED <<nextSegId, threadVars, home, readers, queue, stat, batch,
                 tmp, final, disk, ing, stopReq, mpc, searchVars>>

\* The test of the main loop; its exit leads to the draining loop.  A batch
\* of the draining loop also comes back here: stop_requested_ stays set.
WorkerLoop ==
  /\ wpc = "loop"
  /\ wpc' = IF stopReq THEN "drain" ELSE "take"
  /\ UNCHANGED <<nextSegId, threadVars, home, readers, queue, stat, batch,
                 tmp, final, disk, ing, stopReq, mpc, searchVars>>

\* The part of takeBatch after the wait, when the queue is not empty.
TakeBatch ==
  LET n == IF Len(queue) < MaxBatch THEN Len(queue) ELSE MaxBatch IN
  /\ queue # <<>>
  /\ batch' = SubSeq(queue, 1, n)
  /\ queue' = SubSeq(queue, n + 1, Len(queue))
  /\ tmp'   = <<>>
  /\ wpc'   = "flush"
  /\ UNCHANGED <<nextSegId, threadVars, home, readers, stat, final, disk, ing,
                 stopReq, mpc, searchVars>>

TakeNothing(next) ==
  /\ queue = <<>>
  /\ wpc' = next
  /\ UNCHANGED <<nextSegId, threadVars, home, readers, queue, stat, batch,
                 tmp, final, disk, ing, stopReq, mpc, searchVars>>

\* A defect to detect: the wait has no time-out and ends with a full batch
\* or on shutdown only.
TakeFullBatch ==
  /\ wpc = "take"
  /\ Len(queue) >= MaxBatch \/ stopReq
  /\ TakeBatch \/ TakeNothing("loop")

\* takeBatch(3, 500) returns when the batch is full, on shutdown or when the
\* 500 ms have passed, which can be at any time: the wait is a free choice.
WorkerTake == wpc = "take" /\ (TakeBatch \/ TakeNothing("loop"))

\* A defect to detect: an empty batch does not end the draining loop.
DrainForever == wpc = "drain" /\ (TakeBatch \/ TakeNothing("loop"))

\* takeBatch(3, 0) of the draining loop.
WorkerDrain == wpc = "drain" /\ (TakeBatch \/ TakeNothing("exited"))

-----------------------------------------------------------------------------
(* FlushWorker::processBatch                                               *)

\* A defect to detect: OnDisk is stored before the segment is written.
FlushReportsEarly ==
  /\ wpc = "flush" /\ Len(tmp) < Len(batch)
  /\ stat'      = Put(stat, batch[Len(tmp) + 1], "OnDisk")
  /\ tmp'       = Append(tmp, nextSegId)
  /\ nextSegId' = nextSegId + 1
  /\ wpc'       = "flushing"
  /\ UNCHANGED <<threadVars, home, readers, queue, batch, final, disk, ing,
                 stopReq, mpc, searchVars>>

\* Phase 1, one entry: state Flushing, take a tmp id ...
FlushBegin ==
  /\ wpc = "flush" /\ Len(tmp) < Len(batch)
  /\ stat'      = Put(stat, batch[Len(tmp) + 1], "Flushing")
  /\ tmp'       = Append(tmp, nextSegId)
  /\ nextSegId' = nextSegId + 1
  /\ wpc'       = "flushing"
  /\ UNCHANGED <<threadVars, home, readers, queue, batch, final, disk, ing,
                 stopReq, mpc, searchVars>>

\* ... flushToDisk has written segment_<tmp_id> up to .done: state OnDisk.
FlushEnd ==
  /\ wpc = "flushing"
  /\ disk' = Put(disk, tmp[Len(tmp)], DocsOf(batch[Len(tmp)]))
  /\ stat' = Put(stat, batch[Len(tmp)], "OnDisk")
  /\ wpc'  = "flush"
  /\ UNCHANGED <<nextSegId, threadVars, home, readers, queue, batch, tmp,
                 final, ing, stopReq, mpc, searchVars>>

\* Phase 2 with one entry: no merge.
UseSingle ==
  /\ wpc = "flush" /\ Len(tmp) = Len(batch) /\ Len(batch) = 1
  /\ final' = tmp[1]
  /\ wpc'   = "commit"
  /\ UNCHANGED <<nextSegId, threadVars, home, readers, queue, stat, batch,
                 tmp, disk, ing, stopReq, mpc, searchVars>>

\* Phase 2 with several: state Merging for all of them, take the final id ...
MergeBegin ==
  /\ wpc = "flush" /\ Len(tmp) = Len(batch) /\ Len(batch) > 1
  /\ stat'      = [s \in DOMAIN stat |->
                     IF s \in Elems(batch) THEN "Merging" ELSE stat[s]]
  /\ final'     = nextSegId
  /\ nextSegId' = nextSegId + 1
  /\ wpc'       = "merging"
  /\ UNCHANGED <<threadVars, home, readers, queue, batch, tmp, disk, ing,
                 stopReq, mpc, searchVars>>

\* ... mergeAll writes the data files of the output, its .ing in place, ...
MergeWrite ==
  /\ wpc = "merging"
  /\ disk' = Put(disk, final, UNION {disk[x] : x \in Elems(tmp)})
  /\ ing'  = {final}
  /\ wpc'  = "merged"
  /\ UNCHANGED <<nextSegId, threadVars, home, readers, queue, stat, batch,
                 tmp, final, stopReq, mpc, searchVars>>

\* ... then deletes its sources, one after the other, ...
MergeDelete(i) ==
  /\ wpc = "merged"
  /\ tmp[i] \in DOMAIN disk
  /\ \A j \in 1 .. i - 1 : tmp[j] \notin DOMAIN disk
  /\ disk' = [s \in DOMAIN disk \ {tmp[i]} |-> disk[s]]
  /\ UNCHANGED <<nextSegId, threadVars, home, readers, queue, stat, workerVars,
                 ing, stopReq, mpc, searchVars>>

\* ... and writes .done only then (processBatch's own removal of the tmp
\* directories finds nothing left).
MergeDone ==
  /\ wpc = "merged"
  /\ Elems(tmp) \cap DOMAIN disk = {}
  /\ ing' = {}
  /\ wpc' = "commit"
  /\ UNCHANGED <<nextSegId, threadVars, home, readers, queue, stat, batch,
                 tmp, final, disk, stopReq, mpc, searchVars>>

\* Defects to detect: addReader and removeReader in two critical sections,
\* in either order.
CommitAddThenRemove ==
  /\ wpc = "commit"
  /\ \/ /\ Disk(final) \notin readers
        /\ readers' = readers \cup {Disk(final)}
        /\ UNCHANGED wpc
     \/ /\ Disk(final) \in readers
        /\ readers' = readers \ {Mem(s) : s \in Elems(batch)}
        /\ wpc' = "mark"
  /\ UNCHANGED <<nextSegId, threadVars, home, queue, stat, batch, tmp, final,
                 disk, ing, stopReq, mpc, searchVars>>

CommitRemoveThenAdd ==
  /\ wpc = "commit"
  /\ \/ /\ Mem(batch[1]) \in readers
        /\ readers' = readers \ {Mem(s) : s \in Elems(batch)}
        /\ UNCHANGED wpc
     \/ /\ Mem(batch[1]) \notin readers
        /\ readers' = readers \cup {Disk(final)}
        /\ wpc' = "mark"
  /\ UNCHANGED <<nextSegId, threadVars, home, queue, stat, batch, tmp, final,
                 disk, ing, stopReq, mpc, searchVars>>

\* Phase 3: IndexSearcher::commitDiskSegment, one critical section.
CommitDiskSegment ==
  /\ wpc = "commit"
  /\ readers' = (readers \cup {Disk(final)}) \ {Mem(s) : s \in Elems(batch)}
  /\ wpc'     = "mark"
  /\ UNCHANGED <<nextSegId, threadVars, home, queue, stat, batch, tmp, final,
                 disk, ing, stopReq, mpc, searchVars>>

\* Phase 4: state Committed.
MarkCommitted ==
  /\ wpc = "mark"
  /\ stat'  = [s \in DOMAIN stat |->
                 IF s \in Elems(batch) THEN "Committed" ELSE stat[s]]
  /\ batch' = <<>>
  /\ tmp'   = <<>>
  /\ final' = NotAdded
  /\ wpc'   = "loop"
  /\ UNCHANGED <<nextSegId, threadVars, home, readers, queue, disk, ing, stopReq,
                 mpc, searchVars>>

\* processBatch has no handler: an exception leaves the thread function and
\* std::terminate ends the process (Next allows no step after it).
WorkerThrow ==
  /\ MayFail
  /\ wpc \in {"flushing", "merging", "merged", "commit"}
  /\ wpc' = "terminated"
  /\ UNCHANGED <<nextSegId, threadVars, home, readers, queue, stat, batch,
                 tmp, final, disk, ing, stopReq, mpc, searchVars>>

-----------------------------------------------------------------------------
(* IndexSearcher::search                                                   *)

\* The shared_lock section copies all_readers_.
SearchBegin(c) ==
  /\ c \notin busy
  /\ busy'  = busy \cup {c}
  /\ todo'  = [todo EXCEPT ![c] = readers]
  /\ found' = [found EXCEPT ![c] = {}]
  /\ floor' = [floor EXCEPT ![c] = Written]
  /\ UNCHANGED <<nextSegId, threadVars, home, readers, queue, stat,
                 workerVars, disk, ing, stopReq, mpc>>

\* searchImpl on one reader of the snapshot, outside any lock.
SearchReader(c, r) ==
  /\ r \in todo[c]
  /\ todo'  = [todo EXCEPT ![c] = @ \ {r}]
  /\ found' = [found EXCEPT ![c] = @ \cup ReaderDocs(r)]
  /\ UNCHANGED <<nextSegId, threadVars, home, readers, queue, stat,
                 workerVars, disk, ing, stopReq, mpc, floor, busy>>

\* mergeTopK, with a top_k no smaller than the number of hits.
SearchEnd(c) ==
  /\ c \in busy /\ todo[c] = {}
  /\ busy' = busy \ {c}
  /\ UNCHANGED <<nextSegId, threadVars, home, readers, queue, stat,
                 workerVars, disk, ing, stopReq, mpc, todo, found, floor>>

-----------------------------------------------------------------------------
ThreadStep(t) ==
  \/ \E d \in Docs : AddDocument(t, d)
  \/ FreezeRegister(t) \/ FreezePush(t) \/ FreezeSwitch(t)
  \/ Shutdown(t)

ManagerStep == StopBegin \/ StopWorker \/ StopJoin

WorkerStep ==
  \/ WorkerLoop \/ WorkerTake \/ WorkerDrain
  \/ FlushBegin \/ FlushEnd \/ UseSingle \/ MergeBegin
  \/ MergeWrite \/ (\E i \in 1 .. Len(tmp) : MergeDelete(i)) \/ MergeDone
  \/ CommitDiskSegment \/ MarkCommitted

SearchStep(c) ==
  \/ SearchBegin(c)
  \/ \E r \in todo[c] : SearchReader(c, r)
  \/ SearchEnd(c)

Next ==
  /\ wpc # "terminated"
  /\ \/ \E t \in Threads : ThreadStep(t)
     \/ ManagerStep
     \/ WorkerStep
     \/ WorkerThrow
     \/ \E c \in Searchers : SearchStep(c)

Spec == Init /\ [][Next]_vars
=============================================================================
