----------------------------- MODULE SegmentStore -----------------------------
(***************************************************************************)
(* Segment directories on disk: flushing a new segment, merging segments,  *)
(* and a process that may crash between any two file operations and start  *)
(* again on the same index directory.                                      *)
(*                                                                         *)
(* MemorySegment::flushToDisk and SegmentWriter::flush follow one          *)
(* protocol: create the directory with an .ing marker, write the files,    *)
(* write .done, remove .ing.  SegmentMerger::doMerge does the same, but    *)
(* deletes its sources before it writes .done; IndexWriter::flush and      *)
(* IndexWorker::doFlush write the fast-field columns after SegmentWriter   *)
(* has returned, so after .done.  Whoever opens the index loads the        *)
(* directories that have a .done.                                          *)
(*                                                                         *)
(* The files of a segment are two units: postings with stored fields,      *)
(* whole or not, and columns, of which counts whose values they hold:      *)
(* flushToDisk writes none, and a merge writes zeros for the documents of  *)
(* a source without columns.  Writing into an existing directory truncates *)
(* what it holds.  One process writes one segment at a time here;          *)
(* ParallelBuild has the threads.                                          *)
(***************************************************************************)
EXTENDS Naturals, FiniteSets

CONSTANTS
  Docs,         \* documents, each flushed at most once
  StartId,      \* global_seg_id_start of the first process
  MaxId,        \* bound: ids a run may hand out
  MaxCrashes    \* bound: crashes of a run

ASSUME StoreAssumption ==
  /\ StartId \in Nat /\ MaxId \in Nat /\ MaxCrashes \in Nat
  /\ IsFiniteSet(Docs)

VARIABLES
  dirs,         \* segment_<id> -> its markers and files
  nextId,       \* global_seg_id_ of the running process
  pc,           \* where the process is in flush or merge, or "down"
  id,           \* the segment being written
  payload,      \* its documents
  sources,      \* the merge's sources not deleted yet
  late,         \* an offline writer's flush, whose columns come last
  flushedDocs,  \* history: documents some flush has taken
  acked,        \* history: documents whose segment got its .done
  bare,         \* history: documents whose column values were never written,
                \* or that a crash left without them
  doomed,       \* merge sources whose deletion began and did not end
  crashes

vars == <<dirs, nextId, pc, id, payload, sources, late, flushedDocs, acked,
          bare, doomed, crashes>>

-----------------------------------------------------------------------------
Ids == DOMAIN dirs

Loadable == {s \in Ids : dirs[s].done}       \* listSegmentIds
Complete == {s \in Ids : dirs[s].done /\ dirs[s].whole}

WithDir(s, dir) == [x \in Ids \cup {s} |-> IF x = s THEN dir ELSE dirs[x]]

Init ==
  /\ dirs = [s \in {} |-> {}]
  /\ nextId = StartId
  /\ pc = "idle" /\ id = StartId /\ payload = {} /\ sources = {}
  /\ late = FALSE
  /\ flushedDocs = {} /\ acked = {} /\ bare = {} /\ doomed = {}
  /\ crashes = 0

\* create_directories and .ing: an existing directory keeps its other files.
MakeDir(s) ==
  dirs' = WithDir(s, IF s \in Ids THEN [dirs[s] EXCEPT !.ing = TRUE]
                     ELSE [ing |-> TRUE, done |-> FALSE, whole |-> FALSE,
                           cols |-> {}, docs |-> {}])

\* A defect to detect: the counter is read but not advanced.
TakeIdAgain ==
  /\ nextId <= MaxId
  /\ id' = nextId /\ nextId' = nextId
  /\ MakeDir(nextId)

TakeId ==
  /\ nextId <= MaxId
  /\ id' = nextId /\ nextId' = nextId + 1
  /\ MakeDir(nextId)

\* flushToDisk, or an offline writer's flush: only the latter's columns come.
BeginFlush(docs) ==
  /\ pc = "idle" /\ docs # {} /\ docs \cap flushedDocs = {}
  /\ TakeId
  /\ payload'     = docs
  /\ flushedDocs' = flushedDocs \cup docs
  /\ sources'     = {}
  /\ late' \in BOOLEAN
  /\ bare'        = IF late' THEN bare ELSE bare \cup docs
  /\ pc'          = "files"
  /\ UNCHANGED <<acked, doomed, crashes>>

\* The merger opens its sources first; a directory that cannot be opened is
\* not merged (its SegmentReader throws).
BeginMerge(srcs) ==
  /\ pc = "idle" /\ srcs # {} /\ srcs \subseteq Complete
  /\ TakeId
  /\ payload' = UNION {dirs[s].docs : s \in srcs}
  /\ sources' = srcs
  /\ late'    = FALSE
  /\ pc'      = "files"
  /\ UNCHANGED <<flushedDocs, acked, bare, doomed, crashes>>

\* A defect to detect: .done is written before the files.
BeginFilesDone ==
  /\ pc = "files"
  /\ dirs' = WithDir(id, [dirs[id] EXCEPT !.whole = FALSE, !.cols = {},
                                          !.docs = {}, !.done = TRUE])
  /\ pc'   = "writing"
  /\ UNCHANGED <<nextId, id, payload, sources, late, flushedDocs, acked,
                 bare, doomed, crashes>>

\* The first file is opened with trunc ...
BeginFiles ==
  /\ pc = "files"
  /\ dirs' = WithDir(id, [dirs[id] EXCEPT !.whole = FALSE, !.cols = {},
                                          !.docs = {}])
  /\ pc'   = "writing"
  /\ UNCHANGED <<nextId, id, payload, sources, late, flushedDocs, acked,
                 bare, doomed, crashes>>

\* The merger copies the values its sources have; a flush has no sources.
CopiedColumns == UNION {dirs[s].cols : s \in sources}

\* A defect to detect: .done is written before the sources are gone.
EndFilesDone ==
  /\ pc = "writing"
  /\ dirs' = WithDir(id, [dirs[id] EXCEPT !.whole = TRUE, !.cols = CopiedColumns,
                                          !.docs = payload, !.done = TRUE])
  /\ pc'   = IF sources = {} THEN "done" ELSE "delete"
  /\ UNCHANGED <<nextId, id, payload, sources, late, flushedDocs, acked,
                 bare, doomed, crashes>>

\* ... the last one is closed.
EndFiles ==
  /\ pc = "writing"
  /\ dirs' = WithDir(id, [dirs[id] EXCEPT !.whole = TRUE, !.cols = CopiedColumns,
                                          !.docs = payload])
  /\ pc'   = IF sources = {} THEN "done" ELSE "delete"
  /\ UNCHANGED <<nextId, id, payload, sources, late, flushedDocs, acked,
                 bare, doomed, crashes>>

\* deleteSegmentFiles: remove_all of one source removes the files in whatever
\* order the directory lists them, .done among them ...
BeginDelete(s) ==
  /\ pc = "delete" /\ s \in sources /\ sources \cap doomed = {}
  /\ \E done, whole \in BOOLEAN, cols \in {{}, dirs[s].cols} :
       /\ done /\ whole => cols = {}
       /\ dirs' = WithDir(s, [dirs[s] EXCEPT !.done = done, !.whole = whole,
                                             !.cols = cols])
  /\ doomed' = doomed \cup {s}
  /\ UNCHANGED <<nextId, pc, id, payload, sources, late, flushedDocs, acked,
                 bare, crashes>>

\* ... and then the directory.
EndDelete(s) ==
  /\ pc = "delete" /\ s \in sources \cap doomed
  /\ dirs'    = [x \in Ids \ {s} |-> dirs[x]]
  /\ sources' = sources \ {s}
  /\ doomed'  = doomed \ {s}
  /\ pc'      = IF sources' = {} THEN "done" ELSE "delete"
  /\ UNCHANGED <<nextId, id, payload, late, flushedDocs, acked, bare, crashes>>

WriteDone ==
  /\ pc = "done"
  /\ dirs'  = WithDir(id, [dirs[id] EXCEPT !.done = TRUE])
  /\ acked' = acked \cup payload
  /\ pc'    = "clean"
  /\ UNCHANGED <<nextId, id, payload, sources, late, flushedDocs, bare,
                 doomed, crashes>>

RemoveIng ==
  /\ pc = "clean"
  /\ dirs'    = WithDir(id, [dirs[id] EXCEPT !.ing = FALSE])
  /\ payload' = {}
  /\ pc'      = IF late THEN "columns" ELSE "idle"
  /\ UNCHANGED <<nextId, id, sources, late, flushedDocs, acked, bare, doomed,
                 crashes>>

\* FastFieldWriter::flush, after SegmentWriter::flush has returned.
WriteColumns ==
  /\ pc = "columns"
  /\ dirs' = WithDir(id, [dirs[id] EXCEPT !.cols = dirs[id].docs])
  /\ pc'   = "idle"
  /\ UNCHANGED <<nextId, id, payload, sources, late, flushedDocs, acked,
                 bare, doomed, crashes>>

-----------------------------------------------------------------------------
\* The columns of s are still to come.
ColumnsDue(s) == s = id /\ late /\ pc \in {"clean", "columns"}

\* The columns still to come do not, and a source may lack its columns only:
\* it loads like any other segment.
Crash ==
  /\ pc # "down" /\ crashes < MaxCrashes
  /\ pc' = "down" /\ payload' = {} /\ sources' = {}
  /\ crashes' = crashes + 1
  /\ LET stripped == {s \in Complete : ColumnsDue(s) \/ s \in doomed}
     IN  bare' = bare \cup UNION {dirs[s].docs : s \in stripped}
  /\ doomed' = doomed \ Complete
  /\ UNCHANGED <<dirs, nextId, id, late, flushedDocs, acked>>

\* A defect to detect: the new process begins above the complete segments only.
RestartAboveDone ==
  /\ pc = "down"
  /\ pc' = "idle"
  /\ nextId' = IF Loadable = {} THEN StartId
               ELSE 1 + (CHOOSE m \in Loadable : \A s \in Loadable : s <= m)
  /\ UNCHANGED <<dirs, id, payload, sources, late, flushedDocs, acked,
                 bare, doomed, crashes>>

\* A new process on the directory.  Nothing removes the remains of the old
\* one.  The id to begin with is the caller's, who must pass one above the
\* existing ids (realtime_index_manager.h): nothing looks at the directory.
Restart ==
  /\ pc = "down"
  /\ pc' = "idle"
  /\ nextId' = IF Ids = {} THEN StartId
               ELSE 1 + (CHOOSE m \in Ids : \A s \in Ids : s <= m)
  /\ UNCHANGED <<dirs, id, payload, sources, late, flushedDocs, acked,
                 bare, doomed, crashes>>

-----------------------------------------------------------------------------
Flush == \E docs \in SUBSET Docs : BeginFlush(docs)
Merge == \E srcs \in SUBSET Complete : BeginMerge(srcs)
Delete == \E s \in sources : BeginDelete(s) \/ EndDelete(s)

Next ==
  \/ Flush \/ Merge \/ BeginFiles \/ EndFiles \/ Delete
  \/ WriteDone \/ RemoveIng \/ WriteColumns \/ Crash \/ Restart

Spec == Init /\ [][Next]_vars

-----------------------------------------------------------------------------
(* Correctness                                                             *)

\* Whatever moment a crash strikes, no document is in two segments that the
\* next process loads: a half-done merge never shows a document twice.
ShownOnce ==
  \A s, t \in Complete : s # t => dirs[s].docs \cap dirs[t].docs = {}

\* A directory with .done has whole postings and stored fields, unless it is a
\* merge's source whose deletion was under way.  Its columns have the values of
\* exactly the documents that an offline writer flushed, except those of a
\* segment whose writer is about to write them or crashed before it had, and
\* those of a source whose columns a crash left deleted: they read as zeros in
\* every later merge.
DoneMeansWhole ==
  \A s \in Loadable \ doomed :
    /\ dirs[s].whole
    /\ dirs[s].cols = IF ColumnsDue(s) THEN {} ELSE dirs[s].docs \ bare

\* No crash destroys the last copy of an acknowledged document: it is whole in
\* some directory, although that directory may lack the .done that would make
\* it load (see AckedLoads).
AckedOnDisk == \A d \in acked : \E s \in Ids : dirs[s].whole /\ d \in dirs[s].docs

\* design/real_time_search.md, 13.5: after a crash the segments flushed with
\* .done are loaded completely.
AckedLoads ==
  pc = "down" => \A d \in acked : \E s \in Complete : d \in dirs[s].docs

\* memory/realtime_index_manager.h: the start id avoids conflicts with the disk
\* segments that exist, so no step ever truncates a complete segment.
NeverOverwrites ==
  [][\A s \in Complete : s \in DOMAIN dirs' => dirs'[s].docs = dirs[s].docs]_vars
=============================================================================
