-------------------------- MODULE SegmentStoreProofs --------------------------
(***************************************************************************)
(* Proofs about SegmentStore, for any documents, any bound on ids and any   *)
(* number of crashes: no two segments that load share a document, .done    *)
(* means whole, no acknowledged document loses its last copy, and no       *)
(* complete segment is written into.                                       *)
(***************************************************************************)
EXTENDS SegmentStore, DataLemmas

-----------------------------------------------------------------------------
(* The inductive invariant *)

Dir == [ing : BOOLEAN, done : BOOLEAN, whole : BOOLEAN, cols : SUBSET Docs,
        docs : SUBSET Docs]

\* The segment being written has not got its .done yet.
Unmarked == {"files", "writing", "delete", "done"}
Busy     == Unmarked \cup {"clean", "columns"}

TypeOK ==
  /\ DOMAIN dirs \in SUBSET (0 .. MaxId) /\ dirs \in [Ids -> Dir]
  /\ nextId \in Nat /\ id \in Nat /\ crashes \in Nat
  /\ pc \in {"idle", "down"} \cup Busy
  /\ payload \in SUBSET Docs /\ sources \in SUBSET Nat /\ late \in BOOLEAN
  /\ flushedDocs \in SUBSET Docs /\ acked \in SUBSET Docs
  /\ bare \in SUBSET Docs /\ doomed \in SUBSET Nat

\* The next id is above every directory, so a new segment finds an empty place.
IdsBelow == pc # "down" => \A s \in Ids : s < nextId

\* What is in the directory of the segment being written.
Written ==
  /\ pc \in Busy => id \in Ids
  /\ pc \in Unmarked => ~dirs[id].done
  /\ pc \in {"files", "writing"} => ~dirs[id].whole
  /\ pc \in {"delete", "done"} => dirs[id].whole /\ dirs[id].docs = payload

\* The sources of a merge are elsewhere, and the output has their documents.
SourcesCovered ==
  /\ sources # {} => pc \in {"files", "writing", "delete"}
  /\ pc = "delete" => sources # {}
  /\ \A s \in sources : s \in Ids /\ s # id /\ dirs[s].docs \subseteq payload

\* No other complete segment has a document of the segment being written.
PayloadElsewhere ==
  pc \in Unmarked =>
    \A s \in Complete \ (sources \cup {id}) : dirs[s].docs \cap payload = {}

\* A document that no flush has taken is in no segment.
OnlyFlushed ==
  payload \subseteq flushedDocs /\ \A s \in Ids : dirs[s].docs \subseteq flushedDocs

\* The values the columns of the segment being written are to hold at its .done.
Due == IF late THEN {} ELSE payload \ bare

\* An offline writer's documents have their values to come; a merge copies the
\* values of those that have any.
Columns ==
  /\ bare \subseteq flushedDocs
  /\ pc \in {"files", "writing"} => CopiedColumns = Due
  /\ pc \in {"delete", "done"} => dirs[id].cols = Due
  /\ late /\ pc \in Unmarked => payload \cap bare = {}
  /\ ColumnsDue(id) => dirs[id].docs \cap bare = {}
  /\ pc = "columns" => late

\* A source whose deletion began does not load any more, unless it is being
\* deleted and lacks its columns.
Deleting ==
  /\ doomed \subseteq Ids
  /\ pc \in Busy => id \notin doomed
  /\ \A s \in doomed \cap Complete :
       pc = "delete" /\ s \in sources /\ dirs[s].cols = {}
  /\ sources \ doomed \subseteq Complete

IInv ==
  /\ TypeOK /\ IdsBelow /\ Written /\ SourcesCovered /\ PayloadElsewhere
  /\ OnlyFlushed /\ Columns /\ Deleting
  /\ ShownOnce /\ DoneMeansWhole /\ AckedOnDisk

-----------------------------------------------------------------------------
(* Lemmas about the directories *)

\* Writing one directory leaves the others as they are.
LEMMA WithDirFacts ==
  ASSUME TypeOK, NEW s \in 0 .. MaxId, NEW dir \in Dir, dirs' = WithDir(s, dir)
  PROVE  /\ Ids' = Ids \cup {s} /\ Ids' \in SUBSET (0 .. MaxId)
         /\ dirs' \in [Ids' -> Dir]
         /\ dirs'[s] = dir
         /\ \A x \in Ids : x # s => dirs'[x] = dirs[x]
BY DEF WithDir, Ids, TypeOK

\* The id a process starts with is above every directory.
LEMMA RestartAbove ==
  ASSUME TypeOK, Restart
  PROVE  nextId' \in Nat /\ \A s \in Ids : s < nextId'
<1>1. Ids \in SUBSET (0 .. MaxId) /\ MaxId \in Nat /\ StartId \in Nat
  BY StoreAssumption DEF TypeOK, Ids
<1>2. CASE Ids = {}
  BY <1>1, <1>2 DEF Restart
<1>3. CASE Ids # {}
  <2>1. Ids \in SUBSET Nat /\ \A s \in Ids : s <= MaxId
    BY <1>1
  <2>2. \E m \in Ids : \A s \in Ids : s <= m
    BY <1>1, <1>3, <2>1, GreatestElement
  <2> DEFINE m == CHOOSE x \in Ids : \A s \in Ids : s <= x
  <2>3. m \in Ids /\ \A s \in Ids : s <= m
    BY <2>2
  <2>4. nextId' = 1 + m
    BY <1>3 DEF Restart
  <2> HIDE DEF m
  <2> QED
    BY <2>1, <2>3, <2>4
<1> QED
  BY <1>2, <1>3

-----------------------------------------------------------------------------
(* The inductive invariant holds initially and after every step *)

\* An empty directory and an idle process.
LEMMA InitIInv == Init => IInv
<1> SUFFICES ASSUME Init PROVE IInv
  OBVIOUS
<1>1. Ids = {} /\ dirs \in [Ids -> Dir]
  BY DEF Init, Ids
<1>2. TypeOK
  BY <1>1, StoreAssumption DEF Init, TypeOK, Ids
<1>3. /\ IdsBelow /\ Written /\ SourcesCovered /\ PayloadElsewhere /\ OnlyFlushed
      /\ Columns /\ Deleting /\ ShownOnce /\ DoneMeansWhole /\ AckedOnDisk
  BY <1>1 DEF Init, ColumnsDue, Columns, Deleting, Busy, Unmarked, IdsBelow, Written, SourcesCovered, PayloadElsewhere,
              OnlyFlushed, ShownOnce, DoneMeansWhole, AckedOnDisk, Complete, Loadable
<1> QED
  BY <1>2, <1>3 DEF IInv

\* An idle process makes its next directory in an empty place.
LEMMA TakeIdFacts ==
  ASSUME IInv, pc = "idle", TakeId
  PROVE  /\ id' = nextId /\ id' \in 0 .. MaxId /\ id' \notin Ids
         /\ nextId' \in Nat /\ \A s \in Ids' : s < nextId'
         /\ Ids' = Ids \cup {id'} /\ Ids' \in SUBSET (0 .. MaxId)
         /\ dirs' \in [Ids' -> Dir]
         /\ dirs'[id'] = [ing |-> TRUE, done |-> FALSE, whole |-> FALSE,
                          cols |-> {}, docs |-> {}]
         /\ \A s \in Ids : dirs'[s] = dirs[s]
         /\ Loadable' = Loadable /\ Complete' = Complete
<1> DEFINE new == [ing |-> TRUE, done |-> FALSE, whole |-> FALSE,
                   cols |-> {}, docs |-> {}]
<1>1. TypeOK /\ MaxId \in Nat /\ nextId \in Nat /\ Ids \in SUBSET (0 .. MaxId)
  BY StoreAssumption DEF IInv, TypeOK, Ids
<1>2. nextId \in 0 .. MaxId /\ id' = nextId /\ nextId' = nextId + 1
  BY <1>1 DEF TakeId
<1>3. \A s \in Ids : s < nextId /\ s \in Nat
  BY <1>1 DEF IInv, IdsBelow
<1>4. nextId \notin Ids
  BY <1>3, <1>1
<1>5. new \in Dir /\ dirs' = WithDir(nextId, new)
  BY <1>4 DEF TakeId, MakeDir, Dir
<1> HIDE DEF new
<1>6. /\ Ids' = Ids \cup {nextId} /\ Ids' \in SUBSET (0 .. MaxId)
      /\ dirs' \in [Ids' -> Dir] /\ dirs'[nextId] = new
      /\ \A s \in Ids : s # nextId => dirs'[s] = dirs[s]
  BY <1>1, <1>2, <1>5, WithDirFacts
<1>7. \A s \in Ids : dirs'[s] = dirs[s]
  BY <1>4, <1>6
<1>8. ~new.done
  BY DEF new
<1>9. Loadable' = Loadable /\ Complete' = Complete
  BY <1>6, <1>7, <1>8 DEF Loadable, Complete
<1>10. \A s \in Ids' : s < nextId'
  BY <1>1, <1>2, <1>3, <1>6
<1> QED
  BY <1>1, <1>2, <1>4, <1>6, <1>7, <1>9, <1>10 DEF new

\* A flush begins: its documents are in no segment yet.
LEMMA BeginFlushStep ==
  ASSUME IInv, NEW docs \in SUBSET Docs, BeginFlush(docs)
  PROVE  IInv'
<1> USE DEF Busy, Unmarked
<1>1. /\ pc = "idle" /\ TakeId /\ docs \cap flushedDocs = {} /\ payload' = docs
      /\ flushedDocs' = flushedDocs \cup docs /\ sources' = {} /\ late' \in BOOLEAN
      /\ bare' = (IF late' THEN bare ELSE bare \cup docs)
      /\ pc' = "files" /\ UNCHANGED <<acked, doomed, crashes>>
  BY DEF BeginFlush
<1>2. TypeOK
  BY DEF IInv
<1>3. /\ id' \in Nat /\ id' \notin Ids /\ nextId' \in Nat
      /\ \A s \in Ids' : s < nextId'
      /\ Ids' = Ids \cup {id'} /\ Ids' \in SUBSET (0 .. MaxId)
      /\ dirs' \in [Ids' -> Dir]
      /\ ~dirs'[id'].done /\ ~dirs'[id'].whole /\ dirs'[id'].docs = {}
      /\ \A s \in Ids : dirs'[s] = dirs[s]
      /\ Loadable' = Loadable /\ Complete' = Complete
  BY <1>1, TakeIdFacts
<1>4. TypeOK'
  BY <1>1, <1>2, <1>3 DEF TypeOK, Ids
<1>5. IdsBelow' /\ Written' /\ SourcesCovered'
  BY <1>1, <1>3 DEF IdsBelow, Written, SourcesCovered
<1>6. OnlyFlushed'
  BY <1>1, <1>3 DEF IInv, OnlyFlushed
<1>7. PayloadElsewhere'
  BY <1>1, <1>3 DEF IInv, OnlyFlushed, PayloadElsewhere, Complete
<1>8. ShownOnce'
  BY <1>3 DEF IInv, ShownOnce, Complete
<1>9. DoneMeansWhole'
  <2> SUFFICES ASSUME NEW s \in Loadable \ doomed
               PROVE  dirs'[s].whole /\ dirs'[s].cols = dirs'[s].docs \ bare'
    BY <1>1, <1>3 DEF DoneMeansWhole, ColumnsDue
  <2>1. s \in Ids /\ dirs[s].whole /\ dirs[s].cols = dirs[s].docs \ bare
    BY <1>1 DEF IInv, DoneMeansWhole, ColumnsDue, Loadable
  <2>2. dirs[s].docs \cap docs = {}
    BY <1>1, <2>1 DEF IInv, OnlyFlushed
  <2> QED
    BY <1>1, <1>3, <2>1, <2>2
<1>10. AckedOnDisk'
  BY <1>1, <1>3 DEF IInv, AckedOnDisk
<1>11. Columns'
  <2>1. bare \subseteq flushedDocs
    BY DEF IInv, Columns
  <2>2. CopiedColumns' = {}
    BY <1>1 DEF CopiedColumns
  <2> QED
    BY <1>1, <2>1, <2>2 DEF Columns, Due, ColumnsDue
<1>12. Deleting'
  <2>1. doomed \subseteq Ids /\ doomed \cap Complete = {}
    BY <1>1 DEF IInv, Deleting
  <2> QED
    BY <1>1, <1>3, <2>1 DEF Deleting
<1> QED
  BY <1>4, <1>5, <1>6, <1>7, <1>8, <1>9, <1>10, <1>11, <1>12 DEF IInv

\* A merge begins: its documents are in its sources only.
LEMMA BeginMergeStep ==
  ASSUME IInv, NEW srcs \in SUBSET Complete, BeginMerge(srcs)
  PROVE  IInv'
<1> USE DEF Busy, Unmarked
<1>1. /\ pc = "idle" /\ TakeId /\ payload' = UNION {dirs[s].docs : s \in srcs}
      /\ sources' = srcs /\ late' = FALSE /\ pc' = "files"
      /\ UNCHANGED <<flushedDocs, acked, bare, doomed, crashes>>
  BY DEF BeginMerge
<1>2. TypeOK /\ Complete \subseteq Ids /\ Ids \in SUBSET (0 .. MaxId) /\ dirs \in [Ids -> Dir]
  BY DEF IInv, Complete, TypeOK, Ids
<1>3. /\ id' \in Nat /\ id' \notin Ids /\ nextId' \in Nat
      /\ \A s \in Ids' : s < nextId'
      /\ Ids' = Ids \cup {id'} /\ Ids' \in SUBSET (0 .. MaxId)
      /\ dirs' \in [Ids' -> Dir]
      /\ ~dirs'[id'].done /\ ~dirs'[id'].whole /\ dirs'[id'].docs = {}
      /\ \A s \in Ids : dirs'[s] = dirs[s]
      /\ Loadable' = Loadable /\ Complete' = Complete
  BY <1>1, TakeIdFacts
<1>4. \A s \in srcs : s \in Ids /\ s \in Nat /\ dirs[s].docs \in SUBSET Docs
  BY <1>2 DEF Dir
<1>5. TypeOK'
  BY <1>1, <1>2, <1>3, <1>4 DEF TypeOK, Ids
<1>6. IdsBelow' /\ Written'
  BY <1>1, <1>3 DEF IdsBelow, Written
<1>7. SourcesCovered'
  BY <1>1, <1>3, <1>4 DEF SourcesCovered
<1>8. OnlyFlushed'
  BY <1>1, <1>3, <1>4 DEF IInv, OnlyFlushed
<1>9. PayloadElsewhere'
  <2> SUFFICES ASSUME NEW s \in Complete' \ (srcs \cup {id'}), NEW d \in dirs'[s].docs,
                      d \in payload'
               PROVE  FALSE
    BY <1>1 DEF PayloadElsewhere
  <2>1. s \in Complete \ srcs /\ s \in Ids /\ d \in dirs[s].docs
    BY <1>2, <1>3
  <2>2. PICK t \in srcs : d \in dirs[t].docs
    BY <1>1
  <2> QED
    BY <2>1, <2>2 DEF IInv, ShownOnce
<1>10. ShownOnce'
  BY <1>3 DEF IInv, ShownOnce, Complete
<1>11. DoneMeansWhole'
  BY <1>1, <1>3 DEF IInv, DoneMeansWhole, ColumnsDue, Loadable
<1>12. AckedOnDisk'
  BY <1>1, <1>3 DEF IInv, AckedOnDisk
<1>13. doomed \subseteq Ids /\ doomed \cap Complete = {}
  BY <1>1 DEF IInv, Deleting
<1>14. Columns'
  <2>1. \A s \in srcs : dirs'[s].cols = dirs[s].docs \ bare
    <3> TAKE s \in srcs
    <3>1. s \in Loadable \ doomed
      BY <1>13 DEF Complete, Loadable
    <3> QED
      BY <1>1, <1>3, <1>4, <3>1 DEF IInv, DoneMeansWhole, ColumnsDue
  <2>2. CopiedColumns' = payload' \ bare'
    BY <1>1, <2>1 DEF CopiedColumns
  <2>3. bare \subseteq flushedDocs
    BY DEF IInv, Columns
  <2> QED
    BY <1>1, <2>2, <2>3 DEF Columns, Due, ColumnsDue
<1>15. Deleting'
  BY <1>1, <1>3, <1>13 DEF Deleting
<1> QED
  BY <1>5, <1>6, <1>7, <1>8, <1>9, <1>10, <1>11, <1>12, <1>14, <1>15 DEF IInv

\* Rewriting the segment being written.
LEMMA RewriteFacts ==
  ASSUME IInv, pc \in Busy, NEW dir \in Dir, dirs' = WithDir(id, dir)
  PROVE  /\ id \in Ids /\ Ids' = Ids /\ Ids' \in SUBSET (0 .. MaxId)
         /\ dirs' \in [Ids' -> Dir] /\ dirs'[id] = dir
         /\ \A s \in Ids : s # id => dirs'[s] = dirs[s]
<1>1. TypeOK /\ id \in Ids /\ id \in 0 .. MaxId
  BY DEF IInv, Written, TypeOK, Ids
<1>2. Ids \cup {id} = Ids
  BY <1>1
<1> QED
  BY <1>1, <1>2, WithDirFacts

\* The directory of a segment has the fields a directory has.
LEMMA DirType ==
  ASSUME TypeOK, NEW s \in Ids
  PROVE  /\ dirs[s] \in Dir
         /\ s \in 0 .. MaxId /\ s \in Nat
BY StoreAssumption DEF TypeOK, Ids

\* The first file is truncated: the segment has no .done yet, so nothing loads it.
LEMMA BeginFilesStep == ASSUME IInv, BeginFiles PROVE IInv'
<1> USE DEF Busy, Unmarked
<1> DEFINE dir == [dirs[id] EXCEPT !.whole = FALSE, !.cols = {}, !.docs = {}]
<1>1. /\ pc = "files" /\ pc' = "writing" /\ dirs' = WithDir(id, dir)
      /\ UNCHANGED <<nextId, id, payload, sources, late, flushedDocs, acked, bare, doomed, crashes>>
  BY DEF BeginFiles
<1>2. TypeOK /\ id \in Ids /\ ~dirs[id].done /\ ~dirs[id].whole
  BY <1>1 DEF IInv, Written
<1>3. dir \in Dir /\ ~dir.done /\ ~dir.whole /\ dir.docs = {}
  BY <1>2, DirType DEF Dir
<1> HIDE DEF dir
<1>4. /\ Ids' = Ids /\ Ids' \in SUBSET (0 .. MaxId)
      /\ dirs' \in [Ids' -> Dir] /\ dirs'[id] = dir
      /\ \A s \in Ids : s # id => dirs'[s] = dirs[s]
  BY <1>1, <1>3, RewriteFacts
<1>5. Loadable' = Loadable /\ Complete' = Complete /\ id \notin Loadable
  BY <1>2, <1>3, <1>4 DEF Loadable, Complete
<1>6. TypeOK'
  BY <1>1, <1>2, <1>4 DEF TypeOK, Ids
<1>7. IdsBelow' /\ Written' /\ SourcesCovered'
  BY <1>1, <1>2, <1>3, <1>4 DEF IInv, IdsBelow, Written, SourcesCovered
<1>8. PayloadElsewhere'
  BY <1>1, <1>4, <1>5 DEF IInv, PayloadElsewhere, Complete
<1>9. OnlyFlushed'
  BY <1>1, <1>3, <1>4 DEF IInv, OnlyFlushed
<1>10. ShownOnce'
  BY <1>4, <1>5 DEF IInv, ShownOnce, Complete, Loadable
<1>11. DoneMeansWhole'
  BY <1>1, <1>4, <1>5 DEF IInv, DoneMeansWhole, ColumnsDue, Loadable
<1>12. AckedOnDisk'
  BY <1>1, <1>2, <1>4 DEF IInv, AckedOnDisk
<1>13. Columns'
  <2>1. \A s \in sources : dirs'[s] = dirs[s]
    BY <1>4 DEF IInv, SourcesCovered
  <2>2. CopiedColumns' = CopiedColumns
    BY <1>1, <2>1 DEF CopiedColumns
  <2> QED
    BY <1>1, <2>2 DEF IInv, Columns, Due, ColumnsDue
<1>14. Deleting'
  BY <1>1, <1>4, <1>5 DEF IInv, Deleting
<1> QED
  BY <1>6, <1>7, <1>8, <1>9, <1>10, <1>11, <1>12, <1>13, <1>14 DEF IInv

\* The last file is closed: the segment is whole, still without .done.
LEMMA EndFilesStep == ASSUME IInv, EndFiles PROVE IInv'
<1> USE DEF Busy, Unmarked
<1> DEFINE dir == [dirs[id] EXCEPT !.whole = TRUE, !.cols = CopiedColumns, !.docs = payload]
<1>1. /\ pc = "writing" /\ pc' = (IF sources = {} THEN "done" ELSE "delete")
      /\ dirs' = WithDir(id, dir)
      /\ UNCHANGED <<nextId, id, payload, sources, late, flushedDocs, acked, bare, doomed, crashes>>
  BY DEF EndFiles
<1>2. TypeOK /\ id \in Ids /\ ~dirs[id].done /\ ~dirs[id].whole
  BY <1>1 DEF IInv, Written
<1>3. dir \in Dir /\ ~dir.done /\ dir.whole /\ dir.cols = Due /\ dir.docs = payload
  <2>1. CopiedColumns = Due /\ Due \in SUBSET Docs
    BY <1>1, <1>2 DEF IInv, Columns, Due, TypeOK
  <2> QED
    BY <1>2, <2>1, DirType DEF Dir, TypeOK
<1> HIDE DEF dir
<1>4. /\ Ids' = Ids /\ Ids' \in SUBSET (0 .. MaxId)
      /\ dirs' \in [Ids' -> Dir] /\ dirs'[id] = dir
      /\ \A s \in Ids : s # id => dirs'[s] = dirs[s]
  BY <1>1, <1>3, RewriteFacts
<1>5. Loadable' = Loadable /\ Complete' = Complete /\ id \notin Loadable
  BY <1>2, <1>3, <1>4 DEF Loadable, Complete
<1>6. TypeOK'
  BY <1>1, <1>2, <1>4 DEF TypeOK, Ids
<1>7. IdsBelow' /\ Written' /\ SourcesCovered'
  BY <1>1, <1>2, <1>3, <1>4 DEF IInv, IdsBelow, Written, SourcesCovered
<1>8. PayloadElsewhere'
  BY <1>1, <1>4, <1>5 DEF IInv, PayloadElsewhere, Complete
<1>9. OnlyFlushed'
  BY <1>1, <1>3, <1>4 DEF IInv, OnlyFlushed
<1>10. ShownOnce'
  BY <1>4, <1>5 DEF IInv, ShownOnce, Complete, Loadable
<1>11. DoneMeansWhole'
  BY <1>1, <1>4, <1>5 DEF IInv, DoneMeansWhole, ColumnsDue, Loadable
<1>12. AckedOnDisk'
  BY <1>1, <1>2, <1>4 DEF IInv, AckedOnDisk
<1>13. Columns'
  BY <1>1, <1>3, <1>4 DEF IInv, Columns, Due, ColumnsDue
<1>14. Deleting'
  BY <1>1, <1>4, <1>5 DEF IInv, Deleting
<1> QED
  BY <1>6, <1>7, <1>8, <1>9, <1>10, <1>11, <1>12, <1>13, <1>14 DEF IInv

\* A source loses files: its documents are in the output, which is whole.
LEMMA BeginDeleteStep ==
  ASSUME IInv, NEW s \in sources, BeginDelete(s) PROVE IInv'
<1> USE DEF Busy, Unmarked
<1>1. PICK done \in BOOLEAN, whole \in BOOLEAN, cols \in {{}, dirs[s].cols} :
        /\ done /\ whole => cols = {}
        /\ dirs' = WithDir(s, [dirs[s] EXCEPT !.done = done, !.whole = whole, !.cols = cols])
  BY DEF BeginDelete
<1> DEFINE dir == [dirs[s] EXCEPT !.done = done, !.whole = whole, !.cols = cols]
<1>2. /\ pc = "delete" /\ sources \cap doomed = {} /\ doomed' = doomed \cup {s}
      /\ dirs' = WithDir(s, dir)
      /\ UNCHANGED <<nextId, pc, id, payload, sources, late, flushedDocs, acked, bare, crashes>>
  BY <1>1 DEF BeginDelete
<1>3. /\ TypeOK /\ s \in Ids /\ s # id /\ s \in 0 .. MaxId /\ s \in Nat
      /\ dirs[s].docs \subseteq payload
      /\ id \in Ids /\ dirs[id].whole /\ dirs[id].docs = payload
  BY <1>2, DirType DEF IInv, SourcesCovered, Written
<1>4. dir \in Dir /\ dir.docs = dirs[s].docs /\ (dir.done /\ dir.whole => dir.cols = {})
  BY <1>1, <1>3, DirType DEF Dir
<1> HIDE DEF dir
<1>5. /\ Ids' = Ids /\ Ids' \in SUBSET (0 .. MaxId)
      /\ dirs' \in [Ids' -> Dir] /\ dirs'[s] = dir
      /\ \A x \in Ids : x # s => dirs'[x] = dirs[x]
  <2>1. Ids \cup {s} = Ids
    BY <1>3
  <2> QED
    BY <1>2, <1>3, <1>4, <2>1, WithDirFacts
<1>6. /\ Complete' \subseteq Complete
      /\ s \in Complete' => dirs'[s].cols = {}
      /\ \A x \in Complete : x # s => x \in Complete'
      /\ Loadable' \ doomed' \subseteq Loadable \ doomed
  <2>1. s \in Complete /\ s \notin doomed
    BY <1>2 DEF IInv, Deleting
  <2> QED
    BY <1>2, <1>4, <1>5, <2>1 DEF Loadable, Complete
<1>7. \A x \in Ids : dirs'[x].docs = dirs[x].docs
  BY <1>4, <1>5
<1>8. TypeOK'
  BY <1>2, <1>3, <1>5 DEF TypeOK, Ids
<1>9. IdsBelow' /\ Written' /\ SourcesCovered'
  BY <1>2, <1>3, <1>5, <1>7 DEF IInv, IdsBelow, Written, SourcesCovered
<1>10. PayloadElsewhere' /\ OnlyFlushed' /\ ShownOnce'
  <2>1. Complete \subseteq Ids
    BY DEF Complete
  <2>2. OnlyFlushed'
    BY <1>2, <1>5, <1>7 DEF IInv, OnlyFlushed
  <2>0. PICK c, cn : c = Complete /\ cn = Complete'
    OBVIOUS
  <2>3. PayloadElsewhere' /\ ShownOnce'
    <3>1. /\ \A x \in c \ (sources \cup {id}) : dirs[x].docs \cap payload = {}
          /\ \A x, y \in c : x # y => dirs[x].docs \cap dirs[y].docs = {}
      BY <1>2, <2>0 DEF IInv, PayloadElsewhere, ShownOnce
    <3>2. cn \subseteq c /\ c \subseteq Ids
      BY <1>6, <2>0, <2>1
    <3>3. /\ \A x \in cn \ (sources' \cup {id'}) : dirs'[x].docs \cap payload' = {}
          /\ \A x, y \in cn : x # y => dirs'[x].docs \cap dirs'[y].docs = {}
      BY <1>2, <1>7, <3>1, <3>2
    <3> QED
      BY <2>0, <3>3 DEF PayloadElsewhere, ShownOnce
  <2> QED
    BY <2>2, <2>3
<1>11. DoneMeansWhole'
  <2> SUFFICES ASSUME NEW x \in Loadable' \ doomed'
               PROVE  dirs'[x].whole /\ dirs'[x].cols = dirs'[x].docs \ bare'
    BY <1>2 DEF DoneMeansWhole, ColumnsDue
  <2>1. x \in Loadable \ doomed /\ x # s /\ x \in Ids /\ dirs'[x] = dirs[x]
    BY <1>2, <1>5, <1>6 DEF Loadable
  <2> QED
    BY <1>2, <2>1 DEF IInv, DoneMeansWhole, ColumnsDue
<1>12. AckedOnDisk'
  <2> SUFFICES ASSUME NEW d \in acked'
               PROVE  \E x \in Ids' : dirs'[x].whole /\ d \in dirs'[x].docs
    BY DEF AckedOnDisk
  <2>1. PICK x \in Ids : dirs[x].whole /\ d \in dirs[x].docs
    BY <1>2 DEF IInv, AckedOnDisk
  <2>2. CASE x = s
    BY <1>3, <1>5, <2>1, <2>2
  <2>3. CASE x # s
    BY <1>5, <2>1, <2>3
  <2> QED
    BY <2>2, <2>3
<1>13. Columns'
  <2>1. dirs'[id] = dirs[id]
    BY <1>3, <1>5
  <2> QED
    BY <1>2, <2>1 DEF IInv, Columns, Due, ColumnsDue
<1>14. Deleting'
  <2>1. doomed \subseteq Ids /\ id \notin doomed
    BY <1>2 DEF IInv, Deleting
  <2>0. PICK c, cn : c = Complete /\ cn = Complete'
    OBVIOUS
  <2>2. \A x \in doomed' \cap cn : x = s
    <3>1. \A x \in doomed \cap c : x \in sources
      BY <2>0 DEF IInv, Deleting
    <3>2. cn \subseteq c
      BY <1>6, <2>0
    <3> QED
      BY <1>2, <3>1, <3>2
  <2>3. sources' \ doomed' \subseteq Complete'
    BY <1>2, <1>6 DEF IInv, Deleting
  <2>4. doomed' \subseteq Ids' /\ id' \notin doomed'
    BY <1>2, <1>3, <1>5, <2>1
  <2>5. \A x \in doomed' \cap cn : pc' = "delete" /\ x \in sources' /\ dirs'[x].cols = {}
    <3>1. s \in cn => dirs'[s].cols = {}
      BY <1>6, <2>0
    <3> QED
      BY <1>2, <2>2, <3>1
  <2> QED
    BY <2>0, <2>3, <2>4, <2>5 DEF Deleting
<1> QED
  BY <1>8, <1>9, <1>10, <1>11, <1>12, <1>13, <1>14 DEF IInv

\* A source is gone: what it held is in the output, which is whole.
LEMMA EndDeleteStep ==
  ASSUME IInv, NEW s \in sources, EndDelete(s) PROVE IInv'
<1> USE DEF Busy, Unmarked
<1>1. /\ pc = "delete" /\ s \in doomed /\ dirs' = [x \in Ids \ {s} |-> dirs[x]]
      /\ sources' = sources \ {s} /\ doomed' = doomed \ {s}
      /\ pc' = (IF sources' = {} THEN "done" ELSE "delete")
      /\ UNCHANGED <<nextId, id, payload, late, flushedDocs, acked, bare, crashes>>
  BY DEF EndDelete
<1>2. /\ TypeOK /\ s \in Ids /\ s # id /\ dirs[s].docs \subseteq payload
      /\ id \in Ids /\ dirs[id].whole /\ dirs[id].docs = payload
  BY <1>1 DEF IInv, SourcesCovered, Written
<1>3. /\ Ids' = Ids \ {s} /\ Ids' \in SUBSET (0 .. MaxId)
      /\ dirs' \in [Ids' -> Dir] /\ \A x \in Ids' : dirs'[x] = dirs[x]
  BY <1>1, <1>2 DEF TypeOK, Ids
<1>4. Complete' = Complete \ {s} /\ Loadable' = Loadable \ {s}
  BY <1>3 DEF Loadable, Complete
<1>5. TypeOK'
  BY <1>1, <1>2, <1>3 DEF TypeOK, Ids
<1>6. IdsBelow' /\ Written' /\ SourcesCovered'
  BY <1>1, <1>2, <1>3 DEF IInv, IdsBelow, Written, SourcesCovered
<1>7. PayloadElsewhere' /\ OnlyFlushed' /\ ShownOnce'
  BY <1>1, <1>3, <1>4 DEF IInv, PayloadElsewhere, OnlyFlushed, ShownOnce, Complete
<1>8. DoneMeansWhole'
  BY <1>1, <1>3, <1>4 DEF IInv, DoneMeansWhole, ColumnsDue, Loadable
<1>9. AckedOnDisk'
  <2> SUFFICES ASSUME NEW d \in acked'
               PROVE  \E x \in Ids' : dirs'[x].whole /\ d \in dirs'[x].docs
    BY DEF AckedOnDisk
  <2>1. PICK x \in Ids : dirs[x].whole /\ d \in dirs[x].docs
    BY <1>1 DEF IInv, AckedOnDisk
  <2>2. CASE x = s
    BY <1>2, <1>3, <2>1, <2>2
  <2>3. CASE x # s
    BY <1>3, <2>1, <2>3
  <2> QED
    BY <2>2, <2>3
<1>10. Columns'
  <2>1. dirs'[id] = dirs[id]
    BY <1>2, <1>3
  <2> QED
    BY <1>1, <2>1 DEF IInv, Columns, Due, ColumnsDue
<1>11. Deleting'
  BY <1>1, <1>2, <1>3, <1>4 DEF IInv, Deleting, Complete
<1> QED
  BY <1>5, <1>6, <1>7, <1>8, <1>9, <1>10, <1>11 DEF IInv

\* .done makes the segment load: no other complete segment has its documents.
LEMMA WriteDoneStep == ASSUME IInv, WriteDone PROVE IInv'
<1> USE DEF Busy, Unmarked
<1> DEFINE dir == [dirs[id] EXCEPT !.done = TRUE]
<1>1. /\ pc = "done" /\ pc' = "clean" /\ dirs' = WithDir(id, dir)
      /\ acked' = acked \cup payload
      /\ UNCHANGED <<nextId, id, payload, sources, late, flushedDocs, bare, doomed, crashes>>
  BY DEF WriteDone
<1>2. /\ TypeOK /\ id \in Ids /\ ~dirs[id].done /\ dirs[id].whole
      /\ dirs[id].docs = payload /\ dirs[id].cols = Due /\ sources = {}
  BY <1>1 DEF IInv, Written, SourcesCovered, Columns
<1>3. dir \in Dir /\ dir.done /\ dir.whole /\ dir.cols = Due /\ dir.docs = payload
  BY <1>2, DirType DEF Dir
<1> HIDE DEF dir
<1>4. /\ Ids' = Ids /\ Ids' \in SUBSET (0 .. MaxId)
      /\ dirs' \in [Ids' -> Dir] /\ dirs'[id] = dir
      /\ \A s \in Ids : s # id => dirs'[s] = dirs[s]
  BY <1>1, <1>3, RewriteFacts
<1>5. /\ Loadable' = Loadable \cup {id} /\ Complete' = Complete \cup {id}
      /\ id \notin Loadable /\ id \notin Complete
  BY <1>2, <1>3, <1>4 DEF Loadable, Complete
<1>6. \A s \in Ids : dirs'[s].docs = dirs[s].docs
  BY <1>2, <1>3, <1>4
<1>7. TypeOK'
  BY <1>1, <1>2, <1>4 DEF TypeOK, Ids
<1>8. IdsBelow' /\ Written' /\ SourcesCovered'
  BY <1>1, <1>2, <1>4 DEF IInv, IdsBelow, Written, SourcesCovered
<1>9. PayloadElsewhere' /\ OnlyFlushed'
  BY <1>1, <1>4, <1>6 DEF IInv, PayloadElsewhere, OnlyFlushed
<1>10. ShownOnce'
  <2>1. \A s \in Complete : s \in Ids /\ dirs[s].docs \cap payload = {}
    BY <1>1, <1>2, <1>5 DEF IInv, PayloadElsewhere, Complete
  <2>2. \A s, t \in Complete : s # t => dirs[s].docs \cap dirs[t].docs = {}
    BY DEF IInv, ShownOnce
  <2> QED
    BY <1>2, <1>5, <1>6, <2>1, <2>2 DEF ShownOnce
<1>11. DoneMeansWhole'
  <2> SUFFICES ASSUME NEW s \in Loadable' \ doomed'
               PROVE  /\ dirs'[s].whole
                      /\ dirs'[s].cols = IF ColumnsDue(s)' THEN {} ELSE dirs'[s].docs \ bare'
    BY DEF DoneMeansWhole
  <2>1. CASE s = id
    BY <1>1, <1>3, <1>4, <2>1 DEF ColumnsDue, Due
  <2>2. CASE s # id
    BY <1>1, <1>4, <1>5, <2>2 DEF IInv, DoneMeansWhole, ColumnsDue, Loadable
  <2> QED
    BY <2>1, <2>2
<1>12. AckedOnDisk'
  BY <1>1, <1>2, <1>3, <1>4 DEF IInv, AckedOnDisk
<1>13. Columns'
  BY <1>1, <1>2, <1>6 DEF IInv, Columns, ColumnsDue
<1>14. Deleting'
  <2>1. doomed \subseteq Ids /\ id \notin doomed /\ doomed \cap Complete = {}
    BY <1>1 DEF IInv, Deleting
  <2> QED
    BY <1>1, <1>2, <1>4, <1>5, <2>1 DEF Deleting
<1> QED
  BY <1>7, <1>8, <1>9, <1>10, <1>11, <1>12, <1>13, <1>14 DEF IInv

\* Rewriting a marker or the columns of a segment that has its .done.
LEMMA FinishStep ==
  ASSUME IInv, pc \in {"clean", "columns"}, NEW dir \in Dir, dirs' = WithDir(id, dir),
         dir.done = dirs[id].done, dir.whole = dirs[id].whole, dir.docs = dirs[id].docs,
         \/ pc' = (IF late THEN "columns" ELSE "idle") /\ pc = "clean" /\ dir.cols = dirs[id].cols
         \/ pc' = "idle" /\ pc = "columns" /\ dir.cols = dir.docs,
         payload' \in {{}, payload},
         UNCHANGED <<nextId, id, sources, late, flushedDocs, acked, bare, doomed, crashes>>
  PROVE  IInv'
<1> USE DEF Busy, Unmarked
<1>1. TypeOK /\ id \in Ids /\ sources = {} /\ dirs[id] \in Dir /\ payload' \subseteq payload
  BY DirType DEF IInv, Written, SourcesCovered
<1>2. /\ Ids' = Ids /\ Ids' \in SUBSET (0 .. MaxId)
      /\ dirs' \in [Ids' -> Dir] /\ dirs'[id] = dir
      /\ \A s \in Ids : s # id => dirs'[s] = dirs[s]
  BY RewriteFacts
<1>3. \A s \in Ids : /\ dirs'[s].docs = dirs[s].docs /\ dirs'[s].done = dirs[s].done
                     /\ dirs'[s].whole = dirs[s].whole
  BY <1>2
<1>4. Loadable' = Loadable /\ Complete' = Complete
  BY <1>2, <1>3 DEF Loadable, Complete
<1>5. TypeOK'
  BY <1>1, <1>2 DEF TypeOK, Ids
<1>6. IdsBelow' /\ Written' /\ SourcesCovered'
  BY <1>1, <1>2 DEF IInv, IdsBelow, Written, SourcesCovered
<1>7. PayloadElsewhere' /\ OnlyFlushed' /\ ShownOnce'
  BY <1>1, <1>2, <1>3, <1>4 DEF IInv, PayloadElsewhere, OnlyFlushed, ShownOnce, Complete
<1>8. DoneMeansWhole'
  <2> SUFFICES ASSUME NEW s \in Loadable' \ doomed'
               PROVE  /\ dirs'[s].whole
                      /\ dirs'[s].cols = IF ColumnsDue(s)' THEN {} ELSE dirs'[s].docs \ bare'
    BY DEF DoneMeansWhole
  <2>1. /\ dirs[s].whole /\ s \in Ids
        /\ dirs[s].cols = IF ColumnsDue(s) THEN {} ELSE dirs[s].docs \ bare
    BY <1>4 DEF IInv, DoneMeansWhole, Loadable
  <2>2. CASE s = id
    <3>1. CASE pc = "clean"
      BY <1>2, <2>1, <2>2, <3>1 DEF ColumnsDue
    <3>2. CASE pc = "columns"
      <4>1. ColumnsDue(id) => dirs[id].docs \cap bare = {}
        BY DEF IInv, Columns
      <4>2. late
        BY <3>2 DEF IInv, Columns
      <4>3. pc' = "idle" /\ dir.cols = dir.docs /\ dir.docs \cap bare = {}
        BY <3>2, <4>1, <4>2 DEF ColumnsDue
      <4>4. ~ ColumnsDue(id)'
        BY <4>3 DEF ColumnsDue
      <4> QED
        BY <1>2, <2>1, <2>2, <4>3, <4>4
    <3> QED
      BY <3>1, <3>2
  <2>3. CASE s # id
    BY <1>2, <2>1, <2>3 DEF ColumnsDue
  <2> QED
    BY <2>2, <2>3
<1>9. AckedOnDisk'
  BY <1>2, <1>3 DEF IInv, AckedOnDisk
<1>10. Columns'
  BY <1>1, <1>3 DEF IInv, Columns, ColumnsDue
<1>11. Deleting'
  BY <1>1, <1>2, <1>4 DEF IInv, Deleting
<1> QED
  BY <1>5, <1>6, <1>7, <1>8, <1>9, <1>10, <1>11 DEF IInv

\* .ing goes; an offline writer's columns are still to come.
LEMMA RemoveIngStep == ASSUME IInv, RemoveIng PROVE IInv'
<1> DEFINE dir == [dirs[id] EXCEPT !.ing = FALSE]
<1>1. /\ pc = "clean" /\ pc' = (IF late THEN "columns" ELSE "idle") /\ payload' = {}
      /\ dirs' = WithDir(id, dir)
      /\ UNCHANGED <<nextId, id, sources, late, flushedDocs, acked, bare, doomed, crashes>>
  BY DEF RemoveIng
<1>2. dirs[id] \in Dir
  BY <1>1, DirType DEF IInv, Written, Busy
<1>3. /\ dir \in Dir /\ dir.done = dirs[id].done /\ dir.whole = dirs[id].whole
      /\ dir.docs = dirs[id].docs /\ dir.cols = dirs[id].cols
  BY <1>2 DEF Dir
<1> HIDE DEF dir
<1> QED
  BY <1>1, <1>3, FinishStep

\* The late columns are there.
LEMMA WriteColumnsStep == ASSUME IInv, WriteColumns PROVE IInv'
<1> DEFINE dir == [dirs[id] EXCEPT !.cols = dirs[id].docs]
<1>1. /\ pc = "columns" /\ pc' = "idle" /\ payload' = payload
      /\ dirs' = WithDir(id, dir)
      /\ UNCHANGED <<nextId, id, sources, late, flushedDocs, acked, bare, doomed, crashes>>
  BY DEF WriteColumns
<1>2. dirs[id] \in Dir
  BY <1>1, DirType DEF IInv, Written, Busy
<1>3. /\ dir \in Dir /\ dir.done = dirs[id].done /\ dir.whole = dirs[id].whole
      /\ dir.docs = dirs[id].docs /\ dir.cols = dir.docs
  BY <1>2 DEF Dir
<1> HIDE DEF dir
<1> QED
  BY <1>1, <1>3, FinishStep

\* A crash leaves the directories as they are.
LEMMA CrashStep == ASSUME IInv, Crash PROVE IInv'
<1>1. /\ pc' = "down" /\ payload' = {} /\ sources' = {} /\ crashes' = crashes + 1
      /\ doomed' = doomed \ Complete
      /\ UNCHANGED <<dirs, nextId, id, late, flushedDocs, acked>>
  BY DEF Crash
<1>0. PICK stripped : /\ stripped = {s \in Complete : ColumnsDue(s) \/ s \in doomed}
                      /\ bare' = bare \cup UNION {dirs[s].docs : s \in stripped}
  BY DEF Crash
<1>2. Ids' = Ids /\ Loadable' = Loadable /\ Complete' = Complete /\ crashes \in Nat
  BY <1>1 DEF Ids, Loadable, Complete, IInv, TypeOK
<1>6. /\ \A s \in Complete : s \in Ids
      /\ \A s \in Ids : dirs[s].docs \subseteq flushedDocs /\ dirs[s].docs \in SUBSET Docs
      /\ bare \subseteq flushedDocs
  BY DirType DEF IInv, OnlyFlushed, Columns, Complete, Dir
<1>7. bare' \subseteq flushedDocs /\ bare' \in SUBSET Docs
  BY <1>0, <1>6 DEF IInv, TypeOK
<1>3. TypeOK'
  <2>1. doomed' \subseteq doomed /\ doomed \in SUBSET Nat
    BY <1>1, Zenon DEF IInv, TypeOK
  <2>2. crashes' \in Nat
    BY <1>1, <1>2
  <2> QED
    BY <1>1, <1>2, <1>7, <2>1, <2>2 DEF IInv, TypeOK
<1>8. Columns' /\ Deleting'
  <2>1. ~ ColumnsDue(id)'
    BY <1>1 DEF ColumnsDue
  <2> QED
    BY <1>1, <1>2, <1>7, <2>1 DEF IInv, Columns, Deleting, Busy, Unmarked
<1>9. DoneMeansWhole'
  <2> SUFFICES ASSUME NEW s \in Loadable \ doomed'
               PROVE  dirs[s].whole /\ dirs[s].cols = dirs[s].docs \ bare'
    BY <1>1, <1>2 DEF DoneMeansWhole, ColumnsDue
  <2>1. s \in Complete
    BY <1>1 DEF IInv, DoneMeansWhole, Loadable, Complete
  <2>2. dirs[s].whole
    BY <2>1 DEF Complete
  <2>3. CASE s \in stripped
    <3>1. dirs[s].cols = {}
      <4>1. CASE s \in doomed
        BY <2>1, <4>1 DEF IInv, Deleting
      <4>2. CASE s \notin doomed
        <5>1. s \in Loadable \ doomed /\ ColumnsDue(s)
          BY <1>0, <2>3, <4>2
        <5> QED
          BY <5>1 DEF IInv, DoneMeansWhole
      <4> QED
        BY <4>1, <4>2
    <3>2. dirs[s].docs \subseteq bare'
      BY <1>0, <2>3
    <3> QED
      BY <2>2, <3>1, <3>2
  <2>4. CASE s \notin stripped
    <3>1. s \in Loadable \ doomed /\ ~ ColumnsDue(s)
      BY <1>0, <2>1, <2>4
    <3>2. dirs[s].cols = dirs[s].docs \ bare
      BY <3>1 DEF IInv, DoneMeansWhole
    <3>3. \A t \in stripped : dirs[s].docs \cap dirs[t].docs = {}
      BY <1>0, <2>1, <2>4 DEF IInv, ShownOnce
    <3> QED
      BY <1>0, <2>2, <3>2, <3>3
  <2> QED
    BY <2>3, <2>4
<1>4. IdsBelow' /\ Written' /\ SourcesCovered' /\ PayloadElsewhere' /\ OnlyFlushed'
  BY <1>1, <1>2 DEF IInv, Busy, Unmarked, IdsBelow, Written, SourcesCovered,
                    PayloadElsewhere, OnlyFlushed
<1>5. ShownOnce' /\ AckedOnDisk'
  BY <1>1, <1>2 DEF IInv, ShownOnce, AckedOnDisk
<1> QED
  BY <1>3, <1>4, <1>5, <1>8, <1>9 DEF IInv

\* The next process starts above every directory, the half-written ones too.
LEMMA RestartStep == ASSUME IInv, Restart PROVE IInv'
<1>1. /\ pc = "down" /\ pc' = "idle"
      /\ UNCHANGED <<dirs, id, payload, sources, late, flushedDocs, acked, bare, doomed, crashes>>
  BY DEF Restart
<1>2. /\ Ids' = Ids /\ Loadable' = Loadable /\ Complete' = Complete
      /\ sources = {} /\ TypeOK
  BY <1>1 DEF Ids, Loadable, Complete, IInv, SourcesCovered
<1>3. nextId' \in Nat /\ \A s \in Ids : s < nextId'
  BY <1>2, RestartAbove
<1>4. TypeOK' /\ IdsBelow'
  BY <1>1, <1>2, <1>3 DEF TypeOK, IdsBelow
<1>5. Written' /\ SourcesCovered' /\ PayloadElsewhere' /\ OnlyFlushed'
  BY <1>1, <1>2 DEF IInv, Busy, Unmarked, Written, SourcesCovered, PayloadElsewhere,
                    OnlyFlushed
<1>6. ShownOnce' /\ DoneMeansWhole' /\ AckedOnDisk'
  BY <1>1, <1>2 DEF IInv, ShownOnce, DoneMeansWhole, ColumnsDue, AckedOnDisk
<1>7. Columns' /\ Deleting'
  BY <1>1, <1>2 DEF IInv, Columns, ColumnsDue, Deleting, Busy, Unmarked
<1> QED
  BY <1>4, <1>5, <1>6, <1>7 DEF IInv

\* A step that changes nothing.
LEMMA StutterStep == ASSUME IInv, UNCHANGED vars PROVE IInv'
BY DEF vars, IInv, TypeOK, IdsBelow, Written, SourcesCovered, PayloadElsewhere, OnlyFlushed,
       Columns, CopiedColumns, Due, Deleting, ColumnsDue, ShownOnce, DoneMeansWhole, AckedOnDisk, Ids, Loadable, Complete

\* The inductive invariant of SegmentStore holds in every state: ids go up,
\* a merge's sources are covered by its output, and nobody else has the
\* documents of the segment being written.
THEOREM IInvHolds == Spec => []IInv
<1>1. IInv /\ [Next]_vars => IInv'
  <2> SUFFICES ASSUME IInv, [Next]_vars PROVE IInv'
    OBVIOUS
  <2>1. CASE Flush
    BY <2>1, BeginFlushStep DEF Flush
  <2>2. CASE Merge
    BY <2>2, BeginMergeStep DEF Merge
  <2>3. CASE BeginFiles
    BY <2>3, BeginFilesStep
  <2>4. CASE EndFiles
    BY <2>4, EndFilesStep
  <2>5. CASE Delete
    BY <2>5, BeginDeleteStep, EndDeleteStep DEF Delete
  <2>6. CASE WriteDone
    BY <2>6, WriteDoneStep
  <2>7. CASE RemoveIng
    BY <2>7, RemoveIngStep
  <2>8. CASE WriteColumns
    BY <2>8, WriteColumnsStep
  <2>9. CASE Crash
    BY <2>9, CrashStep
  <2>10. CASE Restart
    BY <2>10, RestartStep
  <2>11. CASE UNCHANGED vars
    BY <2>11, StutterStep
  <2> QED
    BY <2>1, <2>2, <2>3, <2>4, <2>5, <2>6, <2>7, <2>8, <2>9, <2>10, <2>11 DEF Next
<1> QED
  BY <1>1, InitIInv, PTL DEF Spec

-----------------------------------------------------------------------------
(* What follows from it *)

\* Whenever a crash strikes a merge, no document is in two segments that the
\* next process loads.
THEOREM ShownOnceHolds == Spec => []ShownOnce
<1>1. IInv => ShownOnce
  BY DEF IInv
<1> QED
  BY <1>1, IInvHolds, PTL

\* A segment with .done has whole postings and stored fields, unless it is a
\* source whose deletion was under way, and the column values of exactly the
\* documents whose offline writer got to write them, those apart that a crash in
\* the middle of a deletion left without.
THEOREM DoneMeansWholeHolds == Spec => []DoneMeansWhole
<1>1. IInv => DoneMeansWhole
  BY DEF IInv
<1> QED
  BY <1>1, IInvHolds, PTL

\* No crash and no merge destroys the last whole copy of an acknowledged
\* document.
THEOREM AckedOnDiskHolds == Spec => []AckedOnDisk
<1>1. IInv => AckedOnDisk
  BY DEF IInv
<1> QED
  BY <1>1, IInvHolds, PTL

\* A step rewrites the directory of the segment being written, which has no
\* .done while its files are opened, or that of a source, which keeps its
\* documents: no complete segment is truncated.
LEMMA KeepsDocs ==
  ASSUME IInv, [Next]_vars, NEW s \in Complete, s \in DOMAIN dirs'
  PROVE  dirs'[s].docs = dirs[s].docs
<1> USE DEF Busy, Unmarked
<1>1. TypeOK /\ s \in Ids /\ dirs[s].done /\ dirs[s].whole /\ dirs[s] \in Dir
  BY DirType DEF IInv, Complete
<1>2. CASE Flush \/ Merge
  BY <1>1, <1>2, TakeIdFacts DEF Flush, Merge, BeginFlush, BeginMerge
<1>3. CASE BeginFiles
  <2>1. s # id
    BY <1>1, <1>3 DEF IInv, Written, BeginFiles
  <2> QED
    BY <1>1, <1>3, <2>1 DEF BeginFiles, WithDir
<1>4. CASE EndFiles
  <2>1. s # id
    BY <1>1, <1>4 DEF IInv, Written, EndFiles
  <2> QED
    BY <1>1, <1>4, <2>1 DEF EndFiles, WithDir
<1>5. CASE Delete
  <2>1. ASSUME NEW t \in sources, BeginDelete(t) PROVE dirs'[s].docs = dirs[s].docs
    <3>1. PICK done \in BOOLEAN, whole \in BOOLEAN, cols \in {{}, dirs[t].cols} :
            dirs' = WithDir(t, [dirs[t] EXCEPT !.done = done, !.whole = whole, !.cols = cols])
      BY <2>1 DEF BeginDelete
    <3>2. t \in Ids /\ dirs[t] \in Dir
      BY <1>1, DirType DEF IInv, SourcesCovered
    <3>3. [dirs[t] EXCEPT !.done = done, !.whole = whole, !.cols = cols].docs = dirs[t].docs
      BY <3>2 DEF Dir
    <3> QED
      BY <1>1, <3>1, <3>3 DEF WithDir
  <2>2. ASSUME NEW t \in sources, EndDelete(t) PROVE dirs'[s].docs = dirs[s].docs
    BY <2>2 DEF EndDelete, Ids
  <2> QED
    BY <1>5, <2>1, <2>2 DEF Delete
<1>6. CASE WriteDone \/ RemoveIng \/ WriteColumns
  BY <1>1, <1>6 DEF WriteDone, RemoveIng, WriteColumns, WithDir, Dir
<1>7. CASE Crash \/ Restart \/ UNCHANGED vars
  BY <1>7 DEF Crash, Restart, vars
<1> QED
  BY <1>2, <1>3, <1>4, <1>5, <1>6, <1>7 DEF Next

\* No step of flush, merge, crash or restart truncates a complete segment.
THEOREM NeverOverwritesHolds == Spec => NeverOverwrites
<1>1. IInv /\ [Next]_vars =>
        [\A s \in Complete : s \in DOMAIN dirs' => dirs'[s].docs = dirs[s].docs]_vars
  BY KeepsDocs
<1> QED
  BY <1>1, IInvHolds, PTL DEF Spec, NeverOverwrites
=============================================================================
