------------------------- MODULE RealtimeIndexProofs -------------------------
(***************************************************************************)
(* Proofs, for every number of threads, documents and searchers and every  *)
(* batch size, that RealtimeIndex keeps the inductive invariant IInv of    *)
(* RealtimeIndexProps, hence its safety invariants, and that it implements *)
(* DocVisibility.                                                          *)
(***************************************************************************)
EXTENDS RealtimeIndexProps, TLAPS

-----------------------------------------------------------------------------
(* Sequences                                                               *)

\* The elements of a sequence of naturals are naturals.
LEMMA ElemsType ==
  ASSUME NEW s \in Seq(Nat)
  PROVE  /\ Elems(s) \subseteq Nat
         /\ \A i \in 1 .. Len(s) : s[i] \in Elems(s) /\ s[i] \in Nat
BY DEF Elems

\* FlushQueue::push adds one element, and no duplicate of a new one.
LEMMA ElemsAppend ==
  ASSUME NEW s \in Seq(Nat), NEW e \in Nat
  PROVE  /\ Append(s, e) \in Seq(Nat)
         /\ Elems(Append(s, e)) = Elems(s) \cup {e}
         /\ Injective(s) /\ e \notin Elems(s) => Injective(Append(s, e))
<1> DEFINE a == Append(s, e)
<1>1. /\ a \in Seq(Nat)
      /\ Len(a) = Len(s) + 1 /\ Len(s) \in Nat
      /\ a[Len(s) + 1] = e
      /\ \A i \in 1 .. Len(s) : a[i] = s[i]
  OBVIOUS
<1> HIDE DEF a
<1>2. Elems(a) = Elems(s) \cup {e}
  BY <1>1 DEF Elems
<1>3. ASSUME Injective(s), e \notin Elems(s),
             NEW i \in 1 .. Len(a), NEW j \in 1 .. Len(a), a[i] = a[j]
      PROVE  i = j
  <2>1. i \in 1 .. Len(s) \/ i = Len(s) + 1
    BY <1>1
  <2>2. j \in 1 .. Len(s) \/ j = Len(s) + 1
    BY <1>1
  <2>3. \A k \in 1 .. Len(s) : s[k] # e
    BY <1>3 DEF Elems
  <2> QED  BY <1>1, <1>3, <2>1, <2>2, <2>3 DEF Injective
<1> QED  BY <1>1, <1>2, <1>3 DEF a, Injective

\* takeBatch splits the queue: nothing is lost and nothing is in both parts.
LEMMA ElemsSplit ==
  ASSUME NEW s \in Seq(Nat), NEW n \in 0 .. Len(s), Injective(s)
  PROVE  LET p == SubSeq(s, 1, n)
             q == SubSeq(s, n + 1, Len(s))
         IN  /\ p \in Seq(Nat) /\ q \in Seq(Nat)
             /\ Elems(p) \cup Elems(q) = Elems(s)
             /\ Elems(p) \cap Elems(q) = {}
             /\ Injective(p) /\ Injective(q)
<1> DEFINE p == SubSeq(s, 1, n)
           q == SubSeq(s, n + 1, Len(s))
<1>1. /\ p \in Seq(Nat) /\ Len(p) = n
      /\ \A i \in 1 .. n : p[i] = s[i]
  OBVIOUS
<1>2. /\ q \in Seq(Nat) /\ Len(q) = Len(s) - n /\ Len(s) \in Nat
      /\ \A i \in 1 .. Len(s) - n : q[i] = s[n + i]
  OBVIOUS
<1> HIDE DEF p, q
<1>3. Elems(p) \subseteq Elems(s) /\ Elems(q) \subseteq Elems(s)
  <2>1. \A i \in 1 .. Len(p) : p[i] \in Elems(s)
    BY <1>1, <1>2 DEF Elems
  <2>2. ASSUME NEW i \in 1 .. Len(q)
        PROVE  q[i] \in Elems(s)
    <3>1. n + i \in 1 .. Len(s) /\ q[i] = s[n + i]
      BY <1>2
    <3> QED  BY <3>1 DEF Elems
  <2> QED  BY <2>1, <2>2 DEF Elems
<1>4. ASSUME NEW k \in 1 .. Len(s)
      PROVE  s[k] \in Elems(p) \cup Elems(q)
  <2>1. CASE k <= n
    BY <2>1, <1>1 DEF Elems
  <2>2. CASE k > n
    <3>1. k - n \in 1 .. Len(q) /\ q[k - n] = s[k]
      BY <2>2, <1>2
    <3> QED  BY <3>1 DEF Elems
  <2> QED  BY <2>1, <2>2, <1>2
<1>5. Elems(p) \cap Elems(q) = {}
  <2>1. ASSUME NEW i \in 1 .. Len(p), NEW j \in 1 .. Len(q), p[i] = q[j]
        PROVE  FALSE
    <3>1. i \in 1 .. Len(s) /\ n + j \in 1 .. Len(s) /\ i # n + j
      BY <1>1, <1>2
    <3>2. s[i] = s[n + j]
      BY <2>1, <1>1, <1>2
    <3> QED  BY <3>1, <3>2 DEF Injective
  <2> QED  BY <2>1 DEF Elems
<1>6. ASSUME NEW i \in 1 .. Len(p), NEW j \in 1 .. Len(p), p[i] = p[j]
      PROVE  i = j
  BY <1>1, <1>6, i \in 1 .. Len(s), j \in 1 .. Len(s) DEF Injective
<1>8. ASSUME NEW i \in 1 .. Len(q), NEW j \in 1 .. Len(q), q[i] = q[j]
      PROVE  i = j
  <2>0. i \in 1 .. (Len(s) - n) /\ j \in 1 .. (Len(s) - n)
    BY <1>2
  <2>1. n + i \in 1 .. Len(s) /\ n + j \in 1 .. Len(s)
    BY <2>0, Len(s) \in Nat
  <2>2. s[n + i] = s[n + j]
    BY <1>2, <1>8, <2>0
  <2>3. n + i = n + j
    BY <2>1, <2>2 DEF Injective
  <2> QED  BY <2>3
<1>7. Elems(p) \cup Elems(q) = Elems(s)
  BY <1>3, <1>4 DEF Elems
<1> QED  BY <1>1, <1>2, <1>5, <1>6, <1>7, <1>8 DEF p, q, Injective

-----------------------------------------------------------------------------
(* What the parts of IInv depend on                                        *)

\* The holders of memory segments change with five variables only, and with
\* the commit of the worker's batch.
LEMMA LiveFrame ==
  ASSUME UNCHANGED <<active, fresh, tpc, queue, batch>>,
         wpc' = "mark" <=> wpc = "mark"
  PROVE  /\ \A t \in Threads : Own(t)' = Own(t)
         /\ InBatch' = InBatch
         /\ Live' = Live
BY DEF Own, InBatch, Live, Elems

\* The initial state satisfies the inductive invariant.
LEMMA InitIInv == Init => IInv
<1> SUFFICES ASSUME Init PROVE IInv
  OBVIOUS
<1> USE ConstantsAssumption DEF Threads
<1>1. TypeOK
  <2>1. /\ active \in [Threads -> Nat] /\ fresh \in [Threads -> Nat]
        /\ readers \subseteq Readers
    BY DEF Init, Readers, Mem
  <2>2. /\ stat \in [DOMAIN stat -> FrozenSegState] /\ DOMAIN stat = {}
        /\ disk \in [DOMAIN disk -> SUBSET Docs] /\ DOMAIN disk = {}
    BY DEF Init
  <2>3. /\ queue \in Seq(Nat) /\ batch \in Seq(Nat) /\ tmp \in Seq(Nat)
    BY DEF Init
  <2>4. /\ home \in [Docs -> Nat \cup {NotAdded}] /\ nextSegId \in Nat
        /\ tpc \in [Threads -> ThreadStates] /\ shut \in [Threads -> BOOLEAN]
        /\ wpc \in WorkerStates /\ final = NotAdded
    BY DEF Init, ThreadStates, WorkerStates
  <2>5. /\ todo  \in [Searchers -> SUBSET Readers]
        /\ found \in [Searchers -> SUBSET Docs]
        /\ floor \in [Searchers -> SUBSET Docs]
    BY DEF Init
  <2> QED  BY <2>1, <2>2, <2>3, <2>4, <2>5 DEF Init, TypeOK
<1>2. Elems(queue) = {} /\ Elems(batch) = {} /\ Elems(tmp) = {}
  BY DEF Init, Elems
<1>3. IdsBelowNext
  BY <1>2 DEF Init, IdsBelowNext, NotAdded, Mem
<1>4. OneHolder
  BY <1>2 DEF Init, OneHolder, Own, Injective
<1>5. Written = {} /\ \A s : s # NotAdded => DocsOf(s) = {}
  BY DEF Init, Written, DocsOf
<1>6. MemReaders
  <2>1. \A t \in Threads : active[t] \in Nat /\ Own(t) = {active[t]}
    BY <1>1 DEF Init, Own, TypeOK
  <2>2. \A r \in readers : \E t \in Threads : r = Mem(active[t])
    BY DEF Init
  <2>3. \A r \in readers : r.seg \in Live
    BY <2>1, <2>2 DEF Live, Mem
  <2>4. \A t \in Threads : Mem(active[t]) \in readers /\ ~ThreadDone(t) /\ tpc[t] = "idle"
    BY DEF Init, ThreadDone
  <2>5. InBatch = {}
    BY <1>2 DEF InBatch
  <2> QED  BY <1>2, <2>1, <2>3, <2>4, <2>5 DEF MemReaders
<1>7. DiskReaders
  BY <1>5 DEF Init, DiskReaders, Published, Mem
<1>8. BatchProgress
  BY DEF Init, BatchProgress
<1>9. MergeProgress
  BY DEF Init, MergeProgress
<1>10. StatsOfFrozen
  BY DEF Init, StatsOfFrozen
<1>11. SearchesOwe
  BY DEF Init, SearchesOwe
<1>12. StopOrder
  BY DEF Init, StopOrder
<1> QED  BY <1>1, <1>3, <1>4, <1>6, <1>7, <1>8, <1>9, <1>10, <1>11, <1>12 DEF IInv

\* A directory that a reader was given has its .done.
LEMMA PublishedComplete == IInv => Published \subseteq Complete
BY DEF IInv, MergeProgress, Published, Complete

-----------------------------------------------------------------------------
(* Steps that move no document, reader or segment                          *)

\* The worker's loop, an empty takeBatch, the choice of a single segment and
\* an exception only move the worker's program counter (and final_id).
LEMMA WorkerControlKeeps ==
  ASSUME IInv, wpc # "terminated",
         \/ WorkerLoop
         \/ UseSingle
         \/ WorkerThrow
         \/ (wpc = "take" /\ TakeNothing("loop"))
         \/ (wpc = "drain" /\ TakeNothing("exited"))
  PROVE  IInv'
<1>1. UNCHANGED <<nextSegId, threadVars, home, readers, queue, stat, batch, tmp,
                  disk, ing, stopReq, mpc, searchVars>>
  BY DEF WorkerLoop, UseSingle, WorkerThrow, TakeNothing
<1>2. wpc # "mark" /\ wpc' # "mark"
  BY DEF WorkerLoop, UseSingle, WorkerThrow, TakeNothing
<1> USE DEF IInv
<1>3. TypeOK'
  BY <1>1 DEF TypeOK, WorkerLoop, UseSingle, WorkerThrow, TakeNothing, WorkerStates,
     threadVars, searchVars
<1>4. IdsBelowNext'
  BY <1>1 DEF IdsBelowNext, threadVars, Elems
<1>5. /\ \A t \in Threads : Own(t)' = Own(t)
      /\ InBatch' = InBatch
      /\ Live' = Live
  BY <1>1, <1>2, LiveFrame DEF threadVars
<1>6. OneHolder'
  BY <1>1, <1>5 DEF OneHolder, threadVars, Elems, Injective
<1>7. MemReaders'
  BY <1>1, <1>5 DEF MemReaders, threadVars, Elems, ThreadDone, DocsOf
<1>8. DiskReaders'
  BY <1>1, <1>5 DEF DiskReaders, Published, Written
<1>9. BatchProgress'
  <2>1. CASE UseSingle
    <3>1. /\ 1 \in Flushed /\ 1 \in 1 .. Len(tmp) /\ wpc = "flush" /\ Len(batch) = 1
          /\ final' = tmp[1] /\ wpc' = "commit"
      BY <2>1 DEF UseSingle, Flushed
    <3>2. tmp[1] \in DOMAIN disk /\ disk[tmp[1]] = DocsOf(batch[1]) /\ Disk(tmp[1]) \notin readers
      BY <3>1 DEF BatchProgress
    <3>3. Elems(batch) = {batch[1]}
      BY <3>1 DEF Elems
    <3>4. tmp[1] < nextSegId
      BY <3>1 DEF IdsBelowNext, Elems
    <3>5. final' < nextSegId'
      BY <1>1, <3>1, <3>4
    <3>6. disk[tmp[1]] = {d \in Docs : home[d] \in Elems(batch)}
      BY <3>2, <3>3 DEF DocsOf
    <3>7. Disk(final)' \notin readers'
      BY <1>1, <3>1, <3>2 DEF Disk
    <3>8. Elems(batch)' = Elems(batch)
      BY <1>1 DEF Elems
    <3>9. disk'[final'] = {d \in Docs : home'[d] \in Elems(batch)'}
      BY <1>1, <3>1, <3>6, <3>8
    <3>10. final' \in DOMAIN disk'
      BY <1>1, <3>1, <3>2
    <3> QED  BY <3>1, <3>5, <3>7, <3>9, <3>10 DEF BatchProgress
  <2>2. CASE \/ WorkerLoop
             \/ (wpc = "take" /\ TakeNothing("loop"))
             \/ (wpc = "drain" /\ TakeNothing("exited"))
    BY <2>2, <1>1 DEF WorkerLoop, TakeNothing, BatchProgress
  <2>3. CASE WorkerThrow
    BY <2>3 DEF WorkerThrow, BatchProgress
  <2> QED  BY <2>1, <2>2, <2>3
<1>10. MergeProgress'
  <2>1. ing' \subseteq ing /\ readers' = readers /\ Elems(batch)' = Elems(batch)
    BY <1>1 DEF Elems
  <2>2. CASE WorkerThrow
    BY <1>1, <2>1, <2>2 DEF WorkerThrow, MergeProgress, Disk
  <2>3. CASE ~WorkerThrow
    <3>1. ing = {} /\ wpc' \notin {"merging", "merged"}
      BY <2>3 DEF MergeProgress, WorkerLoop, UseSingle, TakeNothing
    <3> QED  BY <1>1, <3>1 DEF MergeProgress
  <2> QED  BY <2>2, <2>3
<1>11. StatsOfFrozen'
  BY <1>1, <1>5 DEF StatsOfFrozen, Complete, DocsOf
<1>12. SearchesOwe'
  BY <1>1 DEF SearchesOwe, searchVars, Written, ReaderDocs, DocsOf
<1>13. StopOrder'
  BY <1>1 DEF StopOrder, threadVars, ThreadDone, WorkerLoop, UseSingle, WorkerThrow, TakeNothing
<1> QED  BY <1>3, <1>4, <1>6, <1>7, <1>8, <1>9, <1>10, <1>11, <1>12, <1>13

\* RealtimeIndexManager::stop only moves its own program counter and the flag.
LEMMA ManagerKeeps ==
  ASSUME IInv, ManagerStep
  PROVE  IInv'
<1>1. UNCHANGED <<nextSegId, threadVars, home, readers, queue, stat,
                  workerVars, disk, ing, searchVars>>
  BY DEF ManagerStep, StopBegin, StopWorker, StopJoin
<1> USE DEF IInv
<1>2. /\ \A t \in Threads : Own(t)' = Own(t)
      /\ InBatch' = InBatch
      /\ Live' = Live
  BY <1>1, LiveFrame DEF threadVars, workerVars
<1>3. TypeOK'
  BY <1>1 DEF TypeOK, threadVars, workerVars, searchVars, ManagerStep,
     StopBegin, StopWorker, StopJoin
<1>4. IdsBelowNext'
  BY <1>1 DEF IdsBelowNext, threadVars, workerVars, Elems
<1>5. OneHolder'
  BY <1>1, <1>2 DEF OneHolder, threadVars, workerVars, Elems, Injective
<1>6. MemReaders'
  BY <1>1, <1>2 DEF MemReaders, threadVars, Elems, ThreadDone, DocsOf
<1>7. DiskReaders'
  BY <1>1, <1>2 DEF DiskReaders, Published, Written
<1>8. BatchProgress'
  BY <1>1 DEF BatchProgress, workerVars, Flushed, Injective, DocsOf, Elems
<1>9. MergeProgress'
  BY <1>1 DEF MergeProgress, workerVars, Elems, DocsOf
<1>10. StatsOfFrozen'
  BY <1>1, <1>2 DEF StatsOfFrozen, Complete, DocsOf
<1>11. SearchesOwe'
  BY <1>1 DEF SearchesOwe, searchVars, Written, ReaderDocs, DocsOf
<1>12. StopOrder'
  BY <1>1 DEF StopOrder, TypeOK, threadVars, workerVars, ThreadDone, ManagerStep,
     StopBegin, StopWorker, StopJoin
<1> QED  BY <1>3, <1>4, <1>5, <1>6, <1>7, <1>8, <1>9, <1>10, <1>11, <1>12

-----------------------------------------------------------------------------
(* Searches                                                                *)

\* By the invariant, what the registered readers show is what was written.
LEMMA ReadersShowWritten ==
  ASSUME IInv
  PROVE  /\ \A r \in readers : ReaderDocs(r) \subseteq Written
         /\ \A d \in Written : \E r \in readers : d \in ReaderDocs(r)
<1> USE DEF IInv
<1>1. ASSUME NEW r \in readers
      PROVE  ReaderDocs(r) \subseteq Written
  <2>1. r.kind \in {"mem", "disk"} /\ r.seg \in Nat
    BY DEF TypeOK, Readers
  <2>2. CASE r.kind = "mem"
    BY <2>1, <2>2 DEF ReaderDocs, DocsOf, Written, NotAdded
  <2>3. CASE r.kind = "disk"
    BY <2>3 DEF ReaderDocs, DiskReaders
  <2> QED  BY <2>1, <2>2, <2>3
<1>2. ASSUME NEW d \in Written
      PROVE  \E r \in readers : d \in ReaderDocs(r)
  <2>1. CASE home[d] \in Live
    <3>1. d \in DocsOf(home[d])
      BY DEF DocsOf, Written
    <3>2. Mem(home[d]) \in readers
      <4>1. CASE home[d] \in Elems(queue) \cup InBatch
        BY <4>1 DEF MemReaders
      <4>2. CASE \E t \in Threads : home[d] \in Own(t)
        <5>1. PICK t \in Threads : home[d] \in Own(t)
          BY <4>2
        <5>2. CASE ThreadDone(t)
          <6>1. Own(t) = {active[t]}
            BY <5>2 DEF ThreadDone, Own, OneHolder
          <6> QED  BY <5>1, <5>2, <6>1, <3>1 DEF MemReaders
        <5> QED  BY <5>1, <5>2 DEF MemReaders
      <4> QED  BY <2>1, <4>1, <4>2 DEF Live
    <3> QED  BY <3>1, <3>2 DEF ReaderDocs, Mem
  <2>2. CASE home[d] \notin Live
    <3>1. PICK s \in Published : d \in disk[s]
      BY <2>2 DEF DiskReaders
    <3>2. Disk(s) \in readers /\ ReaderDocs(Disk(s)) = disk[s]
      BY DEF Published, ReaderDocs, Disk
    <3> QED  BY <3>1, <3>2
  <2> QED  BY <2>1, <2>2
<1> QED  BY <1>1, <1>2

\* A step of a search changes only that search's snapshot and result.
LEMMA SearchKeeps ==
  ASSUME IInv, NEW c \in Searchers, SearchStep(c)
  PROVE  IInv'
<1>1. UNCHANGED <<nextSegId, threadVars, home, readers, queue, stat,
                  workerVars, disk, ing, stopReq, mpc>>
  BY DEF SearchStep, SearchBegin, SearchReader, SearchEnd
<1> USE DEF IInv
<1>2. /\ \A t \in Threads : Own(t)' = Own(t)
      /\ InBatch' = InBatch
      /\ Live' = Live
  BY <1>1, LiveFrame DEF threadVars, workerVars
<1>3. IdsBelowNext'
  BY <1>1 DEF IdsBelowNext, threadVars, workerVars, Elems
<1>4. OneHolder'
  <2>1. /\ UNCHANGED <<active, fresh, tpc, queue, batch>>
        /\ Elems(queue)' = Elems(queue) /\ Elems(batch)' = Elems(batch)
        /\ UNCHANGED <<Injective(queue), Injective(batch)>>
    BY <1>1 DEF threadVars, workerVars, Elems, Injective
  <2> QED  BY <1>2, <2>1 DEF OneHolder
<1>5. MemReaders'
  BY <1>1, <1>2 DEF MemReaders, threadVars, Elems, ThreadDone, DocsOf
<1>6. DiskReaders'
  BY <1>1, <1>2 DEF DiskReaders, Published, Written
<1>7. BatchProgress'
  BY <1>1 DEF BatchProgress, workerVars, Flushed, Injective, DocsOf, Elems
<1>8. MergeProgress'
  BY <1>1 DEF MergeProgress, workerVars, Elems, DocsOf
<1>9. StatsOfFrozen'
  BY <1>1, <1>2 DEF StatsOfFrozen, Complete, DocsOf
<1>10. StopOrder'
  BY <1>1 DEF StopOrder, threadVars, workerVars, ThreadDone
<1>11. Written' = Written /\ \A r : ReaderDocs(r)' = ReaderDocs(r)
  BY <1>1 DEF Written, ReaderDocs, DocsOf
<1>12. Written \subseteq Docs
  BY DEF Written
<1>13. CASE SearchBegin(c)
  <2>1. TypeOK'
    BY <1>1, <1>12, <1>13 DEF TypeOK, SearchBegin, threadVars, workerVars
  <2>2. SearchesOwe'
    BY <1>1, <1>11, <1>13, ReadersShowWritten DEF SearchesOwe, SearchBegin, TypeOK
  <2> QED  BY <1>3, <1>4, <1>5, <1>6, <1>7, <1>8, <1>9,
            <1>10, <2>1, <2>2
<1>14. ASSUME NEW r \in todo[c], SearchReader(c, r)
       PROVE  TypeOK' /\ SearchesOwe'
  <2>1. ReaderDocs(r) \subseteq Written
    <3>1. CASE r.kind = "disk"
      BY <3>1, ReadersShowWritten DEF SearchesOwe
    <3>2. CASE r.kind # "disk"
      <4>1. r.kind = "mem" /\ r.seg \in Nat
        BY <3>2 DEF TypeOK, Readers
      <4> QED  BY <4>1 DEF ReaderDocs, DocsOf, Written, NotAdded
    <3> QED  BY <3>1, <3>2
  <2>2. TypeOK'
    BY <1>1, <1>12, <1>14, <2>1 DEF TypeOK, SearchReader, threadVars, workerVars
  <2>3. SearchesOwe'
    BY <1>1, <1>11, <1>14, <2>1 DEF SearchesOwe, SearchReader, TypeOK
  <2> QED  BY <2>2, <2>3
<1>15. CASE SearchEnd(c)
  <2>1. TypeOK'
    BY <1>1, <1>15 DEF TypeOK, SearchEnd, threadVars, workerVars
  <2>2. SearchesOwe'
    BY <1>1, <1>11, <1>15 DEF SearchesOwe, SearchEnd, TypeOK
  <2> QED  BY <1>3, <1>4, <1>5, <1>6, <1>7, <1>8, <1>9,
            <1>10, <2>1, <2>2
<1> QED  BY <1>3, <1>4, <1>5, <1>6, <1>7, <1>8, <1>9, <1>10, <1>13, <1>14, <1>15
         DEF SearchStep

-----------------------------------------------------------------------------
(* RTIndexThread                                                           *)

\* addDocument writes to a segment no one but its thread holds.
LEMMA AddDocumentKeeps ==
  ASSUME IInv, NEW t \in Threads, NEW d \in Docs, AddDocument(t, d)
  PROVE  IInv'
<1> DEFINE a == active[t]
<1>1. /\ UNCHANGED <<nextSegId, active, fresh, shut, readers, queue, stat,
                     workerVars, disk, ing, stopReq, mpc, searchVars>>
      /\ tpc[t] = "idle" /\ ~shut[t] /\ mpc = "running"
      /\ home[d] = NotAdded /\ home' = [home EXCEPT ![d] = a]
      /\ \/ tpc' = tpc
         \/ tpc' = [tpc EXCEPT ![t] = "register"]
  BY DEF AddDocument
<1> USE DEF IInv
<1>2. /\ tpc' \in [Threads -> ThreadStates]
      /\ tpc'[t] \in {"idle", "register"}
      /\ \A u \in Threads \ {t} : tpc'[u] = tpc[u]
  <2>1. tpc \in [Threads -> ThreadStates] /\ "register" \in ThreadStates
    BY DEF TypeOK, ThreadStates
  <2>2. CASE tpc' = tpc
    BY <1>1, <2>1, <2>2
  <2>3. CASE tpc' = [tpc EXCEPT ![t] = "register"]
    BY <2>1, <2>3
  <2> QED  BY <1>1, <2>2, <2>3
<1>3. a \in Nat /\ a # NotAdded /\ a < nextSegId /\ a \in Own(t)
  BY <1>1 DEF TypeOK, NotAdded, IdsBelowNext, Own
<1>4. a \in Live
  BY <1>3 DEF Live
<1>5. /\ \A u \in Threads : Own(u)' = Own(u)
      /\ InBatch' = InBatch
      /\ Live' = Live
  <2>1. \A u \in Threads : Own(u)' = Own(u)
    BY <1>1, <1>2 DEF Own
  <2> QED  BY <1>1, <2>1 DEF InBatch, Live, workerVars, Elems
<1>6. /\ home' \in [Docs -> Nat \cup {NotAdded}]
      /\ home'[d] = a
      /\ \A e \in Docs \ {d} : home'[e] = home[e]
  BY <1>1, <1>3 DEF TypeOK
<1>7. \A s : s # a /\ s # NotAdded => DocsOf(s)' = DocsOf(s)
  BY <1>1, <1>6 DEF DocsOf
<1>8. Written' = Written \cup {d} /\ d \notin Written
  BY <1>1, <1>3, <1>6 DEF Written
<1>9. TypeOK'
  BY <1>1, <1>2, <1>6 DEF TypeOK, workerVars, searchVars
<1>10. IdsBelowNext'
  BY <1>1, <1>3, <1>6 DEF IdsBelowNext, workerVars, Elems
<1>11. OneHolder'
  <2>1. \A u \in Threads :
          /\ tpc'[u] \in {"idle", "register"} => fresh[u] = active[u]
          /\ tpc'[u] = "push" => fresh[u] # active[u]
    BY <1>1, <1>2 DEF OneHolder
  <2>2. UNCHANGED <<Elems(queue), Elems(batch), Injective(queue), Injective(batch)>>
    BY <1>1 DEF workerVars, Elems, Injective
  <2> QED  BY <1>1, <1>5, <2>1, <2>2 DEF OneHolder
<1>12. MemReaders'
  <2>1. ASSUME NEW u \in Threads
        PROVE  /\ ThreadDone(u)' => DocsOf(active[u])' = {}
               /\ tpc'[u] \in {"push", "switch"} => DocsOf(fresh[u])' = {}
    <3>1. CASE u = t
      BY <3>1, <1>1, <1>2 DEF ThreadDone
    <3>2. CASE u # t
      <4>1. Own(u) \cap Own(t) = {}
        BY <3>2 DEF OneHolder
      <4>2. ThreadDone(u)' => ThreadDone(u) /\ active[u] \in Own(u)
        BY <3>2, <1>1, <1>2 DEF ThreadDone, Own
      <4>3. fresh[u] \in Own(u)
        BY DEF Own
      <4>4. active[u] \in Nat /\ fresh[u] \in Nat
        BY DEF TypeOK
      <4>5. ThreadDone(u)' => DocsOf(active[u])' = {}
        BY <1>1, <1>3, <1>7, <4>1, <4>2, <4>4 DEF MemReaders, NotAdded
      <4>6. tpc'[u] \in {"push", "switch"} => DocsOf(fresh[u])' = {}
        BY <1>1, <1>2, <1>3, <1>7, <3>2, <4>1, <4>3, <4>4 DEF MemReaders, NotAdded
      <4> QED  BY <4>5, <4>6
    <3> QED  BY <3>1, <3>2
  <2>2. \A u \in Threads : ThreadDone(u) => ThreadDone(u)'
    BY <1>1, <1>2 DEF ThreadDone
  <2> QED  BY <1>1, <1>5, <2>1, <2>2 DEF MemReaders, Elems
<1>13. DiskReaders'
  <2>1. Published' = Published
    BY <1>1 DEF Published
  <2>2. \A s \in DOMAIN disk : d \notin disk[s] /\ disk[s] \subseteq Written'
    BY <1>8 DEF DiskReaders
  <2>3. ASSUME NEW e \in Written', NEW s \in Published, e \in disk[s]
        PROVE  /\ home'[e] \notin Live
               /\ \A x \in Published : e \in disk[x] => x = s
    <3>1. e # d /\ e \in Written /\ home'[e] = home[e]
      BY <1>6, <1>8, <2>2, <2>3 DEF Published, Written
    <3> QED  BY <2>3, <3>1 DEF DiskReaders
  <2>4. ASSUME NEW e \in Written'
        PROVE  home'[e] \in Live \/ \E s \in Published : e \in disk[s]
    <3>1. CASE e = d
      BY <3>1, <1>4, <1>6
    <3>2. CASE e # d
      BY <3>2, <1>6, <1>8 DEF DiskReaders, Written
    <3> QED  BY <3>1, <3>2
  <2>5. \A r \in readers : r.kind = "disk" => r.seg \in DOMAIN disk
    BY DEF DiskReaders
  <2> QED  BY <1>1, <1>5, <2>1, <2>2, <2>3, <2>4, <2>5 DEF DiskReaders
<1>14. BatchProgress'
  <2>1. a \notin Elems(batch)
    BY <1>3 DEF OneHolder
  <2>2. \A i \in 1 .. Len(batch) :
          batch[i] # a /\ batch[i] # NotAdded /\ batch[i] \in Elems(batch)
    BY <2>1, ElemsType DEF TypeOK, Elems, NotAdded
  <2>3. \A i \in 1 .. Len(batch) : DocsOf(batch[i])' = DocsOf(batch[i])
    BY <1>1, <1>7, <2>2 DEF workerVars
  <2>4. NotAdded \notin Elems(batch)
    BY ElemsType DEF TypeOK, NotAdded
  <2>5. {e \in Docs : home'[e] \in Elems(batch)} = {e \in Docs : home[e] \in Elems(batch)}
    BY <1>1, <1>6, <2>1, <2>4
  <2>6. wpc \in {"flush", "flushing", "merging"} => Flushed \subseteq 1 .. Len(batch)
    BY DEF BatchProgress, Flushed, TypeOK
  <2>7. UNCHANGED <<wpc, batch, tmp, final, disk, ing, readers, nextSegId>>
    BY <1>1 DEF workerVars
  <2>8. Flushed' = Flushed /\ Elems(batch)' = Elems(batch) /\ Elems(tmp)' = Elems(tmp)
    BY <2>7 DEF Flushed, Elems
  <2> QED  BY <2>3, <2>5, <2>6, <2>7, <2>8 DEF BatchProgress, Injective
<1>15. MergeProgress'
  <2>1. UNCHANGED <<wpc, batch, tmp, final, disk, ing, readers, stat>>
    BY <1>1 DEF workerVars
  <2>2. \A i \in 1 .. Len(batch) : batch[i] # a /\ batch[i] # NotAdded
    BY <1>3, ElemsType DEF TypeOK, Elems, OneHolder, NotAdded
  <2>3. \A i \in 1 .. Len(batch) : DocsOf(batch[i])' = DocsOf(batch[i])
    BY <1>7, <2>1, <2>2
  <2>4. Elems(batch)' = Elems(batch) /\ Elems(tmp)' = Elems(tmp)
    BY <2>1 DEF Elems
  <2> QED  BY <2>1, <2>3, <2>4 DEF MergeProgress, Disk
<1>16. StatsOfFrozen'
  <2>1. a \notin DOMAIN stat /\ NotAdded \notin DOMAIN stat
    BY <1>3 DEF StatsOfFrozen, Complete, TypeOK, NotAdded
  <2> QED  BY <1>1, <1>5, <1>7, <2>1 DEF StatsOfFrozen, Complete
<1>17. SearchesOwe'
  <2>1. \A r \in Readers : ReaderDocs(r) \subseteq ReaderDocs(r)'
    <3>1. \A s \in Nat : DocsOf(s) \subseteq DocsOf(s)'
      BY <1>1, <1>6 DEF DocsOf, NotAdded
    <3> QED  BY <1>1, <3>1 DEF ReaderDocs, Readers
  <2> QED  BY <1>1, <1>8, <2>1 DEF SearchesOwe, searchVars, TypeOK
<1>18. StopOrder'
  BY <1>1, <1>2 DEF StopOrder, ThreadDone, workerVars
<1> QED  BY <1>9, <1>10, <1>11, <1>12, <1>13, <1>14, <1>15, <1>16, <1>17, <1>18

\* Every id held, and every document's segment, is below the next id.
LEMMA NextIdIsNew ==
  ASSUME IInv
  PROVE  /\ nextSegId \in Nat /\ nextSegId \notin Live
         /\ nextSegId \notin DOMAIN disk /\ nextSegId \notin DOMAIN stat
         /\ nextSegId \notin Elems(queue) \cup Elems(batch) \cup Elems(tmp)
         /\ Mem(nextSegId) \notin readers /\ Disk(nextSegId) \notin readers
         /\ DocsOf(nextSegId) = {}
         /\ \A t \in Threads : nextSegId \notin Own(t)
<1> USE DEF IInv
<1>1. nextSegId \in Nat
  BY DEF TypeOK
<1>2. \A t \in Threads : nextSegId \notin Own(t)
  BY <1>1 DEF IdsBelowNext, Own
<1>3. nextSegId \notin Elems(queue) \cup Elems(batch) \cup Elems(tmp)
  BY <1>1 DEF IdsBelowNext
<1>4. nextSegId \notin Live
  BY <1>2, <1>3 DEF Live, InBatch
<1>5. DocsOf(nextSegId) = {}
  BY <1>1 DEF IdsBelowNext, DocsOf
<1>6. Mem(nextSegId) \notin readers /\ Disk(nextSegId) \notin readers
  BY <1>1 DEF IdsBelowNext, Mem, Disk
<1>7. nextSegId \notin DOMAIN disk /\ nextSegId \notin DOMAIN stat
  BY <1>1 DEF IdsBelowNext
<1> QED  BY <1>1, <1>2, <1>3, <1>4, <1>5, <1>6, <1>7

\* The new segment of freeze() is registered before it can be written to.
LEMMA FreezeRegisterKeeps ==
  ASSUME IInv, NEW t \in Threads, FreezeRegister(t)
  PROVE  IInv'
<1> DEFINE n == nextSegId
<1>1. /\ UNCHANGED <<active, shut, home, queue, stat, workerVars, disk, ing, stopReq,
                     mpc, searchVars>>
      /\ tpc[t] = "register" /\ nextSegId' = n + 1
      /\ fresh' = [fresh EXCEPT ![t] = n] /\ tpc' = [tpc EXCEPT ![t] = "push"]
      /\ readers' = readers \cup {Mem(n)}
  BY DEF FreezeRegister
<1> USE DEF IInv
<1>2. /\ fresh' \in [Threads -> Nat] /\ fresh'[t] = n
      /\ tpc' \in [Threads -> ThreadStates] /\ tpc'[t] = "push"
      /\ \A u \in Threads \ {t} : fresh'[u] = fresh[u] /\ tpc'[u] = tpc[u]
      /\ n \in Nat
  BY <1>1 DEF TypeOK, ThreadStates
<1>3. /\ n \notin Live /\ DocsOf(n) = {}
      /\ n \notin DOMAIN disk /\ n \notin DOMAIN stat
      /\ n \notin Elems(queue) \cup Elems(batch) \cup Elems(tmp)
      /\ \A u \in Threads : n \notin Own(u)
  BY NextIdIsNew
<1>4. Own(t) = {active[t]} /\ Own(t)' = {active[t], n}
  BY <1>1, <1>2 DEF Own, OneHolder
<1>5. \A u \in Threads \ {t} : Own(u)' = Own(u)
  BY <1>1, <1>2 DEF Own
<1>6. InBatch' = InBatch /\ Elems(queue)' = Elems(queue) /\ Elems(batch)' = Elems(batch)
  BY <1>1 DEF InBatch, workerVars, Elems
<1>7. Live' = Live \cup {n}
  BY <1>4, <1>5, <1>6 DEF Live
<1>8. Disk(n) \notin readers' /\ \A s : Disk(s) \in readers' <=> Disk(s) \in readers
  BY <1>1, NextIdIsNew DEF Disk, Mem
<1>9. Published' = Published
  BY <1>1, <1>8 DEF Published
<1>10. TypeOK'
  BY <1>1, <1>2 DEF TypeOK, workerVars, searchVars, Readers, Mem
<1>11. IdsBelowNext'
  <2>1. \A u \in Threads : active'[u] < n + 1 /\ fresh'[u] < n + 1
    BY <1>1, <1>2 DEF IdsBelowNext, TypeOK
  <2>2. \A r \in readers' : r.seg < n + 1
    BY <1>1, <1>2 DEF IdsBelowNext, Mem, TypeOK, Readers
  <2>3. \A s \in Elems(queue) \cup Elems(batch) \cup Elems(tmp) : s < n + 1
    BY <1>2, ElemsType DEF IdsBelowNext, TypeOK
  <2>4. \A s \in DOMAIN stat \cup DOMAIN disk : s < n + 1
    BY <1>2 DEF IdsBelowNext, TypeOK
  <2>5. ASSUME NEW d \in Docs
        PROVE  home[d] < n + 1
    <3>1. home[d] \in Nat \cup {NotAdded} /\ home[d] < n
      BY DEF IdsBelowNext, TypeOK
    <3> QED  BY <3>1, <1>2 DEF NotAdded
  <2>6. Elems(tmp)' = Elems(tmp)
    BY <1>1 DEF workerVars, Elems
  <2> QED  BY <1>1, <1>6, <2>1, <2>2, <2>3, <2>4, <2>5, <2>6 DEF IdsBelowNext
<1>12. OneHolder'
  <2>1. ASSUME NEW u \in Threads
        PROVE  /\ tpc'[u] \in {"idle", "register"} => fresh'[u] = active'[u]
               /\ tpc'[u] = "push" => fresh'[u] # active'[u]
               /\ Own(u)' \cap (Elems(queue) \cup Elems(batch)) = {}
               /\ \A v \in Threads \ {u} : Own(u)' \cap Own(v)' = {}
    <3>1. CASE u = t
      BY <3>1, <1>1, <1>2, <1>3, <1>4, <1>5 DEF OneHolder
    <3>2. CASE u # t
      BY <3>2, <1>1, <1>2, <1>3, <1>4, <1>5 DEF OneHolder
    <3> QED  BY <3>1, <3>2
  <2>2. UNCHANGED <<Injective(queue), Injective(batch)>>
    BY <1>1 DEF workerVars, Injective
  <2> QED  BY <1>6, <2>1, <2>2 DEF OneHolder
<1>13. MemReaders'
  <2>1. \A r \in readers' : r.kind = "mem" => r.seg \in Live'
    BY <1>1, <1>7 DEF MemReaders, Mem
  <2>2. \A s \in Elems(queue) \cup InBatch : Mem(s) \in readers'
    BY <1>1 DEF MemReaders
  <2>3. ASSUME NEW u \in Threads
        PROVE  /\ \A s \in Own(u)' : Mem(s) \in readers' \/ ThreadDone(u)'
               /\ ThreadDone(u)' => DocsOf(active[u])' = {}
               /\ tpc'[u] \in {"push", "switch"} => DocsOf(fresh[u])' = {}
    <3>1. ~ThreadDone(t) /\ ~ThreadDone(t)'
      BY <1>1, <1>2 DEF ThreadDone
    <3>2. \A s : DocsOf(s)' = DocsOf(s)
      BY <1>1 DEF DocsOf
    <3>3. CASE u = t
      BY <3>1, <3>2, <3>3, <1>1, <1>2, <1>3, <1>4 DEF MemReaders
    <3>4. CASE u # t
      BY <3>2, <3>4, <1>1, <1>2, <1>5 DEF MemReaders, ThreadDone
    <3> QED  BY <3>3, <3>4
  <2> QED  BY <1>6, <2>1, <2>2, <2>3 DEF MemReaders
<1>14. DiskReaders'
  <2>1. Written' = Written /\ \A d \in Written : home[d] # n
    BY <1>1, <1>3 DEF Written, DocsOf
  <2>2. \A r \in readers' : r.kind = "disk" => r.seg \in DOMAIN disk
    BY <1>1 DEF DiskReaders, Mem
  <2> QED  BY <1>1, <1>7, <1>9, <2>1, <2>2 DEF DiskReaders
<1>15. BatchProgress'
  <2>1. UNCHANGED <<wpc, batch, tmp, final, disk, ing, home>>
    BY <1>1 DEF workerVars
  <2>2. Flushed' = Flushed /\ Elems(tmp)' = Elems(tmp) /\ \A s : DocsOf(s)' = DocsOf(s)
    BY <2>1 DEF Flushed, Elems, DocsOf
  <2>3. wpc \in {"merging", "merged", "commit"} => final < n + 1
    BY <1>2 DEF BatchProgress, TypeOK, NotAdded
  <2>4. UNCHANGED Injective(tmp)
    BY <2>1 DEF Injective
  <2> QED  BY <1>1, <1>6, <1>8, <2>1, <2>2, <2>3, <2>4 DEF BatchProgress
<1>16. MergeProgress'
  <2>1. UNCHANGED <<wpc, batch, tmp, final, disk, ing, stat>>
    BY <1>1 DEF workerVars
  <2>2. Elems(tmp)' = Elems(tmp) /\ \A s : DocsOf(s)' = DocsOf(s)
    BY <1>1 DEF workerVars, Elems, DocsOf
  <2>3. Disk(final)' = Disk(final) /\ \A i : Disk(tmp[i])' = Disk(tmp[i])
    BY <2>1 DEF Disk
  <2> QED  BY <1>6, <1>8, <2>1, <2>2, <2>3 DEF MergeProgress
<1>17. StatsOfFrozen'
  <2>1. \A u \in Threads : Own(u)' \cap DOMAIN stat = {}
    BY <1>3, <1>4, <1>5 DEF StatsOfFrozen, Complete
  <2>2. \A s : DocsOf(s)' = DocsOf(s)
    BY <1>1 DEF DocsOf
  <2> QED  BY <1>1, <1>3, <1>7, <2>1, <2>2 DEF StatsOfFrozen, Complete
<1>18. SearchesOwe'
  BY <1>1 DEF SearchesOwe, searchVars, Written, ReaderDocs, DocsOf
<1>19. StopOrder'
  <2>1. \A u \in Threads : ThreadDone(u) => ThreadDone(u)'
    BY <1>1, <1>2 DEF ThreadDone
  <2> QED  BY <1>1, <2>1 DEF StopOrder, workerVars
<1> QED  BY <1>10, <1>11, <1>12, <1>13, <1>14, <1>15, <1>16, <1>17, <1>18, <1>19

\* FlushQueue::push hands the old segment to the worker; its reader stays.
LEMMA FreezePushKeeps ==
  ASSUME IInv, NEW t \in Threads, FreezePush(t)
  PROVE  IInv'
<1> DEFINE a == active[t]
<1>1. /\ UNCHANGED <<nextSegId, active, fresh, shut, home, readers, workerVars,
                     disk, ing, stopReq, mpc, searchVars>>
      /\ tpc[t] = "push" /\ tpc' = [tpc EXCEPT ![t] = "switch"]
      /\ queue' = Append(queue, a) /\ stat' = Put(stat, a, "Queued")
  BY DEF FreezePush
<1> USE DEF IInv
<1>2. /\ tpc' \in [Threads -> ThreadStates] /\ tpc'[t] = "switch"
      /\ \A u \in Threads \ {t} : tpc'[u] = tpc[u]
      /\ a \in Nat /\ fresh[t] \in Nat
  BY <1>1 DEF TypeOK, ThreadStates
<1>3. Own(t) = {a, fresh[t]} /\ Own(t)' = {fresh[t]} /\ a # fresh[t]
  BY <1>1, <1>2 DEF Own, OneHolder
<1>4. a \notin Elems(queue) \cup Elems(batch) /\ a \notin DOMAIN stat
  BY <1>3 DEF OneHolder, StatsOfFrozen
<1>5. \A u \in Threads \ {t} : Own(u)' = Own(u) /\ a \notin Own(u) /\ fresh[t] \notin Own(u)
  BY <1>1, <1>2, <1>3 DEF Own, OneHolder
<1>6. /\ queue' \in Seq(Nat) /\ Elems(queue)' = Elems(queue) \cup {a}
      /\ Injective(queue)'
  <2>1. queue \in Seq(Nat) /\ Injective(queue)
    BY DEF TypeOK, OneHolder
  <2>2. /\ Append(queue, a) \in Seq(Nat)
        /\ Elems(Append(queue, a)) = Elems(queue) \cup {a}
        /\ Injective(Append(queue, a))
    BY <1>2, <1>4, <2>1, ElemsAppend
  <2> QED  BY <1>1, <2>2 DEF Elems, Injective
<1>7. InBatch' = InBatch /\ Elems(batch)' = Elems(batch) /\ Elems(tmp)' = Elems(tmp)
  BY <1>1 DEF InBatch, workerVars, Elems
<1>8. Live' = Live
  BY <1>3, <1>5, <1>6, <1>7 DEF Live
<1>9. /\ DOMAIN stat' = DOMAIN stat \cup {a}
      /\ stat'[a] = "Queued"
      /\ \A s \in DOMAIN stat : stat'[s] = stat[s]
  BY <1>1, <1>4 DEF Put
<1>10. TypeOK'
  <2>1. stat' \in [DOMAIN stat' -> FrozenSegState] /\ DOMAIN stat' \subseteq Nat
    <3>1. "Queued" \in FrozenSegState
      BY DEF FrozenSegState
    <3> QED  BY <1>1, <1>2, <3>1 DEF TypeOK, Put
  <2> QED  BY <1>1, <1>2, <1>6, <2>1 DEF TypeOK, workerVars, searchVars
<1>11. IdsBelowNext'
  BY <1>1, <1>6, <1>7, <1>9 DEF IdsBelowNext
<1>12. OneHolder'
  <2>1. ASSUME NEW u \in Threads
        PROVE  /\ tpc'[u] \in {"idle", "register"} => fresh'[u] = active'[u]
               /\ tpc'[u] = "push" => fresh'[u] # active'[u]
               /\ Own(u)' \cap (Elems(queue)' \cup Elems(batch)) = {}
               /\ \A v \in Threads \ {u} : Own(u)' \cap Own(v)' = {}
    <3>1. CASE u = t
      BY <3>1, <1>1, <1>2, <1>3, <1>5, <1>6 DEF OneHolder
    <3>2. CASE u # t
      BY <3>2, <1>1, <1>2, <1>3, <1>5, <1>6 DEF OneHolder
    <3> QED  BY <3>1, <3>2
  <2>2. Elems(queue)' \cap Elems(batch) = {}
    BY <1>4, <1>6 DEF OneHolder
  <2>3. UNCHANGED Injective(batch) /\ Injective(batch)
    BY <1>1 DEF workerVars, Injective, OneHolder
  <2> QED  BY <1>6, <1>7, <2>1, <2>2, <2>3 DEF OneHolder
<1>13. \A s : DocsOf(s)' = DocsOf(s)
  BY <1>1 DEF DocsOf
<1>14. MemReaders'
  <2>1. Mem(a) \in readers
    <3>1. ~ThreadDone(t)
      BY <1>1 DEF ThreadDone
    <3> QED  BY <1>3, <3>1 DEF MemReaders
  <2>2. ASSUME NEW u \in Threads
        PROVE  /\ \A s \in Own(u)' : Mem(s) \in readers \/ ThreadDone(u)'
               /\ ThreadDone(u)' => DocsOf(active[u])' = {}
               /\ tpc'[u] \in {"push", "switch"} => DocsOf(fresh[u])' = {}
    <3>1. ~ThreadDone(t) /\ ~ThreadDone(t)'
      BY <1>1, <1>2 DEF ThreadDone
    <3>2. CASE u = t
      BY <3>1, <3>2, <1>1, <1>3, <1>13 DEF MemReaders
    <3>3. CASE u # t
      BY <3>3, <1>1, <1>2, <1>5, <1>13 DEF MemReaders, ThreadDone
    <3> QED  BY <3>2, <3>3
  <2> QED  BY <1>1, <1>6, <1>7, <1>8, <2>1, <2>2 DEF MemReaders
<1>15. DiskReaders'
  BY <1>1, <1>8 DEF DiskReaders, Published, Written
<1>16. BatchProgress'
  BY <1>1 DEF BatchProgress, workerVars, Flushed, Injective, DocsOf, Elems
<1>17. MergeProgress'
  <2>1. UNCHANGED <<wpc, batch, tmp, final, disk, ing, readers>>
    BY <1>1 DEF workerVars
  <2>2. \A s \in Elems(batch) \cap DOMAIN stat' : s \in DOMAIN stat /\ stat'[s] = stat[s]
    BY <1>4, <1>9
  <2> QED  BY <1>7, <1>13, <2>1, <2>2 DEF MergeProgress, Disk
<1>18. StatsOfFrozen'
  <2>1. \A u \in Threads : Own(u)' \cap DOMAIN stat' = {}
    BY <1>3, <1>5, <1>9 DEF StatsOfFrozen, Complete
  <2> QED  BY <1>1, <1>8, <1>9, <1>13, <2>1 DEF StatsOfFrozen, Complete
<1>19. SearchesOwe'
  BY <1>1 DEF SearchesOwe, searchVars, Written, ReaderDocs, DocsOf
<1>20. StopOrder'
  <2>1. \A u \in Threads : ThreadDone(u) => ThreadDone(u)'
    BY <1>1, <1>2 DEF ThreadDone
  <2>2. wpc # "exited"
    BY <1>1 DEF StopOrder, ThreadDone
  <2> QED  BY <1>1, <2>1, <2>2 DEF StopOrder, workerVars
<1> QED  BY <1>10, <1>11, <1>12, <1>14, <1>15, <1>16, <1>17, <1>18, <1>19, <1>20

\* The thread goes on with its new, empty segment.
LEMMA FreezeSwitchKeeps ==
  ASSUME IInv, NEW t \in Threads, FreezeSwitch(t)
  PROVE  IInv'
<1>1. /\ UNCHANGED <<nextSegId, fresh, shut, home, readers, queue, stat,
                     workerVars, disk, ing, stopReq, mpc, searchVars>>
      /\ tpc[t] = "switch" /\ tpc' = [tpc EXCEPT ![t] = "idle"]
      /\ active' = [active EXCEPT ![t] = fresh[t]]
  BY DEF FreezeSwitch
<1> USE DEF IInv
<1>2. /\ tpc' \in [Threads -> ThreadStates] /\ tpc'[t] = "idle"
      /\ active' \in [Threads -> Nat] /\ active'[t] = fresh[t]
      /\ \A u \in Threads \ {t} : tpc'[u] = tpc[u] /\ active'[u] = active[u]
  BY <1>1 DEF TypeOK, ThreadStates
<1>3. \A u \in Threads : Own(u)' = Own(u)
  BY <1>1, <1>2 DEF Own
<1>4. InBatch' = InBatch /\ Live' = Live
  BY <1>1, <1>3 DEF InBatch, Live, workerVars, Elems
<1>5. /\ Elems(queue)' = Elems(queue) /\ Elems(batch)' = Elems(batch)
      /\ Elems(tmp)' = Elems(tmp)
      /\ UNCHANGED <<Injective(queue), Injective(batch)>>
      /\ \A s : DocsOf(s)' = DocsOf(s)
  BY <1>1 DEF workerVars, Elems, Injective, DocsOf
<1>6. TypeOK'
  BY <1>1, <1>2 DEF TypeOK, workerVars, searchVars
<1>7. IdsBelowNext'
  BY <1>1, <1>2, <1>5 DEF IdsBelowNext
<1>8. OneHolder'
  <2>1. \A u \in Threads :
          /\ tpc'[u] \in {"idle", "register"} => fresh'[u] = active'[u]
          /\ tpc'[u] = "push" => fresh'[u] # active'[u]
    BY <1>1, <1>2 DEF OneHolder
  <2> QED  BY <1>3, <1>5, <2>1 DEF OneHolder
<1>9. MemReaders'
  <2>1. ASSUME NEW u \in Threads
        PROVE  /\ \A s \in Own(u) : Mem(s) \in readers \/ ThreadDone(u)'
               /\ ThreadDone(u)' => DocsOf(active[u])' = {}
               /\ tpc'[u] \in {"push", "switch"} => DocsOf(fresh[u])' = {}
    <3>1. CASE u = t
      BY <3>1, <1>1, <1>2, <1>5 DEF MemReaders, ThreadDone
    <3>2. CASE u # t
      BY <3>2, <1>1, <1>2, <1>5 DEF MemReaders, ThreadDone
    <3> QED  BY <3>1, <3>2
  <2> QED  BY <1>1, <1>3, <1>4, <1>5, <2>1 DEF MemReaders
<1>10. DiskReaders'
  BY <1>1, <1>4 DEF DiskReaders, Published, Written
<1>11. BatchProgress'
  BY <1>1 DEF BatchProgress, workerVars, Flushed, Injective, DocsOf, Elems
<1>12. MergeProgress'
  BY <1>1 DEF MergeProgress, workerVars, Elems, DocsOf
<1>13. StatsOfFrozen'
  BY <1>1, <1>3, <1>4, <1>5 DEF StatsOfFrozen, Complete
<1>14. SearchesOwe'
  BY <1>1 DEF SearchesOwe, searchVars, Written, ReaderDocs, DocsOf
<1>15. StopOrder'
  <2>1. \A u \in Threads : ThreadDone(u) => ThreadDone(u)'
    BY <1>1, <1>2 DEF ThreadDone
  <2> QED  BY <1>1, <2>1 DEF StopOrder, workerVars
<1> QED  BY <1>6, <1>7, <1>8, <1>9, <1>10, <1>11, <1>12, <1>13, <1>14, <1>15

\* shutdown() freezes a segment with documents and drops the reader of one
\* without.
LEMMA ShutdownKeeps ==
  ASSUME IInv, NEW t \in Threads, Shutdown(t)
  PROVE  IInv'
<1> DEFINE a == active[t]
<1>1. /\ UNCHANGED <<nextSegId, active, fresh, home, queue, stat, workerVars,
                     disk, ing, stopReq, mpc, searchVars>>
      /\ tpc[t] = "idle" /\ ~shut[t] /\ mpc = "shutting"
      /\ shut' = [shut EXCEPT ![t] = TRUE]
      /\ \/ /\ tpc' = [tpc EXCEPT ![t] = "register"]
            /\ readers' = readers
         \/ /\ DocsOf(a) = {} /\ tpc' = tpc
            /\ readers' = readers \ {Mem(a)}
  BY DEF Shutdown
<1> USE DEF IInv
<1>2. /\ tpc' \in [Threads -> ThreadStates] /\ tpc'[t] \in {"idle", "register"}
      /\ shut' \in [Threads -> BOOLEAN] /\ shut'[t]
      /\ \A u \in Threads \ {t} : tpc'[u] = tpc[u] /\ shut'[u] = shut[u]
  <2>1. tpc \in [Threads -> ThreadStates] /\ "register" \in ThreadStates
    BY DEF TypeOK, ThreadStates
  <2>2. CASE tpc' = tpc
    BY <1>1, <2>1, <2>2 DEF TypeOK
  <2>3. CASE tpc' = [tpc EXCEPT ![t] = "register"]
    BY <1>1, <2>1, <2>3 DEF TypeOK
  <2> QED  BY <1>1, <2>2, <2>3
<1>3. \A u \in Threads : Own(u)' = Own(u)
  BY <1>1, <1>2 DEF Own
<1>4. InBatch' = InBatch /\ Live' = Live
  BY <1>1, <1>3 DEF InBatch, Live, workerVars, Elems
<1>5. /\ Elems(queue)' = Elems(queue) /\ Elems(batch)' = Elems(batch)
      /\ Elems(tmp)' = Elems(tmp)
      /\ UNCHANGED <<Injective(queue), Injective(batch)>>
      /\ \A s : DocsOf(s)' = DocsOf(s)
  BY <1>1 DEF workerVars, Elems, Injective, DocsOf
<1>6. Own(t) = {a} /\ a \notin Elems(queue) \cup InBatch
  BY <1>1 DEF Own, OneHolder, InBatch
<1>7. /\ readers' \subseteq readers
      /\ \A r \in readers : r # Mem(a) => r \in readers'
      /\ \A s : Disk(s) \in readers' <=> Disk(s) \in readers
  BY <1>1 DEF Mem, Disk
<1>8. \A u \in Threads : ThreadDone(u) => ThreadDone(u)'
  BY <1>1, <1>2 DEF ThreadDone
<1>9. TypeOK'
  BY <1>1, <1>2, <1>7 DEF TypeOK, workerVars, searchVars
<1>10. IdsBelowNext'
  BY <1>1, <1>5, <1>7 DEF IdsBelowNext
<1>11. OneHolder'
  <2>1. \A u \in Threads :
          /\ tpc'[u] \in {"idle", "register"} => fresh'[u] = active'[u]
          /\ tpc'[u] = "push" => fresh'[u] # active'[u]
    BY <1>1, <1>2 DEF OneHolder
  <2> QED  BY <1>3, <1>5, <2>1 DEF OneHolder
<1>12. MemReaders'
  <2>1. \A s \in Elems(queue) \cup InBatch : Mem(s) \in readers'
    BY <1>6, <1>7 DEF MemReaders, Mem
  <2>2. ASSUME NEW u \in Threads
        PROVE  /\ \A s \in Own(u) : Mem(s) \in readers' \/ ThreadDone(u)'
               /\ ThreadDone(u)' => DocsOf(active[u])' = {}
               /\ tpc'[u] \in {"push", "switch"} => DocsOf(fresh[u])' = {}
    <3>1. CASE u = t
      <4>1. CASE readers' = readers
        <5>1. tpc'[t] = "register" \/ DocsOf(a) = {}
          BY <1>1, <4>1 DEF TypeOK
        <5>2. ~ThreadDone(t)
          BY <1>1 DEF ThreadDone
        <5> QED  BY <1>2, <1>5, <1>1, <3>1, <4>1, <5>1, <5>2 DEF MemReaders, ThreadDone
      <4>2. CASE DocsOf(a) = {} /\ tpc' = tpc
        BY <1>1, <1>2, <1>5, <3>1, <4>2 DEF ThreadDone
      <4> QED  BY <1>1, <4>1, <4>2
    <3>2. CASE u # t
      <4>1. a \notin Own(u)
        BY <3>2, <1>6 DEF OneHolder
      <4> QED  BY <3>2, <4>1, <1>1, <1>2, <1>5, <1>7, <1>8 DEF MemReaders, ThreadDone, Mem
    <3> QED  BY <3>1, <3>2
  <2> QED  BY <1>3, <1>4, <1>5, <1>7, <1>1, <2>1, <2>2 DEF MemReaders
<1>13. DiskReaders'
  <2>1. Published' = Published /\ Written' = Written
    BY <1>1, <1>7 DEF Published, Written
  <2> QED  BY <1>1, <1>4, <1>7, <2>1 DEF DiskReaders
<1>14. BatchProgress'
  <2>1. UNCHANGED <<wpc, batch, tmp, final, disk, ing, home, nextSegId>>
    BY <1>1 DEF workerVars
  <2>2. Flushed' = Flushed /\ UNCHANGED Injective(tmp)
    BY <2>1 DEF Flushed, Injective
  <2> QED  BY <1>5, <1>7, <2>1, <2>2 DEF BatchProgress
<1>15. MergeProgress'
  <2>1. UNCHANGED <<wpc, batch, tmp, final, disk, ing, stat>>
    BY <1>1 DEF workerVars
  <2> QED  BY <1>5, <1>7, <2>1 DEF MergeProgress, Disk
<1>16. StatsOfFrozen'
  BY <1>1, <1>3, <1>4, <1>5 DEF StatsOfFrozen, Complete
<1>17. SearchesOwe'
  <2>1. \A c \in Searchers : \A r \in todo[c] : r.kind = "disk" => r \in readers'
    BY <1>7 DEF SearchesOwe, Mem
  <2> QED  BY <1>1, <2>1 DEF SearchesOwe, searchVars, Written, ReaderDocs, DocsOf
<1>18. StopOrder'
  BY <1>1, <1>8 DEF StopOrder, workerVars
<1> QED  BY <1>9, <1>10, <1>11, <1>12, <1>13, <1>14, <1>15, <1>16, <1>17, <1>18

-----------------------------------------------------------------------------
(* FlushWorker                                                             *)

\* takeBatch moves the front of the queue into the worker's batch.
LEMMA TakeBatchKeeps ==
  ASSUME IInv, wpc \in {"take", "drain"}, TakeBatch
  PROVE  IInv'
<1> DEFINE n == IF Len(queue) < MaxBatch THEN Len(queue) ELSE MaxBatch
<1>1. /\ UNCHANGED <<nextSegId, threadVars, home, readers, stat, final, disk, ing,
                     stopReq, mpc, searchVars>>
      /\ batch' = SubSeq(queue, 1, n) /\ queue' = SubSeq(queue, n + 1, Len(queue))
      /\ tmp' = <<>> /\ wpc' = "flush"
  BY DEF TakeBatch
<1> USE DEF IInv
<1>2. queue \in Seq(Nat) /\ Injective(queue) /\ n \in 0 .. Len(queue)
  BY ConstantsAssumption DEF TypeOK, OneHolder
<1>3. /\ batch' \in Seq(Nat) /\ queue' \in Seq(Nat)
      /\ Elems(batch)' \cup Elems(queue)' = Elems(queue)
      /\ Elems(batch)' \cap Elems(queue)' = {}
      /\ Injective(batch)' /\ Injective(queue)'
  <2> HIDE DEF n
  <2> DEFINE p == SubSeq(queue, 1, n)
             q == SubSeq(queue, n + 1, Len(queue))
  <2>1. /\ p \in Seq(Nat) /\ q \in Seq(Nat)
        /\ Elems(p) \cup Elems(q) = Elems(queue)
        /\ Elems(p) \cap Elems(q) = {}
        /\ Injective(p) /\ Injective(q)
    BY <1>2, ElemsSplit
  <2>2. batch' = p /\ queue' = q
    BY <1>1
  <2> HIDE DEF p, q
  <2>3. Elems(batch)' = Elems(p) /\ Elems(queue)' = Elems(q)
    BY <2>2 DEF Elems
  <2>4. Injective(batch)' = Injective(p) /\ Injective(queue)' = Injective(q)
    BY <2>2 DEF Injective
  <2> QED  BY <2>1, <2>2, <2>3, <2>4
<1>4. batch = <<>> /\ Elems(batch) = {} /\ Elems(tmp)' = {}
  BY <1>1 DEF BatchProgress, Elems
<1>5. \A t \in Threads : Own(t)' = Own(t)
  BY <1>1 DEF Own, threadVars
<1>6. /\ InBatch = {} /\ InBatch' = Elems(batch)'
      /\ Elems(queue)' \cup InBatch' = Elems(queue) \cup InBatch
      /\ Live' = Live
  <2>1. InBatch = {} /\ InBatch' = Elems(batch)'
    BY <1>1, <1>4 DEF InBatch
  <2> QED  BY <1>3, <1>5, <2>1 DEF Live
<1>7. TypeOK'
  <2>1. tmp' \in Seq(Nat) /\ wpc' \in WorkerStates
    BY <1>1 DEF WorkerStates
  <2> QED  BY <1>1, <1>3, <2>1 DEF TypeOK, threadVars, searchVars
<1>8. IdsBelowNext'
  BY <1>1, <1>3, <1>4 DEF IdsBelowNext, threadVars
<1>9. OneHolder'
  BY <1>1, <1>3, <1>4, <1>5 DEF OneHolder, threadVars
<1>10. MemReaders'
  BY <1>1, <1>5, <1>6 DEF MemReaders, threadVars, ThreadDone, DocsOf
<1>11. DiskReaders'
  BY <1>1, <1>6 DEF DiskReaders, Published, Written
<1>12. BatchProgress'
  <2>1. Len(tmp') = 0 /\ Len(batch') \in Nat
    BY <1>1, <1>3
  <2>2. wpc' = "flush" /\ 1 .. 0 = {}
    BY <1>1
  <2>3. Flushed' = {} /\ 1 .. Len(tmp') = {}
    BY <2>1, <2>2 DEF Flushed
  <2>4. Len(tmp') <= Len(batch')
    BY <2>1
  <2> QED  BY <2>2, <2>3, <2>4 DEF BatchProgress, Injective
<1>13. MergeProgress'
  <2>1. ing = {}
    BY DEF MergeProgress
  <2> QED  BY <1>1, <2>1 DEF MergeProgress
<1>14. StatsOfFrozen'
  BY <1>1, <1>5, <1>6 DEF StatsOfFrozen, Complete, DocsOf
<1>15. SearchesOwe'
  BY <1>1 DEF SearchesOwe, searchVars, Written, ReaderDocs, DocsOf
<1>16. StopOrder'
  BY <1>1 DEF StopOrder, threadVars, ThreadDone
<1> QED  BY <1>7, <1>8, <1>9, <1>10, <1>11, <1>12, <1>13, <1>14, <1>15, <1>16

\* A batch entry is flushed under an id of its own.
LEMMA FlushBeginKeeps ==
  ASSUME IInv, FlushBegin
  PROVE  IInv'
<1> DEFINE k == Len(tmp) + 1
           n == nextSegId
<1>1. /\ UNCHANGED <<threadVars, home, readers, queue, batch, final, disk, ing,
                     stopReq, mpc, searchVars>>
      /\ wpc = "flush" /\ wpc' = "flushing" /\ Len(tmp) < Len(batch)
      /\ tmp' = Append(tmp, n) /\ nextSegId' = n + 1
      /\ stat' = Put(stat, batch[k], "Flushing")
  BY DEF FlushBegin
<1> USE DEF IInv
<1>2. /\ n \in Nat /\ n \notin DOMAIN disk /\ n \notin Elems(tmp)
      /\ Disk(n) \notin readers
  BY NextIdIsNew
<1>3. /\ tmp \in Seq(Nat) /\ batch \in Seq(Nat) /\ k \in 1 .. Len(batch)
      /\ Len(tmp) \in Nat /\ Len(batch) \in Nat
  BY <1>1 DEF TypeOK
<1>4. batch[k] \in Elems(batch) /\ batch[k] \in Nat
  BY <1>3, ElemsType
<1>5. /\ tmp' \in Seq(Nat) /\ Elems(tmp)' = Elems(tmp) \cup {n} /\ Injective(tmp)'
      /\ Len(tmp') = k /\ tmp'[k] = n
      /\ \A i \in 1 .. Len(tmp) : tmp'[i] = tmp[i]
  <2>1. Injective(tmp)
    BY <1>1 DEF BatchProgress
  <2>2. /\ Append(tmp, n) \in Seq(Nat)
        /\ Elems(Append(tmp, n)) = Elems(tmp) \cup {n}
        /\ Injective(Append(tmp, n))
    BY <1>2, <1>3, <2>1, ElemsAppend
  <2>3. Elems(tmp)' = Elems(tmp') /\ Injective(tmp)' = Injective(tmp')
    BY DEF Elems, Injective
  <2>4. /\ Len(tmp') = k /\ tmp'[k] = n
        /\ \A i \in 1 .. Len(tmp) : tmp'[i] = tmp[i]
    BY <1>1, <1>2, <1>3
  <2> QED  BY <1>1, <2>2, <2>3, <2>4
<1>6. /\ \A t \in Threads : Own(t)' = Own(t)
      /\ InBatch' = InBatch
      /\ Live' = Live
  BY <1>1, LiveFrame DEF threadVars
<1>7. /\ Elems(queue)' = Elems(queue) /\ Elems(batch)' = Elems(batch)
      /\ UNCHANGED <<Injective(queue), Injective(batch)>>
      /\ \A s : DocsOf(s)' = DocsOf(s)
  BY <1>1 DEF Elems, Injective, DocsOf
<1>8. batch[k] \in Live
  BY <1>1, <1>4 DEF Live, InBatch
<1>9. /\ DOMAIN stat' = DOMAIN stat \cup {batch[k]}
      /\ stat'[batch[k]] = "Flushing"
      /\ \A s \in DOMAIN stat : s # batch[k] => stat'[s] = stat[s]
  BY <1>1 DEF Put
<1>10. TypeOK'
  <2>1. "Flushing" \in FrozenSegState
    BY DEF FrozenSegState
  <2>2. stat' \in [DOMAIN stat' -> FrozenSegState] /\ DOMAIN stat' \subseteq Nat
    BY <1>1, <1>4, <1>9, <2>1 DEF TypeOK, Put
  <2>3. nextSegId' \in Nat /\ wpc' \in WorkerStates
    BY <1>1, <1>2 DEF WorkerStates
  <2> QED  BY <1>1, <1>5, <2>2, <2>3 DEF TypeOK, threadVars, searchVars
<1>11. IdsBelowNext'
  <2>1. \A u \in Threads : active[u] < n + 1 /\ fresh[u] < n + 1
    BY <1>2 DEF IdsBelowNext, TypeOK
  <2>2. \A r \in readers : r.seg < n + 1
    BY <1>2 DEF IdsBelowNext, TypeOK, Readers
  <2>3. \A s \in Elems(queue) \cup Elems(batch) \cup Elems(tmp) \cup {n} : s < n + 1
    BY <1>2, ElemsType DEF IdsBelowNext, TypeOK
  <2>4. \A s \in DOMAIN stat' \cup DOMAIN disk : s < n + 1
    BY <1>2, <1>4, <1>9, <2>3 DEF IdsBelowNext, TypeOK
  <2>5. ASSUME NEW d \in Docs
        PROVE  home[d] < n + 1
    <3>1. home[d] \in Nat \cup {NotAdded} /\ home[d] < n
      BY DEF IdsBelowNext, TypeOK
    <3> QED  BY <3>1, <1>2 DEF NotAdded
  <2> QED  BY <1>1, <1>5, <1>7, <2>1, <2>2, <2>3, <2>4, <2>5 DEF IdsBelowNext, threadVars
<1>12. OneHolder'
  BY <1>1, <1>6, <1>7 DEF OneHolder, threadVars
<1>13. MemReaders'
  BY <1>1, <1>6, <1>7 DEF MemReaders, threadVars, ThreadDone
<1>14. DiskReaders'
  BY <1>1, <1>6 DEF DiskReaders, Published, Written
<1>15. BatchProgress'
  <2>1. Flushed' = 1 .. Len(tmp)
    BY <1>1, <1>3, <1>5 DEF Flushed
  <2>2. \A i \in 1 .. Len(tmp) :
          /\ tmp[i] \in DOMAIN disk /\ disk[tmp[i]] = DocsOf(batch[i])
          /\ Disk(tmp[i]) \notin readers
    BY <1>1 DEF BatchProgress, Flushed
  <2>3. \A i \in 1 .. k : i \in 1 .. Len(tmp) \/ i = k
    BY <1>3
  <2>4. \A i \in 1 .. Len(tmp') : Disk(tmp'[i]) \notin readers
    BY <1>2, <1>5, <2>2, <2>3
  <2>5. \A i \in Flushed' : tmp'[i] \in DOMAIN disk /\ disk[tmp'[i]] = DocsOf(batch[i])'
    <3>1. \A i \in 1 .. Len(tmp) : DocsOf(batch[i])' = DocsOf(batch[i])
      BY <1>1 DEF DocsOf
    <3> QED  BY <1>5, <2>1, <2>2, <3>1
  <2>6. Len(tmp') <= Len(batch) /\ Len(tmp') > 0 /\ tmp'[Len(tmp')] \notin DOMAIN disk
    BY <1>2, <1>3, <1>5
  <2> QED  BY <1>1, <1>5, <2>4, <2>5, <2>6 DEF BatchProgress
<1>16. MergeProgress'
  <2>1. ing = {}
    BY <1>1 DEF MergeProgress
  <2> QED  BY <1>1, <2>1 DEF MergeProgress
<1>17. StatsOfFrozen'
  <2>1. \A t \in Threads : batch[k] \notin Own(t)
    BY <1>4 DEF OneHolder
  <2>2. \A t \in Threads : Own(t) \cap DOMAIN stat' = {}
    BY <1>9, <2>1 DEF StatsOfFrozen, Complete
  <2> QED  BY <1>1, <1>6, <1>7, <1>9, <2>2 DEF StatsOfFrozen, Complete
<1>18. SearchesOwe'
  BY <1>1 DEF SearchesOwe, searchVars, Written, ReaderDocs, DocsOf
<1>19. StopOrder'
  BY <1>1 DEF StopOrder, threadVars, ThreadDone
<1> QED  BY <1>10, <1>11, <1>12, <1>13, <1>14, <1>15, <1>16, <1>17, <1>18, <1>19

\* flushToDisk completes a directory no reader and no search refers to.
LEMMA FlushEndKeeps ==
  ASSUME IInv, FlushEnd
  PROVE  IInv'
<1> DEFINE k == Len(tmp)
<1>1. /\ UNCHANGED <<nextSegId, threadVars, home, readers, queue, batch, tmp,
                     final, ing, stopReq, mpc, searchVars>>
      /\ wpc = "flushing" /\ wpc' = "flush"
      /\ disk' = Put(disk, tmp[k], DocsOf(batch[k]))
      /\ stat' = Put(stat, batch[k], "OnDisk")
  BY DEF FlushEnd
<1> USE DEF IInv
<1>2. /\ tmp \in Seq(Nat) /\ batch \in Seq(Nat)
      /\ k \in 1 .. Len(tmp) /\ k \in 1 .. Len(batch)
      /\ Len(tmp) \in Nat /\ Len(batch) \in Nat
      /\ tmp[k] \notin DOMAIN disk /\ Disk(tmp[k]) \notin readers
  <2>1. /\ tmp \in Seq(Nat) /\ batch \in Seq(Nat)
        /\ Len(tmp) \in Nat /\ Len(batch) \in Nat
    BY DEF TypeOK
  <2>2. /\ Len(tmp) <= Len(batch) /\ Len(tmp) > 0 /\ tmp[k] \notin DOMAIN disk
        /\ \A i \in 1 .. Len(tmp) : Disk(tmp[i]) \notin readers
    BY <1>1 DEF BatchProgress
  <2> QED  BY <2>1, <2>2
<1>3. /\ batch[k] \in Elems(batch) /\ batch[k] \in Nat
      /\ tmp[k] \in Elems(tmp) /\ tmp[k] \in Nat
  BY <1>2, ElemsType
<1>4. /\ DOMAIN disk' = DOMAIN disk \cup {tmp[k]}
      /\ disk'[tmp[k]] = DocsOf(batch[k])
      /\ \A s \in DOMAIN disk : disk'[s] = disk[s]
  BY <1>1, <1>2 DEF Put
<1>5. /\ DOMAIN stat' = DOMAIN stat \cup {batch[k]}
      /\ stat'[batch[k]] = "OnDisk"
      /\ \A s \in DOMAIN stat : s # batch[k] => stat'[s] = stat[s]
  BY <1>1 DEF Put
<1>6. /\ \A t \in Threads : Own(t)' = Own(t)
      /\ InBatch' = InBatch
      /\ Live' = Live
  BY <1>1, LiveFrame DEF threadVars
<1>7. /\ Elems(queue)' = Elems(queue) /\ Elems(batch)' = Elems(batch)
      /\ Elems(tmp)' = Elems(tmp)
      /\ UNCHANGED <<Injective(queue), Injective(batch), Injective(tmp)>>
      /\ \A s : DocsOf(s)' = DocsOf(s)
  BY <1>1 DEF Elems, Injective, DocsOf
<1>8. DocsOf(batch[k]) \subseteq Written /\ DocsOf(batch[k]) \subseteq Docs
  BY <1>3 DEF DocsOf, Written, NotAdded
<1>9. Published' = Published /\ tmp[k] \notin Published
  BY <1>1, <1>2, <1>4 DEF Published
<1>10. TypeOK'
  <2>1. "OnDisk" \in FrozenSegState
    BY DEF FrozenSegState
  <2>2. stat' \in [DOMAIN stat' -> FrozenSegState] /\ DOMAIN stat' \subseteq Nat
    BY <1>1, <1>3, <1>5, <2>1 DEF TypeOK, Put
  <2>3. disk' \in [DOMAIN disk' -> SUBSET Docs] /\ DOMAIN disk' \subseteq Nat
    BY <1>1, <1>3, <1>4, <1>8 DEF TypeOK, Put
  <2> QED  BY <1>1, <2>2, <2>3 DEF TypeOK, threadVars, searchVars, WorkerStates
<1>11. IdsBelowNext'
  BY <1>1, <1>3, <1>4, <1>5, <1>7 DEF IdsBelowNext, threadVars
<1>12. OneHolder'
  BY <1>1, <1>6, <1>7 DEF OneHolder, threadVars
<1>13. MemReaders'
  BY <1>1, <1>6, <1>7 DEF MemReaders, threadVars, ThreadDone
<1>14. DiskReaders'
  <2>1. Written' = Written
    BY <1>1 DEF Written
  <2>2. \A s \in Published : disk'[s] = disk[s]
    BY <1>4 DEF Published
  <2>3. \A s \in DOMAIN disk' : disk'[s] \subseteq Written
    BY <1>4, <1>8 DEF DiskReaders
  <2> QED  BY <1>1, <1>4, <1>6, <1>9, <2>1, <2>2, <2>3 DEF DiskReaders
<1>15. BatchProgress'
  <2>1. Flushed' = 1 .. k /\ Flushed = 1 .. k - 1
    BY <1>1 DEF Flushed
  <2>2. \A i \in 1 .. k : i \in 1 .. k - 1 \/ i = k
    BY <1>2
  <2>3. \A i \in 1 .. k - 1 : tmp[i] \in DOMAIN disk /\ disk[tmp[i]] = DocsOf(batch[i])
    BY <1>1, <2>1 DEF BatchProgress
  <2>4. \A i \in 1 .. k : tmp[i] \in DOMAIN disk' /\ disk'[tmp[i]] = DocsOf(batch[i])
    BY <1>4, <2>2, <2>3
  <2> QED  BY <1>1, <1>7, <2>1, <2>4 DEF BatchProgress
<1>16. MergeProgress'
  <2>1. ing = {}
    BY <1>1 DEF MergeProgress
  <2> QED  BY <1>1, <2>1 DEF MergeProgress
<1>17. StatsOfFrozen'
  <2>1. \A t \in Threads : Own(t) \cap DOMAIN stat' = {}
    BY <1>3, <1>5 DEF StatsOfFrozen, OneHolder
  <2>2. Complete = DOMAIN disk /\ Complete' = DOMAIN disk'
    BY <1>1 DEF Complete, MergeProgress
  <2>3. UNION {disk[x] : x \in DOMAIN disk} \subseteq UNION {disk'[x] : x \in DOMAIN disk'}
    BY <1>4
  <2>4. DocsOf(batch[k]) \subseteq UNION {disk'[x] : x \in DOMAIN disk'}
    BY <1>4
  <2>5. ASSUME NEW s \in DOMAIN stat'
        PROVE  /\ stat'[s] \in {"OnDisk", "Merging"} =>
                    DocsOf(s) \subseteq UNION {disk'[x] : x \in DOMAIN disk'}
               /\ stat'[s] = "Committed" => s \notin Live
    BY <1>5, <2>2, <2>3, <2>4 DEF StatsOfFrozen
  <2> QED  BY <1>6, <1>7, <2>1, <2>2, <2>5 DEF StatsOfFrozen
<1>18. SearchesOwe'
  <2>1. \A r \in readers : ReaderDocs(r)' = ReaderDocs(r)
    BY <1>1, <1>4, <1>7 DEF ReaderDocs, DiskReaders, TypeOK, Readers
  <2>2. \A r : r.kind = "mem" => ReaderDocs(r)' = ReaderDocs(r)
    BY <1>7 DEF ReaderDocs
  <2>3. \A c \in Searchers : \A r \in todo[c] : ReaderDocs(r)' = ReaderDocs(r)
    BY <2>1, <2>2 DEF SearchesOwe, TypeOK, Readers
  <2>4. busy \subseteq Searchers /\ Written' = Written
    BY <1>1 DEF TypeOK, Written
  <2> QED  BY <1>1, <2>3, <2>4 DEF SearchesOwe, searchVars
<1>19. StopOrder'
  BY <1>1 DEF StopOrder, threadVars, ThreadDone
<1> QED  BY <1>10, <1>11, <1>12, <1>13, <1>14, <1>15, <1>16, <1>17, <1>18, <1>19

\* The final id is new as well.
LEMMA MergeBeginKeeps ==
  ASSUME IInv, MergeBegin
  PROVE  IInv'
<1> DEFINE n == nextSegId
<1>1. /\ UNCHANGED <<threadVars, home, readers, queue, batch, tmp, disk, ing,
                     stopReq, mpc, searchVars>>
      /\ wpc = "flush" /\ wpc' = "merging" /\ Len(tmp) = Len(batch)
      /\ final' = n /\ nextSegId' = n + 1
      /\ stat' = [s \in DOMAIN stat |->
                    IF s \in Elems(batch) THEN "Merging" ELSE stat[s]]
  BY DEF MergeBegin
<1> USE DEF IInv
<1>2. /\ n \in Nat /\ n \notin DOMAIN disk /\ n \notin Elems(tmp)
      /\ Disk(n) \notin readers
  BY NextIdIsNew
<1>3. /\ \A t \in Threads : Own(t)' = Own(t)
      /\ InBatch' = InBatch
      /\ Live' = Live
  BY <1>1, LiveFrame DEF threadVars
<1>4. /\ Elems(queue)' = Elems(queue) /\ Elems(batch)' = Elems(batch)
      /\ Elems(tmp)' = Elems(tmp)
      /\ UNCHANGED <<Injective(queue), Injective(batch), Injective(tmp)>>
      /\ \A s : DocsOf(s)' = DocsOf(s)
  BY <1>1 DEF Elems, Injective, DocsOf
<1>5. Flushed = 1 .. Len(batch) /\ Flushed' = 1 .. Len(batch)
  BY <1>1 DEF Flushed
<1>6. /\ DOMAIN stat' = DOMAIN stat
      /\ \A s \in DOMAIN stat : stat'[s] = stat[s] \/ (s \in Elems(batch) /\ stat'[s] = "Merging")
  BY <1>1
<1>7. TypeOK'
  <2>1. stat' \in [DOMAIN stat' -> FrozenSegState]
    BY <1>1 DEF TypeOK, FrozenSegState
  <2> QED  BY <1>1, <1>2, <1>6, <2>1 DEF TypeOK, threadVars, searchVars, WorkerStates
<1>8. IdsBelowNext'
  <2>1. \A u \in Threads : active[u] < n + 1 /\ fresh[u] < n + 1
    BY <1>2 DEF IdsBelowNext, TypeOK
  <2>2. \A r \in readers : r.seg < n + 1
    BY <1>2 DEF IdsBelowNext, TypeOK, Readers
  <2>3. \A s \in Elems(queue) \cup Elems(batch) \cup Elems(tmp) : s < n + 1
    BY <1>2, ElemsType DEF IdsBelowNext, TypeOK
  <2>4. \A s \in DOMAIN stat \cup DOMAIN disk : s < n + 1
    BY <1>2 DEF IdsBelowNext, TypeOK
  <2>5. ASSUME NEW d \in Docs
        PROVE  home[d] < n + 1
    <3>1. home[d] \in Nat \cup {NotAdded} /\ home[d] < n
      BY DEF IdsBelowNext, TypeOK
    <3> QED  BY <3>1, <1>2 DEF NotAdded
  <2> QED  BY <1>1, <1>4, <1>6, <2>1, <2>2, <2>3, <2>4, <2>5 DEF IdsBelowNext, threadVars
<1>9. OneHolder'
  BY <1>1, <1>3, <1>4 DEF OneHolder, threadVars
<1>10. MemReaders'
  BY <1>1, <1>3, <1>4 DEF MemReaders, threadVars, ThreadDone
<1>11. DiskReaders'
  BY <1>1, <1>3 DEF DiskReaders, Published, Written
<1>12. BatchProgress'
  <2>1. \A i \in 1 .. Len(batch) :
          /\ tmp[i] \in DOMAIN disk /\ disk[tmp[i]] = DocsOf(batch[i])
          /\ Disk(tmp[i]) \notin readers
    BY <1>1, <1>5 DEF BatchProgress
  <2>2. Len(tmp) <= Len(batch) /\ Injective(tmp)
    BY <1>1 DEF BatchProgress
  <2>3. \A i \in 1 .. Len(batch) : DocsOf(batch[i])' = DocsOf(batch[i])
    BY <1>1 DEF DocsOf
  <2>4. n < n + 1
    BY <1>2
  <2> QED  BY <1>1, <1>2, <1>4, <1>5, <2>1, <2>2, <2>3, <2>4 DEF BatchProgress
<1>13. MergeProgress'
  <2>1. ing = {}
    BY <1>1 DEF MergeProgress
  <2>2. \A s \in Elems(batch) \cap DOMAIN stat : stat'[s] = "Merging"
    BY <1>1
  <2> QED  BY <1>1, <1>4, <1>6, <2>1, <2>2 DEF MergeProgress
<1>14. StatsOfFrozen'
  <2>1. \A s \in Elems(batch) : DocsOf(s) \subseteq UNION {disk[x] : x \in DOMAIN disk}
    <3>1. \A i \in 1 .. Len(batch) : tmp[i] \in DOMAIN disk /\ disk[tmp[i]] = DocsOf(batch[i])
      BY <1>1, <1>5 DEF BatchProgress
    <3> QED  BY <3>1 DEF Elems
  <2>2. Complete' = Complete
    BY <1>1 DEF Complete
  <2> QED  BY <1>1, <1>3, <1>4, <1>6, <2>1, <2>2 DEF StatsOfFrozen
<1>15. SearchesOwe'
  BY <1>1 DEF SearchesOwe, searchVars, Written, ReaderDocs, DocsOf
<1>16. StopOrder'
  BY <1>1 DEF StopOrder, threadVars, ThreadDone
<1> QED  BY <1>7, <1>8, <1>9, <1>10, <1>11, <1>12, <1>13, <1>14, <1>15, <1>16

\* mergeAll writes the union of the batch into a directory of its own.
LEMMA MergeWriteKeeps ==
  ASSUME IInv, MergeWrite
  PROVE  IInv'
<1> DEFINE all == UNION {disk[x] : x \in Elems(tmp)}
<1>1. /\ UNCHANGED <<nextSegId, threadVars, home, readers, queue, stat, batch,
                     tmp, final, stopReq, mpc, searchVars>>
      /\ wpc = "merging" /\ wpc' = "merged" /\ ing' = {final}
      /\ disk' = Put(disk, final, all)
  BY DEF MergeWrite
<1> USE DEF IInv
<1>2. /\ tmp \in Seq(Nat) /\ batch \in Seq(Nat) /\ Len(tmp) = Len(batch)
      /\ final \in Nat /\ final \notin DOMAIN disk /\ final \notin Elems(tmp)
      /\ final < nextSegId
      /\ \A i \in 1 .. Len(batch) :
           /\ tmp[i] \in DOMAIN disk /\ disk[tmp[i]] = DocsOf(batch[i])
           /\ Disk(tmp[i]) \notin readers
  BY <1>1 DEF TypeOK, BatchProgress, Flushed
<1>3. all = {d \in Docs : home[d] \in Elems(batch)}
  <2>1. \A x \in Elems(tmp) : disk[x] \subseteq {d \in Docs : home[d] \in Elems(batch)}
    BY <1>2 DEF Elems, DocsOf
  <2>2. ASSUME NEW d \in Docs, home[d] \in Elems(batch)
        PROVE  \E x \in Elems(tmp) : d \in disk[x]
    <3>1. PICK i \in 1 .. Len(batch) : home[d] = batch[i]
      BY <2>2 DEF Elems
    <3>2. tmp[i] \in Elems(tmp) /\ d \in disk[tmp[i]]
      BY <1>2, <3>1 DEF Elems, DocsOf
    <3> QED  BY <3>2
  <2> QED  BY <2>1, <2>2
<1> HIDE DEF all
<1>4. /\ DOMAIN disk' = DOMAIN disk \cup {final}
      /\ disk'[final] = all
      /\ \A s \in DOMAIN disk : disk'[s] = disk[s]
  BY <1>1, <1>2 DEF Put
<1>5. /\ \A t \in Threads : Own(t)' = Own(t)
      /\ InBatch' = InBatch
      /\ Live' = Live
  BY <1>1, LiveFrame DEF threadVars
<1>6. /\ Elems(queue)' = Elems(queue) /\ Elems(batch)' = Elems(batch)
      /\ Elems(tmp)' = Elems(tmp)
      /\ UNCHANGED <<Injective(queue), Injective(batch)>>
      /\ \A s : DocsOf(s)' = DocsOf(s)
  BY <1>1 DEF Elems, Injective, DocsOf
<1>7. Disk(final) \notin readers
  BY <1>2 DEF DiskReaders, Disk
<1>8. Published' = Published /\ \A s \in Published : disk'[s] = disk[s]
  BY <1>1, <1>4, <1>7 DEF Published
<1>9. Written' = Written /\ all \subseteq Written /\ all \subseteq Docs
  BY <1>1, <1>2, <1>3, ElemsType DEF Written, NotAdded
<1>10. TypeOK'
  <2>1. disk' \in [DOMAIN disk' -> SUBSET Docs] /\ DOMAIN disk' \subseteq Nat
    BY <1>1, <1>2, <1>4, <1>9 DEF TypeOK, Put
  <2> QED  BY <1>1, <1>2, <2>1 DEF TypeOK, threadVars, searchVars, WorkerStates
<1>11. IdsBelowNext'
  BY <1>1, <1>2, <1>4, <1>6 DEF IdsBelowNext, threadVars
<1>12. OneHolder'
  BY <1>1, <1>5, <1>6 DEF OneHolder, threadVars
<1>13. MemReaders'
  BY <1>1, <1>5, <1>6 DEF MemReaders, threadVars, ThreadDone
<1>14. DiskReaders'
  <2>1. \A s \in DOMAIN disk' : disk'[s] \subseteq Written
    BY <1>4, <1>9 DEF DiskReaders
  <2>2. UNCHANGED <<home, readers, Live, Published, Written>>
    BY <1>1, <1>5, <1>8, <1>9
  <2> QED  BY <1>4, <1>8, <2>1, <2>2 DEF DiskReaders
<1>15. BatchProgress'
  <2>1. disk'[final'] = {d \in Docs : home'[d] \in Elems(batch)'}
    BY <1>1, <1>3, <1>4, <1>6
  <2>2. final' \in DOMAIN disk' /\ final' < nextSegId' /\ Disk(final)' \notin readers'
    BY <1>1, <1>2, <1>4, <1>7 DEF Disk
  <2> QED  BY <1>1, <2>1, <2>2 DEF BatchProgress
<1>16. MergeProgress'
  <2>1. \A i \in 1 .. Len(tmp) :
          Disk(tmp[i])' \notin readers' /\ disk'[tmp[i]] = DocsOf(batch[i])'
    BY <1>1, <1>2, <1>4, <1>6 DEF Disk
  <2>2. \A s \in Elems(batch) \cap DOMAIN stat : stat[s] = "Merging"
    BY <1>1 DEF MergeProgress
  <2>3. Disk(final)' \notin readers'
    BY <1>1, <1>7 DEF Disk
  <2> QED  BY <1>1, <1>2, <1>6, <2>1, <2>2, <2>3 DEF MergeProgress
<1>17. StatsOfFrozen'
  <2>1. Complete' = Complete /\ Complete = DOMAIN disk
    BY <1>1, <1>2, <1>4 DEF Complete, MergeProgress
  <2>2. \A x \in DOMAIN disk : x \in DOMAIN disk' /\ disk'[x] = disk[x]
    BY <1>4
  <2> QED  BY <1>1, <1>5, <1>6, <2>1, <2>2 DEF StatsOfFrozen
<1>18. SearchesOwe'
  <2>1. \A r \in readers : ReaderDocs(r)' = ReaderDocs(r)
    BY <1>4, <1>6 DEF ReaderDocs, DiskReaders, TypeOK, Readers
  <2>2. \A r : r.kind = "mem" => ReaderDocs(r)' = ReaderDocs(r)
    BY <1>6 DEF ReaderDocs
  <2>3. \A c \in Searchers : \A r \in todo[c] : ReaderDocs(r)' = ReaderDocs(r)
    BY <2>1, <2>2 DEF SearchesOwe, TypeOK, Readers
  <2>4. busy \subseteq Searchers
    BY DEF TypeOK
  <2> QED  BY <1>1, <1>9, <2>3, <2>4 DEF SearchesOwe, searchVars
<1>19. StopOrder'
  BY <1>1 DEF StopOrder, threadVars, ThreadDone
<1> QED  BY <1>10, <1>11, <1>12, <1>13, <1>14, <1>15, <1>16, <1>17, <1>18, <1>19

\* A source of the merge goes when its documents are in the output; no reader,
\* hence no search, was ever given it.
LEMMA MergeDeleteKeeps ==
  ASSUME IInv, NEW i \in 1 .. Len(tmp), MergeDelete(i)
  PROVE  IInv'
<1> DEFINE x == tmp[i]
<1>1. /\ UNCHANGED <<nextSegId, threadVars, home, readers, queue, stat, wpc, batch,
                     tmp, final, ing, stopReq, mpc, searchVars>>
      /\ wpc = "merged" /\ x \in DOMAIN disk
      /\ disk' = [s \in DOMAIN disk \ {x} |-> disk[s]]
  BY DEF MergeDelete, workerVars
<1> USE DEF IInv
<1>2. /\ ing = {final} /\ final \notin Elems(tmp) /\ Len(tmp) = Len(batch)
      /\ \A j \in 1 .. Len(tmp) :
           /\ Disk(tmp[j]) \notin readers
           /\ tmp[j] \in DOMAIN disk => disk[tmp[j]] = DocsOf(batch[j])
  BY <1>1 DEF MergeProgress
<1>3. /\ final \in DOMAIN disk /\ disk[final] = {d \in Docs : home[d] \in Elems(batch)}
      /\ Disk(final) \notin readers
  BY <1>1 DEF BatchProgress
<1>4. /\ tmp \in Seq(Nat) /\ batch \in Seq(Nat)
      /\ x \in Elems(tmp) /\ x # final /\ Disk(x) \notin readers
      /\ batch[i] \in Elems(batch) /\ disk[x] = DocsOf(batch[i])
  BY <1>1, <1>2 DEF TypeOK, Elems
<1> HIDE DEF x
<1>5. /\ DOMAIN disk' = DOMAIN disk \ {x}
      /\ \A s \in DOMAIN disk \ {x} : disk'[s] = disk[s]
  BY <1>1
<1>6. /\ \A t \in Threads : Own(t)' = Own(t)
      /\ InBatch' = InBatch
      /\ Live' = Live
  BY <1>1, LiveFrame DEF threadVars
<1>7. /\ Elems(queue)' = Elems(queue) /\ Elems(batch)' = Elems(batch)
      /\ Elems(tmp)' = Elems(tmp)
      /\ UNCHANGED <<Injective(queue), Injective(batch)>>
      /\ \A s : DocsOf(s)' = DocsOf(s)
  BY <1>1 DEF Elems, Injective, DocsOf
<1>8. Published' = Published /\ \A s \in Published : disk'[s] = disk[s]
  BY <1>1, <1>4, <1>5 DEF Published
<1>9. Written' = Written
  BY <1>1 DEF Written
<1>10. TypeOK'
  <2>1. disk' \in [DOMAIN disk' -> SUBSET Docs] /\ DOMAIN disk' \subseteq Nat
    BY <1>1, <1>5 DEF TypeOK
  <2> QED  BY <1>1, <2>1 DEF TypeOK, threadVars, searchVars
<1>11. IdsBelowNext'
  BY <1>1, <1>5, <1>7 DEF IdsBelowNext, threadVars
<1>12. OneHolder'
  BY <1>1, <1>6, <1>7 DEF OneHolder, threadVars
<1>13. MemReaders'
  BY <1>1, <1>6, <1>7 DEF MemReaders, threadVars, ThreadDone
<1>14. DiskReaders'
  <2>1. \A r \in readers : r.kind = "disk" => r.seg \in DOMAIN disk'
    <3>1. \A r \in readers : r.kind = "disk" => r = Disk(r.seg)
      BY DEF TypeOK, Readers, Disk
    <3> QED  BY <1>4, <1>5, <3>1 DEF DiskReaders
  <2>2. \A s \in DOMAIN disk' : disk'[s] \subseteq Written
    BY <1>5 DEF DiskReaders
  <2>3. UNCHANGED <<home, readers, Live, Published, Written>>
    BY <1>1, <1>6, <1>8, <1>9
  <2> QED  BY <1>8, <2>1, <2>2, <2>3 DEF DiskReaders
<1>15. BatchProgress'
  <2>1. disk'[final'] = {d \in Docs : home'[d] \in Elems(batch)'}
    BY <1>1, <1>3, <1>4, <1>5, <1>7
  <2>2. final' \in DOMAIN disk' /\ Disk(final)' \notin readers'
    BY <1>1, <1>3, <1>4, <1>5 DEF Disk
  <2>3. final' < nextSegId'
    BY <1>1 DEF BatchProgress
  <2> QED  BY <1>1, <2>1, <2>2, <2>3 DEF BatchProgress
<1>16. MergeProgress'
  <2>1. \A j \in 1 .. Len(tmp) :
          /\ Disk(tmp[j])' \notin readers'
          /\ tmp[j] \in DOMAIN disk' => disk'[tmp[j]] = DocsOf(batch[j])'
    BY <1>1, <1>2, <1>5, <1>7 DEF Disk
  <2>2. \A s \in Elems(batch) \cap DOMAIN stat : stat[s] = "Merging"
    BY <1>1 DEF MergeProgress
  <2>3. Disk(final)' \notin readers'
    BY <1>1, <1>3 DEF Disk
  <2> QED  BY <1>1, <1>2, <1>7, <2>1, <2>2, <2>3 DEF MergeProgress
<1>17. StatsOfFrozen'
  <2>1. Complete' = Complete \ {x} /\ Complete \subseteq DOMAIN disk
    BY <1>1, <1>5 DEF Complete
  <2>2. ASSUME NEW s \in DOMAIN stat, stat[s] = "OnDisk"
        PROVE  DocsOf(s) \subseteq UNION {disk'[y] : y \in Complete'}
    <3>1. s # batch[i]
      BY <1>1, <1>4, <2>2 DEF MergeProgress
    <3>2. DocsOf(s) \cap disk[x] = {}
      BY <1>4, <3>1 DEF DocsOf
    <3>3. DocsOf(s) \subseteq UNION {disk[y] : y \in Complete}
      BY <2>2 DEF StatsOfFrozen
    <3>4. ASSUME NEW d \in DocsOf(s)
          PROVE  \E y \in Complete' : d \in disk'[y]
      <4>1. PICK y \in Complete : d \in disk[y]
        BY <3>3
      <4>2. y # x
        BY <3>2, <4>1
      <4> QED  BY <1>5, <2>1, <4>1, <4>2
    <3> QED  BY <3>4
  <2>3. ASSUME NEW s \in DOMAIN stat, stat[s] = "Merging"
        PROVE  DocsOf(s) \subseteq UNION {disk'[y] : y \in DOMAIN disk'}
    <3>1. disk[x] \subseteq disk[final] /\ final \in DOMAIN disk'
      BY <1>3, <1>4, <1>5 DEF DocsOf
    <3>2. DocsOf(s) \subseteq UNION {disk[y] : y \in DOMAIN disk}
      BY <2>3 DEF StatsOfFrozen
    <3>3. ASSUME NEW d \in DocsOf(s)
          PROVE  \E y \in DOMAIN disk' : d \in disk'[y]
      <4>1. PICK y \in DOMAIN disk : d \in disk[y]
        BY <3>2
      <4>2. CASE y = x
        BY <1>4, <1>5, <3>1, <4>1, <4>2
      <4>3. CASE y # x
        BY <1>5, <4>1, <4>3
      <4> QED  BY <4>2, <4>3
    <3> QED  BY <3>3
  <2> QED  BY <1>1, <1>6, <1>7, <2>2, <2>3 DEF StatsOfFrozen
<1>18. SearchesOwe'
  <2>1. ASSUME NEW r \in readers
        PROVE  ReaderDocs(r)' = ReaderDocs(r)
    <3>1. CASE r.kind = "mem"
      BY <3>1, <1>7 DEF ReaderDocs
    <3>2. CASE r.kind = "disk"
      <4>1. r = Disk(r.seg) /\ r.seg \in DOMAIN disk
        BY <3>2 DEF TypeOK, Readers, Disk, DiskReaders
      <4>2. r.seg \in Published
        BY <4>1 DEF Published
      <4> QED  BY <1>8, <3>2, <4>2 DEF ReaderDocs
    <3> QED  BY <3>1, <3>2 DEF TypeOK, Readers
  <2>2. \A r : r.kind = "mem" => ReaderDocs(r)' = ReaderDocs(r)
    BY <1>7 DEF ReaderDocs
  <2>3. \A c \in Searchers : \A r \in todo[c] : ReaderDocs(r)' = ReaderDocs(r)
    BY <2>1, <2>2 DEF SearchesOwe, TypeOK, Readers
  <2>4. busy \subseteq Searchers
    BY DEF TypeOK
  <2> QED  BY <1>1, <1>9, <2>3, <2>4 DEF SearchesOwe, searchVars
<1>19. StopOrder'
  BY <1>1 DEF StopOrder, threadVars, ThreadDone
<1> QED  BY <1>10, <1>11, <1>12, <1>13, <1>14, <1>15, <1>16, <1>17, <1>18, <1>19

\* .done makes the output complete.
LEMMA MergeDoneKeeps ==
  ASSUME IInv, MergeDone
  PROVE  IInv'
<1>1. /\ UNCHANGED <<nextSegId, threadVars, home, readers, queue, stat, batch,
                     tmp, final, disk, stopReq, mpc, searchVars>>
      /\ wpc = "merged" /\ wpc' = "commit" /\ ing' = {}
  BY DEF MergeDone
<1> USE DEF IInv
<1>2. /\ \A t \in Threads : Own(t)' = Own(t)
      /\ InBatch' = InBatch
      /\ Live' = Live
  BY <1>1, LiveFrame DEF threadVars
<1>3. /\ Elems(queue)' = Elems(queue) /\ Elems(batch)' = Elems(batch)
      /\ Elems(tmp)' = Elems(tmp)
      /\ UNCHANGED <<Injective(queue), Injective(batch)>>
      /\ \A s : DocsOf(s)' = DocsOf(s)
  BY <1>1 DEF Elems, Injective, DocsOf
<1>4. TypeOK'
  BY <1>1 DEF TypeOK, threadVars, searchVars, WorkerStates
<1>5. IdsBelowNext'
  BY <1>1, <1>3 DEF IdsBelowNext, threadVars
<1>6. OneHolder'
  BY <1>1, <1>2, <1>3 DEF OneHolder, threadVars
<1>7. MemReaders'
  BY <1>1, <1>2, <1>3 DEF MemReaders, threadVars, ThreadDone
<1>8. DiskReaders'
  BY <1>1, <1>2 DEF DiskReaders, Published, Written
<1>9. BatchProgress'
  <2>1. /\ final < nextSegId /\ final \in DOMAIN disk
        /\ disk[final] = {d \in Docs : home[d] \in Elems(batch)}
        /\ Disk(final) \notin readers
    BY <1>1 DEF BatchProgress
  <2>2. Disk(final)' \notin readers'
    BY <1>1, <2>1 DEF Disk
  <2>3. disk'[final'] = {d \in Docs : home'[d] \in Elems(batch)'}
    BY <1>1, <1>3, <2>1
  <2> QED  BY <1>1, <2>1, <2>2, <2>3 DEF BatchProgress
<1>10. MergeProgress'
  BY <1>1 DEF MergeProgress
<1>11. StatsOfFrozen'
  <2>1. Complete \subseteq Complete'
    BY <1>1 DEF Complete
  <2>2. \A s \in DOMAIN stat : stat[s] = "OnDisk" =>
          DocsOf(s) \subseteq UNION {disk[y] : y \in Complete'}
    BY <2>1 DEF StatsOfFrozen
  <2> QED  BY <1>1, <1>2, <1>3, <2>2 DEF StatsOfFrozen
<1>12. SearchesOwe'
  BY <1>1 DEF SearchesOwe, searchVars, Written, ReaderDocs, DocsOf
<1>13. StopOrder'
  BY <1>1 DEF StopOrder, threadVars, ThreadDone
<1> QED  BY <1>4, <1>5, <1>6, <1>7, <1>8, <1>9, <1>10, <1>11, <1>12, <1>13

\* commitDiskSegment swaps the readers of the batch for one disk reader.
LEMMA CommitKeeps ==
  ASSUME IInv, CommitDiskSegment
  PROVE  IInv'
<1> DEFINE gone == {Mem(s) : s \in Elems(batch)}
<1>1. /\ UNCHANGED <<nextSegId, threadVars, home, queue, stat, batch, tmp,
                     final, disk, ing, stopReq, mpc, searchVars>>
      /\ wpc = "commit" /\ wpc' = "mark"
      /\ readers' = (readers \cup {Disk(final)}) \ gone
  BY DEF CommitDiskSegment
<1> USE DEF IInv
<1>2. /\ final \in DOMAIN disk /\ final \in Nat
      /\ disk[final] = {d \in Docs : home[d] \in Elems(batch)}
      /\ Disk(final) \notin readers
  BY <1>1 DEF BatchProgress, TypeOK
<1>3. /\ \A r : r.kind = "disk" => r \notin gone
      /\ \A s : Mem(s) \in gone <=> s \in Elems(batch)
      /\ \A s : Mem(s) \in readers' <=> (Mem(s) \in readers /\ s \notin Elems(batch))
      /\ \A s : Disk(s) \in readers' <=> (Disk(s) \in readers \/ s = final)
  <2>1. \A r : r.kind = "disk" => r \notin gone
    BY DEF Mem
  <2>2. \A s : Mem(s) \in gone <=> s \in Elems(batch)
    BY DEF Mem
  <2>3. \A s : Mem(s) # Disk(final) /\ Disk(s).kind = "disk"
    BY DEF Mem, Disk
  <2>4. \A s : Disk(s) = Disk(final) <=> s = final
    BY DEF Disk
  <2> HIDE DEF gone
  <2>5. \A s : Mem(s) \in readers' <=> (Mem(s) \in readers /\ s \notin Elems(batch))
    BY <1>1, <2>2, <2>3
  <2>6. \A s : Disk(s) \in readers' <=> (Disk(s) \in readers \/ s = final)
    BY <1>1, <2>1, <2>3, <2>4
  <2> QED  BY <2>1, <2>2, <2>5, <2>6
<1>4. \A t \in Threads : Own(t)' = Own(t)
  BY <1>1 DEF Own, threadVars
<1>5. /\ Elems(queue)' = Elems(queue) /\ Elems(batch)' = Elems(batch)
      /\ Elems(tmp)' = Elems(tmp)
      /\ UNCHANGED <<Injective(queue), Injective(batch)>>
      /\ \A s : DocsOf(s)' = DocsOf(s)
  BY <1>1 DEF Elems, Injective, DocsOf
<1>6. /\ InBatch = Elems(batch) /\ InBatch' = {}
      /\ Live' \subseteq Live /\ Live = Live' \cup Elems(batch)
  <2>1. InBatch = Elems(batch) /\ InBatch' = {}
    BY <1>1 DEF InBatch
  <2> QED  BY <1>4, <1>5, <2>1 DEF Live
<1>7. Live' \cap Elems(batch) = {}
  BY <1>4, <1>5, <1>6 DEF Live, OneHolder
<1>8. Published' = Published \cup {final} /\ final \notin Published
  BY <1>1, <1>2, <1>3 DEF Published
<1>9. TypeOK'
  <2>1. readers' \subseteq Readers
    BY <1>1, <1>2 DEF TypeOK, Readers, Disk
  <2> QED  BY <1>1, <2>1 DEF TypeOK, threadVars, searchVars, WorkerStates
<1>10. IdsBelowNext'
  <2>1. \A r \in readers' : r.seg < nextSegId
    BY <1>1, <1>2 DEF IdsBelowNext, Disk
  <2> QED  BY <1>1, <1>5, <2>1 DEF IdsBelowNext, threadVars
<1>11. OneHolder'
  BY <1>1, <1>4, <1>5 DEF OneHolder, threadVars
<1>12. MemReaders'
  <2>1. ASSUME NEW r \in readers', r.kind = "mem"
        PROVE  r.seg \in Live'
    <3>1. r \in readers /\ r = Mem(r.seg)
      BY <1>1, <2>1 DEF TypeOK, Readers, Mem, Disk
    <3>2. r.seg \in Live /\ r.seg \notin Elems(batch)
      BY <1>1, <2>1, <3>1, <1>3 DEF MemReaders
    <3> QED  BY <1>6, <3>2
  <2>2. \A s \in Elems(queue) : Mem(s) \in readers'
    BY <1>3 DEF MemReaders, OneHolder
  <2>3. ASSUME NEW t \in Threads, NEW s \in Own(t)
        PROVE  Mem(s) \in readers' \/ ThreadDone(t)
    BY <1>3 DEF MemReaders, OneHolder
  <2> QED  BY <1>1, <1>4, <1>5, <1>6, <2>1, <2>2, <2>3 DEF MemReaders, threadVars, ThreadDone
<1>13. DiskReaders'
  <2>1. Written' = Written
    BY <1>1 DEF Written
  <2>2. \A r \in readers' : r.kind = "disk" => r.seg \in DOMAIN disk
    BY <1>1, <1>2 DEF DiskReaders, Disk
  <2>3. \A d \in Written : home[d] \in Elems(batch) => d \in disk[final]
    BY <1>2 DEF Written
  <2>4. \A d \in Written : d \in disk[final] => home[d] \in Elems(batch) /\ home[d] \in Live
    BY <1>2, <1>6
  <2>5. ASSUME NEW d \in Written, NEW s \in Published \cup {final}, d \in disk[s]
        PROVE  /\ home[d] \notin Live'
               /\ \A x \in Published \cup {final} : d \in disk[x] => x = s
    <3>1. CASE s = final
      BY <2>4, <2>5, <3>1, <1>7 DEF DiskReaders
    <3>2. CASE s \in Published
      BY <2>4, <2>5, <3>2, <1>6 DEF DiskReaders
    <3> QED  BY <2>5, <3>1, <3>2
  <2>6. ASSUME NEW d \in Written
        PROVE  home[d] \in Live' \/ \E s \in Published \cup {final} : d \in disk[s]
    <3>1. CASE home[d] \in Elems(batch)
      BY <3>1, <2>3
    <3>2. CASE home[d] \notin Elems(batch)
      BY <3>2, <1>6 DEF DiskReaders
    <3> QED  BY <3>1, <3>2
  <2>7. \A s \in DOMAIN disk : disk[s] \subseteq Written
    BY DEF DiskReaders
  <2> QED  BY <1>1, <1>8, <2>1, <2>2, <2>5, <2>6, <2>7 DEF DiskReaders
<1>14. BatchProgress'
  <2>1. disk'[final'] = {d \in Docs : home'[d] \in Elems(batch)'}
    BY <1>1, <1>2, <1>5
  <2>2. final' \in DOMAIN disk' /\ Disk(final)' \in readers'
    BY <1>1, <1>2, <1>3 DEF Disk
  <2> QED  BY <1>1, <2>1, <2>2 DEF BatchProgress
<1>15. MergeProgress'
  <2>1. ing = {}
    BY <1>1 DEF MergeProgress
  <2> QED  BY <1>1, <2>1 DEF MergeProgress
<1>16. StatsOfFrozen'
  BY <1>1, <1>4, <1>5, <1>6 DEF StatsOfFrozen, Complete
<1>17. SearchesOwe'
  <2>1. \A c \in Searchers : \A r \in todo[c] : r.kind = "disk" => r \in readers'
    BY <1>1, <1>3 DEF SearchesOwe
  <2> QED  BY <1>1, <2>1 DEF SearchesOwe, searchVars, Written, ReaderDocs, DocsOf
<1>18. StopOrder'
  BY <1>1 DEF StopOrder, threadVars, ThreadDone
<1> QED  BY <1>9, <1>10, <1>11, <1>12, <1>13, <1>14, <1>15, <1>16, <1>17, <1>18

\* The worker forgets a batch only after the swap.
LEMMA MarkCommittedKeeps ==
  ASSUME IInv, MarkCommitted
  PROVE  IInv'
<1>1. /\ UNCHANGED <<nextSegId, threadVars, home, readers, queue, disk, ing, stopReq,
                     mpc, searchVars>>
      /\ wpc = "mark" /\ wpc' = "loop"
      /\ batch' = <<>> /\ tmp' = <<>> /\ final' = NotAdded
      /\ stat' = [s \in DOMAIN stat |->
                    IF s \in Elems(batch) THEN "Committed" ELSE stat[s]]
  BY DEF MarkCommitted
<1> USE DEF IInv
<1>2. Elems(batch)' = {} /\ Elems(tmp)' = {} /\ Elems(queue)' = Elems(queue)
  BY <1>1 DEF Elems
<1>3. \A t \in Threads : Own(t)' = Own(t)
  BY <1>1 DEF Own, threadVars
<1>4. InBatch = {} /\ InBatch' = {}
  BY <1>1, <1>2 DEF InBatch
<1>5. Live' = Live
  BY <1>2, <1>3, <1>4 DEF Live
<1>6. /\ UNCHANGED Injective(queue) /\ Injective(batch)'
      /\ \A s : DocsOf(s)' = DocsOf(s)
  BY <1>1 DEF Injective, DocsOf
<1>7. Elems(batch) \cap Live = {}
  BY <1>4 DEF Live, OneHolder
<1>8. /\ DOMAIN stat' = DOMAIN stat
      /\ \A s \in DOMAIN stat : stat'[s] = stat[s] \/ s \in Elems(batch)
  BY <1>1
<1>9. TypeOK'
  <2>1. stat' \in [DOMAIN stat' -> FrozenSegState]
    BY <1>1 DEF TypeOK, FrozenSegState
  <2>2. batch' \in Seq(Nat) /\ tmp' \in Seq(Nat) /\ final' \in Nat \cup {NotAdded}
    BY <1>1
  <2>3. wpc' \in WorkerStates
    BY <1>1 DEF WorkerStates
  <2> QED  BY <1>1, <1>8, <2>1, <2>2, <2>3 DEF TypeOK, threadVars, searchVars
<1>10. IdsBelowNext'
  BY <1>1, <1>2, <1>8 DEF IdsBelowNext, threadVars
<1>11. OneHolder'
  BY <1>1, <1>2, <1>3, <1>6 DEF OneHolder, threadVars
<1>12. MemReaders'
  BY <1>1, <1>2, <1>3, <1>4, <1>5, <1>6 DEF MemReaders, threadVars, ThreadDone
<1>13. DiskReaders'
  BY <1>1, <1>5 DEF DiskReaders, Published, Written
<1>14. BatchProgress'
  BY <1>1 DEF BatchProgress
<1>15. MergeProgress'
  <2>1. ing = {}
    BY <1>1 DEF MergeProgress
  <2> QED  BY <1>1, <2>1 DEF MergeProgress
<1>16. StatsOfFrozen'
  <2>1. \A s \in DOMAIN stat : stat'[s] = "OnDisk" => stat[s] = "OnDisk"
    BY <1>1
  <2>2. \A s \in DOMAIN stat : stat'[s] = "Merging" => stat[s] = "Merging"
    BY <1>1
  <2> QED  BY <1>1, <1>3, <1>5, <1>6, <1>7, <1>8, <2>1, <2>2 DEF StatsOfFrozen, Complete
<1>17. SearchesOwe'
  BY <1>1 DEF SearchesOwe, searchVars, Written, ReaderDocs, DocsOf
<1>18. StopOrder'
  BY <1>1 DEF StopOrder, threadVars, ThreadDone
<1> QED  BY <1>9, <1>10, <1>11, <1>12, <1>13, <1>14, <1>15, <1>16, <1>17, <1>18

-----------------------------------------------------------------------------
(* The invariant and the safety properties                                 *)

\* A step that changes nothing keeps everything.
LEMMA StutterKeeps ==
  ASSUME IInv, UNCHANGED vars
  PROVE  IInv'
<1>1. UNCHANGED <<nextSegId, threadVars, home, readers, queue, stat,
                  workerVars, disk, ing, stopReq, mpc, searchVars>>
  BY DEF vars
<1> USE DEF IInv
<1>2. /\ \A t \in Threads : Own(t)' = Own(t)
      /\ InBatch' = InBatch
      /\ Live' = Live
  BY <1>1, LiveFrame DEF threadVars, workerVars
<1>3. TypeOK'
  BY <1>1 DEF TypeOK, threadVars, workerVars, searchVars
<1>4. IdsBelowNext' /\ OneHolder'
  BY <1>1, <1>2 DEF IdsBelowNext, OneHolder, threadVars, workerVars, Elems, Injective
<1>5. MemReaders' /\ DiskReaders'
  BY <1>1, <1>2 DEF MemReaders, DiskReaders, Published, Written, threadVars, Elems,
     ThreadDone, DocsOf
<1>6. BatchProgress'
  BY <1>1 DEF BatchProgress, workerVars, Flushed, Injective, DocsOf, Elems
<1>7. MergeProgress'
  BY <1>1 DEF MergeProgress, workerVars, Elems, DocsOf
<1>8. StatsOfFrozen'
  BY <1>1, <1>2 DEF StatsOfFrozen, Complete, DocsOf
<1>9. SearchesOwe'
  BY <1>1 DEF SearchesOwe, searchVars, Written, ReaderDocs, DocsOf
<1>10. StopOrder'
  BY <1>1 DEF StopOrder, threadVars, workerVars, ThreadDone
<1> QED  BY <1>3, <1>4, <1>5, <1>6, <1>7, <1>8, <1>9, <1>10

\* IInv holds in every reachable state, for any number of threads, documents
\* and searchers, any batch size, and whether or not the worker may throw.
THEOREM Invariance == Spec => []IInv
<1>1. Init => IInv
  BY InitIInv
<1>2. IInv /\ [Next]_vars => IInv'
  <2> SUFFICES ASSUME IInv, [Next]_vars
               PROVE  IInv'
    OBVIOUS
  <2>1. CASE UNCHANGED vars
    BY <2>1, StutterKeeps
  <2>2. ASSUME wpc # "terminated", NEW t \in Threads, ThreadStep(t)
        PROVE  IInv'
    <3>1. ASSUME NEW d \in Docs, AddDocument(t, d)
          PROVE  IInv'
      BY <3>1, AddDocumentKeeps
    <3>2. CASE FreezeRegister(t)
      BY <3>2, FreezeRegisterKeeps
    <3>3. CASE FreezePush(t)
      BY <3>3, FreezePushKeeps
    <3>4. CASE FreezeSwitch(t)
      BY <3>4, FreezeSwitchKeeps
    <3>5. CASE Shutdown(t)
      BY <3>5, ShutdownKeeps
    <3> QED  BY <2>2, <3>1, <3>2, <3>3, <3>4, <3>5 DEF ThreadStep
  <2>3. CASE ManagerStep
    BY <2>3, ManagerKeeps
  <2>4. ASSUME wpc # "terminated", WorkerStep \/ WorkerThrow
        PROVE  IInv'
    <3>1. CASE WorkerLoop \/ UseSingle \/ WorkerThrow
      BY <2>4, <3>1, WorkerControlKeeps
    <3>2. CASE WorkerTake \/ WorkerDrain
      <4>1. CASE TakeBatch
        BY <3>2, <4>1, TakeBatchKeeps DEF WorkerTake, WorkerDrain
      <4>2. CASE ~TakeBatch
        BY <2>4, <3>2, <4>2, WorkerControlKeeps DEF WorkerTake, WorkerDrain
      <4> QED  BY <4>1, <4>2
    <3>3. CASE FlushBegin
      BY <3>3, FlushBeginKeeps
    <3>4. CASE FlushEnd
      BY <3>4, FlushEndKeeps
    <3>5. CASE MergeBegin
      BY <3>5, MergeBeginKeeps
    <3>6. CASE MergeWrite
      BY <3>6, MergeWriteKeeps
    <3>7. ASSUME NEW i \in 1 .. Len(tmp), MergeDelete(i)
          PROVE  IInv'
      BY <3>7, MergeDeleteKeeps
    <3>8. CASE MergeDone
      BY <3>8, MergeDoneKeeps
    <3>9. CASE CommitDiskSegment
      BY <3>9, CommitKeeps
    <3>10. CASE MarkCommitted
      BY <3>10, MarkCommittedKeeps
    <3> QED  BY <2>4, <3>1, <3>2, <3>3, <3>4, <3>5, <3>6, <3>7, <3>8, <3>9, <3>10
             DEF WorkerStep
  <2>5. ASSUME NEW c \in Searchers, SearchStep(c)
        PROVE  IInv'
    BY <2>5, SearchKeeps
  <2> QED  BY <2>1, <2>2, <2>3, <2>4, <2>5 DEF Next
<1> QED  BY <1>1, <1>2, PTL DEF Spec

\* Every variable keeps its type.
THEOREM TypeCorrect == Spec => []TypeOK
<1>1. IInv => TypeOK
  BY DEF IInv
<1> QED  BY <1>1, Invariance, PTL

\* Every written document is shown by exactly one registered reader, always.
THEOREM OneReaderPerDocument == Spec => []ExactlyOneReader
<1>1. ASSUME IInv, NEW d \in Written
      PROVE  \E r \in readers : Showing(d) = {r}
  <2> USE <1>1 DEF IInv
  <2>1. PICK r \in readers : d \in ReaderDocs(r)
    BY ReadersShowWritten
  <2>2. \A q \in readers : \/ q.kind = "mem" /\ q = Mem(q.seg)
                           \/ q.kind = "disk" /\ q = Disk(q.seg) /\ q.seg \in Published
    BY DEF TypeOK, Readers, Mem, Disk, DiskReaders, Published
  <2>3. ASSUME NEW q \in readers, d \in ReaderDocs(q)
        PROVE  q = r
    <3>1. CASE q.kind = "mem" /\ r.kind = "mem"
      <4>1. home[d] = q.seg /\ home[d] = r.seg
        BY <2>1, <2>3, <3>1 DEF ReaderDocs, DocsOf
      <4> QED  BY <2>2, <3>1, <4>1
    <3>2. CASE q.kind = "disk" /\ r.kind = "disk"
      <4>1. q.seg \in Published /\ r.seg \in Published /\ d \in disk[q.seg] /\ d \in disk[r.seg]
        BY <2>1, <2>2, <2>3, <3>2 DEF ReaderDocs
      <4>2. q.seg = r.seg
        BY <4>1 DEF DiskReaders
      <4> QED  BY <2>2, <3>2, <4>2
    <3>3. CASE q.kind = "mem" /\ r.kind = "disk"
      <4>1. home[d] = q.seg /\ q.seg \in Live
        BY <2>3, <3>3 DEF ReaderDocs, DocsOf, MemReaders
      <4>2. r.seg \in Published /\ d \in disk[r.seg]
        BY <2>1, <2>2, <3>3 DEF ReaderDocs
      <4> QED  BY <4>1, <4>2 DEF DiskReaders
    <3>4. CASE q.kind = "disk" /\ r.kind = "mem"
      <4>1. home[d] = r.seg /\ r.seg \in Live
        BY <2>1, <3>4 DEF ReaderDocs, DocsOf, MemReaders
      <4>2. q.seg \in Published /\ d \in disk[q.seg]
        BY <2>2, <2>3, <3>4 DEF ReaderDocs
      <4> QED  BY <4>1, <4>2 DEF DiskReaders
    <3> QED  BY <2>2, <3>1, <3>2, <3>3, <3>4
  <2> QED  BY <2>1, <2>3 DEF Showing
<1>2. IInv => ExactlyOneReader
  BY <1>1 DEF ExactlyOneReader
<1> QED  BY <1>2, Invariance, PTL

\* A search whose snapshot is scanned has found all that was written before it.
THEOREM SearchesAreComplete == Spec => []SearchComplete
<1>1. IInv => SearchComplete
  BY DEF IInv, SearchesOwe, SearchComplete
<1> QED  BY <1>1, Invariance, PTL

\* After stop() every document is in a registered disk segment.
THEOREM StopIsComplete == Spec => []StopFlushesAll
<1>1. ASSUME IInv, mpc = "stopped"
      PROVE  /\ queue = <<>> /\ batch = <<>>
             /\ \A d \in Written : \E s \in Complete : d \in disk[s] /\ Disk(s) \in readers
  <2> USE <1>1 DEF IInv
  <2>1. queue = <<>> /\ wpc = "exited" /\ \A t \in Threads : ThreadDone(t)
    BY DEF StopOrder
  <2>2. batch = <<>>
    BY <2>1 DEF BatchProgress
  <2>3. \A t \in Threads : Own(t) = {active[t]} /\ DocsOf(active[t]) = {}
    BY <2>1 DEF ThreadDone, Own, OneHolder, MemReaders
  <2>4. Elems(queue) = {} /\ InBatch = {}
    BY <2>1, <2>2 DEF Elems, InBatch
  <2>5. \A d \in Written : home[d] \notin Live
    BY <2>3, <2>4 DEF Live, DocsOf, Written
  <2>6. Published \subseteq Complete
    BY PublishedComplete
  <2> QED  BY <2>1, <2>2, <2>5, <2>6 DEF DiskReaders, Published
<1>2. IInv => StopFlushesAll
  BY <1>1 DEF StopFlushesAll
<1> QED  BY <1>2, Invariance, PTL

\* FrozenSegStats never runs ahead of the disk or of the reader list.
THEOREM StatsAreHonest == Spec => []StatsHonest
<1>1. ASSUME IInv, NEW s \in DOMAIN stat, stat[s] = "Committed"
      PROVE  /\ Mem(s) \notin readers
             /\ \A d \in DocsOf(s) : \E x \in Complete : d \in disk[x] /\ Disk(x) \in readers
  <2> USE <1>1 DEF IInv
  <2>1. s \notin Live /\ s \in Nat
    BY DEF StatsOfFrozen, TypeOK
  <2>2. Mem(s) \notin readers
    BY <2>1 DEF MemReaders, Mem
  <2>3. DocsOf(s) \subseteq Written
    BY <2>1 DEF DocsOf, Written, NotAdded
  <2>4. Published \subseteq Complete
    BY PublishedComplete
  <2> QED  BY <2>1, <2>2, <2>3, <2>4 DEF DiskReaders, Published, DocsOf
<1>2. ASSUME IInv, NEW s \in DOMAIN stat
      PROVE  /\ stat[s] = "OnDisk" => DocsOf(s) \subseteq UNION {disk[x] : x \in Complete}
             /\ stat[s] = "Merging" =>
                  /\ DocsOf(s) \subseteq UNION {disk[x] : x \in DOMAIN disk}
                  /\ ing \subseteq {final}
  BY <1>2 DEF IInv, StatsOfFrozen, MergeProgress
<1>3. IInv => StatsHonest
  BY <1>1, <1>2 DEF StatsHonest
<1> QED  BY <1>3, Invariance, PTL

\* No memory segment is queued, batched or held twice.
THEOREM SegmentsHaveOneHolder == Spec => []NoSegmentTwice
<1>1. IInv => NoSegmentTwice
  <2> SUFFICES ASSUME IInv PROVE NoSegmentTwice
    OBVIOUS
  <2>1. \A t \in Threads : Own(t) \subseteq {active[t], fresh[t]}
    BY DEF Own
  <2>2. \A r \in readers : r.kind = "mem" =>
          \/ \E t \in Threads : r.seg \in {active[t], fresh[t]}
          \/ r.seg \in Elems(queue) \cup Elems(batch)
    BY <2>1 DEF IInv, MemReaders, Live, InBatch
  <2> QED  BY <2>2 DEF IInv, OneHolder, Injective, NoSegmentTwice
<1> QED  BY <1>1, Invariance, PTL

-----------------------------------------------------------------------------
(* The refinement of DocVisibility                                         *)

\* What a search would find is what was written.
LEMMA VisibleIsWritten == IInv => Visible = Written
BY ReadersShowWritten DEF Visible

\* Writes and searches of the pipeline are those of DocVisibility, all other
\* steps leave its variables alone.
LEMMA StepRefines ==
  ASSUME IInv, IInv', [Next]_vars
  PROVE  [Promise!Next]_Promise!vars
<1> DEFINE answer == [c \in Searchers |-> IF c \in busy THEN {} ELSE found[c]]
<1>1. Visible = Written /\ Visible' = Written'
  <2>1. Visible = Written
    BY VisibleIsWritten
  <2>2. (IInv => Visible = Written)'
    BY VisibleIsWritten, PTL
  <2> QED  BY <2>1, <2>2
<1>2. ASSUME UNCHANGED home, UNCHANGED <<found, floor, busy>>
      PROVE  UNCHANGED Promise!vars
  <2>1. Written' = Written
    BY <1>2 DEF Written
  <2>2. answer' = answer
    BY <1>2
  <2> QED  BY <1>1, <1>2, <2>1, <2>2 DEF Promise!vars
<1>3. ASSUME NEW t \in Threads, NEW d \in Docs, AddDocument(t, d)
      PROVE  Promise!Next
  <2>1. d \notin Written /\ UNCHANGED <<found, floor, busy>>
    BY <1>3 DEF AddDocument, Written, searchVars
  <2>2. active[t] # NotAdded
    BY DEF IInv, TypeOK, NotAdded
  <2>3. Written' = Written \cup {d}
    BY <1>3, <2>2 DEF AddDocument, Written, IInv, TypeOK
  <2>4. answer' = answer
    BY <2>1
  <2>5. Promise!Write(d)
    BY <1>1, <2>1, <2>3, <2>4 DEF Promise!Write
  <2> QED  BY <2>5 DEF Promise!Next
<1>4. ASSUME NEW c \in Searchers, SearchBegin(c)
      PROVE  Promise!Next
  <2>1. /\ c \notin busy /\ busy' = busy \cup {c} /\ Written' = Written
        /\ found' = [found EXCEPT ![c] = {}] /\ floor' = [floor EXCEPT ![c] = Written]
    BY <1>4 DEF SearchBegin, Written
  <2>2. answer' = [answer EXCEPT ![c] = {}]
    BY <2>1 DEF IInv, TypeOK
  <2>3. Promise!BeginSearch(c)
    BY <1>1, <2>1, <2>2 DEF Promise!BeginSearch
  <2> QED  BY <2>3 DEF Promise!Next
<1>5. ASSUME NEW c \in Searchers, NEW r \in todo[c], SearchReader(c, r)
      PROVE  UNCHANGED Promise!vars
  <2>1. c \in busy
    BY <1>5 DEF IInv, SearchesOwe
  <2>2. /\ UNCHANGED <<home, floor, busy>>
        /\ \A x \in Searchers \ {c} : found'[x] = found[x]
    BY <1>5 DEF SearchReader, IInv, TypeOK
  <2>3. Written' = Written
    BY <2>2 DEF Written
  <2>4. answer' = answer
    BY <2>1, <2>2
  <2> QED  BY <1>1, <2>2, <2>3, <2>4 DEF Promise!vars
<1>6. ASSUME NEW c \in Searchers, SearchEnd(c)
      PROVE  Promise!Next
  <2>1. /\ c \in busy /\ busy' = busy \ {c} /\ todo[c] = {}
        /\ UNCHANGED <<home, found, floor>>
    BY <1>6 DEF SearchEnd
  <2>2. Written' = Written
    BY <2>1 DEF Written
  <2>3. floor[c] \subseteq found[c] /\ found[c] \subseteq Written
    BY <2>1 DEF IInv, SearchesOwe
  <2>4. answer' = [answer EXCEPT ![c] = found[c]]
    BY <2>1
  <2>5. Promise!EndSearch(c)
    BY <1>1, <2>1, <2>2, <2>3, <2>4 DEF Promise!EndSearch
  <2> QED  BY <2>5 DEF Promise!Next
<1>7. CASE UNCHANGED vars
  BY <1>2, <1>7 DEF vars, searchVars
<1>8. ASSUME NEW t \in Threads,
             FreezeRegister(t) \/ FreezePush(t) \/ FreezeSwitch(t) \/ Shutdown(t)
      PROVE  UNCHANGED Promise!vars
  BY <1>2, <1>8 DEF FreezeRegister, FreezePush, FreezeSwitch, Shutdown, searchVars
<1>9. CASE ManagerStep
  BY <1>2, <1>9 DEF ManagerStep, StopBegin, StopWorker, StopJoin, searchVars
<1>10. CASE WorkerStep \/ WorkerThrow
  <2>1. UNCHANGED home /\ UNCHANGED searchVars
    BY <1>10 DEF WorkerStep, WorkerThrow, WorkerLoop, WorkerTake, WorkerDrain, TakeBatch,
       TakeNothing, FlushBegin, FlushEnd, UseSingle, MergeBegin, MergeWrite,
       MergeDelete, MergeDone, CommitDiskSegment, MarkCommitted
  <2> QED  BY <1>2, <2>1 DEF searchVars
<1> QED  BY <1>3, <1>4, <1>5, <1>6, <1>7, <1>8, <1>9, <1>10
         DEF Next, ThreadStep, SearchStep

\* The pipeline implements DocVisibility: freezing, flushing, merging,
\* committing and stopping are invisible to the clients.
THEOREM ImplementsPromise == Spec => KeepsPromise
<1>1. Init => Promise!Init
  <2> SUFFICES ASSUME Init PROVE Promise!Init
    OBVIOUS
  <2>1. Visible = {}
    <3>1. IInv /\ Written = {}
      BY InitIInv DEF Init, Written
    <3> QED  BY <3>1, VisibleIsWritten
  <2>2. /\ [c \in Searchers |-> IF c \in busy THEN {} ELSE found[c]] = [c \in Searchers |-> {}]
        /\ floor = [c \in Searchers |-> {}] /\ busy = {}
    BY DEF Init
  <2> QED  BY <2>1, <2>2 DEF Promise!Init
<1>2. IInv /\ IInv' /\ [Next]_vars => [Promise!Next]_Promise!vars
  BY StepRefines
<1> QED  BY <1>1, <1>2, Invariance, PTL DEF Spec, KeepsPromise, Promise!Spec
=============================================================================
