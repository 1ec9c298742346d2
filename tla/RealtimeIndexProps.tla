------------------------- MODULE RealtimeIndexProps -------------------------
(***************************************************************************)
(* Correctness of the real-time write path modelled in RealtimeIndex: the  *)
(* type invariant, the safety invariants with the inductive invariant that *)
(* implies them, the liveness properties under the fairness of the code's  *)
(* threads, and the refinement of DocVisibility.                           *)
(***************************************************************************)
EXTENDS RealtimeIndex

-----------------------------------------------------------------------------
(* Types                                                                   *)

ThreadStates == {"idle", "register", "push", "switch"}
WorkerStates == {"loop", "take", "drain", "flush", "flushing", "merging",
                 "merged", "commit", "mark", "exited", "terminated"}
FrozenSegState == {"Queued", "Flushing", "OnDisk", "Merging", "Committed"}
Readers == [kind : {"mem", "disk"}, seg : Nat]

\* Every variable has the type of the C++ member or local it stands for.
TypeOK ==
  /\ nextSegId \in Nat
  /\ active \in [Threads -> Nat]
  /\ fresh  \in [Threads -> Nat]
  /\ tpc    \in [Threads -> ThreadStates]
  /\ shut   \in [Threads -> BOOLEAN]
  /\ home   \in [Docs -> Nat \cup {NotAdded}]
  /\ readers \subseteq Readers
  /\ queue \in Seq(Nat)
  /\ stat \in [DOMAIN stat -> FrozenSegState]
  /\ DOMAIN stat \subseteq Nat
  /\ wpc \in WorkerStates
  /\ batch \in Seq(Nat)
  /\ tmp \in Seq(Nat)
  /\ final \in Nat \cup {NotAdded}
  /\ disk \in [DOMAIN disk -> SUBSET Docs]
  /\ DOMAIN disk \subseteq Nat
  /\ ing \subseteq Nat
  /\ stopReq \in BOOLEAN
  /\ mpc \in {"running", "shutting", "joining", "stopped"}
  /\ todo  \in [Searchers -> SUBSET Readers]
  /\ found \in [Searchers -> SUBSET Docs]
  /\ floor \in [Searchers -> SUBSET Docs]
  /\ busy \subseteq Searchers

-----------------------------------------------------------------------------
(* Safety                                                                  *)

Showing(d) == {r \in readers : d \in ReaderDocs(r)}

\* Every written document is shown by exactly one reader of all_readers_, in
\* every state: through freeze, flush, merge and commit no search can miss it,
\* and none can count it twice (documents with ext_id 0 are not deduplicated
\* by mergeTopK, and df sums over the readers).
ExactlyOneReader ==
  \A d \in Written : \E r \in readers : Showing(d) = {r}

\* A search whose snapshot has been scanned completely returns every document
\* written before it copied all_readers_, whatever was frozen, flushed, merged
\* or committed since: the readers it holds outlive their removal.
SearchComplete ==
  \A c \in busy : todo[c] = {} => floor[c] \subseteq found[c]

\* The segment directories that recovery would keep.
Complete == DOMAIN disk \ ing

\* When RealtimeIndexManager::stop has returned, every document is shown by a
\* disk reader and nothing is left in the queue or in the worker's hands.
StopFlushesAll ==
  mpc = "stopped" =>
    /\ queue = <<>> /\ batch = <<>>
    /\ \A d \in Written : \E s \in Complete :
         d \in disk[s] /\ Disk(s) \in readers

\* FrozenSegStats never claims more than was done: a segment reported OnDisk
\* has all its documents in complete directories; one reported Merging has
\* them in directories whose data files are all written, of which only the
\* merge's output may lack its .done (between the deletion of the sources and
\* .done it is the only copy on disk); one reported Committed is shown from
\* complete directories and no longer from memory.
StatsHonest ==
  \A s \in DOMAIN stat :
    /\ stat[s] = "OnDisk" => DocsOf(s) \subseteq UNION {disk[x] : x \in Complete}
    /\ stat[s] = "Merging" =>
         /\ DocsOf(s) \subseteq UNION {disk[x] : x \in DOMAIN disk}
         /\ ing \subseteq {final}
    /\ stat[s] = "Committed" =>
         /\ Mem(s) \notin readers
         /\ \A d \in DocsOf(s) : \E x \in Complete :
              d \in disk[x] /\ Disk(x) \in readers

\* The readers of all_readers_ that no RTIndexThread, queue entry or batch
\* accounts for are disk readers: a memory segment whose entry is committed is
\* released, and no segment is in two places (an entry pushed or taken twice
\* would be written to disk twice).
NoSegmentTwice ==
  /\ \A i, j \in 1 .. Len(queue) : queue[i] = queue[j] => i = j
  /\ \A i, j \in 1 .. Len(batch) : batch[i] = batch[j] => i = j
  /\ Elems(queue) \cap Elems(batch) = {}
  /\ \A r \in readers : r.kind = "mem" =>
       \/ \E t \in Threads : r.seg \in {active[t], fresh[t]}
       \/ r.seg \in Elems(queue) \cup Elems(batch)

-----------------------------------------------------------------------------
(* The inductive invariant                                                 *)

\* The memory segments thread t alone refers to, then all that still wait for
\* their commit.
Own(t)  == IF tpc[t] = "switch" THEN {fresh[t]} ELSE {active[t], fresh[t]}
InBatch == IF wpc = "mark" THEN {} ELSE Elems(batch)
Live    == (UNION {Own(t) : t \in Threads}) \cup Elems(queue) \cup InBatch

Injective(s) == \A i, j \in 1 .. Len(s) : s[i] = s[j] => i = j

\* Every id in use was handed out by global_seg_id_.
IdsBelowNext ==
  /\ \A t \in Threads : active[t] < nextSegId /\ fresh[t] < nextSegId
  /\ \A d \in Docs : home[d] < nextSegId
  /\ \A r \in readers : r.seg < nextSegId
  /\ \A s \in Elems(queue) \cup Elems(batch) \cup Elems(tmp) : s < nextSegId
  /\ \A s \in DOMAIN stat \cup DOMAIN disk : s < nextSegId

\* A segment that is not committed has one holder.
OneHolder ==
  /\ \A t \in Threads :
       /\ tpc[t] \in {"idle", "register"} => fresh[t] = active[t]
       /\ tpc[t] = "push" => fresh[t] # active[t]
       /\ \A u \in Threads \ {t} : Own(t) \cap Own(u) = {}
       /\ Own(t) \cap (Elems(queue) \cup Elems(batch)) = {}
  /\ Injective(queue) /\ Injective(batch)
  /\ Elems(queue) \cap Elems(batch) = {}

\* The memory readers are those of the segments not yet committed, except
\* that an empty one is dropped at shutdown; frozen ones are not written to.
MemReaders ==
  /\ \A r \in readers : r.kind = "mem" => r.seg \in Live
  /\ \A s \in Elems(queue) \cup InBatch : Mem(s) \in readers
  /\ \A t \in Threads :
       /\ \A s \in Own(t) : Mem(s) \in readers \/ ThreadDone(t)
       /\ ThreadDone(t) => DocsOf(active[t]) = {}
       /\ tpc[t] \in {"push", "switch"} => DocsOf(fresh[t]) = {}

Published == {s \in DOMAIN disk : Disk(s) \in readers}

\* A document is in a disk reader when its segment is committed, and in one.
DiskReaders ==
  /\ \A r \in readers : r.kind = "disk" => r.seg \in DOMAIN disk
  /\ \A s \in DOMAIN disk : disk[s] \subseteq Written
  /\ \A d \in Written, s \in Published : d \in disk[s] =>
       /\ home[d] \notin Live
       /\ \A x \in Published : d \in disk[x] => x = s
  /\ \A d \in Written :
       home[d] \in Live \/ \E s \in Published : d \in disk[s]

Flushed == 1 .. IF wpc = "flushing" THEN Len(tmp) - 1 ELSE Len(tmp)

\* What processBatch has done so far, phase by phase.
BatchProgress ==
  /\ wpc \in {"loop", "take", "drain", "exited"} => batch = <<>>
  /\ wpc \in {"flush", "flushing", "merging"} =>
       /\ Len(tmp) <= Len(batch)
       /\ Injective(tmp)
       /\ \A i \in 1 .. Len(tmp) : Disk(tmp[i]) \notin readers
       /\ \A i \in Flushed :
            tmp[i] \in DOMAIN disk /\ disk[tmp[i]] = DocsOf(batch[i])
  /\ wpc = "flushing" => Len(tmp) > 0 /\ tmp[Len(tmp)] \notin DOMAIN disk
  /\ wpc = "merging"  =>
       Len(tmp) = Len(batch) /\ final \in Nat \ (DOMAIN disk \cup Elems(tmp))
  /\ wpc \in {"merging", "merged", "commit"} => final < nextSegId
  /\ wpc \in {"merged", "commit", "mark"} =>
       /\ final \in DOMAIN disk
       /\ disk[final] = {d \in Docs : home[d] \in Elems(batch)}
       /\ Disk(final) \in readers <=> wpc = "mark"

\* Only the output of a merge lacks its .done, and no reader is given it; what
\* is left of the sources is not shown either.
MergeProgress ==
  /\ \A x \in ing : x = final /\ Disk(x) \notin readers
  /\ wpc \notin {"merged", "terminated"} => ing = {}
  /\ wpc \in {"merging", "merged"} =>
       \A s \in Elems(batch) \cap DOMAIN stat : stat[s] = "Merging"
  /\ wpc = "merged" =>
       /\ ing = {final} /\ final \notin Elems(tmp) /\ Len(tmp) = Len(batch)
       /\ \A i \in 1 .. Len(tmp) :
            /\ Disk(tmp[i]) \notin readers
            /\ tmp[i] \in DOMAIN disk => disk[tmp[i]] = DocsOf(batch[i])

\* A segment with statistics is frozen; a Committed one has no holder left.
StatsOfFrozen ==
  /\ \A t \in Threads : Own(t) \cap DOMAIN stat = {}
  /\ \A s \in DOMAIN stat :
       /\ stat[s] = "OnDisk" => DocsOf(s) \subseteq UNION {disk[x] : x \in Complete}
       /\ stat[s] = "Merging" => DocsOf(s) \subseteq UNION {disk[x] : x \in DOMAIN disk}
       /\ stat[s] = "Committed" => s \notin Live

\* Between its snapshot and its end a search owes its floor: each document of
\* it is found already or shown by a reader still to be scanned.
SearchesOwe ==
  /\ \A c \in Searchers :
       /\ floor[c] \cup found[c] \subseteq Written
       /\ \A r \in todo[c] : r.kind = "disk" => r \in readers
       /\ c \notin busy => todo[c] = {}
  /\ \A c \in busy : \A d \in floor[c] :
       d \in found[c] \/ \E r \in todo[c] : d \in ReaderDocs(r)

\* stop() proceeds in order, and the worker exits after the last freeze.
StopOrder ==
  /\ mpc = "running" => \A t \in Threads : ~shut[t]
  /\ mpc \in {"joining", "stopped"} => \A t \in Threads : ThreadDone(t)
  /\ stopReq => mpc \in {"joining", "stopped"}
  /\ wpc \in {"drain", "exited"} => stopReq
  /\ wpc = "exited" => queue = <<>>
  /\ mpc = "stopped" => wpc = "exited"

\* The inductive invariant from which the safety properties are proved.
IInv ==
  /\ TypeOK /\ IdsBelowNext /\ OneHolder /\ MemReaders /\ DiskReaders
  /\ BatchProgress /\ MergeProgress /\ StatsOfFrozen /\ SearchesOwe /\ StopOrder

-----------------------------------------------------------------------------
(* Liveness                                                                *)

Alive == wpc # "terminated"

\* A thread inside freeze() or shutdown() runs on, stop() runs on once called,
\* and the worker thread is scheduled: takeBatch's wait ends by its time-out.
\* Nobody has to call addDocument, stop or search.
Fairness ==
  /\ \A t \in Threads :
       WF_vars(Alive /\ (FreezeRegister(t) \/ FreezePush(t)
                           \/ FreezeSwitch(t) \/ Shutdown(t)))
  /\ WF_vars(Alive /\ (StopWorker \/ StopJoin))
  /\ WF_vars(WorkerStep)

FairSpec == Spec /\ Fairness

Frozen(s) == s \in DOMAIN stat

\* A document whose segment was frozen is eventually shown from disk, even if
\* no further document comes (the batch never fills) and stop is not called,
\* unless an exception of the worker ends the process.  A document stays
\* frozen and on disk and there are finitely many: again and again all that
\* are frozen are on disk.
ServedFromDisk(d) == \E s \in Complete : d \in disk[s] /\ Disk(s) \in readers

FrozenReachesDisk ==
  []<>(~Alive \/ \A d \in Docs : Frozen(home[d]) => ServedFromDisk(d))

\* stop() returns, unless the process ends: the worker cannot miss the flag,
\* and it drains the queue.
StopReturns == (mpc = "shutting") ~> (mpc = "stopped" \/ ~Alive)

-----------------------------------------------------------------------------
(* Refinement                                                              *)

Visible == UNION {ReaderDocs(r) : r \in readers}

Promise == INSTANCE DocVisibility WITH
  visible <- Visible,
  floor   <- floor,
  busy    <- busy,
  answer  <- [c \in Searchers |-> IF c \in busy THEN {} ELSE found[c]]

\* The whole pipeline implements the promise made to clients: no freeze,
\* flush, merge, commit or stop step changes what a search would find.
KeepsPromise == Promise!Spec
=============================================================================
