---------------------------- MODULE BlockingQueue ----------------------------
(***************************************************************************)
(* common/blocking_queue.h: the bounded queue between the callers of       *)
(* ParallelIndexWriter::addDocument and the index workers.                 *)
(*                                                                         *)
(* One step is one critical section of mu_.  A thread whose predicate is   *)
(* false enters the wait set of the condition variable and can do nothing  *)
(* until it is notified (or wakes without a reason); it then tests its     *)
(* predicate again, which is why every action below has the same guards    *)
(* for a thread that has just called and for one that has just woken.      *)
(***************************************************************************)
EXTENDS Naturals, Sequences

CONSTANT Capacity        \* cap_

ASSUME CapacityAssumption == Capacity \in Nat \ {0}

VARIABLES
  buf,          \* buf_
  closed,       \* closed_
  notFull,      \* the threads waiting on not_full_
  notEmpty      \* the threads waiting on not_empty_

queueVars == <<buf, closed, notFull, notEmpty>>

QueueInit == buf = <<>> /\ closed = FALSE /\ notFull = {} /\ notEmpty = {}

\* What notify_one can make of a wait set.
NotifyOne(waiting) ==
  IF waiting = {} THEN {{}} ELSE {waiting \ {t} : t \in waiting}

PushReady == Len(buf) < Capacity \/ closed
PopReady  == buf # <<>> \/ closed

PushWait(t) ==
  /\ t \notin notFull /\ ~PushReady
  /\ notFull' = notFull \cup {t}
  /\ UNCHANGED <<buf, closed, notEmpty>>

Push(t, x) ==
  /\ t \notin notFull /\ PushReady /\ ~closed
  /\ buf' = Append(buf, x)
  /\ notEmpty' \in NotifyOne(notEmpty)
  /\ UNCHANGED <<closed, notFull>>

PopWait(t) ==
  /\ t \notin notEmpty /\ ~PopReady
  /\ notEmpty' = notEmpty \cup {t}
  /\ UNCHANGED <<buf, closed, notFull>>

\* A defect to detect: pop does not tell the producers that there is room.
PopSilent(t) ==
  /\ t \notin notEmpty /\ buf # <<>>
  /\ buf' = Tail(buf)
  /\ UNCHANGED <<closed, notFull, notEmpty>>

\* pop returns Head(buf); a closed queue is drained first.
Pop(t) ==
  /\ t \notin notEmpty /\ buf # <<>>
  /\ buf' = Tail(buf)
  /\ notFull' \in NotifyOne(notFull)
  /\ UNCHANGED <<closed, notEmpty>>

\* pop returns false.
PopEnd(t) ==
  /\ t \notin notEmpty /\ closed /\ buf = <<>>
  /\ UNCHANGED queueVars

\* A defect to detect: close wakes one consumer only.
CloseNotifyOne ==
  /\ closed' = TRUE
  /\ notFull' \in NotifyOne(notFull)
  /\ notEmpty' \in NotifyOne(notEmpty)
  /\ UNCHANGED buf

Close ==
  /\ closed'   = TRUE
  /\ notFull'  = {}
  /\ notEmpty' = {}
  /\ UNCHANGED buf

\* A condition variable may end a wait for no reason.
SpuriousWake(t) ==
  /\ t \in notFull \cup notEmpty
  /\ notFull'  = notFull \ {t}
  /\ notEmpty' = notEmpty \ {t}
  /\ UNCHANGED <<buf, closed>>
=============================================================================
