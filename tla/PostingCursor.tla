----------------------------- MODULE PostingCursor -----------------------------
(***************************************************************************)
(* What store/i_posting_iterator.h promises the scorers: a cursor on a     *)
(* strictly increasing list of doc ids that only moves forward.            *)
(* An advance() that has to move is two steps, the call and its return, so *)
(* that an implementation may take its time.                               *)
(***************************************************************************)
EXTENDS Naturals

CONSTANT End       \* INVALID_DOC

NoGoal == 0        \* no advance() is in progress

VARIABLES
  list,   \* the doc ids of the term, as a set
  doc,    \* docId()
  goal    \* the target of the advance() in progress

cursorVars == <<list, doc, goal>>

\* lower_bound
FirstFrom(S, t) ==
  IF \A d \in S : d < t THEN End
  ELSE CHOOSE d \in S : d >= t /\ \A e \in S : e >= t => d <= e

CursorInit == doc = FirstFrom(list, 0) /\ goal = NoGoal

CursorNext ==
  /\ goal = NoGoal
  /\ doc' = IF doc = End THEN End ELSE FirstFrom(list, doc + 1)
  /\ UNCHANGED <<list, goal>>

CallAdvance ==
  /\ goal = NoGoal
  /\ goal' \in Nat /\ doc < goal'
  /\ UNCHANGED <<list, doc>>

Return ==
  /\ goal # NoGoal
  /\ doc' = FirstFrom(list, goal)
  /\ goal' = NoGoal
  /\ UNCHANGED list

Next == CursorNext \/ CallAdvance \/ Return

Spec == CursorInit /\ [][Next]_cursorVars
=============================================================================
