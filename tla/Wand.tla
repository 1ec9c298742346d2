-------------------------------- MODULE Wand --------------------------------
(***************************************************************************)
(* WANDScorer::runWAND: the top_k documents of an OR, found with one       *)
(* cursor per term, the upper bound of each list to choose a pivot, and    *)
(* the upper bounds of the current blocks to skip whole blocks.            *)
(*                                                                         *)
(* A term is its contribution to every document's score; zero means that   *)
(* its posting list does not hold the document.  Scores are naturals:      *)
(* rounding of floats is left out.  One action is one round of the loop.   *)
(* The order std::sort gives cursors on the same document does not matter: *)
(* the pivot document is the first at which the bounds of all cursors up   *)
(* to it reach theta.                                                      *)
(***************************************************************************)
EXTENDS Scorer, Functions, FiniteSetsExt

CONSTANTS
  Children,   \* the terms of the OR
  MaxPart,    \* bound: contribution of one term to a score
  MaxDead,    \* bound: documents that are deleted or filtered out
  BlockSize   \* documents of a block (PForDelta::BLOCK_SIZE)

ASSUME WandAssumption ==
  /\ MaxDoc \in Nat /\ MaxPart \in Nat /\ MaxDead \in Nat
  /\ BlockSize \in Nat \ {0} /\ TopK \in Nat \ {0}
  /\ IsFiniteSet(Children)

VARIABLES
  part,    \* child -> document -> contribution
  heap,    \* the best documents so far, with their scores
  theta,   \* score to beat
  rounds   \* history: rounds of the loop so far

wandVars == <<part, alive, pos, heap, theta, pc, rounds>>

-----------------------------------------------------------------------------
ListOf(c) == {d \in Docs : part[c][d] > 0}

Holders(d) == {c \in Children : part[c][d] > 0}

SumOver(f, S) == MapThenSumSet(LAMBDA c : f[c], S)

Best(S) == Max(S \cup {0})

\* TermScorer::maxScore: the bound of the whole list.
ListUb == [c \in Children |-> Best({part[c][d] : d \in Docs})]

\* The 128-document block of c's list that holds d.
Block(c, d) ==
  LET list    == ListOf(c)
      rank(x) == Cardinality({e \in list : e < x})
      block   == rank(d) \div BlockSize
  IN {e \in list : rank(e) \div BlockSize = block}

BlockMaxDoc(c) == Max(Block(c, pos[c]))

\* blockMaxScore of the cursors, the maximum that calcTfNorms took over the
\* block; an exhausted cursor has been popped.
BlockUb == [c \in Children |->
              IF pos[c] = End THEN 0 ELSE Best({part[c][d] : d \in Block(c, pos[c])})]

AdvanceTo(c, t) == IF pos[c] >= t THEN pos[c]
                   ELSE Min({d \in ListOf(c) : d >= t} \cup {End})

Open == {c \in Children : pos[c] # End}

UpTo(p) == {c \in Open : pos[c] <= p}

\* The documents at which the bounds reach theta; the pivot is the first.
Candidates == LET ub == ListUb
              IN {p \in {pos[c] : c \in Open} : SumOver(ub, UpTo(p)) >= theta}

Pivot == Min(Candidates)

Front == Min({pos[c] : c \in Open})

WandInit ==
  /\ part \in [Children -> [Docs -> 0 .. MaxPart]]
  /\ \E dead \in SUBSET Docs : Cardinality(dead) <= MaxDead /\ alive = Docs \ dead
  /\ pos = [c \in Children |-> Min(ListOf(c) \cup {End})]
  /\ heap = {}
  /\ theta = 0
  /\ pc = "run"
  /\ rounds = 0

\* No list is left, or no document can reach theta.
Finish ==
  /\ pc = "run" /\ Candidates = {}
  /\ pc' = "done"
  /\ UNCHANGED <<part, alive, pos, heap, theta, rounds>>

AtPivot == pc = "run" /\ Candidates # {} /\ Front = Pivot

\* Every cursor leaves its own current block.
SkipBlock ==
  /\ AtPivot /\ SumOver(BlockUb, Children) < theta
  /\ pos' = [c \in Children |->
               IF c \in Open THEN AdvanceTo(c, BlockMaxDoc(c) + 1) ELSE End]
  /\ rounds' = rounds + 1
  /\ UNCHANGED <<part, alive, heap, theta, pc>>

ScoreAt(p) == SumOver([c \in Children |-> part[c][p]], {c \in Open : pos[c] = p})

LowestOf(h) == Min({e.score : e \in h})

\* A defect to detect: theta rises while the heap still has room.
OfferEarlyTheta(e) ==
  \/ /\ Cardinality(heap) < TopK
     /\ heap' = heap \cup {e}
     /\ theta' = LowestOf(heap')
  \/ /\ Cardinality(heap) = TopK /\ e.score > LowestOf(heap)
     /\ \E low \in heap : /\ low.score = LowestOf(heap)
                          /\ heap' = (heap \ {low}) \cup {e}
     /\ theta' = LowestOf(heap')
  \/ /\ Cardinality(heap) = TopK /\ e.score <= LowestOf(heap)
     /\ UNCHANGED <<heap, theta>>

Offer(e) ==
  \/ /\ Cardinality(heap) < TopK
     /\ heap' = heap \cup {e}
     /\ theta' = IF Cardinality(heap') = TopK THEN LowestOf(heap') ELSE theta
  \/ /\ Cardinality(heap) = TopK /\ e.score > LowestOf(heap)
     /\ \E low \in heap : /\ low.score = LowestOf(heap)
                          /\ heap' = (heap \ {low}) \cup {e}
     /\ theta' = LowestOf(heap')
  \/ /\ Cardinality(heap) = TopK /\ e.score <= LowestOf(heap)
     /\ UNCHANGED <<heap, theta>>

\* A defect to detect: deleted documents are scored.
ScorePivotDeleted ==
  /\ AtPivot /\ SumOver(BlockUb, Children) >= theta
  /\ Offer([doc |-> Pivot, score |-> ScoreAt(Pivot)])
  /\ pos' = [c \in Children |-> IF pos[c] = Pivot THEN AdvanceTo(c, Pivot + 1) ELSE pos[c]]
  /\ rounds' = rounds + 1
  /\ UNCHANGED <<part, alive, pc>>

\* A defect to detect: only one of the cursors on the pivot moves on.
ScorePivotMovesOne ==
  /\ AtPivot /\ SumOver(BlockUb, Children) >= theta
  /\ IF Pivot \in alive THEN Offer([doc |-> Pivot, score |-> ScoreAt(Pivot)])
                        ELSE UNCHANGED <<heap, theta>>
  /\ \E c \in Open : pos[c] = Pivot /\ pos' = [pos EXCEPT ![c] = AdvanceTo(c, Pivot + 1)]
  /\ rounds' = rounds + 1
  /\ UNCHANGED <<part, alive, pc>>

\* The pivot is scored by all cursors that stand on it, then they move on.
ScorePivot ==
  /\ AtPivot /\ SumOver(BlockUb, Children) >= theta
  /\ IF Pivot \in alive THEN Offer([doc |-> Pivot, score |-> ScoreAt(Pivot)])
                        ELSE UNCHANGED <<heap, theta>>
  /\ pos' = [c \in Children |-> IF pos[c] = Pivot THEN AdvanceTo(c, Pivot + 1) ELSE pos[c]]
  /\ rounds' = rounds + 1
  /\ UNCHANGED <<part, alive, pc>>

\* A defect to detect: the cursors are only told to reach the front.
AlignToFront ==
  /\ pc = "run" /\ Candidates # {} /\ Front # Pivot
  /\ pos' = [c \in Children |-> AdvanceTo(c, Front)]
  /\ rounds' = rounds + 1
  /\ UNCHANGED <<part, alive, heap, theta, pc>>

\* Cursors before the pivot catch up with it.
Align ==
  /\ pc = "run" /\ Candidates # {} /\ Front # Pivot
  /\ pos' = [c \in Children |-> AdvanceTo(c, Pivot)]
  /\ rounds' = rounds + 1
  /\ UNCHANGED <<part, alive, heap, theta, pc>>

WandDone == pc = "done" /\ UNCHANGED wandVars

WandNext == Finish \/ SkipBlock \/ ScorePivot \/ Align \/ WandDone

WandSpec == WandInit /\ [][WandNext]_wandVars

-----------------------------------------------------------------------------
(* Properties *)

Score(d) == SumOver([c \in Children |-> part[c][d]], Children)

Eligible == {d \in alive : Holders(d) # {}}

Passed(d) == \A c \in Holders(d) : pos[c] > d

\* Skipping blocks cannot split a document: a list of several blocks shares
\* no document with another list.
SkipsSafe ==
  \A c \in Children : \/ Cardinality(ListOf(c)) <= BlockSize
                      \/ \A d \in ListOf(c) : Holders(d) = {c}

\* A document is passed by all of its lists or by none, so whoever scores it
\* sees every contribution.
PassedTogether ==
  SkipsSafe => \A d \in Docs : Passed(d) \/ \A c \in Holders(d) : pos[c] <= d

\* At every round the heap holds the true scores of the best documents among
\* those passed, and no more than top_k: one that is not in the heap could not
\* have entered.
HeapExact ==
  /\ Cardinality(heap) <= TopK
  /\ SkipsSafe =>
       /\ \A e \in heap : e.doc \in Eligible /\ e.score = Score(e.doc)
       /\ \A d \in Eligible :
            \/ \E e \in heap : e.doc = d
            \/ ~ Passed(d)
            \/ Cardinality(heap) = TopK /\ \A e \in heap : Score(d) <= e.score

\* heap is an exact top_k of the OR.
IsTopK ==
  /\ \A e \in heap : e.doc \in Eligible /\ e.score = Score(e.doc)
  /\ Cardinality(heap) = Min({TopK, Cardinality(Eligible)})
  /\ \A d \in Eligible : (\E e \in heap : e.doc = d) \/ \A e \in heap : Score(d) <= e.score

\* With such lists the result is an exact top_k (test_block_max_wand.cpp
\* compares it with brute force).
TopKExactWhenSafe == pc = "done" /\ SkipsSafe => IsTopK

\* The result is an exact top_k whatever the lists are, as the design of block
\* skipping says (blockmax_wand.md: the same results as without it).
TopKExact == pc = "done" => IsTopK

\* Every round moves some cursor past an entry, so the loop ends after at
\* most as many rounds as the lists have entries.
RoundsBounded ==
  rounds <= SumOver([c \in Children |-> Cardinality({d \in ListOf(c) : d < pos[c]})],
                    Children)
=============================================================================
