------------------------------ MODULE ScorerTree ------------------------------
(***************************************************************************)
(* One boolean query on one segment: BooleanQuery::createScorer builds the *)
(* scorer tree and IndexSearcher::searchImpl drives its root.              *)
(*                                                                         *)
(* The main clauses (the MUSTs, or the one WAND of an all-SHOULD query)    *)
(* are intersected by the zigzag of ConjunctionScorer::doNext; a single    *)
(* main clause is its own lead with nobody to agree with.  Each MUST_NOT   *)
(* wraps the tree in one more ExclusionScorer, so the next() of exclusion  *)
(* k is the next() of the conjunction followed by exclusions 1 .. k: the   *)
(* level below counts through that chain.                                  *)
(*                                                                         *)
(* A clause is a term, whose cursor walks all its documents, or an inner   *)
(* OR (the parser wraps a bare +term or -term over the default fields):    *)
(* a WANDScorer that keeps at most top_k eligible documents of those that  *)
(* match.  Which ones depends on scores and is left open.                  *)
(***************************************************************************)
EXTENDS Scorer

CONSTANTS
  Main,      \* the clauses every hit must match
  NotCount,  \* MUST_NOT clauses, numbered in the order of wrapping
  Ors        \* the clauses that are inner ORs

Nots    == 1 .. NotCount
Clauses == Main \cup Nots

ASSUME ScorerAssumption ==
  /\ MaxDoc \in Nat /\ NotCount \in Nat /\ TopK \in Nat \ {0}
  /\ Main # {} /\ IsFiniteSet(Main) /\ Main \cap Nots = {}
  /\ Ors \subseteq Clauses

VARIABLES
  want,      \* clause -> the documents that match it
  list,      \* clause -> the documents its scorer yields
  lead,      \* children_[0] of the conjunction
  todo,      \* children the zigzag still has to ask about pos[lead]
  level,     \* the exclusion to ask next
  hits,      \* results of searchImpl, as a set
  answer     \* what searchImpl returns

treeVars == <<want, alive, list, pos, lead, todo, level, pc, hits, answer>>

-----------------------------------------------------------------------------
Least(a, b) == IF a <= b THEN a ELSE b

\* lower_bound: the smallest document of S, or INVALID_DOC.
FirstOf(S) == CHOOSE p \in S \cup {End} : \A q \in S : p <= q

From(c, t) == FirstOf({d \in list[c] : d >= t})

\* Scorer::advance: a cursor at or after the target stays where it is.
Advance(c, t) == IF pos[c] >= t THEN pos[c] ELSE From(c, t)

\* The eligible documents an inner OR keeps.
Kept(S) == {K \in SUBSET S : Cardinality(K) = Least(TopK, Cardinality(S))}

\* What a clause's scorer may yield: Or-clauses run their WAND at creation.
Yields(c) == IF c \in Ors THEN Kept(want[c] \cap alive) ELSE {want[c]}

Lists == {l \in [Clauses -> UNION {Yields(c) : c \in Clauses}] :
            \A c \in Clauses : l[c] \in Yields(c)}

TreeInit ==
  /\ want \in [Clauses -> SUBSET Docs]
  /\ alive \in SUBSET Docs
  /\ list = [c \in Clauses |-> {}]
  /\ pos = [c \in Clauses |-> End]
  /\ lead \in Main
  /\ todo = {} /\ level = 1
  /\ pc = "create"
  /\ hits = {} /\ answer = {}

\* An exhausted main clause makes the whole query empty (nullptr).
CreateScorer ==
  /\ pc = "create"
  /\ list' \in Lists
  /\ pos' = [c \in Clauses |-> FirstOf(list'[c])]
  /\ pc' = IF \E c \in Main : pos'[c] = End THEN "collect" ELSE "zigzag"
  /\ todo' = Main \ {lead}
  /\ UNCHANGED <<want, alive, lead, level, hits, answer>>

\* A defect to detect: the inner loop starts at the lead itself.
LeadToAsksItself(t, p) ==
  LET q == Advance(lead, t)
  IN /\ pos'  = [p EXCEPT ![lead] = q]
     /\ pc'   = IF q = End THEN "collect" ELSE "zigzag"
     /\ todo' = Main

\* A defect to detect: children that agreed before are not asked again.
LeadToKeepsAgreed(t, p) ==
  LET q == Advance(lead, t)
  IN /\ pos'  = [p EXCEPT ![lead] = q]
     /\ pc'   = IF q = End THEN "collect" ELSE "zigzag"
     /\ todo' = todo

\* The lead moves to a new candidate and every other child is asked again;
\* p is where the other cursors stand.
LeadTo(t, p) ==
  LET q == Advance(lead, t)
  IN /\ pos'  = [p EXCEPT ![lead] = q]
     /\ pc'   = IF q = End THEN "collect" ELSE "zigzag"
     /\ todo' = Main \ {lead}

\* One child of doNext's inner loop: it is exhausted, agrees, or is beyond.
Zigzag(c) ==
  /\ pc = "zigzag" /\ c \in todo
  /\ LET q == Advance(c, pos[lead])
         p == [pos EXCEPT ![c] = q]
     IN \/ /\ q = End
           /\ pos' = p /\ pc' = "collect" /\ UNCHANGED todo
        \/ /\ q = pos[lead]
           /\ pos' = p /\ todo' = todo \ {c} /\ UNCHANGED pc
        \/ /\ q # End /\ q # pos[lead]
           /\ LeadTo(q, p)
  /\ UNCHANGED <<want, alive, list, lead, level, hits, answer>>

Match ==
  /\ pc = "zigzag" /\ todo = {}
  /\ level' = 1
  /\ pc' = "exclude"
  /\ UNCHANGED <<want, alive, list, pos, lead, todo, hits, answer>>

\* A defect to detect: the candidate is dropped, the lead stays on it.
ExcludeStuck ==
  /\ pc = "exclude" /\ level \in Nots
  /\ LET q == Advance(level, pos[lead])
         p == [pos EXCEPT ![level] = q]
     IN \/ /\ q # pos[lead]
           /\ pos' = p /\ level' = level + 1
           /\ UNCHANGED <<pc, todo>>
        \/ /\ q = pos[lead]
           /\ LeadTo(pos[lead], p)
           /\ UNCHANGED level
  /\ UNCHANGED <<want, alive, list, lead, hits, answer>>

\* skipExcluded at one level: pass the candidate on, or take the next one.
Exclude ==
  /\ pc = "exclude" /\ level \in Nots
  /\ LET q == Advance(level, pos[lead])
         p == [pos EXCEPT ![level] = q]
     IN \/ /\ q # pos[lead]
           /\ pos' = p /\ level' = level + 1
           /\ UNCHANGED <<pc, todo>>
        \/ /\ q = pos[lead]
           /\ LeadTo(pos[lead] + 1, p)
           /\ UNCHANGED level
  /\ UNCHANGED <<want, alive, list, lead, hits, answer>>

\* A defect to detect: deleted documents are returned.
VisitDeleted ==
  /\ pc = "exclude" /\ level = NotCount + 1
  /\ hits' = hits \cup {pos[lead]}
  /\ LeadTo(pos[lead] + 1, pos)
  /\ UNCHANGED <<want, alive, list, lead, level, answer>>

\* The driver takes the root's document if it is eligible and calls next().
Visit ==
  /\ pc = "exclude" /\ level = NotCount + 1
  /\ hits' = hits \cup ({pos[lead]} \cap alive)
  /\ LeadTo(pos[lead] + 1, pos)
  /\ UNCHANGED <<want, alive, list, lead, level, answer>>

Collect ==
  /\ pc = "collect"
  /\ answer' \in Kept(hits)
  /\ pc' = "done"
  /\ UNCHANGED <<want, alive, list, pos, lead, todo, level, hits>>

TreeDone == pc = "done" /\ UNCHANGED treeVars

TreeNext ==
  \/ CreateScorer
  \/ \E c \in Main : Zigzag(c)
  \/ Match
  \/ Exclude
  \/ Visit
  \/ Collect
  \/ TreeDone

\* One search is one call of one thread, which runs on.
TreeSpec == TreeInit /\ [][TreeNext]_treeVars /\ WF_treeVars(TreeNext)

-----------------------------------------------------------------------------
(* Properties *)

\* Every variable stays in its type; cursors stand on a document or the end.
TypeOK ==
  /\ want \in [Clauses -> SUBSET Docs]
  /\ alive \in SUBSET Docs
  /\ list \in [Clauses -> SUBSET Docs]
  /\ pos \in [Clauses -> 1 .. End]
  /\ lead \in Main
  /\ todo \in SUBSET (Main \ {lead})
  /\ level \in 1 .. NotCount + 1
  /\ pc \in {"create", "zigzag", "exclude", "collect", "done"}
  /\ hits \in SUBSET Docs
  /\ answer \in SUBSET Docs

Satisfies(d, l) == /\ \A c \in Main : d \in l[c]
                   /\ \A n \in Nots : d \notin l[n]

Yielded == {d \in alive : Satisfies(d, list)}    \* by the scorers' own lists
Wanted  == {d \in alive : Satisfies(d, want)}    \* by the query

\* While the tree is driven, the hits are exactly the documents before the
\* lead that every main scorer yields and no exclusion yields: cursors that
\* only move forward never run past a document another scorer still needs
\* (skipExcluded: the two cursors only move forward).
ScanExact ==
  pc \in {"zigzag", "exclude"} => hits = {d \in Yielded : d < pos[lead]}

\* No inner OR has more eligible matches than it may keep.
OrsFit == \A c \in Ors : Cardinality(want[c] \cap alive) <= TopK

\* While every inner OR fits, the search returns top_k documents that satisfy
\* the query, or all of them when fewer do (test_query.cpp: the result equals
\* bruteExclude).
AnswerExact ==
  pc = "done" /\ OrsFit =>
    /\ answer \subseteq Wanted
    /\ Cardinality(answer) = Least(TopK, Cardinality(Wanted))

\* A document that matches a MUST_NOT clause is never returned.
ExcludedNeverReturned ==
  \A n \in Nots : answer \cap want[n] = {}

\* Every search returns: the candidate moves on whatever the lists are.
Terminates == <>(pc = "done")
=============================================================================
