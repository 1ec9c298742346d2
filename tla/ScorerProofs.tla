------------------------------ MODULE ScorerProofs ------------------------------
(***************************************************************************)
(* Proofs about the scorers.                                               *)
(*                                                                         *)
(* Wand, for any terms, any lists, any block size and any top_k: a         *)
(* document is passed by all of its lists or by none, the heap holds the   *)
(* best of the documents passed, the answer is an exact top_k, and the     *)
(* loop takes no more rounds than the lists have entries.                  *)
(*                                                                         *)
(* ScorerTree, for every number of documents, clauses and top_k: the       *)
(* types, that driving the tree collects exactly the documents before the  *)
(* lead that the scorers' lists call for, and that the answer is exact     *)
(* while no inner OR is truncated.                                         *)
(***************************************************************************)
EXTENDS Wand, ScorerTree, DataLemmas

-----------------------------------------------------------------------------
(* WAND: the inductive invariant *)

Entry == [doc : Docs, score : Nat]

WandTypeOK ==
  /\ part \in [Children -> [Docs -> 0 .. MaxPart]] /\ alive \in SUBSET Docs
  /\ pos \in [Children -> 1 .. End]
  /\ \A c \in Children : pos[c] = End \/ pos[c] \in ListOf(c)
  /\ heap \in SUBSET Entry /\ IsFiniteSet(heap) /\ Cardinality(heap) <= TopK
  /\ theta \in Nat /\ rounds \in Nat /\ pc \in {"run", "done"}

\* Every cursor has left the documents of the heap, so none is offered twice.
HeapBehind == \A e \in heap : \A c \in Children : pos[c] > e.doc

\* theta is 0 until the heap is full, and then a bound of its scores.
ThetaBound ==
  IF Cardinality(heap) = TopK THEN \A e \in heap : theta <= e.score ELSE theta = 0

DoneMeansDry == pc = "done" => Candidates = {}

WandIInv == /\ WandTypeOK /\ HeapBehind /\ ThetaBound /\ DoneMeansDry
        /\ PassedTogether /\ HeapExact /\ RoundsBounded

-----------------------------------------------------------------------------
(* WAND: lemmas about the operators *)

LEMMA WandBasics ==
  /\ MaxDoc \in Nat /\ End \in Nat /\ End = MaxDoc + 1 /\ Docs = 1 .. MaxDoc
  /\ Docs \subseteq Nat /\ IsFiniteSet(Docs) /\ IsFiniteSet(Children)
  /\ BlockSize \in Nat \ {0} /\ TopK \in Nat \ {0} /\ MaxPart \in Nat
<1>1. MaxDoc \in Nat
  BY WandAssumption
<1>2. IsFiniteSet(1 .. MaxDoc)
  BY <1>1, FS_Interval
<1> QED
  BY <1>1, <1>2, WandAssumption DEF Docs, End

\* The model's sum is the sum of the lemmas.
LEMMA SumIsTotal == ASSUME NEW f, NEW S PROVE SumOver(f, S) = Total(f, S)
BY Zenon DEF SumOver, MapThenSumSet, MapThenFoldSet, Total

LEMMA MinFacts ==
  ASSUME NEW S \in SUBSET Nat, S # {}
  PROVE  Min(S) \in S /\ \A x \in S : Min(S) <= x
<1>1. \E p \in S : \A q \in S : p <= q
  BY LeastElement
<1> QED
  BY <1>1 DEF Min

LEMMA MaxFacts ==
  ASSUME NEW S \in SUBSET Nat, S # {}, NEW n \in Nat, \A x \in S : x <= n
  PROVE  Max(S) \in S /\ \A x \in S : x <= Max(S)
<1>1. \E p \in S : \A q \in S : q <= p
  BY GreatestElement
<1>2. \E p \in S : \A q \in S : p >= q
  BY <1>1
<1>3. Max(S) \in S /\ \A q \in S : Max(S) >= q
  BY <1>2 DEF Max
<1> QED
  BY <1>3

\* Whole division keeps the order, and is 0 below the divisor.
LEMMA DivOrder ==
  ASSUME NEW k \in Nat \ {0}, NEW a \in Nat, NEW b \in Nat
  PROVE  /\ a <= b => a \div k <= b \div k
         /\ a < k => a \div k = 0
OBVIOUS

LEMMA ListFacts ==
  ASSUME WandTypeOK, NEW c \in Children
  PROVE  /\ ListOf(c) \subseteq Docs /\ IsFiniteSet(ListOf(c))
         /\ \A d \in Docs : part[c][d] \in Nat /\ part[c][d] <= MaxPart
         /\ pos[c] \in Nat
         /\ \A d \in Docs : c \in Holders(d) <=> d \in ListOf(c)
<1>1. ListOf(c) \subseteq Docs
  BY DEF ListOf
<1>2. IsFiniteSet(ListOf(c))
  BY <1>1, WandBasics, FS_Subset
<1>3. part[c] \in [Docs -> 0 .. MaxPart] /\ pos[c] \in 1 .. End
  BY DEF WandTypeOK
<1>4. \A d \in Docs : part[c][d] \in Nat /\ part[c][d] <= MaxPart
  BY <1>3, WandBasics
<1>5. pos[c] \in Nat
  BY <1>3, WandBasics
<1> QED
  BY <1>1, <1>2, <1>4, <1>5 DEF ListOf, Holders

\* advance(t) goes to the first document of the list from t on, or to the end.
LEMMA WandAdvanceFacts ==
  ASSUME WandTypeOK, NEW c \in Children, NEW t \in Nat
  PROVE  /\ AdvanceTo(c, t) \in 1 .. End
         /\ AdvanceTo(c, t) = End \/ AdvanceTo(c, t) \in ListOf(c)
         /\ pos[c] <= AdvanceTo(c, t)
         /\ t <= End => t <= AdvanceTo(c, t)
         /\ pos[c] < End /\ pos[c] < t => pos[c] < AdvanceTo(c, t)
         /\ \A d \in ListOf(c) : pos[c] <= d /\ t <= d => AdvanceTo(c, t) <= d
<1>1. /\ pos[c] \in 1 .. End /\ (pos[c] = End \/ pos[c] \in ListOf(c))
      /\ ListOf(c) \subseteq 1 .. MaxDoc /\ MaxDoc \in Nat /\ End = MaxDoc + 1
  BY WandBasics, ListFacts DEF WandTypeOK
<1>2. CASE pos[c] >= t
  BY <1>1, <1>2 DEF AdvanceTo
<1>3. CASE ~ (pos[c] >= t)
  <2> DEFINE S == {d \in ListOf(c) : d >= t} \cup {End}
  <2>1. S \in SUBSET Nat /\ S # {} /\ S \subseteq 1 .. End
    BY <1>1
  <2>2. AdvanceTo(c, t) = Min(S)
    BY <1>3 DEF AdvanceTo
  <2>3. Min(S) \in S /\ \A x \in S : Min(S) <= x
    BY <2>1, MinFacts
  <2> DEFINE m == Min(S)
  <2>4. m = End \/ (m \in ListOf(c) /\ m >= t)
    BY <2>3
  <2>5. \A d \in ListOf(c) : t <= d => m <= d
    BY <1>1, <2>3
  <2>6. m \in 1 .. End
    BY <2>1, <2>3
  <2> HIDE DEF m, S
  <2> QED
    BY <1>1, <1>3, <2>2, <2>4, <2>5, <2>6 DEF m
<1> QED
  BY <1>2, <1>3

\* The upper bounds of lists and blocks are numbers, and bound what they claim.
LEMMA BestFacts ==
  ASSUME NEW S \in SUBSET (0 .. MaxPart)
  PROVE  Best(S) \in Nat /\ \A x \in S : x <= Best(S)
<1> DEFINE T == S \cup {0}
<1>1. T \in SUBSET Nat /\ T # {} /\ MaxPart \in Nat /\ \A x \in T : x <= MaxPart
  BY WandBasics
<1>2. Max(T) \in T /\ \A x \in T : x <= Max(T)
  BY <1>1, MaxFacts
<1> QED
  BY <1>1, <1>2 DEF Best

LEMMA ListUbFacts ==
  ASSUME WandTypeOK
  PROVE  /\ ListUb \in [Children -> Nat]
         /\ \A c \in Children : \A d \in Docs : part[c][d] <= ListUb[c]
<1>1. ASSUME NEW c \in Children
      PROVE  /\ Best({part[c][d] : d \in Docs}) \in Nat
             /\ \A d \in Docs : part[c][d] <= Best({part[c][e] : e \in Docs})
  <2>1. {part[c][d] : d \in Docs} \in SUBSET (0 .. MaxPart)
    BY DEF WandTypeOK
  <2> QED
    BY <2>1, BestFacts
<1> QED
  BY <1>1 DEF ListUb

\* A block holds its document and lies between its ends; a list that fits in a
\* block is one block.
LEMMA BlockFacts ==
  ASSUME WandTypeOK, NEW c \in Children, NEW d \in ListOf(c)
  PROVE  /\ d \in Block(c, d) /\ Block(c, d) \subseteq ListOf(c)
         /\ Max(Block(c, d)) \in Nat /\ Max(Block(c, d)) \in ListOf(c)
         /\ \A e \in Block(c, d) : e <= Max(Block(c, d))
         /\ \A e \in ListOf(c) : d <= e /\ e <= Max(Block(c, d)) => e \in Block(c, d)
         /\ Cardinality(ListOf(c)) <= BlockSize => Block(c, d) = ListOf(c)
<1> DEFINE docs == ListOf(c)
           Before(x) == {e \in docs : e < x}
           rank(x) == Cardinality(Before(x))
           block(x) == rank(x) \div BlockSize
           B == Block(c, d)
<1>1. /\ docs \subseteq 1 .. MaxDoc /\ IsFiniteSet(docs) /\ MaxDoc \in Nat
      /\ BlockSize \in Nat \ {0} /\ d \in docs
  BY WandBasics, ListFacts
<1>2. B = {e \in docs : block(e) = block(d)}
  BY DEF Block
<1>3. ASSUME NEW x \in docs
      PROVE  /\ rank(x) \in Nat /\ rank(x) <= Cardinality(docs) /\ rank(x) # Cardinality(docs)
             /\ Cardinality(docs) \in Nat
  <2>1. Before(x) \in SUBSET docs /\ Before(x) # docs
    BY <1>1
  <2>2. IsFiniteSet(Before(x))
    BY <1>1, <2>1, FS_Subset
  <2> QED
    BY <1>1, <2>1, <2>2, FS_Subset, FS_CardinalityType
<1>4. ASSUME NEW x \in docs, NEW y \in docs, x <= y
      PROVE  block(x) <= block(y)
  <2>1. Before(x) \in SUBSET Before(y)
    BY <1>1, <1>4
  <2>2. IsFiniteSet(Before(y))
    BY <1>1, FS_Subset
  <2>3. rank(x) <= rank(y)
    BY <2>1, <2>2, FS_Subset
  <2> HIDE DEF rank
  <2> QED
    BY <1>1, <1>3, <2>3, DivOrder
<1>5. \A x \in docs : block(x) \in Nat
  <2> HIDE DEF rank
  <2> QED
    BY <1>1, <1>3
<1>6. d \in B /\ B \subseteq docs
  BY <1>2
<1>7. Max(B) \in B /\ \A e \in B : e <= Max(B)
  <2>1. B \in SUBSET Nat /\ B # {} /\ \A e \in B : e <= MaxDoc
    BY <1>1, <1>6
  <2> HIDE DEF B
  <2> QED
    BY <1>1, <2>1, MaxFacts
<1>8. ASSUME NEW e \in docs, d <= e, e <= Max(B) PROVE e \in B
  <2>1. Max(B) \in docs /\ block(Max(B)) = block(d)
    BY <1>2, <1>7
  <2> HIDE DEF block, B
  <2>2. block(d) <= block(e) /\ block(e) <= block(Max(B))
    BY <1>1, <1>4, <1>8, <2>1
  <2>3. block(e) = block(d)
    BY <1>1, <1>5, <2>1, <2>2
  <2> QED
    BY <1>2, <2>3
<1>9. ASSUME Cardinality(docs) <= BlockSize PROVE B = docs
  <2>1. \A x \in docs : block(x) = 0
    <3> TAKE x \in docs
    <3>1. rank(x) \in Nat /\ rank(x) < BlockSize
      BY <1>1, <1>3, <1>9
    <3> HIDE DEF rank
    <3> QED
      BY <1>1, <3>1, DivOrder
  <2> HIDE DEF block, B
  <2> QED
    BY <1>1, <1>2, <2>1
<1>10. Max(B) \in Nat
  BY <1>1, <1>6, <1>7
<1> HIDE DEF block
<1> QED
  BY <1>6, <1>7, <1>8, <1>9, <1>10

LEMMA BlockUbFacts ==
  ASSUME WandTypeOK
  PROVE  /\ BlockUb \in [Children -> Nat]
         /\ \A c \in Children : pos[c] # End =>
              \A d \in Block(c, pos[c]) : part[c][d] <= BlockUb[c]
<1>1. ASSUME NEW c \in Children, pos[c] # End
      PROVE  /\ Best({part[c][d] : d \in Block(c, pos[c])}) \in Nat
             /\ \A d \in Block(c, pos[c]) :
                  part[c][d] <= Best({part[c][e] : e \in Block(c, pos[c])})
  <2>1. Block(c, pos[c]) \subseteq Docs
    BY <1>1, BlockFacts, ListFacts DEF WandTypeOK
  <2>2. {part[c][d] : d \in Block(c, pos[c])} \in SUBSET (0 .. MaxPart)
    BY <2>1 DEF WandTypeOK
  <2> QED
    BY <2>2, BestFacts
<1> QED
  BY <1>1 DEF BlockUb

-----------------------------------------------------------------------------
(* Lemmas about scores and the pivot *)

LEMMA ScoreIs ==
  ASSUME WandTypeOK, NEW d \in Docs
  PROVE  Score(d) \in Nat /\ Score(d) = Total([c \in Children |-> part[c][d]], Children)
<1>1. \A c \in Children : [x \in Children |-> part[x][d]][c] \in Nat
  BY ListFacts
<1> QED
  BY <1>1, WandBasics, SumType, SumIsTotal DEF Score

\* A document that every holder bounds scores no more than the bounds.
LEMMA ScoreBound ==
  ASSUME WandTypeOK, NEW d \in Docs, NEW ub \in [Children -> Nat], NEW U \in SUBSET Children,
         \A c \in Holders(d) : c \in U /\ part[c][d] <= ub[c]
  PROVE  Score(d) <= SumOver(ub, U)
<1> DEFINE f == [c \in Children |-> part[c][d]]
<1>1. \A c \in Children : f[c] \in Nat /\ (f[c] = 0 \/ c \in Holders(d))
  BY ListFacts DEF Holders
<1>2. \A c \in Children : f[c] = 0 \/ (c \in U /\ f[c] <= ub[c])
  BY <1>1
<1>3. IsFiniteSet(U) /\ IsFiniteSet(Children) /\ \A c \in U : ub[c] \in Nat
  BY WandBasics, FS_Subset
<1> HIDE DEF f
<1>4. Total(f, Children) <= Total(ub, U)
  BY <1>1, <1>2, <1>3, SumLeq
<1> QED
  BY <1>4, ScoreIs, SumIsTotal DEF f

LEMMA PivotFacts ==
  ASSUME WandTypeOK, Candidates # {}
  PROVE  /\ Pivot \in Docs /\ Pivot \in Candidates /\ \A q \in Candidates : Pivot <= q
         /\ \E c \in Open : pos[c] = Pivot
         /\ Front \in Docs /\ Front <= Pivot
         /\ \E c \in Open : pos[c] = Front
         /\ \A c \in Children : Front <= pos[c]
<1> DEFINE P == {pos[c] : c \in Open}
<1>1. Candidates \subseteq P
  BY DEF Candidates
<1>2. P \subseteq Docs /\ Docs \subseteq Nat
  BY ListFacts, WandBasics DEF Open, WandTypeOK
<1>3. Pivot \in Candidates /\ \A q \in Candidates : Pivot <= q
  <2>1. Candidates \in SUBSET Nat
    BY <1>1, <1>2
  <2> QED
    BY <2>1, MinFacts DEF Pivot
<1>4. Front \in P /\ \A q \in P : Front <= q
  <2>1. P \in SUBSET Nat /\ P # {}
    BY <1>1, <1>2
  <2>2. Front = Min(P)
    BY DEF Front
  <2> HIDE DEF P
  <2> QED
    BY <2>1, <2>2, MinFacts
<1>5. \A c \in Children : Front <= pos[c]
  <2> TAKE c \in Children
  <2>1. CASE c \in Open
    BY <1>4, <2>1
  <2>2. CASE c \notin Open
    BY <1>2, <1>4, <2>2, WandBasics DEF Open
  <2> QED
    BY <2>1, <2>2
<1> QED
  BY <1>1, <1>2, <1>3, <1>4, <1>5

\* A document whose holders have not passed it, before every pivot candidate,
\* cannot reach theta.
LEMMA TooLow ==
  ASSUME WandTypeOK, NEW d \in Docs, Holders(d) # {}, \A c \in Holders(d) : pos[c] <= d,
         \A q \in Candidates : d < q
  PROVE  Score(d) < theta
<1> DEFINE P == {pos[c] : c \in Holders(d)}
<1>1. \A c \in Holders(d) : c \in Children /\ c \in Open /\ pos[c] \in Nat
  BY ListFacts, WandBasics DEF Holders, Open
<1>2. PICK q \in P : \A r \in P : r <= q
  <2>1. P \in SUBSET Nat /\ P # {} /\ d \in Nat /\ \A r \in P : r <= d
    BY <1>1, WandBasics
  <2> HIDE DEF P
  <2> QED
    BY <2>1, GreatestElement
<1>3. q \in {pos[c] : c \in Open} /\ q \in Nat /\ q <= d
  BY <1>1
<1>4. q \notin Candidates
  BY <1>3, WandBasics
<1>5. UpTo(q) \in SUBSET Children /\ \A c \in Holders(d) : c \in UpTo(q)
  BY <1>1, <1>2 DEF UpTo, Open
<1>6. ListUb \in [Children -> Nat] /\ \A c \in Holders(d) : part[c][d] <= ListUb[c]
  BY <1>1, ListUbFacts
<1>7. Score(d) <= SumOver(ListUb, UpTo(q))
  BY <1>5, <1>6, ScoreBound
<1>8. SumOver(ListUb, UpTo(q)) \in Nat
  <2>1. IsFiniteSet(UpTo(q)) /\ \A c \in UpTo(q) : ListUb[c] \in Nat
    BY <1>5, <1>6, WandBasics, FS_Subset
  <2> QED
    BY <2>1, SumType, SumIsTotal
<1>9. ~ (SumOver(ListUb, UpTo(q)) >= theta)
  BY <1>3, <1>4 DEF Candidates
<1>10. Score(d) \in Nat /\ theta \in Nat
  BY ScoreIs DEF WandTypeOK
<1> QED
  BY <1>7, <1>8, <1>9, <1>10

-----------------------------------------------------------------------------
(* Lemmas about the heap *)

\* What push and pop of the heap promise: the heap stays within top_k, and what
\* is not in it is beaten by everything in it.
Retains(e) ==
  /\ heap' \in SUBSET Entry /\ IsFiniteSet(heap') /\ Cardinality(heap') <= TopK
  /\ theta' \in Nat /\ ThetaBound'
  /\ heap' \subseteq heap \cup {e}
  /\ \A x \in (heap \cup {e}) \ heap' :
       Cardinality(heap') = TopK /\ \A y \in heap' : x.score <= y.score
  /\ Cardinality(heap) = TopK =>
       /\ Cardinality(heap') = TopK
       /\ \A y \in heap' : \E z \in heap : z.score <= y.score

\* The lowest score of a full heap.
LEMMA LowestFacts ==
  ASSUME NEW h \in SUBSET Entry, h # {}
  PROVE  /\ LowestOf(h) \in Nat /\ \E x \in h : x.score = LowestOf(h)
         /\ \A x \in h : LowestOf(h) <= x.score
<1> DEFINE S == {x.score : x \in h}
<1>1. S \in SUBSET Nat /\ S # {}
  BY DEF Entry
<1>2. Min(S) \in S /\ \A x \in S : Min(S) <= x
  BY <1>1, MinFacts
<1>3. LowestOf(h) = Min(S)
  BY DEF LowestOf
<1> HIDE DEF LowestOf
<1> QED
  BY <1>1, <1>2, <1>3

LEMMA OfferKeeps ==
  ASSUME WandTypeOK, ThetaBound, NEW e \in Entry, e \notin heap, Offer(e)
  PROVE  Retains(e)
<1>1. /\ heap \in SUBSET Entry /\ IsFiniteSet(heap) /\ Cardinality(heap) \in Nat
      /\ Cardinality(heap) <= TopK /\ TopK \in Nat \ {0} /\ e.score \in Nat
      /\ \A x \in heap : x.score \in Nat
  BY WandBasics, FS_CardinalityType DEF WandTypeOK, Entry
<1>2. CASE /\ Cardinality(heap) < TopK
           /\ heap' = heap \cup {e}
           /\ theta' = IF Cardinality(heap') = TopK THEN LowestOf(heap') ELSE theta
  <2>1. IsFiniteSet(heap') /\ Cardinality(heap') = Cardinality(heap) + 1
    BY <1>1, <1>2, FS_AddElement
  <2>2. heap' \in SUBSET Entry /\ heap' # {}
    BY <1>1, <1>2
  <2>3. LowestOf(heap') \in Nat /\ \A x \in heap' : LowestOf(heap') <= x.score
    BY <2>2, LowestFacts
  <2>4. theta = 0
    BY <1>1, <1>2 DEF ThetaBound
  <2>5. theta' \in Nat /\ ThetaBound'
    BY <1>2, <2>3, <2>4 DEF ThetaBound
  <2> QED
    BY <1>1, <1>2, <2>1, <2>2, <2>5 DEF Retains
<1>3. CASE /\ Cardinality(heap) = TopK /\ e.score > LowestOf(heap)
           /\ \E low \in heap : /\ low.score = LowestOf(heap)
                                /\ heap' = (heap \ {low}) \cup {e}
           /\ theta' = LowestOf(heap')
  <2>1. heap # {}
    BY <1>1, <1>3, FS_EmptySet
  <2>2. LowestOf(heap) \in Nat /\ \A x \in heap : LowestOf(heap) <= x.score
    BY <1>1, <2>1, LowestFacts
  <2>3. PICK low \in heap : low.score = LowestOf(heap) /\ heap' = (heap \ {low}) \cup {e}
    BY <1>3
  <2>4. IsFiniteSet(heap \ {low}) /\ Cardinality(heap \ {low}) = TopK - 1 /\ e \notin heap \ {low}
    BY <1>1, <1>3, FS_RemoveElement
  <2>5. IsFiniteSet(heap') /\ Cardinality(heap') = TopK
    <3>1. Cardinality(heap') = (TopK - 1) + 1 /\ IsFiniteSet(heap')
      BY <2>3, <2>4, FS_AddElement
    <3> QED
      BY <1>1, <3>1
  <2>6. heap' \in SUBSET Entry /\ heap' # {}
    BY <1>1, <2>3
  <2>7. LowestOf(heap') \in Nat /\ \A x \in heap' : LowestOf(heap') <= x.score
    BY <2>6, LowestFacts
  <2>8. theta' \in Nat /\ ThetaBound'
    BY <1>3, <2>5, <2>7 DEF ThetaBound
  <2>9. \A y \in heap' : low.score <= y.score
    BY <1>1, <1>3, <2>2, <2>3
  <2>10. \A x \in (heap \cup {e}) \ heap' : \A y \in heap' : x.score <= y.score
    BY <2>3, <2>9
  <2> QED
    BY <1>1, <2>3, <2>5, <2>6, <2>8, <2>9, <2>10 DEF Retains
<1>4. CASE /\ Cardinality(heap) = TopK /\ e.score <= LowestOf(heap)
           /\ UNCHANGED <<heap, theta>>
  <2>1. heap # {}
    BY <1>1, <1>4, FS_EmptySet
  <2>2. LowestOf(heap) \in Nat /\ \A x \in heap : LowestOf(heap) <= x.score
    BY <1>1, <2>1, LowestFacts
  <2>3. \A y \in heap' : e.score <= y.score
    BY <1>1, <1>4, <2>2
  <2>4. theta' \in Nat /\ ThetaBound'
    BY <1>4 DEF ThetaBound, WandTypeOK
  <2>5. \A x \in heap : x.score <= x.score
    BY <1>1
  <2> QED
    BY <1>1, <1>4, <2>3, <2>4, <2>5 DEF Retains
<1> QED
  BY <1>2, <1>3, <1>4 DEF Offer

-----------------------------------------------------------------------------
(* What every round does: the cursors move forward, one past an entry *)

Moved ==
  /\ pos' \in [Children -> 1 .. End]
  /\ \A c \in Children : pos'[c] = End \/ pos'[c] \in ListOf(c)
  /\ \A c \in Children : pos[c] <= pos'[c]
  /\ \E c \in Open : pos[c] < pos'[c]
  /\ rounds' = rounds + 1 /\ UNCHANGED <<part, alive, pc>>

\* What the lists determine stays.
LEMMA SamePart ==
  ASSUME part' = part, alive' = alive
  PROVE  /\ \A c \in Children : ListOf(c)' = ListOf(c)
         /\ \A d \in Docs : Score(d)' = Score(d) /\ Holders(d)' = Holders(d)
         /\ SkipsSafe' = SkipsSafe /\ Eligible' = Eligible
<1>1. \A c \in Children : ListOf(c)' = ListOf(c)
  BY DEF ListOf
<1>2. \A d : Holders(d)' = Holders(d)
  BY DEF Holders
<1>3. \A d \in Docs : Score(d)' = Score(d)
  BY DEF Score
<1> QED
  BY <1>1, <1>2, <1>3 DEF SkipsSafe, Eligible

\* The entries passed grow with the rounds.
LEMMA RoundCounts == ASSUME WandTypeOK, RoundsBounded, Moved PROVE RoundsBounded'
<1> DEFINE f == [c \in Children |-> Cardinality({d \in ListOf(c) : d < pos[c]})]
           g == [c \in Children |-> Cardinality({d \in ListOf(c) : d < pos'[c]})]
<1>1. part' = part /\ rounds' = rounds + 1 /\ rounds \in Nat
  BY DEF Moved, WandTypeOK
<1>2. RoundsBounded' <=> rounds' <= SumOver(g, Children)
  BY <1>1 DEF RoundsBounded, ListOf
<1>3. ASSUME NEW c \in Children
      PROVE  /\ pos[c] \in Nat /\ pos'[c] \in Nat /\ pos[c] <= pos'[c]
             /\ \A d \in ListOf(c) : d \in Nat
             /\ IsFiniteSet(ListOf(c))
  BY ListFacts, WandBasics DEF Moved
<1>4. ASSUME NEW c \in Children
      PROVE  /\ f[c] \in Nat /\ g[c] \in Nat /\ f[c] <= g[c]
             /\ c \in Open /\ pos[c] < pos'[c] => f[c] < g[c]
  <2> DEFINE F == {d \in ListOf(c) : d < pos[c]}
             G == {d \in ListOf(c) : d < pos'[c]}
  <2>1. F \subseteq G /\ IsFiniteSet(G)
    BY <1>3, FS_Subset
  <2>2. IsFiniteSet(F) /\ Cardinality(F) \in Nat /\ Cardinality(G) \in Nat
        /\ Cardinality(F) <= Cardinality(G) /\ (F # G => Cardinality(F) # Cardinality(G))
    BY <2>1, FS_Subset, FS_CardinalityType
  <2>3. c \in Open /\ pos[c] < pos'[c] => pos[c] \in G /\ pos[c] \notin F
    BY <1>3 DEF Open, WandTypeOK
  <2>4. f[c] = Cardinality(F) /\ g[c] = Cardinality(G)
    OBVIOUS
  <2> HIDE DEF F, G, f, g
  <2> QED
    BY <2>2, <2>3, <2>4
<1>5. PICK c \in Children : f[c] < g[c]
  BY <1>4 DEF Moved, Open
<1> HIDE DEF f, g
<1>6. Total(f, Children) + 1 <= Total(g, Children)
  BY <1>4, <1>5, WandBasics, SumGrows
<1>7. Total(f, Children) \in Nat /\ Total(g, Children) \in Nat
  BY <1>4, WandBasics, SumType
<1>8. rounds <= Total(f, Children)
  BY SumIsTotal DEF RoundsBounded, f
<1> QED
  BY <1>1, <1>2, <1>6, <1>7, <1>8, SumIsTotal

-----------------------------------------------------------------------------
(* The inductive invariant holds initially and after every round *)

\* No document is passed and the heap is empty.
LEMMA WandInitIInv == WandInit => WandIInv
<1> SUFFICES ASSUME WandInit PROVE WandIInv
  OBVIOUS
<1>1. /\ part \in [Children -> [Docs -> 0 .. MaxPart]] /\ alive \in SUBSET Docs
      /\ heap = {} /\ theta = 0 /\ pc = "run" /\ rounds = 0
      /\ pos = [c \in Children |-> Min(ListOf(c) \cup {End})]
  BY DEF WandInit
<1>2. ASSUME NEW c \in Children
      PROVE  /\ pos[c] \in 1 .. End /\ (pos[c] = End \/ pos[c] \in ListOf(c))
             /\ \A d \in ListOf(c) : pos[c] <= d
  <2> DEFINE S == ListOf(c) \cup {End}
  <2>1. S \in SUBSET Nat /\ S # {} /\ S \subseteq 1 .. End
    BY WandBasics DEF ListOf
  <2>2. Min(S) \in S /\ \A x \in S : Min(S) <= x
    BY <2>1, MinFacts
  <2> QED
    BY <1>1, <2>1, <2>2
<1>3. IsFiniteSet({}) /\ Cardinality({}) = 0
  BY FS_EmptySet
<1>4. WandTypeOK
  <2>1. pos \in [Children -> 1 .. End]
    BY <1>1, <1>2
  <2>2. \A c \in Children : pos[c] = End \/ pos[c] \in ListOf(c)
    BY <1>2
  <2>3. heap \in SUBSET Entry /\ IsFiniteSet(heap) /\ Cardinality(heap) <= TopK
    BY <1>1, <1>3, WandBasics
  <2> QED
    BY <1>1, <2>1, <2>2, <2>3 DEF WandTypeOK
<1>5. HeapBehind /\ ThetaBound /\ DoneMeansDry
  BY <1>1, <1>3, WandBasics DEF HeapBehind, ThetaBound, DoneMeansDry
<1>6. \A d \in Docs : \A c \in Holders(d) : pos[c] <= d
  BY <1>2, <1>4, ListFacts DEF Holders
<1>7. PassedTogether
  BY <1>6 DEF PassedTogether
<1>8. HeapExact
  <2>1. \A d \in Eligible : ~ Passed(d)
    <3> TAKE d \in Eligible
    <3>1. d \in Docs /\ Holders(d) # {}
      BY <1>1 DEF Eligible
    <3>2. PICK c \in Holders(d) : TRUE
      BY <3>1
    <3>3. pos[c] <= d /\ pos[c] \in Nat /\ d \in Nat
      BY <1>4, <1>6, <3>1, <3>2, ListFacts, WandBasics DEF Holders
    <3> QED
      BY <3>2, <3>3 DEF Passed
  <2> QED
    BY <1>1, <1>3, <2>1, WandBasics DEF HeapExact
<1>9. RoundsBounded
  <2> DEFINE f == [c \in Children |-> Cardinality({d \in ListOf(c) : d < pos[c]})]
  <2>1. \A c \in Children : f[c] \in Nat
    BY <1>4, ListFacts, FS_Subset, FS_CardinalityType
  <2>2. SumOver(f, Children) \in Nat
    BY <2>1, WandBasics, SumType, SumIsTotal
  <2> HIDE DEF f
  <2>3. rounds <= SumOver(f, Children)
    BY <1>1, <2>2
  <2> QED
    BY <2>3 DEF f, RoundsBounded
<1> QED
  BY <1>4, <1>5, <1>7, <1>8, <1>9 DEF WandIInv

\* The loop ends only when no document can reach theta.
LEMMA FinishStep == ASSUME WandIInv, Finish PROVE WandIInv'
<1>1. /\ Candidates = {} /\ pc' = "done"
      /\ part' = part /\ alive' = alive /\ pos' = pos /\ heap' = heap
      /\ theta' = theta /\ rounds' = rounds
  BY DEF Finish
<1>2. /\ \A c \in Children : ListOf(c)' = ListOf(c)
      /\ \A d \in Docs : Score(d)' = Score(d) /\ Holders(d)' = Holders(d)
      /\ SkipsSafe' = SkipsSafe /\ Eligible' = Eligible
  BY <1>1, SamePart
<1>3. WandTypeOK' /\ HeapBehind' /\ ThetaBound'
  BY <1>1, <1>2 DEF WandIInv, WandTypeOK, HeapBehind, ThetaBound
<1>4. DoneMeansDry'
  BY <1>1 DEF DoneMeansDry, Candidates, ListUb, Open, UpTo
<1>5. PassedTogether'
  BY <1>1, <1>2 DEF WandIInv, PassedTogether, Passed
<1>6. HeapExact'
  <2>1. alive \in SUBSET Docs /\ \A e \in heap : e.doc \in Docs
    BY DEF WandIInv, WandTypeOK, Entry
  <2> QED
    BY <1>1, <1>2, <2>1 DEF WandIInv, HeapExact, Eligible, Passed
<1>7. RoundsBounded'
  BY <1>1 DEF WandIInv, RoundsBounded, ListOf
<1> QED
  BY <1>3, <1>4, <1>5, <1>6, <1>7 DEF WandIInv

\* The cursors below the pivot jump to it or beyond.
LEMMA AlignMoves ==
  ASSUME WandTypeOK, Align
  PROVE  /\ Moved /\ UNCHANGED <<heap, theta>> /\ pc = "run"
         /\ \A c \in Children :
              /\ Pivot <= pos'[c]
              /\ \A d \in ListOf(c) : pos[c] <= d /\ Pivot <= d => pos'[c] <= d
<1>1. /\ Candidates # {} /\ Front # Pivot /\ pc = "run"
      /\ pos' = [c \in Children |-> AdvanceTo(c, Pivot)]
      /\ rounds' = rounds + 1 /\ UNCHANGED <<part, alive, heap, theta, pc>>
  BY DEF Align
<1>2. /\ Pivot \in Nat /\ Pivot <= End /\ Front \in Nat /\ Front <= Pivot
      /\ \E c \in Open : pos[c] = Front
  BY <1>1, PivotFacts, WandBasics
<1>3. PICK c0 \in Open : pos[c0] = Front
  BY <1>2
<1>4. \A c \in Children : pos'[c] = AdvanceTo(c, Pivot)
  BY <1>1
<1>5. pos[c0] < pos'[c0]
  <2>1. c0 \in Children /\ pos[c0] < End /\ pos[c0] < Pivot
    BY <1>1, <1>2, <1>3, PivotFacts, WandBasics DEF Open
  <2> QED
    BY <1>2, <1>4, <2>1, WandAdvanceFacts
<1>6. pos' \in [Children -> 1 .. End]
  BY <1>1, <1>2, WandAdvanceFacts
<1>7. \A c \in Children : /\ pos'[c] = End \/ pos'[c] \in ListOf(c)
                          /\ pos[c] <= pos'[c] /\ Pivot <= pos'[c]
                          /\ \A d \in ListOf(c) : pos[c] <= d /\ Pivot <= d => pos'[c] <= d
  BY <1>2, <1>4, WandAdvanceFacts
<1> QED
  BY <1>1, <1>3, <1>5, <1>6, <1>7 DEF Moved

\* The parts of the invariant that any round keeps.
LEMMA MovedKeeps ==
  ASSUME WandIInv, Moved, pc = "run", heap' \in SUBSET Entry, IsFiniteSet(heap'),
         Cardinality(heap') <= TopK, theta' \in Nat
  PROVE  WandTypeOK' /\ DoneMeansDry' /\ RoundsBounded'
<1>1. part' = part /\ alive' = alive /\ pc' = pc /\ rounds' = rounds + 1
  BY DEF Moved
<1>2. \A c \in Children : ListOf(c)' = ListOf(c)
  BY <1>1, SamePart
<1>3. WandTypeOK'
  BY <1>1, <1>2 DEF WandIInv, WandTypeOK, Moved
<1>4. DoneMeansDry'
  BY <1>1 DEF DoneMeansDry
<1> QED
  BY <1>3, <1>4, RoundCounts DEF WandIInv

\* Nothing enters the heap: every document passed now could not have entered.
LEMMA HeapStays ==
  ASSUME WandIInv, Moved, heap' = heap, theta' = theta,
         SkipsSafe => \A d \in Eligible : ~ Passed(d) /\ Passed(d)' => Score(d) < theta
  PROVE  HeapBehind' /\ ThetaBound' /\ HeapExact'
<1>1. part' = part /\ alive' = alive /\ alive \in SUBSET Docs /\ WandTypeOK
  BY DEF Moved, WandIInv, WandTypeOK
<1>2. /\ \A d \in Docs : Score(d)' = Score(d) /\ Holders(d)' = Holders(d)
      /\ SkipsSafe' = SkipsSafe /\ Eligible' = Eligible /\ Eligible \subseteq Docs
  BY <1>1, SamePart DEF Eligible
<1>3. \A e \in heap : /\ e.doc \in Docs /\ e.score \in Nat /\ e.doc \in Nat
                      /\ \A c \in Children : pos[c] > e.doc /\ pos[c] <= pos'[c]
                                             /\ pos[c] \in Nat /\ pos'[c] \in Nat
  BY <1>1, ListFacts, WandBasics DEF WandIInv, WandTypeOK, Entry, HeapBehind, Moved
<1>4. HeapBehind'
  BY <1>3 DEF HeapBehind
<1>5. ThetaBound'
  BY DEF WandIInv, ThetaBound
<1>6. HeapExact'
  <2> SUFFICES ASSUME SkipsSafe, NEW d \in Eligible, ~ \E e \in heap : e.doc = d, Passed(d)'
               PROVE  Cardinality(heap) = TopK /\ \A e \in heap : Score(d) <= e.score
    <3>1. Cardinality(heap') <= TopK
      BY DEF WandIInv, WandTypeOK
    <3>2. SkipsSafe => \A e \in heap : e.doc \in Eligible' /\ e.score = Score(e.doc)'
      BY <1>2, <1>3 DEF WandIInv, HeapExact
    <3> QED
      BY <1>2, <3>1, <3>2 DEF HeapExact
  <2>1. CASE Passed(d)
    BY <2>1 DEF WandIInv, HeapExact
  <2>2. CASE ~ Passed(d)
    <3>1. Score(d) < theta /\ Score(d) \in Nat /\ theta \in Nat
      BY <1>1, <1>2, <2>2, ScoreIs DEF WandTypeOK
    <3> QED
      BY <1>3, <3>1 DEF WandIInv, ThetaBound
  <2> QED
    BY <2>1, <2>2
<1> QED
  BY <1>4, <1>5, <1>6

\* Documents before the pivot are passed by all of their lists: none of them
\* can reach theta.
LEMMA AlignStep == ASSUME WandIInv, Align PROVE WandIInv'
<1>1. WandTypeOK /\ PassedTogether /\ Candidates # {}
  BY DEF WandIInv, Align
<1>2. /\ Moved /\ UNCHANGED <<heap, theta>> /\ pc = "run" /\ UNCHANGED <<part, alive>>
      /\ \A c \in Children :
           /\ Pivot <= pos'[c]
           /\ \A d \in ListOf(c) : pos[c] <= d /\ Pivot <= d => pos'[c] <= d
  BY <1>1, AlignMoves DEF Moved
<1>3. /\ Pivot \in Nat /\ \A q \in Candidates : Pivot <= q
      /\ Docs \subseteq Nat /\ Candidates \subseteq Nat
  BY <1>1, PivotFacts, ListFacts, WandBasics DEF Candidates, Open
<1>4. \A c \in Children : pos[c] \in Nat /\ pos'[c] \in Nat /\ pos[c] <= pos'[c]
  BY <1>1, <1>2, ListFacts, WandBasics DEF Moved
<1>5. /\ \A d \in Docs : Holders(d)' = Holders(d)
      /\ \A d \in Docs : \A c \in Holders(d) : c \in Children /\ d \in ListOf(c)
      /\ SkipsSafe' = SkipsSafe
  BY <1>2, SamePart DEF Holders, ListOf
<1>6. PassedTogether'
  <2> SUFFICES ASSUME SkipsSafe, NEW d \in Docs
               PROVE  \/ \A c \in Holders(d) : pos'[c] > d
                      \/ \A c \in Holders(d) : pos'[c] <= d
    BY <1>5 DEF PassedTogether, Passed
  <2>1. d \in Nat
    BY <1>3
  <2>2. CASE \A c \in Holders(d) : pos[c] > d
    BY <1>4, <1>5, <2>1, <2>2
  <2>3. CASE \A c \in Holders(d) : pos[c] <= d
    BY <1>2, <1>3, <1>4, <1>5, <2>1, <2>3
  <2> QED
    BY <1>1, <2>2, <2>3 DEF PassedTogether, Passed
<1>7. ASSUME SkipsSafe, NEW d \in Eligible, ~ Passed(d), Passed(d)' PROVE Score(d) < theta
  <2>1. d \in Docs /\ d \in Nat /\ Holders(d) # {}
    BY <1>1, <1>3 DEF Eligible, WandTypeOK
  <2>2. \A c \in Holders(d) : pos[c] <= d
    BY <1>1, <1>7, <2>1 DEF PassedTogether
  <2>3. PICK c \in Holders(d) : TRUE
    BY <2>1
  <2>4. pos'[c] > d /\ c \in Children /\ d \in ListOf(c)
    BY <1>5, <1>7, <2>1, <2>3 DEF Passed
  <2>5. d < Pivot
    BY <1>2, <1>3, <1>4, <2>1, <2>2, <2>3, <2>4
  <2>6. \A q \in Candidates : d < q
    BY <1>3, <2>1, <2>5
  <2> QED
    BY <1>1, <2>1, <2>2, <2>6, TooLow
<1>8. HeapBehind' /\ ThetaBound' /\ HeapExact'
  BY <1>2, <1>7, HeapStays
<1>9. WandTypeOK' /\ DoneMeansDry' /\ RoundsBounded'
  BY <1>1, <1>2, MovedKeeps DEF WandTypeOK
<1> QED
  BY <1>6, <1>8, <1>9 DEF WandIInv

\* Every open cursor leaves its block, and no more than its block; one whose
\* whole list is that block is exhausted.
LEMMA SkipMoves ==
  ASSUME WandTypeOK, SkipBlock
  PROVE  /\ Moved /\ UNCHANGED <<heap, theta>> /\ pc = "run"
         /\ \A c \in Children : Cardinality(ListOf(c)) <= BlockSize => pos'[c] = End
         /\ \A c \in Open : \A d \in ListOf(c) :
              pos[c] <= d /\ d < pos'[c] => d \in Block(c, pos[c])
<1>1. /\ Candidates # {} /\ pc = "run"
      /\ pos' = [c \in Children |->
                   IF c \in Open THEN AdvanceTo(c, BlockMaxDoc(c) + 1) ELSE End]
      /\ rounds' = rounds + 1 /\ UNCHANGED <<part, alive, heap, theta, pc>>
  BY DEF SkipBlock, AtPivot
<1>2. ASSUME NEW c \in Open
      PROVE  LET t == BlockMaxDoc(c) + 1
             IN  /\ c \in Children /\ pos'[c] = AdvanceTo(c, t)
                 /\ t \in Nat /\ t <= End /\ pos[c] < t /\ pos[c] < End
                 /\ \A d \in ListOf(c) : pos[c] <= d /\ d < t => d \in Block(c, pos[c])
                 /\ Cardinality(ListOf(c)) <= BlockSize => \A d \in ListOf(c) : d < t
  <2>1. c \in Children /\ pos[c] \in ListOf(c) /\ ListOf(c) \subseteq 1 .. MaxDoc
    BY ListFacts, WandBasics DEF Open, WandTypeOK
  <2> DEFINE m == BlockMaxDoc(c)
             B == Block(c, pos[c])
  <2>2. /\ pos[c] \in B /\ B \subseteq ListOf(c) /\ m \in Nat /\ m \in ListOf(c)
        /\ \A e \in B : e <= m
        /\ \A e \in ListOf(c) : pos[c] <= e /\ e <= m => e \in B
        /\ Cardinality(ListOf(c)) <= BlockSize => B = ListOf(c)
    BY <2>1, BlockFacts DEF BlockMaxDoc
  <2>3. pos'[c] = AdvanceTo(c, m + 1)
    BY <1>1, <2>1
  <2> HIDE DEF m, B
  <2>4. /\ m + 1 \in Nat /\ m + 1 <= End /\ pos[c] < m + 1 /\ pos[c] < End
        /\ \A d \in ListOf(c) : pos[c] <= d /\ d < m + 1 => d \in B
        /\ Cardinality(ListOf(c)) <= BlockSize => \A d \in ListOf(c) : d < m + 1
    BY <2>1, <2>2, WandBasics
  <2> QED
    BY <2>1, <2>3, <2>4 DEF m, B
<1>3. ASSUME NEW c \in Open
      PROVE  /\ pos'[c] \in 1 .. End /\ (pos'[c] = End \/ pos'[c] \in ListOf(c))
             /\ pos[c] < pos'[c]
             /\ \A d \in ListOf(c) : pos[c] <= d /\ d < pos'[c] => d \in Block(c, pos[c])
             /\ Cardinality(ListOf(c)) <= BlockSize => pos'[c] = End
  <2> DEFINE t == BlockMaxDoc(c) + 1
  <2>1. /\ c \in Children /\ pos'[c] = AdvanceTo(c, t)
        /\ t \in Nat /\ t <= End /\ pos[c] < t /\ pos[c] < End
        /\ \A d \in ListOf(c) : pos[c] <= d /\ d < t => d \in Block(c, pos[c])
        /\ Cardinality(ListOf(c)) <= BlockSize => \A d \in ListOf(c) : d < t
    BY <1>2
  <2> HIDE DEF t
  <2>2. /\ pos'[c] \in 1 .. End /\ (pos'[c] = End \/ pos'[c] \in ListOf(c))
        /\ pos[c] < pos'[c] /\ t <= pos'[c]
        /\ \A d \in ListOf(c) : pos[c] <= d /\ t <= d => pos'[c] <= d
    BY <2>1, WandAdvanceFacts
  <2>3. pos'[c] \in Nat /\ \A d \in ListOf(c) : d \in Nat
    BY <2>1, <2>2, ListFacts, WandBasics
  <2>4. \A d \in ListOf(c) : pos[c] <= d /\ d < pos'[c] => d \in Block(c, pos[c])
    BY <2>1, <2>2, <2>3
  <2>5. Cardinality(ListOf(c)) <= BlockSize => pos'[c] = End
    BY <2>1, <2>2, <2>3
  <2> QED
    BY <2>2, <2>4, <2>5
<1>4. \A c \in Children : c \notin Open => pos'[c] = End /\ pos[c] = End
  BY <1>1 DEF Open
<1>5. \E c \in Open : pos[c] < pos'[c]
  BY <1>1, <1>3, PivotFacts
<1>6. pos' \in [Children -> 1 .. End]
  <2>1. \A c \in Children : pos'[c] \in 1 .. End
    BY <1>3, <1>4, WandBasics
  <2> QED
    BY <1>1, <2>1
<1>7. \A c \in Children : /\ pos'[c] = End \/ pos'[c] \in ListOf(c)
                          /\ pos[c] <= pos'[c]
                          /\ Cardinality(ListOf(c)) <= BlockSize => pos'[c] = End
  <2> TAKE c \in Children
  <2>1. CASE c \in Open
    <3>1. pos[c] \in Nat /\ pos'[c] \in Nat
      BY <1>6, ListFacts, WandBasics
    <3> QED
      BY <1>3, <2>1, <3>1
  <2>2. CASE c \notin Open
    BY <1>4, <2>2, WandBasics
  <2> QED
    BY <2>1, <2>2
<1> QED
  BY <1>1, <1>3, <1>5, <1>6, <1>7 DEF Moved

\* With lists that share no document across blocks, the blocks skipped hold
\* all of a document or nothing of it, and their bounds are below theta.
LEMMA SkipStep == ASSUME WandIInv, SkipBlock PROVE WandIInv'
<1>1. WandTypeOK /\ PassedTogether /\ SumOver(BlockUb, Children) < theta
  BY DEF WandIInv, SkipBlock
<1>2. /\ Moved /\ UNCHANGED <<heap, theta>> /\ pc = "run" /\ UNCHANGED <<part, alive>>
      /\ \A c \in Children : Cardinality(ListOf(c)) <= BlockSize => pos'[c] = End
      /\ \A c \in Open : \A d \in ListOf(c) :
           pos[c] <= d /\ d < pos'[c] => d \in Block(c, pos[c])
  BY <1>1, SkipMoves DEF Moved
<1>3. /\ \A d \in Docs : Holders(d)' = Holders(d)
      /\ \A d \in Docs : \A c \in Holders(d) : c \in Children /\ d \in ListOf(c)
      /\ SkipsSafe' = SkipsSafe
  BY <1>2, SamePart DEF Holders, ListOf
<1>4. /\ \A d \in Docs : d \in Nat /\ d < End
      /\ \A c \in Children : pos[c] \in Nat /\ pos'[c] \in Nat
  BY <1>1, <1>2, ListFacts, WandBasics DEF Moved
<1>5. ASSUME SkipsSafe, NEW d \in Docs
      PROVE  \/ \E c : Holders(d) = {c}
             \/ \A c \in Holders(d) : Cardinality(ListOf(c)) <= BlockSize
  BY <1>3, <1>5 DEF SkipsSafe
<1>6. PassedTogether'
  <2> SUFFICES ASSUME SkipsSafe, NEW d \in Docs
               PROVE  \/ \A c \in Holders(d) : pos'[c] > d
                      \/ \A c \in Holders(d) : pos'[c] <= d
    BY <1>3 DEF PassedTogether, Passed
  <2>1. CASE \E c : Holders(d) = {c}
    BY <1>3, <1>4, <2>1
  <2>2. CASE \A c \in Holders(d) : Cardinality(ListOf(c)) <= BlockSize
    BY <1>2, <1>3, <1>4, <2>2
  <2> QED
    BY <1>5, <2>1, <2>2
<1>7. ASSUME SkipsSafe, NEW d \in Eligible, ~ Passed(d), Passed(d)' PROVE Score(d) < theta
  <2>1. d \in Docs /\ Holders(d) # {}
    BY <1>1 DEF Eligible, WandTypeOK
  <2>2. \A c \in Holders(d) : /\ pos[c] <= d /\ pos'[c] > d /\ c \in Open
                              /\ c \in Children /\ d \in ListOf(c)
    BY <1>1, <1>3, <1>4, <1>7, <2>1 DEF PassedTogether, Passed, Open
  <2>3. \A c \in Holders(d) : d \in Block(c, pos[c]) /\ pos[c] # End
    BY <1>2, <1>4, <2>1, <2>2 DEF Open
  <2>4. BlockUb \in [Children -> Nat] /\ \A c \in Holders(d) : part[c][d] <= BlockUb[c]
    BY <1>1, <2>2, <2>3, BlockUbFacts
  <2>5. Score(d) <= SumOver(BlockUb, Children)
    BY <1>1, <2>1, <2>2, <2>4, ScoreBound
  <2>6. SumOver(BlockUb, Children) \in Nat /\ Score(d) \in Nat /\ theta \in Nat
    BY <1>1, <2>1, <2>4, WandBasics, SumType, SumIsTotal, ScoreIs DEF WandTypeOK
  <2> QED
    BY <1>1, <2>5, <2>6
<1>8. HeapBehind' /\ ThetaBound' /\ HeapExact'
  BY <1>2, <1>7, HeapStays
<1>9. WandTypeOK' /\ DoneMeansDry' /\ RoundsBounded'
  BY <1>1, <1>2, MovedKeeps DEF WandTypeOK
<1> QED
  BY <1>6, <1>8, <1>9 DEF WandIInv

\* The cursors on the pivot step off it, to the next document they hold.
LEMMA ScoreMoves ==
  ASSUME WandTypeOK, ScorePivot
  PROVE  /\ Moved /\ pc = "run" /\ Front = Pivot
         /\ \E c \in Open : pos[c] = Pivot
         /\ \A c \in Children : /\ Pivot <= pos[c] /\ Pivot < pos'[c]
                                /\ \A d \in ListOf(c) : pos[c] <= d /\ Pivot < d => pos'[c] <= d
<1>1. /\ Candidates # {} /\ pc = "run" /\ Front = Pivot
      /\ pos' = [c \in Children |-> IF pos[c] = Pivot THEN AdvanceTo(c, Pivot + 1) ELSE pos[c]]
      /\ rounds' = rounds + 1 /\ UNCHANGED <<part, alive, pc>>
  BY DEF ScorePivot, AtPivot
<1> DEFINE p == Pivot
<1>2. /\ p \in Docs /\ p \in Nat /\ p < End /\ p + 1 <= End /\ p + 1 \in Nat
      /\ \A c \in Children : p <= pos[c]
      /\ \E c \in Open : pos[c] = p
  BY <1>1, PivotFacts, WandBasics
<1> HIDE DEF p
<1>3. ASSUME NEW c \in Children
      PROVE  /\ pos[c] \in Nat /\ pos[c] \in 1 .. End /\ (pos[c] = End \/ pos[c] \in ListOf(c))
             /\ ListOf(c) \subseteq Nat
             /\ pos'[c] = IF pos[c] = p THEN AdvanceTo(c, p + 1) ELSE pos[c]
  BY <1>1, ListFacts, WandBasics DEF WandTypeOK, p
<1>4. ASSUME NEW c \in Children
      PROVE  /\ pos'[c] \in 1 .. End /\ (pos'[c] = End \/ pos'[c] \in ListOf(c))
             /\ pos[c] <= pos'[c] /\ p < pos'[c]
             /\ \A d \in ListOf(c) : pos[c] <= d /\ p < d => pos'[c] <= d
  <2>1. CASE pos[c] = p
    <3>1. /\ pos'[c] \in 1 .. End /\ (pos'[c] = End \/ pos'[c] \in ListOf(c))
          /\ pos[c] <= pos'[c] /\ p + 1 <= pos'[c]
          /\ \A d \in ListOf(c) : pos[c] <= d /\ p + 1 <= d => pos'[c] <= d
      BY <1>2, <1>3, <2>1, WandAdvanceFacts
    <3>2. pos'[c] \in Nat
      BY <3>1, WandBasics
    <3> QED
      BY <1>2, <1>3, <3>1, <3>2
  <2>2. CASE pos[c] # p
    <3>1. pos'[c] = pos[c] /\ p < pos[c]
      BY <1>2, <1>3, <2>2
    <3> QED
      BY <1>3, <3>1
  <2> QED
    BY <2>1, <2>2
<1>5. PICK c \in Open : pos[c] = p
  BY <1>2
<1>6. pos[c] < pos'[c]
  BY <1>4, <1>5 DEF Open
<1>7. pos' \in [Children -> 1 .. End]
  BY <1>1, <1>4
<1> QED
  BY <1>1, <1>2, <1>4, <1>5, <1>6, <1>7 DEF Moved, p

\* Whoever stands on the pivot has a part in its score; when documents are
\* passed by all of their lists together, that is everybody who holds it.
LEMMA ScoreAtPivot ==
  ASSUME WandTypeOK, PassedTogether, NEW p \in Docs, \A c \in Children : p <= pos[c],
         \E c \in Open : pos[c] = p
  PROVE  /\ ScoreAt(p) \in Nat /\ Holders(p) # {}
         /\ SkipsSafe => ScoreAt(p) = Score(p)
<1> DEFINE f == [c \in Children |-> part[c][p]]
           S == {c \in Open : pos[c] = p}
<1>1. S \in SUBSET Children /\ \A c \in S : c \in Holders(p)
  BY WandBasics, ListFacts DEF Open, WandTypeOK, Holders, ListOf
<1>2. IsFiniteSet(S) /\ IsFiniteSet(Children) /\ \A c \in Children : f[c] \in Nat
  BY <1>1, WandBasics, FS_Subset, ListFacts
<1>3. ScoreAt(p) = Total(f, S)
  BY SumIsTotal DEF ScoreAt
<1>4. Score(p) = Total(f, Children)
  BY ScoreIs
<1>5. Holders(p) # {}
  BY <1>1
<1>6. ASSUME SkipsSafe PROVE \A c \in Children : f[c] = 0 \/ c \in S
  <2> SUFFICES ASSUME NEW c \in Children, f[c] # 0 PROVE c \in S
    OBVIOUS
  <2>1. c \in Holders(p) /\ pos[c] \in Nat /\ p \in Nat /\ p < End
    BY <1>2, ListFacts, WandBasics DEF Holders
  <2>2. PICK b \in S : TRUE
    BY <1>1
  <2>3. b \in Holders(p) /\ pos[b] = p
    BY <1>1
  <2>4. pos[c] <= p
    BY <1>6, <2>1, <2>3 DEF PassedTogether, Passed
  <2> QED
    BY <2>1, <2>4 DEF Open
<1>7. ASSUME SkipsSafe PROVE ScoreAt(p) = Score(p)
  <2>1. \A c \in Children : f[c] = 0 \/ c \in S
    BY <1>6, <1>7
  <2> HIDE DEF f, S
  <2>2. Total(f, S) = Total(f, Children)
    BY <1>1, <1>2, <2>1, SumSame
  <2> QED
    BY <1>3, <1>4, <2>2
<1>8. ScoreAt(p) \in Nat
  <2> HIDE DEF f, S
  <2>1. \A c \in S : f[c] \in Nat
    BY <1>1, <1>2
  <2> QED
    BY <1>2, <1>3, <2>1, SumType
<1> QED
  BY <1>5, <1>7, <1>8

\* The pivot is offered to the heap with the sum of all of its parts.
LEMMA ScoreStep == ASSUME WandIInv, ScorePivot PROVE WandIInv'
<1> DEFINE p == Pivot
           e == [doc |-> p, score |-> ScoreAt(p)]
<1>1. /\ WandTypeOK /\ PassedTogether /\ ThetaBound /\ HeapBehind /\ Candidates # {}
      /\ IF p \in alive THEN Offer(e) ELSE UNCHANGED <<heap, theta>>
  BY DEF WandIInv, ScorePivot, AtPivot
<1>2. /\ Moved /\ pc = "run" /\ p \in Docs /\ UNCHANGED <<part, alive>>
      /\ \E c \in Open : pos[c] = p
      /\ \A c \in Children : /\ p <= pos[c] /\ p < pos'[c]
                             /\ \A d \in ListOf(c) : pos[c] <= d /\ p < d => pos'[c] <= d
  BY <1>1, ScoreMoves, PivotFacts DEF Moved
<1>3. /\ ScoreAt(p) \in Nat /\ Holders(p) # {}
      /\ SkipsSafe => ScoreAt(p) = Score(p)
  BY <1>1, <1>2, ScoreAtPivot
<1> HIDE DEF p
<1>4. /\ \A d \in Docs : Score(d)' = Score(d) /\ Holders(d)' = Holders(d)
      /\ \A d \in Docs : \A c \in Holders(d) : c \in Children /\ d \in ListOf(c)
      /\ SkipsSafe' = SkipsSafe /\ Eligible' = Eligible /\ Eligible \subseteq Docs
  BY <1>1, <1>2, SamePart DEF Holders, ListOf, Eligible, WandTypeOK
<1>5. /\ \A d \in Docs : d \in Nat
      /\ \A c \in Children : pos[c] \in Nat /\ pos'[c] \in Nat /\ pos[c] <= pos'[c]
  BY <1>1, <1>2, ListFacts, WandBasics DEF Moved
<1>6. e \in Entry /\ e \notin heap /\ e.doc = p
  <2>1. e \in Entry
    BY <1>2, <1>3 DEF Entry
  <2>2. PICK c \in Children : pos[c] = p
    BY <1>2 DEF Open
  <2>3. e \notin heap
    <3> SUFFICES ASSUME e \in heap PROVE FALSE
      OBVIOUS
    <3>1. pos[c] > e.doc
      BY <1>1 DEF HeapBehind
    <3> QED
      BY <1>2, <1>5, <2>2, <3>1
  <2> QED
    BY <2>1, <2>3
<1>7. PassedTogether'
  <2> SUFFICES ASSUME SkipsSafe, NEW d \in Docs
               PROVE  \/ \A c \in Holders(d) : pos'[c] > d
                      \/ \A c \in Holders(d) : pos'[c] <= d
    BY <1>4 DEF PassedTogether, Passed
  <2>1. CASE \A c \in Holders(d) : pos[c] > d
    BY <1>4, <1>5, <2>1
  <2>2. CASE \A c \in Holders(d) : pos[c] <= d
    BY <1>2, <1>4, <1>5, <2>2
  <2> QED
    BY <1>1, <2>1, <2>2 DEF PassedTogether, Passed
<1>8. ASSUME NEW d \in Eligible, d # p, Passed(d)', SkipsSafe PROVE Passed(d)
  <2>1. d \in Docs /\ Holders(d)' = Holders(d)
    BY <1>4
  <2>2. ASSUME NEW c \in Holders(d) PROVE pos[c] > d
    <3>1. c \in Children /\ d \in ListOf(c) /\ pos'[c] > d /\ p <= pos[c]
      BY <1>2, <1>4, <1>8, <2>1, <2>2 DEF Passed
    <3> QED
      BY <1>2, <1>5, <1>8, <2>1, <3>1
  <2> QED
    BY <2>2 DEF Passed
<1> HIDE DEF e
<1>9. CASE p \notin alive
  <2>1. heap' = heap /\ theta' = theta
    BY <1>1, <1>9
  <2>2. \A d \in Eligible : d # p
    BY <1>9 DEF Eligible
  <2>3. HeapBehind' /\ ThetaBound' /\ HeapExact'
    BY <1>2, <1>8, <2>1, <2>2, HeapStays
  <2>4. WandTypeOK' /\ DoneMeansDry' /\ RoundsBounded'
    BY <1>1, <1>2, <2>1, MovedKeeps DEF WandTypeOK
  <2> QED
    BY <1>7, <2>3, <2>4 DEF WandIInv
<1>10. CASE p \in alive
  <2>1. Retains(e)
    BY <1>1, <1>6, <1>10, OfferKeeps DEF e, p
  <2>2. WandTypeOK' /\ DoneMeansDry' /\ RoundsBounded' /\ ThetaBound'
    BY <1>2, <2>1, MovedKeeps DEF Retains
  <2>3. HeapBehind'
    <3> SUFFICES ASSUME NEW x \in heap', NEW c \in Children PROVE pos'[c] > x.doc
      BY DEF HeapBehind
    <3>1. CASE x = e
      BY <1>2, <1>6, <3>1
    <3>2. CASE x \in heap
      <4>1. x.doc \in Nat
        BY <1>1, <1>5, <3>2 DEF WandTypeOK, Entry
      <4> QED
        BY <1>1, <1>5, <3>2, <4>1 DEF HeapBehind
    <3> QED
      BY <2>1, <3>1, <3>2 DEF Retains
  <2>4. HeapExact'
    <3> SUFFICES ASSUME SkipsSafe
                 PROVE  /\ \A x \in heap' : x.doc \in Eligible /\ x.score = Score(x.doc)
                        /\ \A d \in Eligible :
                             \/ \E x \in heap' : x.doc = d
                             \/ ~ Passed(d)'
                             \/ /\ Cardinality(heap') = TopK
                                /\ \A x \in heap' : Score(d) <= x.score
      <4>1. Cardinality(heap') <= TopK /\ \A x \in heap' : x.doc \in Docs
        BY <2>1 DEF Retains, Entry
      <4> QED
        BY <1>4, <4>1 DEF HeapExact
    <3>1. p \in Eligible /\ e.doc = p /\ e.score = Score(p)
      BY <1>3, <1>10 DEF Eligible, e
    <3>2. /\ \A x \in heap : x.doc \in Eligible /\ x.score = Score(x.doc)
          /\ \A d \in Eligible :
               \/ \E x \in heap : x.doc = d
               \/ ~ Passed(d)
               \/ Cardinality(heap) = TopK /\ \A x \in heap : Score(d) <= x.score
      BY DEF WandIInv, HeapExact
    <3>3. \A x \in heap' : x.doc \in Eligible /\ x.score = Score(x.doc)
      BY <2>1, <3>1, <3>2 DEF Retains
    <3>4. ASSUME NEW d \in Eligible, ~ \E x \in heap' : x.doc = d, Passed(d)'
          PROVE  /\ Cardinality(heap') = TopK
                 /\ \A x \in heap' : Score(d) <= x.score
      <4>1. CASE \E x \in heap \cup {e} : x.doc = d
        <5>1. PICK x \in heap \cup {e} : x.doc = d
          BY <4>1
        <5>2. x \notin heap' /\ x.score = Score(d)
          BY <3>1, <3>2, <3>4, <5>1
        <5> QED
          BY <2>1, <5>1, <5>2 DEF Retains
      <4>2. CASE ~ \E x \in heap \cup {e} : x.doc = d
        <5>1. Passed(d)
          BY <1>8, <3>1, <3>4, <4>2
        <5>2. Cardinality(heap) = TopK /\ \A x \in heap : Score(d) <= x.score
          BY <3>2, <4>2, <5>1
        <5>3. Score(d) \in Nat /\ \A x \in heap \cup heap' : x.score \in Nat
          BY <1>1, <1>4, <2>1, ScoreIs DEF WandTypeOK, Retains, Entry
        <5>4. /\ Cardinality(heap') = TopK
              /\ \A y \in heap' : \E z \in heap : z.score <= y.score
          BY <2>1, <5>2 DEF Retains
        <5> QED
          BY <5>2, <5>3, <5>4
      <4> QED
        BY <4>1, <4>2
    <3> QED
      BY <3>3, <3>4
  <2> QED
    BY <1>7, <2>2, <2>3, <2>4 DEF WandIInv
<1> QED
  BY <1>9, <1>10

\* A step that changes nothing.
LEMMA WandStutterStep == ASSUME WandIInv, UNCHANGED wandVars PROVE WandIInv'
<1>1. /\ part' = part /\ alive' = alive /\ pos' = pos /\ heap' = heap
      /\ theta' = theta /\ rounds' = rounds /\ pc' = pc
  BY DEF wandVars
<1>2. WandTypeOK' /\ HeapBehind' /\ ThetaBound'
  BY <1>1 DEF WandIInv, WandTypeOK, HeapBehind, ThetaBound, ListOf
<1>3. DoneMeansDry'
  BY <1>1 DEF WandIInv, DoneMeansDry, Candidates, ListUb, Open, UpTo
<1>4. /\ \A d \in Docs : Score(d)' = Score(d) /\ Holders(d)' = Holders(d)
      /\ SkipsSafe' = SkipsSafe /\ Eligible' = Eligible
  BY <1>1, SamePart
<1>5. PassedTogether'
  BY <1>1, <1>4 DEF WandIInv, PassedTogether, Passed
<1>6. HeapExact'
  <2>1. alive \in SUBSET Docs /\ \A e \in heap : e.doc \in Docs
    BY DEF WandIInv, WandTypeOK, Entry
  <2> QED
    BY <1>1, <1>4, <2>1 DEF WandIInv, HeapExact, Eligible, Passed
<1>7. RoundsBounded'
  BY <1>1 DEF WandIInv, RoundsBounded, ListOf
<1> QED
  BY <1>2, <1>3, <1>5, <1>6, <1>7 DEF WandIInv

\* The inductive invariant of Wand holds in every state: theta bounds the
\* scores of a full heap, what was passed could not have entered it, and
\* nobody has passed only some parts of a document.
THEOREM WandIInvHolds == WandSpec => []WandIInv
<1>1. WandIInv /\ [WandNext]_wandVars => WandIInv'
  <2> SUFFICES ASSUME WandIInv, [WandNext]_wandVars PROVE WandIInv'
    OBVIOUS
  <2>1. CASE Finish
    BY <2>1, FinishStep
  <2>2. CASE SkipBlock
    BY <2>2, SkipStep
  <2>3. CASE ScorePivot
    BY <2>3, ScoreStep
  <2>4. CASE Align
    BY <2>4, AlignStep
  <2>5. CASE UNCHANGED wandVars
    BY <2>5, WandStutterStep
  <2> QED
    BY <2>1, <2>2, <2>3, <2>4, <2>5 DEF WandNext, WandDone
<1> QED
  BY <1>1, WandInitIInv, PTL DEF WandSpec

-----------------------------------------------------------------------------
(* WAND: what follows from it *)

\* A document is passed by all of its lists or by none, while no list of
\* several blocks shares a document.
THEOREM PassedTogetherHolds == WandSpec => []PassedTogether
<1>1. WandIInv => PassedTogether
  BY DEF WandIInv
<1> QED
  BY <1>1, WandIInvHolds, PTL

\* At every round the heap holds the true scores of the best documents passed.
THEOREM HeapIsExact == WandSpec => []HeapExact
<1>1. WandIInv => HeapExact
  BY DEF WandIInv
<1> QED
  BY <1>1, WandIInvHolds, PTL

\* The loop takes no more rounds than the lists have entries.
THEOREM LoopIsBounded == WandSpec => []RoundsBounded
<1>1. WandIInv => RoundsBounded
  BY DEF WandIInv
<1> QED
  BY <1>1, WandIInvHolds, PTL

\* When the loop has ended, each document is in the heap or beaten by all of it.
LEMMA AllOffered ==
  ASSUME WandIInv, pc = "done", SkipsSafe, NEW d \in Eligible
  PROVE  \/ \E e \in heap : e.doc = d
         \/ Cardinality(heap) = TopK /\ \A e \in heap : Score(d) <= e.score
<1>1. WandTypeOK /\ d \in Docs /\ Holders(d) # {} /\ Candidates = {}
  BY DEF WandIInv, WandTypeOK, Eligible, DoneMeansDry
<1>2. CASE Passed(d)
  BY <1>2 DEF WandIInv, HeapExact
<1>3. CASE ~ Passed(d)
  <2>1. \A c \in Holders(d) : pos[c] <= d
    BY <1>1, <1>3 DEF WandIInv, PassedTogether
  <2>2. Score(d) < theta
    BY <1>1, <2>1, TooLow
  <2>3. Score(d) \in Nat /\ theta \in Nat /\ \A e \in heap : e.score \in Nat
    BY <1>1, ScoreIs DEF WandTypeOK, Entry
  <2> QED
    BY <2>2, <2>3 DEF WandIInv, ThetaBound
<1> QED
  BY <1>2, <1>3

\* As long as no list of several blocks shares a document, the answer is an
\* exact top_k: right scores, the right number of documents, none missing that
\* scores more than one in it.
THEOREM AnswerIsTopK == WandSpec => []TopKExactWhenSafe
<1>1. ASSUME WandIInv PROVE TopKExactWhenSafe
  <2> SUFFICES ASSUME pc = "done", SkipsSafe PROVE IsTopK
    BY DEF TopKExactWhenSafe
  <2>1. \A e \in heap : e.doc \in Eligible /\ e.score = Score(e.doc)
    BY <1>1 DEF WandIInv, HeapExact
  <2>2. \A d \in Eligible : \/ \E e \in heap : e.doc = d
                            \/ Cardinality(heap) = TopK /\ \A e \in heap : Score(d) <= e.score
    BY <1>1, AllOffered
  <2>3. /\ heap \in SUBSET Entry /\ IsFiniteSet(heap) /\ Cardinality(heap) <= TopK
        /\ Cardinality(heap) \in Nat /\ TopK \in Nat
    BY <1>1, WandBasics, FS_CardinalityType DEF WandIInv, WandTypeOK
  <2>4. IsFiniteSet(Eligible) /\ Cardinality(Eligible) \in Nat
    BY <1>1, WandBasics, FS_Subset, FS_CardinalityType DEF WandIInv, WandTypeOK, Eligible
  <2> DEFINE docOf == [e \in heap |-> e.doc]
  <2>5. docOf \in Injection(heap, Eligible)
    <3>1. docOf \in [heap -> Eligible]
      BY <2>1
    <3>2. \A e, f \in heap : e.doc = f.doc => e = f
      BY <2>1, <2>3 DEF Entry
    <3>3. \A e, f \in heap : docOf[e] = docOf[f] => e = f
      BY <3>2
    <3> HIDE DEF docOf
    <3> QED
      BY <3>1, <3>3 DEF Injection, IsInjective
  <2>6. Cardinality(heap) <= Cardinality(Eligible)
    BY <2>4, <2>5, FS_Injection
  <2>7. CASE Cardinality(heap) = TopK
    <3>1. Min({TopK, Cardinality(Eligible)}) = TopK
      <4> DEFINE S == {TopK, Cardinality(Eligible)}
      <4>1. S \in SUBSET Nat /\ S # {} /\ TopK \in S /\ \A x \in S : TopK <= x
        BY <2>3, <2>4, <2>6, <2>7
      <4>2. Min(S) \in S /\ \A x \in S : Min(S) <= x
        BY <4>1, MinFacts
      <4> QED
        BY <2>3, <2>4, <2>6, <2>7, <4>1, <4>2
    <3> QED
      BY <2>1, <2>2, <2>7, <3>1 DEF IsTopK
  <2>8. CASE Cardinality(heap) # TopK
    <3>1. \A d \in Eligible : \E e \in heap : e.doc = d
      BY <2>2, <2>8
    <3>2. docOf \in Surjection(heap, Eligible)
      <4>1. docOf \in [heap -> Eligible] /\ \A d \in Eligible : \E e \in heap : docOf[e] = d
        BY <2>1, <3>1
      <4> HIDE DEF docOf
      <4> QED
        BY <4>1 DEF Surjection
    <3>3. Cardinality(heap) = Cardinality(Eligible)
      BY <2>4, <2>5, <3>2, FS_Injection
    <3>4. Min({TopK, Cardinality(Eligible)}) = Cardinality(Eligible)
      <4> DEFINE S == {TopK, Cardinality(Eligible)}
      <4>1. S \in SUBSET Nat /\ S # {} /\ Cardinality(Eligible) \in S
        BY <2>3, <2>4
      <4>2. Min(S) \in S /\ \A x \in S : Min(S) <= x
        BY <4>1, MinFacts
      <4> QED
        BY <2>3, <2>4, <2>6, <3>3, <4>1, <4>2
    <3> QED
      BY <2>1, <3>1, <3>3, <3>4 DEF IsTopK
  <2> QED
    BY <2>7, <2>8
<1> QED
  BY <1>1, WandIInvHolds, PTL

-----------------------------------------------------------------------------
(* The scorer tree: lemmas about the cursors *)

\* lower_bound returns a member or the end, and nothing of S lies before it.
LEMMA FirstOfFacts ==
  ASSUME NEW S \in SUBSET Docs
  PROVE  /\ FirstOf(S) \in S \cup {End}
         /\ FirstOf(S) \in 1 .. End
         /\ \A q \in S : FirstOf(S) <= q
<1>0. MaxDoc \in Nat
  BY ScorerAssumption
<1>1. S \cup {End} \in SUBSET Nat /\ S \cup {End} # {}
  BY <1>0 DEF Docs, End
<1>2. \E p \in S \cup {End} : \A q \in S : p <= q
  BY <1>1, LeastElement
<1>3. FirstOf(S) \in S \cup {End} /\ \A q \in S : FirstOf(S) <= q
  BY <1>2 DEF FirstOf
<1>4. \A p \in S \cup {End} : p \in 1 .. End
  BY <1>0 DEF Docs, End
<1> QED
  BY <1>3, <1>4

\* Scorer::advance never moves back, ends at or after the target, stands on
\* a document of the list or the end, and passes nothing at or after the
\* target that it had not passed before.
LEMMA TreeAdvanceFacts ==
  ASSUME NEW c, NEW t \in Nat, list[c] \in SUBSET Docs,
         pos[c] \in list[c] \cup {End}, pos[c] \in 1 .. End
  PROVE  /\ Advance(c, t) \in list[c] \cup {End}
         /\ Advance(c, t) \in 1 .. End
         /\ Advance(c, t) >= t \/ Advance(c, t) = End
         /\ Advance(c, t) >= pos[c]
         /\ \A d \in list[c] : d < Advance(c, t) => d < pos[c] \/ d < t
<1>0. MaxDoc \in Nat
  BY ScorerAssumption
<1> DEFINE R == {d \in list[c] : d >= t}
<1>1. R \in SUBSET Docs
  OBVIOUS
<1>2. /\ FirstOf(R) \in R \cup {End} /\ FirstOf(R) \in 1 .. End
      /\ \A q \in R : FirstOf(R) <= q
  BY <1>1, FirstOfFacts
<1>3. CASE pos[c] >= t
  BY <1>0, <1>3 DEF Advance, Docs, End
<1>4. CASE ~ (pos[c] >= t)
  <2>1. Advance(c, t) = FirstOf(R)
    BY <1>4 DEF Advance, From
  <2>2. FirstOf(R) >= t \/ FirstOf(R) = End
    BY <1>2
  <2>3. FirstOf(R) >= pos[c]
    BY <1>0, <1>2, <1>4, <2>2 DEF End
  <2>4. ASSUME NEW d \in list[c], d < FirstOf(R)
        PROVE  d < pos[c] \/ d < t
    <3>1. d \in Nat
      BY <1>0 DEF Docs
    <3>2. FirstOf(R) \in Nat
      BY <1>0, <1>2 DEF End
    <3>3. ASSUME d >= t PROVE FALSE
      <4>1. d \in R
        BY <3>3
      <4>2. FirstOf(R) <= d
        BY <1>2, <4>1
      <4> QED
        BY <2>4, <3>1, <3>2, <4>2
    <3> QED
      BY <3>1, <3>3
  <2> QED
    BY <1>2, <2>1, <2>2, <2>3, <2>4
<1> QED
  BY <1>3, <1>4

\* What an inner OR keeps is part of what it was given.
LEMMA KeptFacts ==
  ASSUME NEW S, NEW K \in Kept(S)
  PROVE  /\ K \subseteq S
         /\ Cardinality(K) = Least(TopK, Cardinality(S))
BY DEF Kept

LEMMA ListsFacts ==
  ASSUME want \in [Clauses -> SUBSET Docs], NEW l \in Lists
  PROVE  /\ l \in [Clauses -> SUBSET Docs]
         /\ \A c \in Clauses : l[c] \in Yields(c)
<1>1. \A c \in Clauses : l[c] \in Yields(c)
  BY DEF Lists
<1>2. \A c \in Clauses : Yields(c) \subseteq SUBSET Docs
  BY DEF Yields, Kept
<1>3. DOMAIN l = Clauses /\ l = [c \in Clauses |-> l[c]]
  BY DEF Lists
<1> QED
  BY <1>1, <1>2, <1>3

-----------------------------------------------------------------------------
(* The scorer tree: the inductive invariant *)

\* No cursor has passed a document of its list at or after the lead.
NothingSkipped ==
  \A c \in Clauses : /\ pos[c] \in list[c] \cup {End}
                     /\ \A d \in list[c] : d < pos[c] => d < pos[lead]

\* The children that were asked agree with the lead, the exclusions that were
\* asked do not hold the candidate.
Agreed ==
  /\ pc \in {"zigzag", "exclude"} => pos[lead] # End
  /\ pc = "zigzag"  => \A c \in Main \ todo : pos[c] = pos[lead]
  /\ pc = "exclude" => /\ \A c \in Main : pos[c] = pos[lead]
                       /\ \A n \in Nots : n < level => pos[lead] \notin list[n]

\* When the scan is over it has found everything.
Collected == pc \in {"collect", "done"} => hits = Yielded

AnswerOfHits ==
  pc = "done" => answer \in Kept(hits)

ListsChosen == pc # "create" => \A c \in Clauses : list[c] \in Yields(c)

TreeIInv ==
  /\ TypeOK
  /\ pc = "create" => hits = {} /\ answer = {}
  /\ pc \in {"zigzag", "exclude"} => NothingSkipped
  /\ Agreed
  /\ ScanExact
  /\ Collected
  /\ AnswerOfHits
  /\ ListsChosen

\* Basic numbers and memberships the steps below compute with.
LEMMA TreeBasics ==
  /\ MaxDoc \in Nat /\ End \in Nat /\ NotCount \in Nat
  /\ Docs \subseteq Nat /\ 1 .. End \subseteq Nat
  /\ \A d \in Docs : d < End
  /\ Main \subseteq Clauses /\ Nots \subseteq Clauses
BY ScorerAssumption DEF Docs, End, Clauses

LEMMA TreeInitIInv == TreeInit => TreeIInv
<1> SUFFICES ASSUME TreeInit PROVE TreeIInv
  OBVIOUS
<1> USE TreeBasics, ScorerAssumption
<1>1. TypeOK
  BY DEF TreeInit, TypeOK, End
<1> QED
  BY <1>1 DEF TreeInit, TreeIInv, Agreed, ScanExact, Collected, AnswerOfHits, ListsChosen

\* Moving the lead to a target keeps the scan exact: nothing at or after the
\* target has been skipped and the hits are all yielded documents before it.
LEMMA LeadMoves ==
  ASSUME TreeIInv, pc \in {"zigzag", "exclude"},
         NEW t \in Nat, t >= pos[lead],
         NEW p \in [Clauses -> 1 .. End],
         p[lead] = pos[lead],
         \A c \in Clauses : p[c] \in list[c] \cup {End},
         \A c \in Clauses : \A d \in list[c] : d < p[c] => d < t,
         hits' = {d \in Yielded : d < t},
         LeadTo(t, p),
         UNCHANGED <<want, alive, list, lead, answer>>,
         level' \in 1 .. NotCount + 1
  PROVE  TreeIInv'
<1> DEFINE q == Advance(lead, t)
<1>0. /\ TypeOK /\ NothingSkipped /\ ListsChosen
      /\ lead \in Main /\ lead \in Clauses /\ list[lead] \in SUBSET Docs
      /\ pos[lead] \in list[lead] \cup {End} /\ pos[lead] \in 1 .. End
  BY TreeBasics DEF TreeIInv, TypeOK, NothingSkipped
<1>1. /\ q \in list[lead] \cup {End} /\ q \in 1 .. End
      /\ q >= t \/ q = End
      /\ \A d \in list[lead] : d < q => d < pos[lead] \/ d < t
  BY <1>0, TreeAdvanceFacts
<1>2. /\ pos' = [p EXCEPT ![lead] = q]
      /\ pc' = IF q = End THEN "collect" ELSE "zigzag"
      /\ todo' = Main \ {lead}
  BY DEF LeadTo
<1> HIDE DEF q
<1>3. Yielded' = Yielded /\ Yielded \subseteq Docs
  BY <1>0 DEF Yielded, Satisfies, TypeOK
<1>4. pos' \in [Clauses -> 1 .. End] /\ pos'[lead] = q
  BY <1>0, <1>1, <1>2
<1>5. \A d \in Yielded : d \in Nat /\ (d < q => d < t)
  <2> TAKE d \in Yielded
  <2>1. d \in list[lead] /\ d \in Nat /\ pos[lead] \in Nat
    BY <1>0, <1>3, TreeBasics DEF Yielded, Satisfies
  <2> QED
    BY <1>1, <2>1
<1>6. TypeOK'
  <2>1. hits' \in SUBSET Docs
    BY <1>3
  <2> QED
    BY <1>0, <1>2, <1>4, <2>1 DEF TypeOK
<1>7. pc' = "zigzag" => NothingSkipped'
  <2> SUFFICES ASSUME q # End, NEW c \in Clauses
               PROVE  /\ pos'[c] \in list[c] \cup {End}
                      /\ \A d \in list[c] : d < pos'[c] => d < q
    BY <1>2, <1>4 DEF NothingSkipped
  <2>1. CASE c = lead
    BY <1>1, <1>4, <2>1
  <2>2. CASE c # lead
    <3>1. pos'[c] = p[c]
      BY <1>2, <2>2
    <3>2. list[c] \subseteq Nat /\ q \in Nat
      BY <1>0, <1>1, TreeBasics DEF TypeOK
    <3> QED
      BY <1>1, <3>1, <3>2
  <2> QED
    BY <2>1, <2>2
<1>8. Agreed'
  BY <1>2, <1>4 DEF Agreed
<1>9. ScanExact'
  <2> SUFFICES ASSUME q # End
               PROVE  hits' = {d \in Yielded : d < q}
    BY <1>2, <1>3, <1>4 DEF ScanExact
  <2>1. q \in Nat /\ q >= t
    BY <1>1, TreeBasics
  <2>2. \A d \in Yielded : d < t <=> d < q
    BY <1>5, <2>1
  <2> QED
    BY <2>2
<1>10. Collected'
  <2> SUFFICES ASSUME q = End
               PROVE  hits' = Yielded
    BY <1>2, <1>3 DEF Collected
  <2>1. \A d \in Yielded : d < q
    BY <1>3, TreeBasics
  <2> QED
    BY <1>5, <2>1
<1>11. AnswerOfHits' /\ ListsChosen'
  <2>1. pc # "create" /\ pc' # "done"
    BY <1>2
  <2> QED
    BY <1>0, <2>1 DEF AnswerOfHits, ListsChosen, Yields, Kept
<1>12. pc' # "create" /\ (pc' \in {"zigzag", "exclude"} => pc' = "zigzag")
  BY <1>2
<1> QED
  BY <1>6, <1>7, <1>8, <1>9, <1>10, <1>11, <1>12 DEF TreeIInv

LEMMA CreateScorerStep == TreeIInv /\ CreateScorer => TreeIInv'
<1> SUFFICES ASSUME TreeIInv, CreateScorer PROVE TreeIInv'
  OBVIOUS
<1>1. /\ TypeOK /\ pc = "create" /\ hits = {} /\ answer = {}
      /\ want \in [Clauses -> SUBSET Docs]
  BY DEF TreeIInv, CreateScorer, TypeOK
<1>2. /\ list' \in [Clauses -> SUBSET Docs]
      /\ \A c \in Clauses : list'[c] \in Yields(c)
  BY <1>1, ListsFacts DEF CreateScorer
<1>3. \A c \in Clauses : /\ pos'[c] = FirstOf(list'[c])
                         /\ pos'[c] \in list'[c] \cup {End}
                         /\ pos'[c] \in 1 .. End
                         /\ \A d \in list'[c] : pos'[c] <= d
  BY <1>2, FirstOfFacts DEF CreateScorer
<1>4. pos' \in [Clauses -> 1 .. End]
  BY <1>3 DEF CreateScorer
<1>5. /\ UNCHANGED <<want, alive, lead, level, hits, answer>>
      /\ pc' = IF \E c \in Main : pos'[c] = End THEN "collect" ELSE "zigzag"
      /\ todo' = Main \ {lead}
      /\ lead \in Main /\ lead \in Clauses
  BY <1>1, TreeBasics DEF CreateScorer, TypeOK
<1>6. TypeOK'
  BY <1>1, <1>2, <1>4, <1>5 DEF TypeOK
<1>7. \A c \in Clauses : \A d \in list'[c] : ~ (d < pos'[c])
  <2> TAKE c \in Clauses
  <2> TAKE d \in list'[c]
  <2>1. d \in Nat /\ pos'[c] \in Nat /\ pos'[c] <= d
    BY <1>2, <1>3, TreeBasics
  <2> QED
    BY <2>1
<1>8. NothingSkipped'
  BY <1>3, <1>7 DEF NothingSkipped
<1>9. Agreed'
  BY <1>5 DEF Agreed
<1>10. ScanExact'
  <2>1. \A d \in Yielded' : ~ (d < pos'[lead])
    BY <1>5, <1>7 DEF Yielded, Satisfies
  <2> QED
    BY <1>1, <1>5, <2>1 DEF ScanExact
<1>11. Collected'
  <2> SUFFICES ASSUME pc' = "collect" PROVE Yielded' = {}
    BY <1>1, <1>5 DEF Collected
  <2>1. PICK c \in Main : pos'[c] = End
    BY <1>5
  <2>2. c \in Clauses /\ \A d \in list'[c] : d \in Docs
    BY <1>2, TreeBasics
  <2>3. \A d \in list'[c] : d < End
    BY <2>2, TreeBasics
  <2>4. list'[c] = {}
    BY <1>7, <2>1, <2>2, <2>3
  <2> QED
    BY <2>4 DEF Yielded, Satisfies
<1>12. AnswerOfHits' /\ ListsChosen'
  BY <1>2, <1>5 DEF AnswerOfHits, ListsChosen, Yields, Kept
<1> QED
  BY <1>5, <1>6, <1>8, <1>9, <1>10, <1>11, <1>12 DEF TreeIInv

LEMMA ZigzagStep == ASSUME TreeIInv, NEW c \in Main, Zigzag(c) PROVE TreeIInv'
<1> DEFINE q == Advance(c, pos[lead])
           p == [pos EXCEPT ![c] = q]
<1>1. /\ TypeOK /\ pc = "zigzag" /\ NothingSkipped /\ ListsChosen
      /\ c \in todo /\ c # lead /\ c \in Clauses
      /\ lead \in Main /\ lead \in Clauses
      /\ list[c] \in SUBSET Docs
      /\ pos[c] \in list[c] \cup {End} /\ pos[c] \in 1 .. End
      /\ pos[lead] \in 1 .. End /\ pos[lead] \in Nat
      /\ pos \in [Clauses -> 1 .. End]
      /\ UNCHANGED <<want, alive, list, lead, level, hits, answer>>
      /\ level \in 1 .. NotCount + 1
      /\ hits = {d \in Yielded : d < pos[lead]}
      /\ pos[lead] # End
      /\ \A b \in Main \ todo : pos[b] = pos[lead]
  <2>1. TypeOK /\ pc = "zigzag" /\ NothingSkipped /\ ListsChosen
    BY DEF TreeIInv, Zigzag
  <2>2. /\ c \in todo /\ c # lead /\ c \in Clauses
        /\ lead \in Main /\ lead \in Clauses
        /\ list[c] \in SUBSET Docs /\ pos[c] \in 1 .. End
        /\ pos[lead] \in 1 .. End /\ pos \in [Clauses -> 1 .. End]
        /\ level \in 1 .. NotCount + 1
    BY <2>1, TreeBasics DEF TypeOK, Zigzag
  <2>3. pos[c] \in list[c] \cup {End}
    BY <2>1, <2>2 DEF NothingSkipped
  <2>4. /\ hits = {d \in Yielded : d < pos[lead]} /\ pos[lead] # End
        /\ \A b \in Main \ todo : pos[b] = pos[lead]
    BY <2>1 DEF TreeIInv, ScanExact, Agreed
  <2> QED
    BY <2>1, <2>2, <2>3, <2>4, TreeBasics DEF Zigzag
<1>2. /\ q \in list[c] \cup {End} /\ q \in 1 .. End /\ q \in Nat
      /\ q >= pos[lead]
      /\ \A d \in list[c] : d < q => d < pos[c] \/ d < pos[lead]
  <2>1. /\ q \in list[c] \cup {End} /\ q \in 1 .. End
        /\ q >= pos[lead] \/ q = End
        /\ \A d \in list[c] : d < q => d < pos[c] \/ d < pos[lead]
    BY <1>1, TreeAdvanceFacts
  <2>2. End >= pos[lead]
    BY <1>1, TreeBasics
  <2> QED
    BY <2>1, <2>2, TreeBasics
<1>3. \/ q = End /\ pos' = p /\ pc' = "collect" /\ UNCHANGED todo
      \/ q = pos[lead] /\ pos' = p /\ todo' = todo \ {c} /\ UNCHANGED pc
      \/ q # End /\ q # pos[lead] /\ LeadTo(q, p)
  BY DEF Zigzag
<1>4. p \in [Clauses -> 1 .. End] /\ p[c] = q /\ \A b \in Clauses \ {c} : p[b] = pos[b]
  BY <1>1, <1>2
<1> HIDE DEF q, p
<1>5. \A d \in list[c] : d < q => d < pos[lead]
  BY <1>1, <1>2 DEF NothingSkipped
<1>6. \A b \in Clauses : /\ p[b] \in list[b] \cup {End}
                         /\ \A d \in list[b] : d < p[b] => d < pos[lead]
  BY <1>1, <1>2, <1>4, <1>5 DEF NothingSkipped
<1>7. Yielded \subseteq Docs /\ (\A d \in Yielded : d \in list[c] /\ d \in Nat)
  BY <1>1, TreeBasics DEF Yielded, Satisfies, TypeOK
<1>8. CASE q = End /\ pos' = p /\ pc' = "collect" /\ UNCHANGED todo
  <2>1. TypeOK'
    BY <1>1, <1>4, <1>8 DEF TypeOK
  <2>2. Yielded' = Yielded
    BY <1>1 DEF Yielded, Satisfies
  <2>3. \A d \in Yielded : d < pos[lead]
    BY <1>5, <1>7, <1>8, TreeBasics
  <2>4. Collected'
    BY <1>1, <2>2, <2>3 DEF Collected
  <2>5. ListsChosen'
    BY <1>1 DEF ListsChosen, Yields, Kept
  <2> QED
    BY <1>8, <2>1, <2>4, <2>5 DEF TreeIInv, Agreed, ScanExact, AnswerOfHits
<1>9. CASE q = pos[lead] /\ pos' = p /\ todo' = todo \ {c} /\ UNCHANGED pc
  <2>1. TypeOK'
    BY <1>1, <1>4, <1>9 DEF TypeOK
  <2>2. pos'[lead] = pos[lead]
    BY <1>1, <1>4, <1>9
  <2>3. NothingSkipped'
    BY <1>1, <1>6, <1>9, <2>2 DEF NothingSkipped
  <2>4. Agreed'
    <3>1. ASSUME NEW b \in Main \ todo' PROVE pos'[b] = pos'[lead]
      <4>1. b \in Clauses /\ (b = c \/ b \in Main \ todo)
        BY <1>9, <3>1, TreeBasics
      <4> QED
        BY <1>1, <1>4, <1>9, <2>2, <4>1
    <3> QED
      BY <1>1, <1>9, <2>2, <3>1 DEF Agreed
  <2>5. ScanExact' /\ Collected' /\ AnswerOfHits' /\ ListsChosen'
    BY <1>1, <1>9, <2>2 DEF ScanExact, Collected, AnswerOfHits, ListsChosen,
                            Yielded, Satisfies, Yields, Kept
  <2> QED
    BY <1>1, <1>9, <2>1, <2>3, <2>4, <2>5 DEF TreeIInv
<1>10. CASE q # End /\ q # pos[lead] /\ LeadTo(q, p)
  <2>1. p[lead] = pos[lead]
    BY <1>1, <1>4
  <2>2. \A b \in Clauses : \A d \in list[b] : d < p[b] => d < q
    <3> TAKE b \in Clauses
    <3> TAKE d \in list[b]
    <3>1. d \in Nat
      BY <1>1, TreeBasics DEF TypeOK
    <3> QED
      BY <1>1, <1>2, <1>6, <3>1
  <2>3. hits' = {d \in Yielded : d < q}
    <3>1. \A d \in Yielded : d < q <=> d < pos[lead]
      BY <1>1, <1>2, <1>5, <1>7
    <3> QED
      BY <1>1, <3>1
  <2> QED
    BY <1>1, <1>2, <1>4, <1>6, <1>10, <2>1, <2>2, <2>3, LeadMoves
<1> QED
  BY <1>3, <1>8, <1>9, <1>10

LEMMA MatchStep == TreeIInv /\ Match => TreeIInv'
<1> SUFFICES ASSUME TreeIInv, Match PROVE TreeIInv'
  OBVIOUS
<1>1. /\ TypeOK /\ pc = "zigzag" /\ todo = {} /\ level' = 1 /\ pc' = "exclude"
      /\ UNCHANGED <<want, alive, list, pos, lead, todo, hits, answer>>
      /\ NothingSkipped /\ Agreed /\ ScanExact /\ ListsChosen
  BY DEF TreeIInv, Match
<1>2. TypeOK'
  BY <1>1, TreeBasics DEF TypeOK
<1>3. Agreed'
  <2>1. \A n \in Nots : ~ (n < level')
    BY <1>1, TreeBasics DEF Nots
  <2> QED
    BY <1>1, <2>1 DEF Agreed
<1>4. NothingSkipped' /\ ScanExact' /\ Collected' /\ AnswerOfHits' /\ ListsChosen'
  BY <1>1 DEF NothingSkipped, ScanExact, Collected, AnswerOfHits, ListsChosen,
              Yielded, Satisfies, Yields, Kept
<1> QED
  BY <1>1, <1>2, <1>3, <1>4 DEF TreeIInv

\* What is known of the candidate while the exclusions look at it.
LEMMA Candidate ==
  ASSUME TreeIInv, pc = "exclude"
  PROVE  /\ TypeOK /\ NothingSkipped /\ ListsChosen
         /\ lead \in Main /\ lead \in Clauses
         /\ pos[lead] \in Docs /\ pos[lead] \in Nat
         /\ \A c \in Main : pos[lead] \in list[c]
         /\ \A n \in Nots : n < level => pos[lead] \notin list[n]
         /\ hits = {d \in Yielded : d < pos[lead]}
         /\ Yielded \subseteq Docs
         /\ \A c \in Clauses : pos[c] \in list[c] \cup {End} /\ pos[c] \in 1 .. End
         /\ \A c \in Clauses : list[c] \subseteq Docs
<1>1. /\ TypeOK /\ NothingSkipped /\ ListsChosen /\ Agreed /\ ScanExact
      /\ pos[lead] # End /\ (\A c \in Main : pos[c] = pos[lead])
      /\ \A n \in Nots : n < level => pos[lead] \notin list[n]
      /\ hits = {d \in Yielded : d < pos[lead]}
  BY DEF TreeIInv, Agreed, ScanExact
<1>2. lead \in Main /\ lead \in Clauses /\ Yielded \subseteq Docs
  BY <1>1, TreeBasics DEF TypeOK, Yielded
<1>3. \A c \in Clauses : pos[c] \in list[c] \cup {End} /\ pos[c] \in 1 .. End
                          /\ list[c] \subseteq Docs
  BY <1>1 DEF TypeOK, NothingSkipped
<1>4. \A c \in Main : pos[lead] \in list[c]
  BY <1>1, <1>3, TreeBasics
<1> QED
  BY <1>1, <1>2, <1>3, <1>4, TreeBasics

LEMMA ExcludeStep == TreeIInv /\ Exclude => TreeIInv'
<1> SUFFICES ASSUME TreeIInv, Exclude PROVE TreeIInv'
  OBVIOUS
<1> DEFINE q == Advance(level, pos[lead])
           p == [pos EXCEPT ![level] = q]
<1>1. /\ pc = "exclude" /\ level \in Nots /\ level \in Clauses /\ level # lead
      /\ UNCHANGED <<want, alive, list, lead, hits, answer>>
      /\ level \in Nat /\ level <= NotCount
  BY TreeBasics, ScorerAssumption, Candidate DEF Exclude, Nots
<1>2. /\ TypeOK /\ NothingSkipped /\ ListsChosen
      /\ lead \in Main /\ lead \in Clauses
      /\ pos[lead] \in Docs /\ pos[lead] \in Nat
      /\ \A c \in Main : pos[lead] \in list[c]
      /\ \A n \in Nots : n < level => pos[lead] \notin list[n]
      /\ hits = {d \in Yielded : d < pos[lead]}
      /\ Yielded \subseteq Docs
      /\ \A c \in Clauses : pos[c] \in list[c] \cup {End} /\ pos[c] \in 1 .. End
      /\ \A c \in Clauses : list[c] \subseteq Docs
  BY <1>1, Candidate
<1>3. /\ q \in list[level] \cup {End} /\ q \in 1 .. End /\ q \in Nat
      /\ q >= pos[lead]
      /\ \A d \in list[level] : d < q => d < pos[level] \/ d < pos[lead]
  <2>1. /\ q \in list[level] \cup {End} /\ q \in 1 .. End
        /\ q >= pos[lead] \/ q = End
        /\ \A d \in list[level] : d < q => d < pos[level] \/ d < pos[lead]
    BY <1>1, <1>2, TreeAdvanceFacts
  <2>2. End >= pos[lead]
    BY <1>2, TreeBasics
  <2> QED
    BY <2>1, <2>2, TreeBasics
<1>4. \/ q # pos[lead] /\ pos' = p /\ level' = level + 1 /\ UNCHANGED <<pc, todo>>
      \/ q = pos[lead] /\ LeadTo(pos[lead] + 1, p) /\ UNCHANGED level
  BY DEF Exclude
<1>5. p \in [Clauses -> 1 .. End] /\ p[level] = q
      /\ \A b \in Clauses \ {level} : p[b] = pos[b]
  BY <1>1, <1>2, <1>3 DEF TypeOK
<1> HIDE DEF q, p
<1>6. \A d \in list[level] : d < q => d < pos[lead]
  BY <1>1, <1>2, <1>3 DEF NothingSkipped
<1>7. \A b \in Clauses : /\ p[b] \in list[b] \cup {End}
                         /\ \A d \in list[b] : d < p[b] => d < pos[lead]
  BY <1>1, <1>2, <1>3, <1>5, <1>6 DEF NothingSkipped
<1>8. p[lead] = pos[lead] /\ \A b \in Main : p[b] = pos[b]
  <2>1. level \notin Main
    BY <1>1, ScorerAssumption
  <2> QED
    BY <1>2, <1>5, <2>1, TreeBasics
<1>9. CASE q # pos[lead] /\ pos' = p /\ level' = level + 1 /\ UNCHANGED <<pc, todo>>
  <2>1. TypeOK'
    BY <1>1, <1>2, <1>5, <1>9, TreeBasics DEF TypeOK
  <2>2. NothingSkipped'
    BY <1>1, <1>7, <1>8, <1>9 DEF NothingSkipped
  <2>3. pos[lead] \notin list[level]
    <3>1. SUFFICES ASSUME pos[lead] \in list[level], pos[lead] < q PROVE FALSE
      BY <1>2, <1>3, <1>9
    <3> QED
      BY <1>2, <1>6, <3>1
  <2>4. Agreed'
    <3>1. \A n \in Nots : n < level' => n < level \/ n = level
      BY <1>1, <1>9, TreeBasics DEF Nots
    <3>2. \A n \in Nots : n < level' => pos'[lead'] \notin list'[n]
      BY <1>1, <1>2, <1>8, <1>9, <2>3, <3>1
    <3>3. \A c \in Main : pos'[c] = pos'[lead']
      BY <1>1, <1>2, <1>8, <1>9 DEF TreeIInv, Agreed
    <3>4. pos'[lead'] # End
      BY <1>1, <1>2, <1>8, <1>9, TreeBasics
    <3> QED
      BY <1>1, <1>9, <3>2, <3>3, <3>4 DEF Agreed
  <2>5. ScanExact' /\ Collected' /\ AnswerOfHits' /\ ListsChosen'
    BY <1>1, <1>2, <1>8, <1>9 DEF ScanExact, Collected, AnswerOfHits,
                            ListsChosen, Yielded, Satisfies, Yields, Kept
  <2> QED
    BY <1>1, <1>9, <2>1, <2>2, <2>4, <2>5 DEF TreeIInv
<1>10. CASE q = pos[lead] /\ LeadTo(pos[lead] + 1, p) /\ UNCHANGED level
  <2>1. pos[lead] \notin Yielded
    <3>1. pos[lead] \in list[level]
      BY <1>2, <1>3, <1>10, TreeBasics
    <3> QED
      BY <1>1, <3>1 DEF Yielded, Satisfies
  <2>2. hits' = {d \in Yielded : d < pos[lead] + 1}
    <3>1. \A d \in Yielded : d < pos[lead] + 1 <=> d < pos[lead]
      BY <1>2, <2>1, TreeBasics
    <3> QED
      BY <1>1, <1>2, <3>1
  <2>3. \A b \in Clauses : \A d \in list[b] : d < p[b] => d < pos[lead] + 1
    <3> TAKE b \in Clauses
    <3> TAKE d \in list[b]
    <3>1. d \in Nat
      BY <1>2, TreeBasics
    <3> QED
      BY <1>2, <1>7, <3>1
  <2>4. pos[lead] + 1 \in Nat /\ pos[lead] + 1 >= pos[lead]
    BY <1>2
  <2>5. level' \in 1 .. NotCount + 1
    BY <1>2, <1>10 DEF TypeOK
  <2> QED
    BY <1>1, <1>5, <1>7, <1>8, <1>10, <2>2, <2>3, <2>4, <2>5, LeadMoves
<1> QED
  BY <1>4, <1>9, <1>10

LEMMA VisitStep == TreeIInv /\ Visit => TreeIInv'
<1> SUFFICES ASSUME TreeIInv, Visit PROVE TreeIInv'
  OBVIOUS
<1>1. /\ pc = "exclude" /\ level = NotCount + 1
      /\ hits' = hits \cup ({pos[lead]} \cap alive)
      /\ LeadTo(pos[lead] + 1, pos)
      /\ UNCHANGED <<want, alive, list, lead, level, answer>>
  BY DEF Visit
<1>2. /\ TypeOK /\ NothingSkipped
      /\ pos[lead] \in Docs /\ pos[lead] \in Nat
      /\ \A c \in Main : pos[lead] \in list[c]
      /\ \A n \in Nots : n < level => pos[lead] \notin list[n]
      /\ hits = {d \in Yielded : d < pos[lead]}
      /\ Yielded \subseteq Docs
      /\ \A c \in Clauses : pos[c] \in list[c] \cup {End} /\ pos[c] \in 1 .. End
      /\ \A c \in Clauses : list[c] \subseteq Docs
  BY <1>1, Candidate
<1>3. \A n \in Nots : n < level
  BY <1>1, TreeBasics DEF Nots
<1>4. pos[lead] \in Yielded <=> pos[lead] \in alive
  BY <1>2, <1>3 DEF Yielded, Satisfies
<1>5. hits' = {d \in Yielded : d < pos[lead] + 1}
  <2>1. \A d \in Yielded : d < pos[lead] + 1 <=> (d < pos[lead] \/ d = pos[lead])
    BY <1>2, TreeBasics
  <2> QED
    BY <1>1, <1>2, <1>4, <2>1
<1>6. \A b \in Clauses : \A d \in list[b] : d < pos[b] => d < pos[lead] + 1
  <2> TAKE b \in Clauses
  <2> TAKE d \in list[b]
  <2>1. d \in Nat
    BY <1>2, TreeBasics
  <2> QED
    BY <1>2, <2>1 DEF NothingSkipped
<1>7. /\ pos[lead] + 1 \in Nat /\ pos[lead] + 1 >= pos[lead]
      /\ pos \in [Clauses -> 1 .. End] /\ level' \in 1 .. NotCount + 1
  BY <1>1, <1>2 DEF TypeOK
<1> QED
  BY <1>1, <1>2, <1>5, <1>6, <1>7, LeadMoves

LEMMA CollectStep == TreeIInv /\ Collect => TreeIInv'
<1> SUFFICES ASSUME TreeIInv, Collect PROVE TreeIInv'
  OBVIOUS
<1>1. /\ pc = "collect" /\ answer' \in Kept(hits) /\ pc' = "done"
      /\ UNCHANGED <<want, alive, list, pos, lead, todo, level, hits>>
      /\ TypeOK /\ Collected /\ ListsChosen
  BY DEF Collect, TreeIInv
<1>2. TypeOK'
  <2>1. answer' \in SUBSET Docs
    BY <1>1, KeptFacts DEF TypeOK
  <2> QED
    BY <1>1, <2>1 DEF TypeOK
<1>3. Collected' /\ AnswerOfHits' /\ ListsChosen'
  BY <1>1 DEF Collected, AnswerOfHits, ListsChosen, Yielded, Satisfies, Yields, Kept
<1> QED
  BY <1>1, <1>2, <1>3 DEF TreeIInv, Agreed, ScanExact

LEMMA TreeStutterStep == TreeIInv /\ UNCHANGED treeVars => TreeIInv'
BY DEF TreeIInv, treeVars, TypeOK, NothingSkipped, Agreed, ScanExact, Collected,
       AnswerOfHits, ListsChosen, Yielded, Satisfies, Yields, Kept

\* IInv holds in every reachable state.
THEOREM TreeIInvHolds == TreeSpec => []TreeIInv
<1>1. TreeIInv /\ [TreeNext]_treeVars => TreeIInv'
  <2> SUFFICES ASSUME TreeIInv, [TreeNext]_treeVars PROVE TreeIInv'
    OBVIOUS
  <2>1. CASE CreateScorer
    BY <2>1, CreateScorerStep
  <2>2. CASE \E c \in Main : Zigzag(c)
    BY <2>2, ZigzagStep
  <2>3. CASE Match
    BY <2>3, MatchStep
  <2>4. CASE Exclude
    BY <2>4, ExcludeStep
  <2>5. CASE Visit
    BY <2>5, VisitStep
  <2>6. CASE Collect
    BY <2>6, CollectStep
  <2>7. CASE UNCHANGED treeVars
    BY <2>7, TreeStutterStep
  <2> QED
    BY <2>1, <2>2, <2>3, <2>4, <2>5, <2>6, <2>7 DEF TreeNext, TreeDone
<1> QED
  BY <1>1, TreeInitIInv, PTL DEF TreeSpec

\* Types of ScorerTree.
THEOREM TypeCorrect == TreeSpec => []TypeOK
<1>1. TreeIInv => TypeOK
  BY DEF TreeIInv
<1> QED
  BY <1>1, TreeIInvHolds, PTL

\* The zigzag and the chain of exclusions lose no document and let none
\* through: the hits are exactly the yielded documents before the lead.
THEOREM ScanIsExact == TreeSpec => []ScanExact
<1>1. TreeIInv => ScanExact
  BY DEF TreeIInv
<1> QED
  BY <1>1, TreeIInvHolds, PTL

\* While every inner OR fits in top_k, the answer is top_k of the documents
\* the query wants, or all of them.
THEOREM AnswerIsExact == TreeSpec => []AnswerExact
<1>1. ASSUME TreeIInv PROVE AnswerExact
  <2> SUFFICES ASSUME pc = "done", OrsFit
               PROVE  /\ answer \subseteq Wanted
                      /\ Cardinality(answer) = Least(TopK, Cardinality(Wanted))
    BY DEF AnswerExact
  <2>1. /\ TypeOK /\ answer \in Kept(hits) /\ hits = Yielded
        /\ \A c \in Clauses : list[c] \in Yields(c)
    BY <1>1 DEF TreeIInv, AnswerOfHits, Collected, ListsChosen
  <2>2. \A c \in Clauses : list[c] \cap alive = want[c] \cap alive
    <3> TAKE c \in Clauses
    <3>1. CASE c \notin Ors
      BY <2>1, <3>1 DEF Yields
    <3>2. CASE c \in Ors
      <4> DEFINE W == want[c] \cap alive
      <4>1. W \subseteq Docs /\ IsFiniteSet(Docs)
        BY <2>1, FS_Interval, TreeBasics DEF TypeOK, Docs
      <4>2. IsFiniteSet(W) /\ Cardinality(W) \in Nat
        BY <4>1, FS_Subset, FS_CardinalityType
      <4>3. list[c] \in SUBSET W /\ Cardinality(list[c]) = Least(TopK, Cardinality(W))
        BY <2>1, <3>2, KeptFacts DEF Yields
      <4>4. Cardinality(list[c]) = Cardinality(W)
        BY <3>2, <4>2, <4>3, ScorerAssumption DEF OrsFit, Least
      <4>5. list[c] = W
        BY <4>2, <4>3, <4>4, FS_Subset
      <4> QED
        BY <4>5
    <3> QED
      BY <3>1, <3>2
  <2>3. \A d \in alive : \A c \in Clauses : d \in list[c] <=> d \in want[c]
    BY <2>2
  <2>4. Yielded = Wanted
    BY <2>3, TreeBasics DEF Yielded, Wanted, Satisfies
  <2> QED
    BY <2>1, <2>4, KeptFacts
<1> QED
  BY <1>1, TreeIInvHolds, PTL
=============================================================================
