-------------------------- MODULE MemorySegmentProofs --------------------------
(***************************************************************************)
(* Proofs about MemorySegment, for any terms, documents, hash function and *)
(* sizes of the arena, the hash table and the string arena: what a search  *)
(* sees of the segment between two calls of addDocument, and what its      *)
(* files say after a flush.                                                *)
(***************************************************************************)
EXTENDS MemorySegment, DataLemmas, SequenceTheorems

-----------------------------------------------------------------------------
(* Chains of pages: where they lead, and that they end *)

\* Every page leads to one of smaller rank: no chain comes back to a page.
Ranked(a) ==
  \E rank \in [0 .. Len(a) -> 0 .. Len(a)] :
    /\ rank[0] = 0
    /\ \A o \in 1 .. Len(a) : a[o].next \in 0 .. Len(a) /\ rank[a[o].next] < rank[o]

Follows(a, of, f) ==
  f = [o \in 0 .. Len(a) |-> IF o = 0 THEN <<>> ELSE of[o] \o f[a[o].next]]

\* If no chain comes back to a page, what chains yield is defined.
LEMMA FollowExists ==
  ASSUME NEW a, Len(a) \in Nat, Ranked(a), NEW of
  PROVE  \E f : Follows(a, of, f)
<1>1. PICK rank \in [0 .. Len(a) -> 0 .. Len(a)] :
        \A o \in 1 .. Len(a) : a[o].next \in 0 .. Len(a) /\ rank[a[o].next] < rank[o]
  BY DEF Ranked
<1> DEFINE N == Len(a)
           Upto(n) == {o \in 0 .. N : rank[o] <= n}
           Val(g, o) == IF o = 0 THEN <<>> ELSE of[o] \o g[a[o].next]
           Good(n, g) == g = [o \in Upto(n) |-> Val(g, o)]
           Bad == {n \in Nat : ~ \E g : Good(n, g)}
<1>2. \A n \in Nat : n \in Bad <=> ~ \E g : Good(n, g)
  <2> HIDE DEF Good
  <2> QED
    OBVIOUS
<1>3. \A o \in 0 .. N : o = 0 \/ (o \in 1 .. N /\ a[o].next \in 0 .. N /\ rank[a[o].next] + 1 <= rank[o])
  BY <1>1
<1>4. 0 \notin Bad
  <2> DEFINE g == [o \in Upto(0) |-> <<>>]
  <2>1. \A o \in Upto(0) : o = 0
    BY <1>1, <1>3
  <2>2. \A o \in Upto(0) : Val(g, o) = <<>>
    BY <2>1
  <2>3. Good(0, g)
    BY <2>2, Zenon
  <2> HIDE DEF Good, Bad
  <2> QED
    BY <1>2, <2>3
<1>5. ASSUME NEW n \in Nat, n \notin Bad PROVE n + 1 \notin Bad
  <2>1. PICK g : Good(n, g)
    BY <1>5, <1>2
  <2> DEFINE h == [o \in Upto(n + 1) |-> Val(g, o)]
  <2>2. \A o \in Upto(n + 1) : o = 0 \/ a[o].next \in Upto(n)
    BY <1>1, <1>3
  <2>3. \A o \in Upto(n) : o \in Upto(n + 1)
    BY <1>1
  <2> HIDE DEF Upto
  <2>4. \A o \in Upto(n) : h[o] = g[o]
    BY <2>1, <2>3
  <2>5. \A o \in Upto(n + 1) : Val(g, o) = Val(h, o)
    <3> HIDE DEF h
    <3> QED
      BY <2>2, <2>4
  <2>6. Good(n + 1, h)
    <3>1. h = [o \in Upto(n + 1) |-> Val(h, o)]
      <4> DEFINE k == [o \in Upto(n + 1) |-> Val(h, o)]
      <4>1. \A o \in Upto(n + 1) : h[o] = k[o]
        BY <2>5
      <4> QED
        BY <4>1, <2>5
    <3> QED
      BY <3>1
  <2> HIDE DEF h, Good, Bad
  <2> QED
    BY <1>2, <2>6
<1>6. Bad = {}
  <2> HIDE DEF Upto, Good
  <2> SUFFICES ASSUME Bad # {} PROVE FALSE
    OBVIOUS
  <2>1. Bad \in SUBSET Nat
    OBVIOUS
  <2>2. PICK n \in Bad : \A m \in Bad : n <= m
    BY <2>1, LeastElement
  <2> HIDE DEF Bad
  <2>3. n \in Nat /\ n # 0
    BY <1>4, <2>1, <2>2
  <2>4. n - 1 \in Nat /\ n - 1 \notin Bad /\ (n - 1) + 1 = n
    BY <2>2, <2>3
  <2> QED
    BY <1>5, <2>2, <2>4
<1>7. PICK g : Good(N, g)
  <2> HIDE DEF Good, Bad
  <2> QED
    BY <1>2, <1>6
<1>8. Upto(N) = 0 .. N
  BY <1>1
<1> HIDE DEF Upto
<1>9. Follows(a, of, g)
  BY <1>7, <1>8, Zenon DEF Follows
<1> QED
  BY <1>9

\* A chain yields what its first page yields and then what the next one leads to.
LEMMA FollowStep ==
  ASSUME NEW a, Len(a) \in Nat, Ranked(a), NEW of
  PROVE  /\ Follow(a, of, 0) = <<>>
         /\ \A o \in 1 .. Len(a) : Follow(a, of, o) = of[o] \o Follow(a, of, a[o].next)
<1>1. \E f : Follows(a, of, f)
  BY FollowExists
<1> DEFINE f == CHOOSE f : Follows(a, of, f)
<1>2. Follows(a, of, f)
  BY <1>1
<1>3. ASSUME NEW o PROVE Follow(a, of, o) = f[o]
  BY Zenon DEF Follow, Follows
<1> HIDE DEF f
<1>4. f[0] = <<>> /\ \A o \in 1 .. Len(a) : f[o] = of[o] \o f[a[o].next]
  <2>1. 0 \in 0 .. Len(a) /\ \A o \in 1 .. Len(a) : o \in 0 .. Len(a) /\ o # 0
    OBVIOUS
  <2> QED
    BY <1>2, <2>1 DEF Follows
<1> QED
  BY <1>3, <1>4

\* An induction along chains: what holds at the end of chains, and of a page
\* when it holds of the page it leads to, holds everywhere.
LEMMA AlongChains ==
  ASSUME NEW a, Len(a) \in Nat, Ranked(a), NEW P \in SUBSET (0 .. Len(a)),
         0 \in P, \A o \in 1 .. Len(a) : a[o].next \in P => o \in P
  PROVE  P = 0 .. Len(a)
<1>1. PICK rank \in [0 .. Len(a) -> 0 .. Len(a)] :
        \A o \in 1 .. Len(a) : a[o].next \in 0 .. Len(a) /\ rank[a[o].next] < rank[o]
  BY DEF Ranked
<1> DEFINE B == {n \in Nat : \E o \in 0 .. Len(a) : o \notin P /\ rank[o] = n}
<1> SUFFICES ASSUME NEW x \in 0 .. Len(a), x \notin P PROVE FALSE
  OBVIOUS
<1>2. B \in SUBSET Nat /\ rank[x] \in B
  BY <1>1
<1>3. PICK n \in B : \A m \in B : n <= m
  <2> HIDE DEF B
  <2> QED
    BY <1>2, LeastElement
<1>4. PICK o \in 0 .. Len(a) : o \notin P /\ rank[o] = n
  OBVIOUS
<1>5. o \in 1 .. Len(a)
  BY <1>4
<1>6. a[o].next \in 0 .. Len(a) /\ a[o].next \notin P /\ rank[a[o].next] < n
  BY <1>1, <1>4, <1>5
<1>7. rank[a[o].next] \in B
  BY <1>1, <1>6
<1> QED
  BY <1>1, <1>3, <1>6, <1>7

\* What a chain yields is a sequence.
LEMMA FollowType ==
  ASSUME NEW a, Len(a) \in Nat, Ranked(a), NEW X, NEW of, \A o \in 1 .. Len(a) : of[o] \in Seq(X)
  PROVE  \A o \in 0 .. Len(a) : Follow(a, of, o) \in Seq(X)
<1> DEFINE P == {o \in 0 .. Len(a) : Follow(a, of, o) \in Seq(X)}
<1>1. 0 \in P
  <2>1. Follow(a, of, 0) = <<>>
    BY FollowStep
  <2>2. <<>> \in Seq(X) /\ 0 \in 0 .. Len(a)
    OBVIOUS
  <2> QED
    BY <2>1, <2>2
<1>2. ASSUME NEW o \in 1 .. Len(a), a[o].next \in P PROVE o \in P
  <2>1. Follow(a, of, o) = of[o] \o Follow(a, of, a[o].next)
    BY FollowStep
  <2>2. Follow(a, of, a[o].next) \in Seq(X) /\ of[o] \in Seq(X)
    BY <1>2
  <2>3. of[o] \o Follow(a, of, a[o].next) \in Seq(X)
    BY <2>2
  <2>4. Follow(a, of, o) \in Seq(X) /\ o \in 0 .. Len(a)
    BY <2>1, <2>3
  <2> QED
    BY <2>4
<1>3. P \in SUBSET (0 .. Len(a))
  OBVIOUS
<1> HIDE DEF P
<1>4. P = 0 .. Len(a)
  BY <1>1, <1>2, <1>3, AlongChains
<1> QED
  BY <1>4 DEF P

\* The chains that are there are not changed by new pages.
LEMMA FollowKept ==
  ASSUME NEW a, Len(a) \in Nat, Ranked(a), NEW b, Len(b) \in Nat, Ranked(b), NEW of, NEW ofb,
         Len(a) <= Len(b), \A o \in 1 .. Len(a) : b[o] = a[o] /\ ofb[o] = of[o]
  PROVE  \A o \in 0 .. Len(a) : Follow(b, ofb, o) = Follow(a, of, o)
<1> DEFINE P == {o \in 0 .. Len(a) : Follow(b, ofb, o) = Follow(a, of, o)}
<1>1. 0 \in P
  <2>1. Follow(a, of, 0) = <<>>
    BY FollowStep
  <2>2. Follow(b, ofb, 0) = <<>>
    BY FollowStep
  <2> QED
    BY <2>1, <2>2
<1>2. ASSUME NEW o \in 1 .. Len(a), a[o].next \in P PROVE o \in P
  <2>1. Follow(a, of, o) = of[o] \o Follow(a, of, a[o].next)
    BY FollowStep
  <2>2. o \in 1 .. Len(b)
    OBVIOUS
  <2>3. Follow(b, ofb, o) = ofb[o] \o Follow(b, ofb, b[o].next)
    BY <2>2, FollowStep
  <2>4. b[o] = a[o] /\ ofb[o] = of[o] /\ Follow(b, ofb, a[o].next) = Follow(a, of, a[o].next)
    BY <1>2
  <2>5. Follow(b, ofb, o) = Follow(a, of, o) /\ o \in 0 .. Len(a)
    BY <2>1, <2>3, <2>4
  <2> QED
    BY <2>5
<1>3. P \in SUBSET (0 .. Len(a))
  OBVIOUS
<1> HIDE DEF P
<1>4. P = 0 .. Len(a)
  BY <1>1, <1>2, <1>3, AlongChains
<1> QED
  BY <1>4 DEF P

\* Without pages there is no chain.
LEMMA RankedEmpty == Ranked(<<>>)
<1> DEFINE rank == [o \in 0 .. Len(<<>>) |-> 0]
<1>1. Len(<<>>) = 0
  OBVIOUS
<1>2. /\ rank \in [0 .. Len(<<>>) -> 0 .. Len(<<>>)] /\ rank[0] = 0
      /\ \A o \in 1 .. Len(<<>>) : FALSE
  BY <1>1
<1> QED
  BY <1>2 DEF Ranked

\* A page in front of a chain, or pages that lead each to the one after it, at
\* the end of the arena: chains still end.
LEMMA RankedFront ==
  ASSUME NEW a, Len(a) \in Nat, Ranked(a), NEW b, Len(b) = Len(a) + 1,
         \A o \in 1 .. Len(a) : b[o] = a[o], b[Len(b)].next \in 0 .. Len(a)
  PROVE  Ranked(b)
<1>1. PICK rank \in [0 .. Len(a) -> 0 .. Len(a)] :
        /\ rank[0] = 0
        /\ \A o \in 1 .. Len(a) : a[o].next \in 0 .. Len(a) /\ rank[a[o].next] < rank[o]
  BY DEF Ranked
<1> DEFINE r == [o \in 0 .. Len(b) |-> IF o = Len(b) THEN rank[b[o].next] + 1 ELSE rank[o]]
<1>2. r[Len(b)] = rank[b[Len(b)].next] + 1 /\ \A o \in 0 .. Len(a) : r[o] = rank[o]
  OBVIOUS
<1>3. rank[b[Len(b)].next] \in 0 .. Len(a)
  BY <1>1
<1>4. \A o \in 0 .. Len(b) : o = Len(b) \/ o \in 0 .. Len(a)
  OBVIOUS
<1>5. r \in [0 .. Len(b) -> 0 .. Len(b)]
  <2> SUFFICES ASSUME NEW o \in 0 .. Len(b)
               PROVE  (IF o = Len(b) THEN rank[b[o].next] + 1 ELSE rank[o]) \in 0 .. Len(b)
    OBVIOUS
  <2> QED
    BY <1>1, <1>3, <1>4
<1> HIDE DEF r
<1>6. ASSUME NEW o \in 1 .. Len(b) PROVE b[o].next \in 0 .. Len(b) /\ r[b[o].next] < r[o]
  <2>1. CASE o = Len(b)
    BY <1>2, <1>3, <2>1
  <2>2. CASE o \in 1 .. Len(a)
    <3>1. b[o] = a[o] /\ a[o].next \in 0 .. Len(a) /\ rank[a[o].next] < rank[o]
      BY <1>1, <2>2
    <3>2. r[o] = rank[o] /\ r[a[o].next] = rank[a[o].next]
      BY <1>2, <2>2, <3>1
    <3> QED
      BY <3>1, <3>2
  <2> QED
    BY <1>4, <2>1, <2>2
<1>7. r[0] = 0
  BY <1>1, <1>2
<1> QED
  BY <1>5, <1>6, <1>7 DEF Ranked

LEMMA RankedBehind ==
  ASSUME NEW a, Len(a) \in Nat, Ranked(a), NEW n \in Nat, NEW b, Len(b) = Len(a) + n,
         \A o \in 1 .. Len(a) : b[o] = a[o],
         \A k \in 1 .. n : b[Len(a) + k].next = 0 \/ (k < n /\ b[Len(a) + k].next = Len(a) + k + 1)
  PROVE  Ranked(b)
<1>1. PICK rank \in [0 .. Len(a) -> 0 .. Len(a)] :
        /\ rank[0] = 0
        /\ \A o \in 1 .. Len(a) : a[o].next \in 0 .. Len(a) /\ rank[a[o].next] < rank[o]
  BY DEF Ranked
<1> DEFINE r == [o \in 0 .. Len(b) |-> IF o <= Len(a) THEN rank[o] ELSE Len(b) + 1 - o]
<1>2. r \in [0 .. Len(b) -> 0 .. Len(b)]
  <2> SUFFICES ASSUME NEW o \in 0 .. Len(b)
               PROVE  (IF o <= Len(a) THEN rank[o] ELSE Len(b) + 1 - o) \in 0 .. Len(b)
    OBVIOUS
  <2>1. CASE o <= Len(a)
    <3>1. o \in 0 .. Len(a)
      BY <2>1
    <3> QED
      BY <1>1, <2>1, <3>1
  <2>2. CASE Len(a) < o
    BY <2>2
  <2> QED
    BY <2>1, <2>2
<1>3. /\ \A o \in 0 .. Len(a) : r[o] = rank[o]
      /\ \A o \in Len(a) + 1 .. Len(b) : r[o] = Len(b) + 1 - o
  OBVIOUS
<1> HIDE DEF r
<1>4. ASSUME NEW o \in 1 .. Len(b) PROVE b[o].next \in 0 .. Len(b) /\ r[b[o].next] < r[o]
  <2>1. CASE o \in 1 .. Len(a)
    <3>1. b[o] = a[o] /\ a[o].next \in 0 .. Len(a) /\ rank[a[o].next] < rank[o]
      BY <1>1, <2>1
    <3>2. r[o] = rank[o] /\ r[a[o].next] = rank[a[o].next]
      BY <1>3, <2>1, <3>1
    <3> QED
      BY <3>1, <3>2
  <2>2. CASE o \in Len(a) + 1 .. Len(b)
    <3> DEFINE k == o - Len(a)
    <3>1. k \in 1 .. n /\ Len(a) + k = o
      BY <2>2
    <3> HIDE DEF k
    <3>2. b[o].next = 0 \/ (o < Len(b) /\ b[o].next = o + 1)
      <4>1. b[Len(a) + k].next = 0 \/ (k < n /\ b[Len(a) + k].next = Len(a) + k + 1)
        BY <3>1
      <4> QED
        BY <3>1, <4>1
    <3>3. r[o] = Len(b) + 1 - o
      BY <1>3, <2>2
    <3>4. r[0] = 0 /\ (o < Len(b) => r[o + 1] = Len(b) - o)
      BY <1>1, <1>3, <2>2
    <3> QED
      BY <3>2, <3>3, <3>4, <2>2
  <2> QED
    BY <2>1, <2>2
<1>5. r[0] = 0
  BY <1>1, <1>3
<1> QED
  BY <1>2, <1>4, <1>5 DEF Ranked

-----------------------------------------------------------------------------
(* What is written as a chain is read as it was *)

Count(s, per)    == (Len(s) + per - 1) \div per
Piece(s, per, k) == SubSeq(s, (k - 1) * per + 1, Least(k * per, Len(s)))

\* Each page of a chain holds its piece of the sequence.
LEMMA ChainPages ==
  ASSUME NEW X, NEW s \in Seq(X), NEW per \in Nat \ {0}, NEW last \in Nat,
         NEW c, c = ChainOf(last, s, per)
  PROVE  /\ Count(s, per) \in Nat /\ Len(c) = Count(s, per) /\ DOMAIN c = 1 .. Count(s, per)
         /\ \A k \in DOMAIN c : c[k].data = Piece(s, per, k) /\ c[k].data \in Seq(X)
         /\ \A k \in DOMAIN c : /\ k = Len(c) => c[k].next = 0
                                /\ k # Len(c) => c[k].next = last + k + 1
<1> DEFINE n == Count(s, per)
           piece(k) == Piece(s, per, k)
<1> USE DEF Count, Piece
<1>1. Len(s) \in Nat
  OBVIOUS
<1>2. n \in Nat /\ \A k \in 1 .. n : (k - 1) * per \in Nat
  BY <1>1, PagesOfChain
<1>3. c = [k \in 1 .. n |-> [data |-> piece(k), next |-> IF k = n THEN 0 ELSE last + k + 1]]
  BY DEF ChainOf
<1> HIDE DEF n
<1>4. Len(c) = n /\ DOMAIN c = 1 .. n
  BY <1>2, <1>3
<1>5. ASSUME NEW k \in 1 .. n
      PROVE  /\ c[k] = [data |-> c[k].data, next |-> c[k].next]
             /\ c[k].data = piece(k) /\ c[k].next = IF k = n THEN 0 ELSE last + k + 1
  <2> HIDE DEF Piece
  <2>1. c[k] = [data |-> piece(k), next |-> IF k = n THEN 0 ELSE last + k + 1]
    BY <1>3
  <2> QED
    BY <2>1
<1>6. ASSUME NEW k \in 1 .. n PROVE piece(k) \in Seq(X)
  <2> DEFINE i == (k - 1) * per + 1
             j == Least(k * per, Len(s))
  <2>1. i \in Nat \ {0}
    BY <1>2
  <2>2. k * per \in Nat
    BY <1>2
  <2>3. j \in Nat /\ j <= Len(s)
    BY <1>1, <2>2 DEF Least
  <2> HIDE DEF i, j
  <2>4. \A x \in i .. j : s[x] \in X
    BY <1>1, <2>1, <2>3
  <2>5. i \in Int /\ j \in Int
    BY <2>1, <2>3
  <2>6. SubSeq(s, i, j) \in Seq(X)
    BY <2>4, <2>5, SubSeqProperties
  <2> QED
    BY <2>6 DEF i, j
<1> HIDE DEF Piece, Count
<1> QED
  BY <1>2, <1>4, <1>5, <1>6 DEF n

LEMMA ChainType ==
  ASSUME NEW X, NEW s \in Seq(X), NEW per \in Nat \ {0}, NEW last \in Nat
  PROVE  ChainOf(last, s, per) \in Seq([data : Seq(X), next : Nat])
<1> DEFINE c == ChainOf(last, s, per)
           n == Count(s, per)
           R == [data : Seq(X), next : Nat]
<1>1. n \in Nat /\ DOMAIN c = 1 .. n
  <2>1. PICK e : e = ChainOf(last, s, per)
    OBVIOUS
  <2>2. Count(s, per) \in Nat /\ DOMAIN e = 1 .. Count(s, per)
    BY <2>1, ChainPages
  <2> QED
    BY <2>1, <2>2
<1>2. c = [k \in 1 .. n |-> [data |-> Piece(s, per, k), next |-> IF k = n THEN 0 ELSE last + k + 1]]
  BY DEF ChainOf, Piece, Count
<1>3. ASSUME NEW k \in 1 .. n PROVE c[k] \in R
  <2>1. c[k] = [data |-> Piece(s, per, k), next |-> IF k = n THEN 0 ELSE last + k + 1]
    BY <1>2
  <2>2. c[k].data = Piece(s, per, k) /\ c[k].data \in Seq(X)
    BY <1>1, ChainPages
  <2>3. (IF k = n THEN 0 ELSE last + k + 1) \in Nat
    BY <1>1
  <2> QED
    BY <2>1, <2>2, <2>3
<1> HIDE DEF c, n, R
<1>4. c \in [1 .. n -> R]
  <2>1. c = [k \in 1 .. n |-> c[k]]
    BY <1>2
  <2> QED
    BY <1>3, <2>1
<1>5. c \in Seq(R)
  BY <1>1, <1>4
<1> QED
  BY <1>5 DEF c, R

\* The arena a, whose pages yield what `of' says, holds the chain c.
Holds(a, of, last, c) ==
  \A k \in DOMAIN c : /\ last + k \in 1 .. Len(a)
                      /\ a[last + k].next = c[k].next /\ of[last + k] = c[k].data

\* A chain yields the sequence it was written for.
LEMMA ChainYields ==
  ASSUME NEW a, Len(a) \in Nat, Ranked(a), NEW of, NEW last \in Nat,
         NEW X, NEW s \in Seq(X), s # <<>>, NEW per \in Nat \ {0},
         Holds(a, of, last, ChainOf(last, s, per))
  PROVE  Len(ChainOf(last, s, per)) # 0 /\ Follow(a, of, last + 1) = s
<1>0. PICK c : c = ChainOf(last, s, per)
  OBVIOUS
<1> DEFINE n == Count(s, per)
           rest(k) == SubSeq(s, (k - 1) * per + 1, Len(s))
           Good(k) == Follow(a, of, last + k) = rest(k)
           Bad == {m \in 0 .. n - 1 : ~ Good(n - m)}
<1>1. Len(s) \in Nat /\ Len(s) # 0
  OBVIOUS
<1>2. /\ n \in Nat /\ n # 0 /\ Len(s) <= n * per
      /\ \A k \in 1 .. n : (k - 1) * per \in Nat /\ (k - 1) * per < Len(s)
  BY <1>1, PagesOfChain DEF Count
<1>3. /\ DOMAIN c = 1 .. n /\ Len(c) = n
      /\ \A k \in 1 .. n : /\ c[k].data = SubSeq(s, (k - 1) * per + 1, Least(k * per, Len(s)))
                           /\ c[k].data \in Seq(X)
                           /\ c[k].next = IF k = n THEN 0 ELSE last + k + 1
  <2>1. Len(c) = n /\ DOMAIN c = 1 .. n
    BY <1>0, ChainPages
  <2>2. \A k \in DOMAIN c : c[k].data = Piece(s, per, k) /\ c[k].data \in Seq(X)
    BY <1>0, ChainPages
  <2>3. \A k \in 1 .. n : c[k].next = IF k = n THEN 0 ELSE last + k + 1
    <3>1. c = [k \in 1 .. n |-> [data |-> Piece(s, per, k), next |-> IF k = n THEN 0 ELSE last + k + 1]]
      BY <1>0 DEF ChainOf, Piece, Count
    <3> HIDE DEF n
    <3> TAKE k \in 1 .. n
    <3>2. c[k] = [data |-> Piece(s, per, k), next |-> IF k = n THEN 0 ELSE last + k + 1]
      BY <3>1
    <3> QED
      BY <3>2
  <2> HIDE DEF n
  <2>4. \A k \in 1 .. n : c[k].data = SubSeq(s, (k - 1) * per + 1, Least(k * per, Len(s)))
    BY <2>1, <2>2, Zenon DEF Piece
  <2> QED
    BY <2>1, <2>2, <2>3, <2>4
<1>4. \A k \in 1 .. n : /\ last + k \in 1 .. Len(a)
                        /\ a[last + k].next = c[k].next
                        /\ of[last + k] = c[k].data
  BY <1>0, <1>3 DEF Holds
<1> HIDE DEF n
<1>5. ASSUME NEW k \in 1 .. n
      PROVE  Follow(a, of, last + k) = c[k].data \o Follow(a, of, c[k].next)
  <2>1. /\ last + k \in 1 .. Len(a) /\ a[last + k].next = c[k].next
        /\ of[last + k] = c[k].data
    BY <1>4
  <2>2. \A o \in 1 .. Len(a) : Follow(a, of, o) = of[o] \o Follow(a, of, a[o].next)
    BY FollowStep
  <2>3. Follow(a, of, last + k) = of[last + k] \o Follow(a, of, a[last + k].next)
    BY <2>1, <2>2
  <2> QED
    BY <2>1, <2>3
<1>6. Good(n)
  <2>1. n \in 1 .. n
    BY <1>2
  <2>2. c[n].next = 0 /\ Follow(a, of, 0) = <<>>
    BY <1>3, <2>1, FollowStep
  <2>3. Least(n * per, Len(s)) = Len(s)
    <3>1. n * per \in Nat
      BY <1>2
    <3> QED
      BY <1>1, <1>2, <3>1 DEF Least
  <2>4. c[n].data = rest(n) /\ c[n].data \in Seq(X)
    BY <1>3, <2>1, <2>3
  <2>5. Follow(a, of, last + n) = c[n].data \o <<>>
    BY <1>5, <2>1, <2>2
  <2> HIDE DEF rest
  <2>6. c[n].data \o <<>> = c[n].data
    BY <2>4
  <2> QED
    BY <2>4, <2>5, <2>6
<1>7. ASSUME NEW k \in 1 .. n, k # n, Good(k + 1) PROVE Good(k)
  <2>1. k + 1 \in 1 .. n /\ (k + 1) - 1 = k
    BY <1>2, <1>7
  <2>2. k * per \in Nat /\ k * per < Len(s) /\ (k - 1) * per \in Nat
    BY <1>2, <2>1
  <2>3. k * per = (k - 1) * per + per
    BY <1>2
  <2>4. Least(k * per, Len(s)) = k * per
    BY <1>1, <2>2 DEF Least
  <2>5. c[k].data = SubSeq(s, (k - 1) * per + 1, k * per) /\ c[k].next = last + k + 1
    BY <1>3, <1>7, <2>4
  <2>6. Follow(a, of, last + k + 1) = SubSeq(s, k * per + 1, Len(s))
    <3>1. last + k + 1 = last + (k + 1)
      BY <1>2
    <3> QED
      BY <1>7, <2>1, <3>1
  <2>7. SubSeq(s, (k - 1) * per + 1, k * per) \o SubSeq(s, k * per + 1, Len(s)) = rest(k)
    <3> DEFINE i == (k - 1) * per + 1
               j == k * per
    <3>1. i \in 1 .. Len(s) + 1 /\ j \in i - 1 .. Len(s) /\ Len(s) \in j .. Len(s)
      BY <1>1, <2>2, <2>3
    <3> HIDE DEF i, j
    <3>2. SubSeq(s, i, j) \o SubSeq(s, j + 1, Len(s)) = SubSeq(s, i, Len(s))
      BY <3>1, ConcatAdjacentSubSeq
    <3> QED
      BY <3>2 DEF i, j
  <2> HIDE DEF rest
  <2> QED
    BY <1>5, <2>5, <2>6, <2>7
<1>8. Bad = {}
  <2> HIDE DEF Good
  <2> SUFFICES ASSUME Bad # {} PROVE FALSE
    OBVIOUS
  <2>1. Bad \in SUBSET Nat
    BY <1>2
  <2>2. PICK m \in Bad : \A l \in Bad : m <= l
    <3> HIDE DEF Bad
    <3> QED
      BY <2>1, LeastElement
  <2>3. m \in 0 .. n - 1 /\ ~ Good(n - m)
    OBVIOUS
  <2>4. m # 0
    BY <1>2, <1>6, <2>3
  <2>5. m - 1 \in 0 .. n - 1 /\ n - m \in 1 .. n /\ n - m # n /\ n - (m - 1) = (n - m) + 1
    BY <1>2, <2>3, <2>4
  <2>6. Good(n - (m - 1))
    BY <2>2, <2>3, <2>5
  <2> HIDE DEF Bad
  <2> QED
    BY <1>7, <2>3, <2>5, <2>6
<1>9. Good(1)
  <2>1. n - 1 \in 0 .. n - 1 /\ n - (n - 1) = 1
    BY <1>2
  <2> HIDE DEF Good
  <2> QED
    BY <1>8, <2>1
<1>10. rest(1) = s
  <2>1. (1 - 1) * per + 1 = 1
    OBVIOUS
  <2> QED
    BY <2>1, SubSeqFull
<1> QED
  BY <1>0, <1>2, <1>3, <1>9, <1>10

-----------------------------------------------------------------------------
(* The term hash table *)

LEMMA Constants ==
  /\ ArenaPages \in Nat /\ HashCap \in Nat \ {0} /\ StrCap \in Nat
  /\ InlineLimit \in Nat /\ PosPerPage \in Nat \ {0}
  /\ TfCap \in Nat \ {0} /\ LenCap \in Nat \ {0}
  /\ "" \notin Terms /\ NoDoc \notin Docs
  /\ Hash \in [Terms -> 0 .. HashCap - 1] /\ StrLen \in [Terms -> Nat]
  /\ Toks \in [Docs -> Seq(Terms)] /\ Parts \in [Docs -> Nat]
BY MemorySegmentAssumption

Slots == 0 .. HashCap - 1

\* A probe that ends a search for t in the table b, and the first one that does.
EndsIn(b, t, p) == b[Slot(t, p)].term \in {"", t}

FirstEnd(b, t, p) == p \in Slots /\ EndsIn(b, t, p) /\ \A q \in 0 .. p - 1 : ~ EndsIn(b, t, q)

\* A term is where a search for it ends.
TableOK(b) ==
  /\ b \in [Slots -> [term : Terms \cup {""}, head : Nat, df : Nat, ttf : Nat]]
  /\ \A s \in Slots : b[s].term = "" => b[s] = Free
  /\ \A s \in Slots : b[s].term # "" => \E p : FirstEnd(b, b[s].term, p) /\ Slot(b[s].term, p) = s

SlotIn(b, t) == CHOOSE p \in Slots : EndsIn(b, t, p) /\ \A q \in 0 .. p - 1 : ~ EndsIn(b, t, q)
FindIn(b, t) == Slot(t, SlotIn(b, t))
FullIn(b, t) == \A p \in Slots : ~ EndsIn(b, t, p)
Held(b)      == {t \in Terms : \E s \in Slots : b[s].term = t}

LEMMA NoEmptyTerm == "" \notin Terms
BY Constants

LEMMA SlotNumbers ==
  /\ HashCap \in Nat \ {0} /\ Slots \in SUBSET Nat
  /\ \A p \in Slots : \A q \in 0 .. p - 1 : q \in Slots /\ q < p
<1>1. HashCap \in Nat \ {0}
  BY Constants
<1> QED
  BY <1>1 DEF Slots

LEMMA SlotType ==
  ASSUME NEW t \in Terms, NEW p \in Slots
  PROVE  Slot(t, p) \in Slots
<1>1. Hash[t] \in Slots
  BY MemorySegmentAssumption DEF Slots
<1>2. Hash[t] + p \in Nat /\ HashCap \in Nat \ {0}
  <2>1. Hash[t] \in Nat /\ p \in Nat /\ HashCap \in Nat \ {0}
    BY <1>1, SlotNumbers
  <2> QED
    BY <2>1
<1>3. (Hash[t] + p) % HashCap \in 0 .. HashCap - 1
  BY <1>2, DivFacts
<1> QED
  BY <1>3 DEF Slot, Slots

\* The probes of a search reach every slot.
\* What is below n, and n more, have the same remainder.
LEMMA ModBelow ==
  ASSUME NEW n \in Nat \ {0}, NEW s \in 0 .. n - 1
  PROVE  s % n = s /\ (s + n) % n = s
<1>1. ASSUME NEW a \in Nat, NEW k \in {0, 1}, a = k * n + s
      PROVE  a % n = s
  <2>1. /\ a \div n \in Nat /\ a % n \in 0 .. n - 1
        /\ n * (a \div n) + (a % n) = a
    BY DivFacts
  <2>2. PICK q \in Nat, r \in 0 .. n - 1 : q = a \div n /\ r = a % n /\ n * q + r = a
    BY <2>1
  <2>3. ASSUME q >= k + 1 PROVE FALSE
    <3>1. q - (k + 1) \in Nat /\ q = k + 1 + (q - (k + 1))
      BY <1>1, <2>2, <2>3
    <3>0. PICK m \in Nat : q = k + 1 + m
      BY <3>1
    <3>2. n * q = n * k + n + n * m /\ n * m >= 0
      BY <1>1, <3>0
    <3> QED
      BY <1>1, <2>2, <3>2
  <2>4. ASSUME k >= q + 1 PROVE FALSE
    <3>1. k = 1 /\ q = 0
      BY <2>2, <2>4
    <3> QED
      BY <1>1, <2>2, <3>1
  <2>5. q = k
    BY <2>2, <2>3, <2>4
  <2> QED
    BY <1>1, <2>2, <2>5
<1>2. s % n = s
  BY <1>1
<1>3. (s + n) % n = s
  <2>1. s + n = 1 * n + s /\ s + n \in Nat
    OBVIOUS
  <2> QED
    BY <1>1, <2>1
<1> QED
  BY <1>2, <1>3

LEMMA SlotReached ==
  ASSUME NEW t \in Terms, NEW s \in Slots
  PROVE  \E p \in Slots : Slot(t, p) = s
<1>1. HashCap \in Nat \ {0} /\ Hash[t] \in 0 .. HashCap - 1 /\ s \in 0 .. HashCap - 1
  BY MemorySegmentAssumption DEF Slots
<1>2. CASE Hash[t] <= s
  <2>1. s - Hash[t] \in Slots /\ Hash[t] + (s - Hash[t]) = s
    BY <1>1, <1>2 DEF Slots
  <2>2. s % HashCap = s
    BY <1>1, ModBelow
  <2> QED
    BY <2>1, <2>2 DEF Slot
<1>3. CASE s < Hash[t]
  <2>1. s + HashCap - Hash[t] \in Slots /\ Hash[t] + (s + HashCap - Hash[t]) = s + HashCap
    BY <1>1, <1>3 DEF Slots
  <2>2. (s + HashCap) % HashCap = s
    BY <1>1, ModBelow
  <2> QED
    BY <2>1, <2>2 DEF Slot
<1> QED
  BY <1>1, <1>2, <1>3

\* The first probe that ends a search is the one that findSlot returns.
LEMMA FirstEndUnique ==
  ASSUME NEW b, NEW t, NEW p, FirstEnd(b, t, p)
  PROVE  SlotIn(b, t) = p /\ ~ FullIn(b, t)
<1>1. ASSUME NEW q, FirstEnd(b, t, q) PROVE q = p
  <2>1. q \in Nat /\ p \in Nat
    BY <1>1, SlotNumbers DEF FirstEnd
  <2>2. ~ (q < p)
    BY <1>1, <2>1 DEF FirstEnd
  <2>3. ~ (p < q)
    BY <1>1, <2>1 DEF FirstEnd
  <2> QED
    BY <2>1, <2>2, <2>3
<1> QED
  BY <1>1, Zenon DEF FirstEnd, SlotIn, FullIn

\* A search that ends has a first probe that ends it.
LEMMA FirstEndExists ==
  ASSUME NEW b, NEW t, ~ FullIn(b, t)
  PROVE  FirstEnd(b, t, SlotIn(b, t))
<1> DEFINE E == {p \in Slots : EndsIn(b, t, p)}
<1>1. E \in SUBSET Nat /\ E # {}
  BY SlotNumbers DEF FullIn
<1>2. PICK p \in E : \A q \in E : p <= q
  <2> HIDE DEF E
  <2> QED
    BY <1>1, LeastElement
<1>3. p \in Slots /\ EndsIn(b, t, p)
  OBVIOUS
<1>4. ASSUME NEW q \in 0 .. p - 1 PROVE ~ EndsIn(b, t, q)
  <2>1. q \in Slots /\ q < p /\ q \in Nat /\ p \in Nat
    BY <1>3, SlotNumbers
  <2> QED
    BY <1>2, <2>1
<1>5. FirstEnd(b, t, p)
  BY <1>3, <1>4 DEF FirstEnd
<1>6. SlotIn(b, t) = p
  BY <1>5, FirstEndUnique
<1> QED
  BY <1>5, <1>6

\* lookup finds exactly the terms of the table, each in its bucket.
LEMMA LookupFinds ==
  ASSUME NEW b, TableOK(b), NEW t \in Terms
  PROVE  /\ t \in Held(b) <=> ~ FullIn(b, t) /\ b[FindIn(b, t)].term = t
         /\ \A s \in Slots : b[s].term = t => FindIn(b, t) = s
         /\ ~ FullIn(b, t) => /\ FindIn(b, t) \in Slots
                              /\ t \notin Held(b) => /\ b[FindIn(b, t)].term = ""
                                                    /\ b[FindIn(b, t)] = Free
<1>1. ASSUME NEW s \in Slots, b[s].term = t
      PROVE  FindIn(b, t) = s /\ ~ FullIn(b, t)
  <2>1. t # ""
    BY NoEmptyTerm
  <2>2. PICK p : FirstEnd(b, t, p) /\ Slot(t, p) = s
    BY <1>1, <2>1 DEF TableOK
  <2> QED
    BY <2>2, FirstEndUnique DEF FindIn
<1>2. ASSUME ~ FullIn(b, t)
      PROVE  FindIn(b, t) \in Slots /\ b[FindIn(b, t)].term \in {"", t}
  <2>1. FirstEnd(b, t, SlotIn(b, t))
    BY <1>2, FirstEndExists
  <2> QED
    BY <2>1, SlotType DEF FirstEnd, FindIn, EndsIn
<1> QED
  BY <1>1, <1>2 DEF Held, TableOK

\* findSlot throws exactly if no slot is free or has the term.
LEMMA ThrowsIfFull ==
  ASSUME TableOK(buckets), NEW t \in Terms
  PROVE  TableFull(t) <=> \A s \in Slots : buckets[s].term \notin {"", t}
<1>1. TableFull(t) <=> \A p \in Slots : buckets[Slot(t, p)].term \notin {"", t}
  BY Zenon DEF TableFull, Ends, Slots
<1> QED
  BY <1>1, SlotType, SlotReached

LEMMA FoundAt ==
  ASSUME NEW b, TableOK(b), NEW t \in Terms, NEW s \in Slots, b[s].term = t
  PROVE  FindIn(b, t) = s
BY LookupFinds

\* The table c is the table b with the bucket e where a search for t ends.
Puts(b, t, e, c) ==
  /\ e \in [term : Terms \cup {""}, head : Nat, df : Nat, ttf : Nat] /\ e.term = t
  /\ c = [b EXCEPT ![FindIn(b, t)] = e]

\* upsert puts a term where a search for it ends, and finds it there; the other
\* terms stay where they are.
LEMMA UpsertFinds ==
  ASSUME NEW b, TableOK(b), NEW t \in Terms, ~ FullIn(b, t), NEW e, NEW c, Puts(b, t, e, c)
  PROVE  /\ TableOK(c) /\ Held(c) = Held(b) \cup {t}
         /\ c[FindIn(c, t)] = e
         /\ \A u \in Held(b) : u # t => c[FindIn(c, u)] = b[FindIn(b, u)]
<1> USE DEF Puts
<1> DEFINE f == FindIn(b, t)
<1>1. f \in Slots /\ t # "" /\ (b[f].term = "" \/ b[f].term = t)
  <2>1. f \in Slots /\ t # ""
    BY LookupFinds, NoEmptyTerm
  <2>2. t \in Held(b) => b[f].term = t
    BY LookupFinds
  <2>3. t \notin Held(b) => b[f].term = ""
    BY LookupFinds
  <2> QED
    BY <2>1, <2>2, <2>3
<1>2. FirstEnd(b, t, SlotIn(b, t)) /\ Slot(t, SlotIn(b, t)) = f
  BY FirstEndExists DEF FindIn
<1> HIDE DEF f
<1>3. c[f] = e /\ (\A s \in Slots : s # f => c[s] = b[s]) /\ DOMAIN b = Slots
  BY <1>1 DEF TableOK, f
<1>4. c \in [Slots -> [term : Terms \cup {""}, head : Nat, df : Nat, ttf : Nat]]
  BY DEF TableOK, f
<1>5. \A s \in Slots : c[s].term = "" => b[s].term = "" /\ c[s] = b[s]
  BY <1>1, <1>3
<1>6. \A s \in Slots : c[s].term = b[s].term \/ (s = f /\ c[s].term = t)
  BY <1>1, <1>3
<1>7. ASSUME NEW u \in Terms, NEW p, FirstEnd(b, u, p), Slot(u, p) # f \/ u = t
      PROVE  FirstEnd(c, u, p)
  <2>1. \A q \in 0 .. p - 1 : q \in Slots
    BY <1>7, SlotNumbers DEF FirstEnd
  <2>2. Slot(u, p) \in Slots /\ \A q \in 0 .. p - 1 : Slot(u, q) \in Slots
    BY <1>7, <2>1, SlotType DEF FirstEnd
  <2>3. EndsIn(c, u, p)
    BY <1>6, <1>7, <2>2 DEF FirstEnd, EndsIn
  <2>4. ASSUME NEW q \in 0 .. p - 1 PROVE ~ EndsIn(c, u, q)
    <3> SUFFICES c[Slot(u, q)].term \notin {"", u}
      BY DEF EndsIn
    <3>1. b[Slot(u, q)].term \notin {"", u} /\ Slot(u, q) \in Slots
      BY <1>7, <2>2 DEF FirstEnd, EndsIn
    <3>2. CASE Slot(u, q) # f
      BY <1>3, <3>1, <3>2
    <3>3. CASE Slot(u, q) = f
      <4>1. u # t
        <5>1. u = t => b[f].term \notin {"", t}
          BY <3>1, <3>3
        <5> QED
          BY <1>1, <5>1
      <4> QED
        BY <1>1, <1>3, <3>3, <4>1
    <3> QED
      BY <3>2, <3>3
  <2> QED
    BY <1>7, <2>3, <2>4 DEF FirstEnd
<1>8. TableOK(c)
  <2>1. ASSUME NEW s \in Slots, c[s].term # ""
        PROVE  \E p : FirstEnd(c, c[s].term, p) /\ Slot(c[s].term, p) = s
    <3>1. CASE s = f
      <4>1. c[s].term = t
        BY <1>3, <3>1
      <4>2. FirstEnd(c, t, SlotIn(b, t))
        BY <1>2, <1>7
      <4> QED
        BY <1>2, <3>1, <4>1, <4>2
    <3>2. CASE s # f
      <4>1. c[s] = b[s]
        BY <1>3, <3>2
      <4>2. PICK p : FirstEnd(b, b[s].term, p) /\ Slot(b[s].term, p) = s
        BY <2>1, <4>1 DEF TableOK
      <4>3. b[s].term \in Terms
        BY <2>1, <4>1 DEF TableOK
      <4>4. FirstEnd(c, b[s].term, p)
        BY <1>7, <3>2, <4>2, <4>3
      <4> QED
        BY <4>1, <4>2, <4>4
    <3> QED
      BY <3>1, <3>2
  <2>2. \A s \in Slots : c[s].term = "" => c[s] = Free
    BY <1>5 DEF TableOK
  <2> QED
    BY <1>4, <2>1, <2>2 DEF TableOK
<1>9. Held(c) = Held(b) \cup {t}
  <2>1. ASSUME NEW u \in Held(b) PROVE u \in Held(c)
    <3>1. PICK s \in Slots : b[s].term = u
      BY DEF Held
    <3>2. u \in Terms /\ u # ""
      BY NoEmptyTerm DEF Held
    <3>3. c[s].term = u
      BY <1>1, <1>3, <3>1, <3>2
    <3> QED
      BY <3>2, <3>3 DEF Held
  <2>2. t \in Held(c)
    BY <1>1, <1>3 DEF Held
  <2>3. \A u \in Held(c) : u \in Held(b) \/ u = t
    BY <1>6 DEF Held
  <2> QED
    BY <2>1, <2>2, <2>3
<1>10. c[FindIn(c, t)] = e
  <2>1. FindIn(c, t) = f
    BY <1>1, <1>3, <1>8, LookupFinds
  <2> QED
    BY <1>3, <2>1
<1>11. ASSUME NEW u \in Held(b), u # t PROVE c[FindIn(c, u)] = b[FindIn(b, u)]
  <2>1. PICK s \in Slots : b[s].term = u
    BY DEF Held
  <2>2. u \in Terms /\ u # ""
    BY NoEmptyTerm DEF Held
  <2>3. c[s] = b[s]
    BY <1>1, <1>3, <1>11, <2>1, <2>2
  <2>4. FindIn(b, u) = s
    BY <2>1, <2>2, LookupFinds
  <2>5. FindIn(c, u) = s
    <3>1. c[s].term = u
      BY <2>1, <2>3
    <3> QED
      BY <1>8, <2>2, <3>1, FoundAt
  <2> QED
    BY <2>3, <2>4, <2>5
<1> QED
  BY <1>8, <1>9, <1>10, <1>11

\* The model's findSlot and lookup are those of the table of the moment.
LEMMA TableNow ==
  ASSUME TableOK(buckets)
  PROVE  /\ Present = Held(buckets)
         /\ \A t \in Terms : /\ TableFull(t) <=> FullIn(buckets, t)
                             /\ FindSlot(t) = FindIn(buckets, t)
                             /\ Bucket(t) = buckets[FindIn(buckets, t)]
<1>1. ASSUME NEW t
      PROVE  /\ TableFull(t) <=> FullIn(buckets, t)
             /\ FindSlot(t) = FindIn(buckets, t)
             /\ Bucket(t) = buckets[FindIn(buckets, t)]
  <2>1. TableFull(t) <=> FullIn(buckets, t)
    BY Zenon DEF TableFull, FullIn, Ends, EndsIn, Slots
  <2>2. FindSlot(t) = FindIn(buckets, t)
    BY Zenon DEF FindSlot, FindIn, SlotIn, Ends, EndsIn, Slots
  <2> QED
    BY <2>1, <2>2 DEF Bucket
<1>2. Present = Held(buckets)
  <2>1. ASSUME NEW t \in Terms PROVE t \in Present <=> t \in Held(buckets)
    <3>1. t \in Held(buckets) <=> ~ FullIn(buckets, t) /\ buckets[FindIn(buckets, t)].term = t
      BY LookupFinds
    <3> QED
      BY <1>1, <3>1, Zenon DEF Present
  <2> QED
    BY <2>1 DEF Present, Held
<1> QED
  BY <1>1, <1>2

LEMMA TableNext ==
  ASSUME TableOK(buckets')
  PROVE  /\ Present' = Held(buckets')
         /\ \A t \in Terms : /\ TableFull(t)' <=> FullIn(buckets', t)
                             /\ FindSlot(t)' = FindIn(buckets', t)
                             /\ Bucket(t)' = buckets'[FindIn(buckets', t)]
<1>1. ASSUME NEW t
      PROVE  /\ TableFull(t)' <=> FullIn(buckets', t)
             /\ FindSlot(t)' = FindIn(buckets', t)
             /\ Bucket(t)' = buckets'[FindIn(buckets', t)]
  <2>1. TableFull(t)' <=> FullIn(buckets', t)
    BY Zenon DEF TableFull, FullIn, Ends, EndsIn, Slots
  <2>2. FindSlot(t)' = FindIn(buckets', t)
    BY Zenon DEF FindSlot, FindIn, SlotIn, Ends, EndsIn, Slots
  <2> QED
    BY <2>1, <2>2 DEF Bucket
<1>2. Present' = Held(buckets')
  <2>1. ASSUME NEW t \in Terms PROVE t \in Present' <=> t \in Held(buckets')
    <3>1. PICK b : b = buckets'
      OBVIOUS
    <3>2. t \in Held(b) <=> ~ FullIn(b, t) /\ b[FindIn(b, t)].term = t
      BY <3>1, LookupFinds
    <3> QED
      BY <1>1, <3>1, <3>2, Zenon DEF Present
  <2> QED
    BY <2>1 DEF Present, Held
<1> QED
  BY <1>1, <1>2

-----------------------------------------------------------------------------
(* The inductive invariant *)

\* A page of a list of postings, and any page.
Item   == Nat \cup (Docs \X Nat)
TermPg == [doc : Nat, tf : Nat \ {0}, next : Nat, data : Seq(Nat), head : Nat]
AnyPg  == TermPg \cup [data : Seq(Item), next : Nat]

TypeOK ==
  /\ pages \in Seq(AnyPg) /\ Len(pages) <= ArenaPages /\ Ranked(pages)
  /\ TableOK(buckets)
  /\ nextId \in Nat \ {0} /\ docCount \in Nat /\ total \in Nat
  /\ pc \in {"idle", "index", "flushed"}

\* The pages of a term, newest first, or none.
List(t) == IF t \in Present THEN TermPages(t) ELSE <<>>

\* The ids that next_local_id_ has given out are those of the calls that
\* returned, of those that threw and of the one in progress; docCount counts
\* the first.
Known == DOMAIN acked \cup failed \cup (IF pc = "index" THEN {cur.id} ELSE {})

IdsOK ==
  /\ Known = 1 .. nextId - 1
  /\ DOMAIN acked \cap failed = {}
  /\ pc = "index" => cur.id = nextId - 1 /\ cur.id \notin DOMAIN acked \cup failed
  /\ DOMAIN ext \cup DOMAIN len \cup DOMAIN stored \subseteq 1 .. nextId - 1
  /\ Cardinality(DOMAIN acked) = docCount

\* The list of a term is newest first; the bucket leads to its first page and
\* counts it, and a page with many positions leads to the pages that hold them.
ListOK(t) ==
  /\ List(t) \in Seq(TermPg)
  /\ \A i, j \in 1 .. Len(List(t)) : i < j => List(t)[j].doc < List(t)[i].doc
  /\ \A p \in Range(List(t)) : /\ p.doc \in Known
                               /\ p.tf <= InlineLimit \/ p.head \in 1 .. Len(pages)
  /\ t \in Present => Bucket(t).head \in 1 .. Len(pages) /\ Bucket(t).df = Len(List(t))

ListsOK == \A t \in Terms : ListOK(t)

\* Document d is stored under id i.
Filed(i, d) ==
  /\ i \in DOMAIN ext /\ ext[i] = d
  /\ LenOf(i) = Len(Toks[d])
  /\ i \in DOMAIN stored => stored[i] \in 1 .. Len(pages) /\ Data(stored[i]) = Stored(d)
  /\ i \notin DOMAIN stored => Stored(d) = <<>>

\* Of its terms, those in done have one entry for it, with all its positions.
Entry(t, i) == {p \in Range(List(t)) : p.doc = i}

Posted(i, d, done) ==
  \A t \in Terms :
    /\ t \in done => \E p : /\ Entry(t, i) = {p} /\ p.tf = Len(Positions(d, t))
                            /\ EntryPositions(p) = Positions(d, t)
    /\ t \notin done => Entry(t, i) = {}

AckedOK ==
  \A i \in DOMAIN acked :
    acked[i] \in Docs /\ Filed(i, acked[i]) /\ Posted(i, acked[i], Range(Toks[acked[i]]))

CurOK ==
  pc = "index" =>
    /\ cur.doc \in Docs /\ cur.todo # {} /\ cur.todo \subseteq Range(Toks[cur.doc])
    /\ cur = [doc |-> cur.doc, id |-> cur.id, todo |-> cur.todo]
    /\ Filed(cur.id, cur.doc)
    /\ Posted(cur.id, cur.doc, Range(Toks[cur.doc]) \ cur.todo)

\* The files say what the segment held.
FileOK ==
  pc = "flushed" =>
    file = [docs  |-> docCount,
            post  |-> [t \in Present |-> Entries(t)],
            ttf   |-> [t \in Present |-> Bucket(t).ttf],
            bound |-> [t \in Present |-> FlushBound(t)],
            len   |-> [i \in 1 .. docCount |-> Least(LenOf(i), LenCap)],
            fdt   |-> [i \in 1 .. docCount |-> FdtRow(i)]]

IInv == TypeOK /\ IdsOK /\ ListsOK /\ AckedOK /\ CurOK /\ FileOK

-----------------------------------------------------------------------------
(* What stays as it is when pages are added *)

WalkIn(a, h) == Follow(a, [o \in DOMAIN a |-> <<a[o]>>], h)
DataIn(a, h) == Follow(a, [o \in DOMAIN a |-> a[o].data], h)

Grown(a, b) == /\ Len(a) \in Nat /\ Len(b) \in Nat /\ Len(a) <= Len(b)
               /\ DOMAIN a = 1 .. Len(a) /\ DOMAIN b = 1 .. Len(b)
               /\ \A o \in 1 .. Len(a) : b[o] = a[o]

LEMMA GrownKeeps ==
  ASSUME NEW a, NEW b, Ranked(a), Ranked(b), Grown(a, b)
  PROVE  \A o \in 0 .. Len(a) : WalkIn(b, o) = WalkIn(a, o) /\ DataIn(b, o) = DataIn(a, o)
<1> DEFINE wa == [o \in DOMAIN a |-> <<a[o]>>]
           wb == [o \in DOMAIN b |-> <<b[o]>>]
           da == [o \in DOMAIN a |-> a[o].data]
           db == [o \in DOMAIN b |-> b[o].data]
<1>1. \A o \in 1 .. Len(a) : b[o] = a[o] /\ wb[o] = wa[o] /\ db[o] = da[o]
  BY DEF Grown
<1>2. Len(a) \in Nat /\ Len(b) \in Nat /\ Len(a) <= Len(b)
  BY DEF Grown
<1> HIDE DEF wa, wb, da, db
<1>3. \A o \in 0 .. Len(a) : Follow(b, wb, o) = Follow(a, wa, o)
  <2>1. \A o \in 1 .. Len(a) : b[o] = a[o] /\ wb[o] = wa[o]
    BY <1>1
  <2> QED
    BY <1>2, <2>1, FollowKept
<1>4. \A o \in 0 .. Len(a) : Follow(b, db, o) = Follow(a, da, o)
  <2>1. \A o \in 1 .. Len(a) : b[o] = a[o] /\ db[o] = da[o]
    BY <1>1
  <2> QED
    BY <1>2, <2>1, FollowKept
<1> QED
  BY <1>3, <1>4, Zenon DEF WalkIn, DataIn, wa, wb, da, db

\* New pages alone change no list and no positions of an entry.
LEMMA ListsKept ==
  ASSUME TypeOK, ListsOK, Ranked(pages'), Grown(pages, pages'), buckets' = buckets
  PROVE  /\ Present' = Present
         /\ \A t \in Terms :
              /\ Bucket(t)' = Bucket(t) /\ List(t)' = List(t)
              /\ \A p \in Range(List(t)) : EntryPositions(p)' = EntryPositions(p)
<1>1. TableOK(buckets) /\ TableOK(buckets') /\ Ranked(pages)
  BY DEF TypeOK
<1>2. Present' = Present /\ \A t \in Terms : Bucket(t)' = Bucket(t)
  BY <1>1, TableNow, TableNext
<1>3. PICK a, b : a = pages /\ b = pages'
  OBVIOUS
<1>4. \A o \in 0 .. Len(a) : WalkIn(b, o) = WalkIn(a, o) /\ DataIn(b, o) = DataIn(a, o)
  BY <1>1, <1>3, GrownKeeps
<1>5. ASSUME NEW t \in Terms PROVE List(t)' = List(t)
  <2>1. CASE t \in Present
    <3>1. Bucket(t).head \in 0 .. Len(pages)
      BY <2>1 DEF ListsOK, ListOK
    <3>2. List(t) = WalkIn(a, Bucket(t).head)
      BY <1>3, <2>1 DEF List, TermPages, Walk, WalkIn
    <3>3. List(t)' = WalkIn(b, Bucket(t).head)
      BY <1>2, <1>3, <2>1 DEF List, TermPages, Walk, WalkIn
    <3> QED
      BY <1>2, <1>3, <1>4, <3>1, <3>2, <3>3
  <2>2. CASE t \notin Present
    BY <1>2, <2>2 DEF List
  <2> QED
    BY <2>1, <2>2
<1>6. ASSUME NEW t \in Terms, NEW p \in Range(List(t))
      PROVE  EntryPositions(p)' = EntryPositions(p)
  <2>1. p.tf <= InlineLimit \/ p.head \in 0 .. Len(pages)
    BY DEF ListsOK, ListOK
  <2>2. CASE p.tf <= InlineLimit
    BY <2>2 DEF EntryPositions
  <2>3. CASE p.head \in 0 .. Len(pages)
    <3>1. Data(p.head) = DataIn(a, p.head) /\ Data(p.head)' = DataIn(b, p.head)
      BY <1>3 DEF Data, DataIn
    <3>2. Data(p.head)' = Data(p.head)
      BY <1>3, <1>4, <2>3, <3>1
    <3> QED
      BY <3>2 DEF EntryPositions
  <2> QED
    BY <2>1, <2>2, <2>3
<1> QED
  BY <1>2, <1>5, <1>6

\* The lists of a term and what is known of them stay.
LEMMA PostsKept ==
  ASSUME TypeOK, ListsOK, Ranked(pages'), Grown(pages, pages'), buckets' = buckets,
         Known \subseteq Known'
  PROVE  ListsOK' /\ \A i, d, done : Posted(i, d, done) => Posted(i, d, done)'
<1>1. /\ Present' = Present
      /\ \A t \in Terms :
           /\ Bucket(t)' = Bucket(t) /\ List(t)' = List(t)
           /\ \A p \in Range(List(t)) : EntryPositions(p)' = EntryPositions(p)
  BY ListsKept
<1>2. Len(pages) \in Nat /\ Len(pages') \in Nat /\ Len(pages) <= Len(pages')
  BY DEF Grown
<1>3. ASSUME NEW t \in Terms PROVE ListOK(t)'
  <2>1. ListOK(t)
    BY DEF ListsOK
  <2>2. /\ List(t)' \in Seq(TermPg)
        /\ \A i, j \in 1 .. Len(List(t)') : i < j => List(t)'[j].doc < List(t)'[i].doc
    BY <1>1, <2>1 DEF ListOK
  <2>3. ASSUME NEW p \in Range(List(t)')
        PROVE  p.doc \in Known' /\ (p.tf <= InlineLimit \/ p.head \in 1 .. Len(pages'))
    <3>1. p.doc \in Known /\ (p.tf <= InlineLimit \/ p.head \in 1 .. Len(pages))
      BY <1>1, <2>1 DEF ListOK
    <3> QED
      BY <1>2, <3>1
  <2>4. t \in Present' => Bucket(t)'.head \in 1 .. Len(pages') /\ Bucket(t)'.df = Len(List(t)')
    <3>1. t \in Present => Bucket(t).head \in 1 .. Len(pages) /\ Bucket(t).df = Len(List(t))
      BY <2>1 DEF ListOK
    <3> QED
      BY <1>1, <1>2, <3>1
  <2> QED
    BY <2>2, <2>3, <2>4 DEF ListOK
<1>4. ASSUME NEW i, NEW d, NEW done, Posted(i, d, done) PROVE Posted(i, d, done)'
  <2>1. \A t \in Terms : Entry(t, i)' = Entry(t, i)
    BY <1>1 DEF Entry
  <2>2. ASSUME NEW t \in Terms, t \in done
        PROVE  \E p : /\ Entry(t, i)' = {p} /\ p.tf = Len(Positions(d, t))
                      /\ EntryPositions(p)' = Positions(d, t)
    <3>1. PICK p : /\ Entry(t, i) = {p} /\ p.tf = Len(Positions(d, t))
                   /\ EntryPositions(p) = Positions(d, t)
      BY <1>4, <2>2 DEF Posted
    <3>2. p \in Range(List(t))
      BY <3>1 DEF Entry
    <3>3. EntryPositions(p)' = EntryPositions(p)
      BY <1>1, <3>2
    <3> QED
      BY <2>1, <3>1, <3>3
  <2>3. \A t \in Terms : t \notin done => Entry(t, i)' = {}
    BY <1>4, <2>1 DEF Posted
  <2> QED
    BY <2>2, <2>3 DEF Posted
<1> QED
  BY <1>3, <1>4 DEF ListsOK

\* A document that is stored stays so.
LEMMA FiledKept ==
  ASSUME TypeOK, Ranked(pages'), Grown(pages, pages'),
         NEW i, NEW d, Filed(i, d),
         i \in DOMAIN ext' /\ ext'[i] = ext[i],
         LenOf(i)' = LenOf(i),
         i \in DOMAIN stored' <=> i \in DOMAIN stored,
         i \in DOMAIN stored => stored'[i] = stored[i]
  PROVE  Filed(i, d)'
<1>1. PICK a, b : a = pages /\ b = pages'
  OBVIOUS
<1>2. \A o \in 0 .. Len(a) : DataIn(b, o) = DataIn(a, o)
  BY <1>1, GrownKeeps DEF TypeOK
<1>3. ASSUME i \in DOMAIN stored
      PROVE  stored'[i] \in 1 .. Len(pages') /\ Data(stored[i])' = Stored(d)
  <2>1. stored[i] \in 1 .. Len(pages) /\ Data(stored[i]) = Stored(d) /\ stored'[i] = stored[i]
    BY <1>3 DEF Filed
  <2>2. Data(stored[i]) = DataIn(a, stored[i]) /\ Data(stored[i])' = DataIn(b, stored[i])
    BY <1>1, <2>1 DEF Data, DataIn
  <2>3. stored[i] \in 0 .. Len(a)
    BY <1>1, <2>1
  <2>4. Data(stored[i])' = Stored(d)
    BY <1>2, <2>1, <2>2, <2>3
  <2> QED
    BY <2>1, <2>4 DEF Grown
<1>4. LenOf(i)' = Len(Toks[d]) /\ ext'[i] = d
  BY DEF Filed
<1>5. i \notin DOMAIN stored => Stored(d)' = <<>>
  BY DEF Filed, Stored
<1>6. Stored(d)' = Stored(d)
  BY DEF Stored
<1> QED
  BY <1>3, <1>4, <1>5, <1>6 DEF Filed

-----------------------------------------------------------------------------
(* The pages that the actions add *)

LEMMA ConcatGrows ==
  ASSUME NEW S, NEW a \in Seq(S), NEW c \in Seq(S)
  PROVE  /\ a \o c \in Seq(S) /\ Len(a \o c) = Len(a) + Len(c) /\ Grown(a, a \o c)
         /\ \A k \in 1 .. Len(c) : (a \o c)[Len(a) + k] = c[k]
<1> DEFINE b == a \o c
<1>1. /\ b \in Seq(S) /\ Len(b) = Len(a) + Len(c) /\ Len(a) \in Nat /\ Len(c) \in Nat
      /\ DOMAIN a = 1 .. Len(a) /\ DOMAIN b = 1 .. Len(b)
  OBVIOUS
<1>2. \A o \in 1 .. Len(a) : b[o] = a[o]
  OBVIOUS
<1>3. \A k \in 1 .. Len(c) : b[Len(a) + k] = c[k]
  OBVIOUS
<1> QED
  BY <1>1, <1>2, <1>3 DEF Grown

\* The arena b is the arena a with the chain for s behind it, and what that means.
Appends(a, b, last, s, per) == last = Len(a) /\ b = a \o ChainOf(last, s, per)

Appended(a, b, last, s, per) ==
  /\ b \in Seq(AnyPg) /\ Ranked(b) /\ Grown(a, b)
  /\ Len(b) = Len(a) + Len(ChainOf(last, s, per))
  /\ s # <<>> => Len(a) + 1 \in 1 .. Len(b) /\ DataIn(b, Len(a) + 1) = s

LEMMA AppendChain ==
  ASSUME NEW a \in Seq(AnyPg), Ranked(a), NEW s \in Seq(Item), NEW per \in Nat \ {0},
         NEW last \in Nat, NEW b, Appends(a, b, last, s, per)
  PROVE  Appended(a, b, last, s, per)
<1>0. last = Len(a) /\ b = a \o ChainOf(last, s, per)
  BY DEF Appends
<1> DEFINE c == ChainOf(last, s, per)
           n == Count(s, per)
<1>1. last \in Nat /\ Len(a) = last
  BY <1>0
<1>2. n \in Nat /\ Len(c) = n /\ DOMAIN c = 1 .. n
  BY <1>1, ChainPages
<1>3. c = [k \in 1 .. n |-> [data |-> Piece(s, per, k), next |-> IF k = n THEN 0 ELSE last + k + 1]]
  BY DEF ChainOf, Piece, Count
<1>4. c \in Seq(AnyPg)
  <2>1. c \in Seq([data : Seq(Item), next : Nat])
    BY <1>1, ChainType
  <2> HIDE DEF c
  <2> QED
    BY <2>1, SeqMonotonic, Zenon DEF AnyPg
<1> HIDE DEF c, n
<1>5. /\ b \in Seq(AnyPg) /\ Len(b) = last + Len(c) /\ Grown(a, b)
      /\ \A k \in 1 .. n : b[last + k] = c[k]
  <2>1. b = a \o c
    BY <1>0 DEF c
  <2>2. /\ b \in Seq(AnyPg) /\ Len(b) = Len(a) + Len(c) /\ Grown(a, b)
        /\ \A k \in 1 .. Len(c) : b[Len(a) + k] = c[k]
    BY <1>4, <2>1, ConcatGrows
  <2> QED
    BY <1>1, <1>2, <2>2
<1>6. \A k \in 1 .. n : c[k].next = IF k = n THEN 0 ELSE last + k + 1
  <2> TAKE k \in 1 .. n
  <2>1. c[k] = [data |-> Piece(s, per, k), next |-> IF k = n THEN 0 ELSE last + k + 1]
    BY <1>3
  <2> QED
    BY <2>1
<1>7. Ranked(b)
  <2>1. \A k \in 1 .. n : \/ b[Len(a) + k].next = 0
                          \/ k < n /\ b[Len(a) + k].next = Len(a) + k + 1
    BY <1>1, <1>2, <1>5, <1>6
  <2>2. Len(b) = last + n /\ \A o \in 1 .. Len(a) : b[o] = a[o]
    BY <1>2, <1>5 DEF Grown
  <2> QED
    BY <1>1, <1>2, <2>1, <2>2, RankedBehind, Zenon
<1>8. ASSUME s # <<>> PROVE last + 1 \in 1 .. Len(b) /\ DataIn(b, last + 1) = s
  <2> DEFINE of == [o \in DOMAIN b |-> b[o].data]
  <2>1. \A k \in DOMAIN c : /\ last + k \in 1 .. Len(b)
                            /\ b[last + k].next = c[k].next /\ of[last + k] = c[k].data
    <3> TAKE k \in DOMAIN c
    <3>1. k \in 1 .. n /\ last + k \in 1 .. Len(b)
      BY <1>1, <1>2, <1>5
    <3>2. b[last + k] = c[k] /\ last + k \in DOMAIN b
      BY <1>5, <3>1 DEF Grown
    <3> QED
      BY <3>1, <3>2
  <2>2. c = ChainOf(last, s, per)
    BY DEF c
  <2>3. Len(b) \in Nat
    BY <1>5 DEF Grown
  <2> HIDE DEF of
  <2>6. Holds(b, of, last, c)
    BY <1>1, <2>1 DEF Holds
  <2>4. Len(c) # 0 /\ Follow(b, of, last + 1) = s
    BY <1>7, <1>8, <2>2, <2>3, <2>6, ChainYields
  <2>5. DataIn(b, last + 1) = s
    BY <2>4, Zenon DEF DataIn, of
  <2> QED
    BY <1>1, <1>2, <1>5, <2>4, <2>5
<1> QED
  BY <1>1, <1>5, <1>7, <1>8 DEF c, Appended

LEMMA AddPage ==
  ASSUME NEW a \in Seq(AnyPg), Ranked(a), NEW p \in TermPg, p.next \in 0 .. Len(a),
         NEW b, b = a \o <<p>>
  PROVE  /\ b \in Seq(AnyPg) /\ Ranked(b) /\ Grown(a, b) /\ Len(b) = Len(a) + 1
         /\ WalkIn(b, Len(b)) = <<p>> \o WalkIn(a, p.next)
<1>1. <<p>> \in Seq(AnyPg) /\ Len(<<p>>) = 1 /\ <<p>>[1] = p
  BY DEF AnyPg
<1>2. /\ b \in Seq(AnyPg) /\ Grown(a, b) /\ Len(b) = Len(a) + 1 /\ b[Len(a) + 1] = p
  <2>0. PICK c \in Seq(AnyPg) : c = <<p>>
    BY <1>1
  <2>1. /\ a \o c \in Seq(AnyPg) /\ Len(a \o c) = Len(a) + Len(c)
        /\ Grown(a, a \o c)
        /\ \A k \in 1 .. Len(c) : (a \o c)[Len(a) + k] = c[k]
    BY ConcatGrows
  <2>2. b = a \o c /\ Len(c) = 1 /\ c[1] = p
    BY <1>1, <2>0
  <2> QED
    BY <2>1, <2>2
<1>3. Len(a) \in Nat /\ Len(b) \in Nat /\ Len(b) = Len(a) + 1 /\ b[Len(b)] = p
  BY <1>2 DEF Grown
<1>4. Ranked(b)
  <2>1. \A o \in 1 .. Len(a) : b[o] = a[o]
    BY <1>2 DEF Grown
  <2> QED
    BY <1>3, <2>1, RankedFront
<1> DEFINE of == [o \in DOMAIN b |-> <<b[o]>>]
<1>5. of[Len(b)] = <<p>>
  <2>1. Len(b) \in DOMAIN b
    BY <1>2, <1>3 DEF Grown
  <2> QED
    BY <1>3, <2>1
<1> HIDE DEF of
<1>6. Follow(b, of, Len(b)) = of[Len(b)] \o Follow(b, of, b[Len(b)].next)
  <2>1. \A o \in 1 .. Len(b) : Follow(b, of, o) = of[o] \o Follow(b, of, b[o].next)
    BY <1>3, <1>4, FollowStep
  <2>2. Len(b) \in 1 .. Len(b)
    BY <1>3
  <2> QED
    BY <2>1, <2>2
<1>7. WalkIn(b, Len(b)) = <<p>> \o WalkIn(b, p.next)
  BY <1>3, <1>5, <1>6, Zenon DEF WalkIn, of
<1>8. WalkIn(b, p.next) = WalkIn(a, p.next)
  BY <1>2, <1>4, GrownKeeps
<1> QED
  BY <1>2, <1>3, <1>4, <1>7, <1>8

LEMMA AddLost ==
  ASSUME NEW a \in Seq(AnyPg), Ranked(a), NEW n \in Nat, NEW b, b = a \o Lost(n)
  PROVE  b \in Seq(AnyPg) /\ Ranked(b) /\ Grown(a, b) /\ Len(b) = Len(a) + n
<1> DEFINE page == [data |-> <<>>, next |-> 0]
<1>1. Lost(n) = [k \in 1 .. n |-> page]
  BY DEF Lost
<1>2. page \in AnyPg
  <2>1. <<>> \in Seq(Item)
    OBVIOUS
  <2> QED
    BY <2>1 DEF AnyPg
<1>3. page.next = 0
  OBVIOUS
<1> HIDE DEF page
<1>4. Lost(n) \in Seq(AnyPg) /\ Len(Lost(n)) = n /\ \A k \in 1 .. n : Lost(n)[k] = page
  BY <1>1, <1>2
<1>5. /\ b \in Seq(AnyPg) /\ Grown(a, b) /\ Len(b) = Len(a) + n
      /\ \A k \in 1 .. n : b[Len(a) + k] = page
  <2>1. /\ a \o Lost(n) \in Seq(AnyPg) /\ Len(a \o Lost(n)) = Len(a) + Len(Lost(n))
        /\ Grown(a, a \o Lost(n))
        /\ \A k \in 1 .. Len(Lost(n)) : (a \o Lost(n))[Len(a) + k] = Lost(n)[k]
    BY <1>4, ConcatGrows
  <2> QED
    BY <1>4, <2>1
<1>6. Ranked(b)
  <2>1. \A k \in 1 .. n : b[Len(a) + k].next = 0
    BY <1>3, <1>5
  <2>2. Len(a) \in Nat /\ \A o \in 1 .. Len(a) : b[o] = a[o]
    BY <1>5 DEF Grown
  <2>3. \A k \in 1 .. n : \/ b[Len(a) + k].next = 0
                          \/ k < n /\ b[Len(a) + k].next = Len(a) + k + 1
    BY <2>1
  <2> QED
    BY <1>5, <2>2, <2>3, RankedBehind
<1> QED
  BY <1>5, <1>6

\* The positions of a term in a document: none if it is not there.
LEMMA PositionsFacts ==
  ASSUME NEW d \in Docs, NEW t \in Terms
  PROVE  /\ Positions(d, t) \in Seq(Nat) /\ Len(Positions(d, t)) \in Nat
         /\ t \in Range(Toks[d]) <=> Len(Positions(d, t)) # 0
         /\ t \in Range(Toks[d]) <=> Positions(d, t) # <<>>
<1> DEFINE S == {i \in DOMAIN Toks[d] : Toks[d][i] = t}
<1>1. Toks[d] \in Seq(Terms)
  BY MemorySegmentAssumption
<1>2. S \in SUBSET Nat /\ IsFiniteSet(S)
  <2>1. S \in SUBSET (1 .. Len(Toks[d])) /\ Len(Toks[d]) \in Nat
    BY <1>1
  <2>2. IsFiniteSet(1 .. Len(Toks[d]))
    BY <2>1, FS_Interval
  <2>3. IsFiniteSet(S)
    BY <2>1, <2>2, FS_Subset
  <2> QED
    BY <2>1, <2>3
<1>3. t \in Range(Toks[d]) <=> S # {}
  BY DEF Range
<1> HIDE DEF S
<1>4. InOrder(S) \in Seq(Nat) /\ Len(InOrder(S)) = Cardinality(S)
  BY <1>2, InOrderFacts
<1>5. Cardinality(S) \in Nat /\ (Cardinality(S) = 0 <=> S = {})
  BY <1>2, FS_CardinalityType, FS_EmptySet
<1>6. Positions(d, t) = InOrder(S)
  BY DEF Positions, S
<1> DEFINE s == InOrder(S)
<1>7. s \in Seq(Nat) => (Len(s) = 0 <=> s = <<>>)
  OBVIOUS
<1> QED
  BY <1>3, <1>4, <1>5, <1>6, <1>7

-----------------------------------------------------------------------------
(* The invariant holds of a fresh segment *)

Fresh ==
  /\ pages = <<>>
  /\ buckets = [s \in 0 .. HashCap - 1 |-> Free]
  /\ stored = Nothing /\ ext = Nothing /\ len = Nothing
  /\ total = 0 /\ docCount = 0 /\ nextId = 1
  /\ pc = "idle" /\ acked = Nothing /\ failed = {}

LEMMA FreshHolds == Fresh => IInv
<1> SUFFICES ASSUME Fresh PROVE IInv
  OBVIOUS
<1> USE DEF Fresh
<1>1. DOMAIN Nothing = {}
  BY DEF Nothing
<1>2. TableOK(buckets) /\ Held(buckets) = {}
  <2>1. Free \in [term : Terms \cup {""}, head : Nat, df : Nat, ttf : Nat] /\ Free.term = ""
    BY DEF Free
  <2>2. buckets = [s \in Slots |-> Free]
    BY DEF Slots
  <2> HIDE DEF Fresh
  <2>3. \A s \in Slots : buckets[s] = Free /\ buckets[s].term = ""
    BY <2>1, <2>2
  <2>4. buckets \in [Slots -> [term : Terms \cup {""}, head : Nat, df : Nat, ttf : Nat]]
    BY <2>1, <2>2
  <2>5. TableOK(buckets)
    BY <2>3, <2>4 DEF TableOK
  <2>6. \A t \in Terms : t # ""
    BY NoEmptyTerm
  <2> QED
    BY <2>3, <2>5, <2>6 DEF Held
<1>3. TypeOK
  <2>0. ArenaPages \in Nat
    BY Constants
  <2>1. pages \in Seq(AnyPg) /\ Len(pages) = 0 /\ Len(pages) <= ArenaPages
    BY <2>0
  <2> QED
    BY <1>2, <2>1, RankedEmpty DEF TypeOK
<1>4. Present = {}
  BY <1>2, TableNow
<1>5. Known = {}
  BY <1>1 DEF Known
<1>6. IdsOK
  <2>1. 1 .. nextId - 1 = {} /\ Cardinality({}) = 0
    BY FS_EmptySet
  <2> QED
    BY <1>1, <1>5, <2>1 DEF IdsOK
<1>7. ListsOK
  <2> SUFFICES ASSUME NEW t \in Terms PROVE ListOK(t)
    BY DEF ListsOK
  <2>1. List(t) = <<>> /\ t \notin Present
    BY <1>4 DEF List
  <2>2. <<>> \in Seq(TermPg) /\ Len(<<>>) = 0 /\ Range(<<>>) = {}
    BY DEF Range
  <2> QED
    BY <2>1, <2>2 DEF ListOK
<1>8. AckedOK
  BY <1>1 DEF AckedOK
<1> QED
  BY <1>3, <1>6, <1>7, <1>8 DEF IInv, CurOK, FileOK

LEMMA ResetKeeps == ASSUME IInv, Reset PROVE IInv'
<1>1. Fresh'
  BY DEF Reset, Fresh
<1>2. (Fresh => IInv)'
  BY FreshHolds, PTL
<1> QED
  BY <1>1, <1>2

-----------------------------------------------------------------------------
(* The actions that leave the pages alone *)

\* Nothing that the lists, the stored fields and the ids depend on changes.
LEMMA StillKeeps ==
  ASSUME IInv, UNCHANGED <<pages, buckets, stored, ext, len, total, docCount, nextId, cur,
                           acked, failed>>,
         pc' \in {"idle", "index", "flushed"}, pc' = "index" <=> pc = "index"
  PROVE  TypeOK' /\ IdsOK' /\ ListsOK' /\ AckedOK' /\ CurOK'
<1>1. TypeOK'
  BY DEF IInv, TypeOK
<1>2. Known' = Known
  BY DEF Known
<1>3. IdsOK'
  BY <1>2 DEF IInv, IdsOK
<1>4. Ranked(pages') /\ Grown(pages, pages')
  BY DEF IInv, TypeOK, Grown
<1>5. ListsOK' /\ \A i, d, done : Posted(i, d, done) => Posted(i, d, done)'
  BY <1>2, <1>4, PostsKept DEF IInv
<1>6. ASSUME NEW i, NEW d, Filed(i, d) PROVE Filed(i, d)'
  <2>1. LenOf(i)' = LenOf(i)
    BY DEF LenOf
  <2> QED
    BY <1>4, <1>6, <2>1, FiledKept DEF IInv, Filed
<1>7. AckedOK'
  BY <1>5, <1>6 DEF IInv, AckedOK
<1>8. CurOK'
  BY <1>5, <1>6 DEF IInv, CurOK
<1> QED
  BY <1>1, <1>3, <1>5, <1>7, <1>8

LEMMA SearchKeeps == ASSUME IInv, NEW t \in Terms, Search(t) PROVE IInv'
<1>1. /\ UNCHANGED <<pages, buckets, stored, ext, len, total, docCount, nextId, cur, acked, failed>>
      /\ pc = "idle" /\ pc' = pc
  BY DEF Search
<1>2. TypeOK' /\ IdsOK' /\ ListsOK' /\ AckedOK' /\ CurOK'
  BY <1>1, StillKeeps
<1>3. FileOK'
  BY <1>1 DEF FileOK
<1> QED
  BY <1>2, <1>3 DEF IInv

\* What is read from memory stays if nothing of it changes.
LEMMA ReadingKept ==
  ASSUME UNCHANGED <<pages, buckets, stored, ext, len, total, docCount>>
  PROVE  /\ Present' = Present /\ \A t : Bucket(t)' = Bucket(t)
         /\ \A t : Entries(t)' = Entries(t)
         /\ \A t : FlushBound(t)' = FlushBound(t)
         /\ \A i : LenOf(i)' = LenOf(i) /\ FdtRow(i)' = FdtRow(i)
<1>0. Present' = Present /\ \A t : Bucket(t)' = Bucket(t)
  BY DEF Present, Bucket, TableFull, FindSlot, Ends
<1>1. \A o : Walk(o)' = Walk(o) /\ Data(o)' = Data(o)
  BY DEF Walk, Data
<1>2. \A t : TermPages(t)' = TermPages(t)
  BY <1>0, <1>1 DEF TermPages
<1>3. \A p : EntryPositions(p)' = EntryPositions(p)
  BY <1>1 DEF EntryPositions
<1>4. \A i : LenOf(i)' = LenOf(i) /\ FdtRow(i)' = FdtRow(i)
  BY <1>1 DEF LenOf, FdtRow
<1>5. \A t : FlushBound(t)' = FlushBound(t)
  BY <1>2, <1>4 DEF FlushBound
<1>6. ASSUME NEW t PROVE Entries(t)' = Entries(t)
  <2>0. PICK m : m = TermPages(t)
    OBVIOUS
  <2>1. PICK l : l = Sorted(m)
    OBVIOUS
  <2>2. TermPages(t)' = m
    BY <1>2, <2>0
  <2>3. Entries(t) = [i \in 1 .. Len(l) |->
                        [doc |-> l[i].doc, tf |-> Least(l[i].tf, TfCap),
                         pos |-> EntryPositions(l[i])]]
    BY <2>0, <2>1, Zenon DEF Entries
  <2>4. Entries(t)' = [i \in 1 .. Len(l) |->
                        [doc |-> l[i].doc, tf |-> Least(l[i].tf, TfCap),
                         pos |-> EntryPositions(l[i])']]
    BY <2>1, <2>2, Zenon DEF Entries
  <2>5. \A i \in 1 .. Len(l) : EntryPositions(l[i])' = EntryPositions(l[i])
    BY <1>3
  <2> QED
    BY <2>3, <2>4, <2>5, Zenon
<1> QED
  BY <1>0, <1>4, <1>5, <1>6

LEMMA FlushKeeps == ASSUME IInv, FlushToDisk PROVE IInv'
<1>1. /\ UNCHANGED <<pages, buckets, stored, ext, len, total, docCount, nextId, cur, acked, failed>>
      /\ pc = "idle" /\ pc' = "flushed"
  BY DEF FlushToDisk
<1>2. TypeOK' /\ IdsOK' /\ ListsOK' /\ AckedOK' /\ CurOK'
  BY <1>1, StillKeeps
<1>3. /\ file' = [docs  |-> docCount,
                  post  |-> [t \in Present |-> Entries(t)],
                  ttf   |-> [t \in Present |-> Bucket(t).ttf],
                  bound |-> [t \in Present |-> FlushBound(t)],
                  len   |-> [i \in 1 .. docCount |-> Least(LenOf(i), LenCap)],
                  fdt   |-> [i \in 1 .. docCount |-> FdtRow(i)]]
  BY DEF FlushToDisk
<1>4. /\ Present' = Present /\ \A t : Bucket(t)' = Bucket(t)
      /\ \A t : Entries(t)' = Entries(t)
      /\ \A t : FlushBound(t)' = FlushBound(t)
      /\ \A i : LenOf(i)' = LenOf(i) /\ FdtRow(i)' = FdtRow(i)
  BY <1>1, ReadingKept
<1>6. FileOK'
  BY <1>1, <1>3, <1>4 DEF FileOK
<1> QED
  BY <1>2, <1>6 DEF IInv

-----------------------------------------------------------------------------
(* The actions that add pages *)

\* What is known of the ids so far stays if only pages and newer ids are added.
LEMMA OlderKept ==
  ASSUME IInv, Ranked(pages'), Grown(pages, pages'), buckets' = buckets, Known \subseteq Known',
         \A i \in Known : /\ (i \in DOMAIN ext => i \in DOMAIN ext' /\ ext'[i] = ext[i])
                          /\ LenOf(i)' = LenOf(i)
                          /\ i \in DOMAIN stored' <=> i \in DOMAIN stored
                          /\ (i \in DOMAIN stored => stored'[i] = stored[i])
  PROVE  /\ ListsOK'
         /\ \A i, d, done : Posted(i, d, done) => Posted(i, d, done)'
         /\ \A i \in Known : \A d : Filed(i, d) => Filed(i, d)'
<1>1. ListsOK' /\ \A i, d, done : Posted(i, d, done) => Posted(i, d, done)'
  BY PostsKept DEF IInv
<1>2. ASSUME NEW i \in Known, NEW d, Filed(i, d) PROVE Filed(i, d)'
  <2>1. i \in DOMAIN ext
    BY <1>2 DEF Filed
  <2> QED
    BY <1>2, <2>1, FiledKept DEF IInv
<1> QED
  BY <1>1, <1>2

\* The positions of the term at hand, and the pages it takes.
LEMMA NeededFacts ==
  ASSUME IInv, pc = "index", NEW t \in cur.todo
  PROVE  /\ t \in Terms /\ t \in Range(Toks[cur.doc]) /\ cur.doc \in Docs
         /\ Positions(cur.doc, t) \in Seq(Nat) /\ Positions(cur.doc, t) # <<>>
         /\ Len(Positions(cur.doc, t)) \in Nat \ {0}
         /\ Len(PosChain(t)) \in Nat /\ PagesNeeded(t) \in Nat
<1>1. cur.doc \in Docs /\ t \in Range(Toks[cur.doc])
  BY DEF IInv, CurOK
<1>2. t \in Terms
  <2>1. Toks[cur.doc] \in Seq(Terms)
    BY <1>1, MemorySegmentAssumption
  <2> QED
    BY <1>1, <2>1 DEF Range
<1>3. PICK s : s = Positions(cur.doc, t)
  OBVIOUS
<1>4. s \in Seq(Nat) /\ s # <<>> /\ Len(s) \in Nat \ {0}
  BY <1>1, <1>2, <1>3, PositionsFacts
<1>5. Len(PosChain(t)) \in Nat
  <2>1. CASE Len(s) <= InlineLimit
    BY <1>3, <2>1 DEF PosChain
  <2>2. CASE ~ (Len(s) <= InlineLimit)
    <3>1. PICK last \in Nat : last = Len(pages) + 1
      BY DEF IInv, TypeOK
    <3>2. PosChain(t) = ChainOf(last, s, PosPerPage)
      BY <1>3, <2>2, <3>1 DEF PosChain
    <3>3. PosPerPage \in Nat \ {0}
      BY Constants
    <3>4. PICK c : c = ChainOf(last, s, PosPerPage)
      OBVIOUS
    <3>5. Count(s, PosPerPage) \in Nat /\ Len(c) = Count(s, PosPerPage)
      BY <1>4, <3>3, <3>4, ChainPages
    <3> QED
      BY <3>2, <3>4, <3>5
  <2> QED
    BY <2>1, <2>2
<1> QED
  BY <1>1, <1>2, <1>3, <1>4, <1>5 DEF PagesNeeded

\* The arena after an exception.
LEMMA ThrowPages ==
  ASSUME IInv, NEW t \in Terms, IndexTermThrows(t)
  PROVE  /\ pages' \in Seq(AnyPg) /\ Ranked(pages') /\ Grown(pages, pages')
         /\ Len(pages') <= ArenaPages
<1>1. pc = "index" /\ t \in cur.todo /\ pages' = pages \o Lost(PagesLost(t))
  BY DEF IndexTermThrows
<1>2. PagesLost(t) \in Nat /\ Len(pages) + PagesLost(t) <= ArenaPages
  <2>1. PagesNeeded(t) \in Nat
    BY <1>1, NeededFacts
  <2>2. ArenaPages \in Nat
    BY Constants
  <2>3. Len(pages) \in Nat /\ Len(pages) <= ArenaPages
    BY DEF IInv, TypeOK
  <2> QED
    BY <2>1, <2>2, <2>3 DEF PagesLost, Least
<1>3. /\ pages' \in Seq(AnyPg) /\ Ranked(pages') /\ Grown(pages, pages')
      /\ Len(pages') = Len(pages) + PagesLost(t)
  BY <1>1, <1>2, AddLost DEF IInv, TypeOK
<1> QED
  BY <1>2, <1>3

LEMMA ThrowKeeps == ASSUME IInv, NEW t \in Terms, IndexTermThrows(t) PROVE IInv'
<1>1. /\ pc = "index" /\ pc' = "idle" /\ t \in cur.todo /\ pages' = pages \o Lost(PagesLost(t))
      /\ failed' = failed \cup {cur.id}
      /\ UNCHANGED <<buckets, stored, ext, len, total, docCount, nextId, acked>>
  BY DEF IndexTermThrows
<1>3. /\ pages' \in Seq(AnyPg) /\ Ranked(pages') /\ Grown(pages, pages')
      /\ Len(pages') <= ArenaPages
  BY ThrowPages
<1>4. TypeOK'
  BY <1>1, <1>3 DEF IInv, TypeOK
<1>5. Known' = Known
  BY <1>1 DEF Known
<1>6. IdsOK'
  BY <1>1, <1>5 DEF IInv, IdsOK
<1>7. /\ ListsOK'
      /\ \A i, d, done : Posted(i, d, done) => Posted(i, d, done)'
      /\ \A i \in Known : \A d : Filed(i, d) => Filed(i, d)'
  <2>1. \A i : LenOf(i)' = LenOf(i)
    BY <1>1 DEF LenOf
  <2> QED
    BY <1>1, <1>3, <1>5, <2>1, OlderKept
<1>8. AckedOK'
  <2>1. acked' = acked /\ DOMAIN acked \subseteq Known
    BY <1>1 DEF Known
  <2> QED
    BY <1>7, <2>1 DEF IInv, AckedOK
<1>9. CurOK' /\ FileOK'
  BY <1>1 DEF CurOK, FileOK
<1> QED
  BY <1>4, <1>6, <1>7, <1>8, <1>9 DEF IInv

\* No list names a new id.
LEMMA NotYetPosted ==
  ASSUME IInv
  PROVE  \A d : Posted(nextId, d, {})
<1>1. \A t \in Terms : \A p \in Range(List(t)) : p.doc \in 1 .. nextId - 1
  BY DEF IInv, ListsOK, ListOK, IdsOK
<1>2. nextId \in Nat
  BY DEF IInv, TypeOK
<1>3. \A t \in Terms : Entry(t, nextId) = {}
  BY <1>1, <1>2 DEF Entry
<1> QED
  BY <1>3 DEF Posted

LEMMA StoredFacts ==
  ASSUME NEW d \in Docs
  PROVE  /\ Stored(d) \in Seq(Item) /\ Len(Stored(d)) = Parts[d] /\ Parts[d] \in Nat
         /\ Stored(d) = <<>> <=> Parts[d] = 0
<1>1. Parts[d] \in Nat
  BY MemorySegmentAssumption
<1>2. \A k \in 1 .. Parts[d] : <<d, k>> \in Item
  BY <1>1 DEF Item
<1>3. Stored(d) \in [1 .. Parts[d] -> Item]
  BY <1>2 DEF Stored
<1>4. Stored(d) \in Seq(Item) /\ Len(Stored(d)) = Parts[d]
  BY <1>1, <1>3
<1>5. \A s \in Seq(Item) : s = <<>> <=> Len(s) = 0
  OBVIOUS
<1> QED
  BY <1>1, <1>4, <1>5

\* The arena after the stored fields of a document.
LEMMA StoredPages ==
  ASSUME IInv, NEW d \in Docs, pages' = pages \o StoredChain(d)
  PROVE  /\ pages' \in Seq(AnyPg) /\ Ranked(pages') /\ Grown(pages, pages')
         /\ Len(pages') = Len(pages) + Parts[d]
         /\ Stored(d) # <<>> => /\ Len(pages) + 1 \in 1 .. Len(pages')
                                /\ DataIn(pages', Len(pages) + 1) = Stored(d)
<1>1. PICK last \in Nat : last = Len(pages)
  BY DEF IInv, TypeOK
<1>2. /\ Stored(d) \in Seq(Item) /\ Len(Stored(d)) = Parts[d] /\ Parts[d] \in Nat
      /\ Stored(d) = <<>> <=> Parts[d] = 0
  BY StoredFacts
<1>3. pages' = pages \o ChainOf(last, Stored(d), 1)
  BY <1>1 DEF StoredChain
<1>4. /\ pages' \in Seq(AnyPg) /\ Ranked(pages') /\ Grown(pages, pages')
      /\ Len(pages') = Len(pages) + Len(ChainOf(last, Stored(d), 1))
      /\ Stored(d) # <<>> => /\ Len(pages) + 1 \in 1 .. Len(pages')
                             /\ DataIn(pages', Len(pages) + 1) = Stored(d)
  <2>1. PICK a, b : a = pages /\ b = pages'
    OBVIOUS
  <2>2. 1 \in Nat \ {0} /\ a \in Seq(AnyPg) /\ Ranked(a) /\ last = Len(a)
    BY <1>1, <2>1 DEF IInv, TypeOK
  <2>3. b = a \o ChainOf(last, Stored(d), 1)
    BY <1>3, <2>1
  <2> QED
    <3>1. PICK s \in Seq(Item) : s = Stored(d)
      BY <1>2
    <3>2. Appends(a, b, last, s, 1)
      BY <2>2, <2>3, <3>1 DEF Appends
    <3>3. Appended(a, b, last, s, 1)
      BY <2>2, <3>2, AppendChain
    <3> QED
      BY <2>1, <3>1, <3>3 DEF Appended
<1>5. Len(ChainOf(last, Stored(d), 1)) = Parts[d]
  <2>1. PICK s \in Seq(Item) : s = Stored(d)
    BY <1>2
  <2>2. Len(s) \in Nat /\ Len(s) = Parts[d]
    BY <1>2, <2>1
  <2>3. Len(ChainOf(last, s, 1)) = Count(s, 1)
    BY ChainPages
  <2>4. Count(s, 1) = Len(s)
    BY <2>2 DEF Count
  <2> QED
    BY <2>1, <2>2, <2>3, <2>4
<1> QED
  BY <1>4, <1>5

LEMMA AddDocumentKeeps == ASSUME IInv, NEW d \in Docs, AddDocument(d) PROVE IInv'
<1>1. /\ pc = "idle" /\ nextId' = nextId + 1 /\ UNCHANGED <<buckets, cache, file>>
  BY DEF AddDocument
<1>2. nextId \in Nat \ {0} /\ docCount \in Nat /\ total \in Nat /\ Known = 1 .. nextId - 1
  BY DEF IInv, TypeOK, IdsOK
<1>3. ASSUME ~ StoredFits(d), failed' = failed \cup {nextId},
             UNCHANGED <<pages, stored, ext, len, total, docCount, cur, pc, acked>>
      PROVE  IInv'
  <2>1. TypeOK'
    BY <1>1, <1>3 DEF IInv, TypeOK
  <2>2. Known' = Known \cup {nextId} /\ Known' = 1 .. nextId' - 1
    BY <1>1, <1>2, <1>3 DEF Known
  <2>3. IdsOK'
    BY <1>1, <1>2, <1>3, <2>2 DEF IInv, IdsOK, Known
  <2>4. Ranked(pages') /\ Grown(pages, pages')
    BY <1>3 DEF IInv, TypeOK, Grown
  <2>5. /\ ListsOK'
        /\ \A i, e, done : Posted(i, e, done) => Posted(i, e, done)'
        /\ \A i \in Known : \A e : Filed(i, e) => Filed(i, e)'
    <3>1. \A i : LenOf(i)' = LenOf(i)
      BY <1>3 DEF LenOf
    <3> QED
      BY <1>1, <1>3, <2>2, <2>4, <3>1, OlderKept
  <2>6. AckedOK'
    <3>1. acked' = acked /\ DOMAIN acked \subseteq Known
      BY <1>3 DEF Known
    <3> QED
      BY <2>5, <3>1 DEF IInv, AckedOK
  <2>7. CurOK' /\ FileOK'
    BY <1>1, <1>3 DEF CurOK, FileOK
  <2> QED
    BY <2>1, <2>3, <2>5, <2>6, <2>7 DEF IInv
<1>4. ASSUME StoredFits(d), pages' = pages \o StoredChain(d),
             stored' = IF Parts[d] = 0 THEN stored ELSE With(stored, nextId, Len(pages) + 1),
             ext' = With(ext, nextId, d), failed' = failed,
             IF Toks[d] = <<>>
               THEN /\ docCount' = docCount + 1 /\ acked' = With(acked, nextId, d)
                    /\ UNCHANGED <<len, total, cur, pc>>
               ELSE /\ len' = With(len, nextId, Len(Toks[d])) /\ total' = total + Len(Toks[d])
                    /\ cur' = [doc |-> d, id |-> nextId, todo |-> Range(Toks[d])]
                    /\ pc' = "index" /\ UNCHANGED <<docCount, acked>>
      PROVE  IInv'
  <2>1. /\ pages' \in Seq(AnyPg) /\ Ranked(pages') /\ Grown(pages, pages')
        /\ Len(pages') = Len(pages) + Parts[d]
        /\ Stored(d) # <<>> => /\ Len(pages) + 1 \in 1 .. Len(pages')
                               /\ DataIn(pages', Len(pages) + 1) = Stored(d)
    BY <1>4, StoredPages
  <2>2. /\ Stored(d) \in Seq(Item) /\ Len(Stored(d)) = Parts[d] /\ Parts[d] \in Nat
        /\ Stored(d) = <<>> <=> Parts[d] = 0
    BY StoredFacts
  <2>6. TypeOK'
    <3>1. Len(pages) + Parts[d] <= ArenaPages
      BY <1>4 DEF StoredFits
    <3>2. Len(pages') <= ArenaPages
      BY <2>1, <2>2, <3>1
    <3>3. TableOK(buckets')
      BY <1>1 DEF IInv, TypeOK
    <3>4. nextId' \in Nat \ {0} /\ docCount' \in Nat
      BY <1>1, <1>2, <1>4
    <3>5. total' \in Nat /\ pc' \in {"idle", "index", "flushed"}
      <4>1. Toks[d] \in Seq(Terms)
        BY Constants
      <4> QED
        BY <1>1, <1>2, <1>4, <4>1
    <3> QED
      BY <2>1, <3>2, <3>3, <3>4, <3>5 DEF TypeOK
  <2>7. Known' = Known \cup {nextId} /\ Known' = 1 .. nextId' - 1
    <3>1. Known' = Known \cup {nextId}
      BY <1>1, <1>4 DEF Known, With
    <3> QED
      BY <1>1, <1>2, <3>1
  <2>8. nextId \notin Known
    BY <1>2
  <2>9. /\ \A i \in Known : /\ i \in DOMAIN ext => i \in DOMAIN ext' /\ ext'[i] = ext[i]
                            /\ i \in DOMAIN stored' <=> i \in DOMAIN stored
                            /\ i \in DOMAIN stored => stored'[i] = stored[i]
        /\ \A i \in Known : LenOf(i)' = LenOf(i)
    <3>1. \A i \in Known : i # nextId
      BY <2>8
    <3>2. ASSUME NEW i \in Known
          PROVE  /\ i \in DOMAIN ext => i \in DOMAIN ext' /\ ext'[i] = ext[i]
                 /\ i \in DOMAIN stored' <=> i \in DOMAIN stored
                 /\ i \in DOMAIN stored => stored'[i] = stored[i]
      BY <1>4, <3>1 DEF With
    <3>3. ASSUME NEW i \in Known
          PROVE  LenOf(i)' = LenOf(i)
      BY <1>4, <3>1 DEF With, LenOf
    <3> QED
      BY <3>2, <3>3
  <2>10. /\ ListsOK'
         /\ \A i, e, done : Posted(i, e, done) => Posted(i, e, done)'
         /\ \A i \in Known : \A e : Filed(i, e) => Filed(i, e)'
    BY <1>1, <2>1, <2>7, <2>9, OlderKept
  <2>0. PICK id \in Nat \ {0} : id = nextId
    BY <1>2
  <2>11. Filed(id, d)'
    <3>1. id \notin DOMAIN ext /\ id \notin DOMAIN len /\ id \notin DOMAIN stored
      BY <1>2, <2>0 DEF IInv, IdsOK
    <3>2. id \in DOMAIN ext' /\ ext'[id] = d
      BY <1>4, <2>0 DEF With
    <3>3. LenOf(id)' = Len(Toks[d])
      <4>1. CASE Toks[d] = <<>>
        <5>1. id \notin DOMAIN len' /\ Len(Toks[d]) = 0
          BY <1>4, <3>1, <4>1
        <5> QED
          BY <5>1 DEF LenOf
      <4>2. CASE Toks[d] # <<>>
        <5>1. id \in DOMAIN len' /\ len'[id] = Len(Toks[d])
          BY <1>4, <2>0, <4>2 DEF With
        <5> QED
          BY <5>1 DEF LenOf
      <4> QED
        BY <4>1, <4>2
    <3>4. ASSUME Parts[d] # 0
          PROVE  /\ id \in DOMAIN stored'
                 /\ stored'[id] \in 1 .. Len(pages') /\ Data(stored[id])' = Stored(d)
      <4>1. stored'[id] = Len(pages) + 1 /\ id \in DOMAIN stored'
        BY <1>4, <2>0, <3>4 DEF With
      <4>2. Len(pages) + 1 \in 1 .. Len(pages') /\ DataIn(pages', Len(pages) + 1) = Stored(d)
        BY <2>2, <2>1, <3>4
      <4>3. Data(stored[id])' = DataIn(pages', stored'[id])
        BY Zenon DEF Data, DataIn
      <4> QED
        BY <4>1, <4>2, <4>3
    <3>5. Parts[d] = 0 => id \notin DOMAIN stored' /\ Stored(d) = <<>>
      BY <1>4, <2>2, <3>1
    <3>6. Stored(d)' = Stored(d)
      BY DEF Stored
    <3> QED
      BY <3>2, <3>3, <3>4, <3>5, <3>6 DEF Filed
  <2>12. Posted(id, d, {})'
    BY <2>0, <2>10, NotYetPosted
  <2>13. /\ nextId' - 1 = id /\ Known' = 1 .. id
         /\ id \notin DOMAIN acked /\ id \notin failed
         /\ DOMAIN acked \subseteq Known /\ DOMAIN acked \cap failed = {}
         /\ Cardinality(DOMAIN acked) = docCount
    <3>1. nextId' - 1 = id /\ Known' = 1 .. id
      BY <1>1, <2>0, <2>7
    <3>2. DOMAIN acked \subseteq Known /\ failed \subseteq Known
      BY DEF Known
    <3>3. DOMAIN acked \cap failed = {} /\ Cardinality(DOMAIN acked) = docCount
      BY DEF IInv, IdsOK
    <3> QED
      BY <2>0, <2>8, <3>1, <3>2, <3>3
  <2>14. DOMAIN ext' \cup DOMAIN len' \cup DOMAIN stored' \subseteq 1 .. id
    <3>1. DOMAIN ext \cup DOMAIN len \cup DOMAIN stored \subseteq 1 .. nextId - 1
      BY DEF IInv, IdsOK
    <3>2. DOMAIN ext \cup DOMAIN len \cup DOMAIN stored \subseteq 1 .. id /\ id \in 1 .. id
      BY <2>0, <3>1
    <3>3. /\ DOMAIN ext' = DOMAIN ext \cup {id}
          /\ DOMAIN len' \subseteq DOMAIN len \cup {id}
          /\ DOMAIN stored' \subseteq DOMAIN stored \cup {id}
      BY <1>4, <2>0 DEF With
    <3> QED
      BY <3>2, <3>3
  <2>15. \A i \in DOMAIN acked : \A e : acked[i] = e =>
           e \in Docs /\ Filed(i, e)' /\ Posted(i, e, Range(Toks[e]))'
    <3>1. ASSUME NEW i \in DOMAIN acked, NEW e, acked[i] = e
          PROVE  e \in Docs /\ Filed(i, e)' /\ Posted(i, e, Range(Toks[e]))'
      <4>1. e \in Docs /\ Filed(i, e) /\ Posted(i, e, Range(Toks[e]))
        BY <3>1 DEF IInv, AckedOK
      <4>2. i \in Known
        BY <2>13
      <4> QED
        BY <2>10, <4>1, <4>2
    <3> QED
      BY <3>1
  <2>16. FileOK'
    BY <1>1, <1>4 DEF FileOK
  <2>17. CASE Toks[d] = <<>>
    <3>1. /\ pc' = "idle" /\ failed' = failed /\ docCount' = docCount + 1
          /\ DOMAIN acked' = DOMAIN acked \cup {id} /\ acked'[id] = d
          /\ \A i \in DOMAIN acked : acked'[i] = acked[i]
      BY <1>1, <1>4, <2>0, <2>13, <2>17 DEF With
    <3>2. IdsOK'
      <4>1. IsFiniteSet(DOMAIN acked)
        <5>1. DOMAIN acked \subseteq 1 .. id /\ IsFiniteSet(1 .. id)
          BY <2>0, <2>13, <1>2, FS_Interval
        <5> QED
          BY <5>1, FS_Subset
      <4>2. Cardinality(DOMAIN acked') = docCount'
        BY <2>13, <3>1, <4>1, FS_AddElement
      <4>3. Known' = 1 .. nextId' - 1
        BY <2>7
      <4> QED
        BY <2>13, <2>14, <3>1, <4>2, <4>3 DEF IdsOK
    <3>3. AckedOK'
      <4>1. Range(Toks[d]) = {}
        BY <2>17 DEF Range
      <4>2. d \in Docs /\ Filed(id, d)' /\ Posted(id, d, Range(Toks[d]))'
        BY <2>11, <2>12, <4>1
      <4>3. ASSUME NEW i \in DOMAIN acked'
            PROVE  acked'[i] \in Docs /\ Filed(i, acked[i])' /\ Posted(i, acked[i], Range(Toks[acked[i]]))'
        <5>1. PICK e : e = acked'[i]
          OBVIOUS
        <5>2. e \in Docs /\ Filed(i, e)' /\ Posted(i, e, Range(Toks[e]))'
          BY <2>15, <3>1, <4>2, <5>1
        <5> QED
          BY <5>1, <5>2
      <4> QED
        BY <4>3 DEF AckedOK
    <3> QED
      BY <2>6, <2>10, <2>16, <3>1, <3>2, <3>3 DEF IInv, CurOK
  <2>18. CASE Toks[d] # <<>>
    <3>1. /\ pc' = "index" /\ failed' = failed /\ docCount' = docCount /\ acked' = acked
          /\ cur' = [doc |-> d, id |-> id, todo |-> Range(Toks[d])]
      BY <1>4, <2>0, <2>18
    <3>2. cur'.doc = d /\ cur'.id = id /\ cur'.todo = Range(Toks[d])
      BY <3>1
    <3>3. IdsOK'
      <4>1. Known' = 1 .. nextId' - 1
        BY <2>7
      <4> QED
        BY <2>13, <2>14, <3>1, <3>2, <4>1 DEF IdsOK
    <3>4. AckedOK'
      <4>1. ASSUME NEW i \in DOMAIN acked'
            PROVE  acked'[i] \in Docs /\ Filed(i, acked[i])' /\ Posted(i, acked[i], Range(Toks[acked[i]]))'
        <5>1. PICK e : e = acked'[i]
          OBVIOUS
        <5>2. e \in Docs /\ Filed(i, e)' /\ Posted(i, e, Range(Toks[e]))'
          BY <2>15, <3>1, <5>1
        <5> QED
          BY <5>1, <5>2
      <4> QED
        BY <4>1 DEF AckedOK
    <3>5. CurOK'
      <4>1. Range(Toks[d]) # {}
        <5>1. Toks[d] \in Seq(Terms)
          BY MemorySegmentAssumption
        <5>2. 1 \in DOMAIN Toks[d]
          BY <2>18, <5>1
        <5> QED
          BY <5>2 DEF Range
      <4>2. Range(Toks[d]) \ Range(Toks[d]) = {}
        OBVIOUS
      <4>3. Filed(cur.id, cur.doc)'
        BY <2>11, <3>2
      <4>4. Posted(cur.id, cur.doc, Range(Toks[cur.doc]) \ cur.todo)'
        BY <2>12, <3>2, <4>2
      <4> QED
        BY <3>1, <3>2, <4>1, <4>3, <4>4 DEF CurOK
    <3> QED
      BY <2>6, <2>10, <2>16, <3>3, <3>4, <3>5 DEF IInv
  <2> QED
    BY <2>17, <2>18
<1> QED
  BY <1>3, <1>4 DEF AddDocument

-----------------------------------------------------------------------------
(* indexField: one term of the document *)

\* The bucket the term is in or will be in, and its new page.
LEMMA BucketFacts ==
  ASSUME IInv, pc = "index", NEW t \in cur.todo, ~ TableFull(t)
  PROVE  /\ t \in Terms
         /\ Bucket(t) \in [term : Terms \cup {""}, head : Nat, df : Nat, ttf : Nat]
         /\ Bucket(t).head \in 0 .. Len(pages)
         /\ WalkIn(pages, Bucket(t).head) = List(t)
         /\ Bucket(t).df = Len(List(t))
         /\ t \notin Present => Bucket(t).ttf = 0
<1>1. t \in Terms /\ TableOK(buckets) /\ Ranked(pages) /\ Len(pages) \in Nat
  BY NeededFacts DEF IInv, TypeOK
<1>2. /\ Bucket(t) = buckets[FindIn(buckets, t)] /\ ~ FullIn(buckets, t)
      /\ Present = Held(buckets)
  BY <1>1, TableNow
<1>3. FindIn(buckets, t) \in Slots
  BY <1>1, <1>2, LookupFinds
<1>4. Bucket(t) \in [term : Terms \cup {""}, head : Nat, df : Nat, ttf : Nat]
  BY <1>1, <1>2, <1>3 DEF TableOK
<1>5. CASE t \in Present
  <2>1. Bucket(t).head \in 1 .. Len(pages) /\ Bucket(t).df = Len(List(t))
    BY <1>1, <1>5 DEF IInv, ListsOK, ListOK
  <2>2. WalkIn(pages, Bucket(t).head) = List(t)
    BY <1>5, Zenon DEF List, TermPages, Walk, WalkIn
  <2>3. Bucket(t).head \in 0 .. Len(pages)
    BY <2>1
  <2> QED
    BY <1>1, <1>4, <1>5, <2>1, <2>2, <2>3
<1>6. CASE t \notin Present
  <2>1. Bucket(t) = Free
    BY <1>1, <1>2, <1>6, LookupFinds
  <2>2. Bucket(t).head = 0 /\ Bucket(t).df = 0 /\ Bucket(t).ttf = 0
    <3>1. Free.head = 0 /\ Free.df = 0 /\ Free.ttf = 0
      BY DEF Free
    <3> QED
      BY <2>1, <3>1
  <2>3. List(t) = <<>> /\ Len(<<>>) = 0
    BY <1>6 DEF List
  <2>4. WalkIn(pages, 0) = <<>>
    BY <1>1, FollowStep DEF WalkIn
  <2>5. 0 \in 0 .. Len(pages)
    BY <1>1
  <2> QED
    BY <1>1, <1>4, <2>2, <2>3, <2>4, <2>5
<1> QED
  BY <1>1, <1>4, <1>5, <1>6

\* The new page, in front of the list.
LEMMA TermPageFacts ==
  ASSUME IInv, pc = "index", NEW t \in cur.todo, ~ TableFull(t),
         NEW p, p = TermPage(t), NEW s, s = Positions(cur.doc, t)
  PROVE  /\ p \in TermPg /\ p.next = Bucket(t).head /\ p.doc = cur.id /\ p.tf = Len(s)
         /\ p.tf <= InlineLimit => p.data = s
         /\ ~ (p.tf <= InlineLimit) => p.head = Len(pages) + 2
<1>1. /\ s \in Seq(Nat) /\ Len(s) \in Nat \ {0} /\ Bucket(t).head \in Nat
  BY NeededFacts, BucketFacts
<1>2. cur.id \in Nat /\ Len(pages) \in Nat
  <2>1. nextId \in Nat \ {0} /\ Len(pages) \in Nat
    BY DEF IInv, TypeOK
  <2>2. cur.id = nextId - 1
    BY DEF IInv, IdsOK
  <2> QED
    BY <2>1, <2>2
<1>3. p = [doc |-> cur.id, tf |-> Len(s), next |-> Bucket(t).head,
           data |-> IF Len(s) <= InlineLimit THEN s ELSE <<>>,
           head |-> IF Len(s) <= InlineLimit THEN 0 ELSE Len(pages) + 2]
  BY Zenon DEF TermPage
<1>4. (IF Len(s) <= InlineLimit THEN s ELSE <<>>) \in Seq(Nat)
  BY <1>1
<1>5. (IF Len(s) <= InlineLimit THEN 0 ELSE Len(pages) + 2) \in Nat
  BY <1>2
<1> QED
  BY <1>1, <1>2, <1>3, <1>4, <1>5 DEF TermPg

\* The arena after it: the list of the term begins with the new page, whose
\* positions are read back.
LEMMA IndexTermPages ==
  ASSUME IInv, NEW t \in Terms, IndexTerm(t), NEW p, p = TermPage(t),
         NEW s, s = Positions(cur.doc, t)
  PROVE  /\ pages' \in Seq(AnyPg) /\ Ranked(pages') /\ Len(pages') <= ArenaPages
         /\ Grown(pages, pages') /\ Len(pages) + 1 \in 1 .. Len(pages')
         /\ WalkIn(pages', Len(pages) + 1) = <<p>> \o List(t)
         /\ p.tf <= InlineLimit \/ (p.head \in 1 .. Len(pages') /\ DataIn(pages', p.head) = s)
<1>1. /\ pc = "index" /\ t \in cur.todo /\ ~ TableFull(t)
      /\ Len(pages) + PagesNeeded(t) <= ArenaPages
      /\ pages' = pages \o <<TermPage(t)>> \o PosChain(t)
  BY DEF IndexTerm
<1>2. /\ s \in Seq(Nat) /\ s # <<>> /\ Len(s) \in Nat \ {0}
      /\ Len(PosChain(t)) \in Nat /\ PagesNeeded(t) \in Nat
  BY <1>1, NeededFacts
<1>3. /\ p \in TermPg /\ p.next = Bucket(t).head /\ p.tf = Len(s)
      /\ ~ (p.tf <= InlineLimit) => p.head = Len(pages) + 2
  BY <1>1, TermPageFacts
<1>4. Bucket(t).head \in 0 .. Len(pages) /\ WalkIn(pages, Bucket(t).head) = List(t)
  BY <1>1, BucketFacts
<1>5. PICK a \in Seq(AnyPg) : a = pages /\ Ranked(a)
  BY DEF IInv, TypeOK
<1>6. PICK b : b = a \o <<p>>
  OBVIOUS
<1>7. /\ b \in Seq(AnyPg) /\ Ranked(b) /\ Grown(a, b) /\ Len(b) = Len(a) + 1
      /\ WalkIn(b, Len(b)) = <<p>> \o WalkIn(a, p.next)
  BY <1>3, <1>4, <1>5, <1>6, AddPage
<1>8. PICK c : c = pages'
  OBVIOUS
<1>9. c = b \o PosChain(t)
  BY <1>1, <1>5, <1>6, <1>8
<1>10. PICK last \in Nat : last = Len(a) + 1 /\ last = Len(b)
  BY <1>5, <1>7
<1>11. /\ c \in Seq(AnyPg) /\ Ranked(c) /\ Grown(b, c) /\ Len(c) = Len(b) + Len(PosChain(t))
       /\ p.tf <= InlineLimit \/ (p.head \in 1 .. Len(c) /\ DataIn(c, p.head) = s)
  <2>1. CASE p.tf <= InlineLimit
    <3>1. PosChain(t) = <<>>
      BY <1>3, <2>1, Zenon DEF PosChain
    <3>2. c = b /\ Len(<<>>) = 0
      BY <1>7, <1>9, <3>1
    <3>3. Grown(b, b)
      BY <1>7 DEF Grown
    <3>4. Len(b) = Len(b) + Len(PosChain(t))
      <4>1. Len(PosChain(t)) = 0
        BY <3>1
      <4>2. Len(b) \in Nat
        BY <1>7
      <4> QED
        BY <4>1, <4>2
    <3> QED
      BY <1>7, <2>1, <3>2, <3>3, <3>4
  <2>2. CASE ~ (p.tf <= InlineLimit)
    <3>1. PosChain(t) = ChainOf(last, s, PosPerPage)
      BY <1>3, <1>5, <1>10, <2>2, Zenon DEF PosChain
    <3>2. PosPerPage \in Nat \ {0}
      BY Constants
    <3>3. s \in Seq(Item)
      <4>1. Nat \subseteq Item
        BY DEF Item
      <4> QED
        BY <1>2, <4>1, SeqMonotonic
    <3>4. Appends(b, c, last, s, PosPerPage)
      BY <1>9, <1>10, <3>1 DEF Appends
    <3>5. Appended(b, c, last, s, PosPerPage)
      BY <1>7, <3>2, <3>3, <3>4, AppendChain
    <3>6. p.head = Len(b) + 1
      BY <1>3, <1>5, <1>7, <2>2
    <3> QED
      BY <1>2, <3>1, <3>5, <3>6 DEF Appended
  <2> QED
    BY <2>1, <2>2
<1>12. Len(b) \in 0 .. Len(b) /\ \A o \in 0 .. Len(b) : WalkIn(c, o) = WalkIn(b, o)
  BY <1>7, <1>11, GrownKeeps
<1>13. Grown(a, c)
  BY <1>7, <1>11 DEF Grown
<1>14. Len(c) <= ArenaPages /\ Len(a) + 1 \in 1 .. Len(c)
  <2>1. ArenaPages \in Nat
    BY Constants
  <2>2. Len(a) \in Nat /\ Len(c) = Len(a) + 1 + Len(PosChain(t)) /\ PagesNeeded(t) = 1 + Len(PosChain(t))
    BY <1>7, <1>11 DEF PagesNeeded
  <2> QED
    BY <1>1, <1>2, <1>5, <2>1, <2>2
<1>15. WalkIn(c, Len(b)) = <<p>> \o List(t)
  BY <1>3, <1>4, <1>5, <1>7, <1>12
<1> QED
  BY <1>5, <1>7, <1>8, <1>11, <1>13, <1>14, <1>15

\* The table after it: the term's bucket leads to the new page.
LEMMA IndexTermTable ==
  ASSUME IInv, NEW t \in Terms, IndexTerm(t)
  PROVE  /\ TableOK(buckets') /\ Present' = Present \cup {t}
         /\ Bucket(t)'.head = Len(pages) + 1 /\ Bucket(t)'.df = Bucket(t).df + 1
         /\ Bucket(t)'.ttf = Bucket(t).ttf + TermPage(t).tf
         /\ \A u \in Present : u # t => Bucket(u)' = Bucket(u)
<1>1. /\ pc = "index" /\ t \in cur.todo /\ ~ TableFull(t)
      /\ buckets' = [buckets EXCEPT ![FindSlot(t)] =
           [term |-> t, head |-> Len(pages) + 1, df |-> Bucket(t).df + 1,
            ttf |-> Bucket(t).ttf + TermPage(t).tf]]
  BY DEF IndexTerm, Upsert
<1>2. TableOK(buckets) /\ Len(pages) \in Nat
  BY DEF IInv, TypeOK
<1>3. PICK b, c : b = buckets /\ c = buckets'
  OBVIOUS
<1>4. /\ Present = Held(b) /\ FindSlot(t) = FindIn(b, t) /\ ~ FullIn(b, t)
      /\ \A u \in Terms : Bucket(u) = b[FindIn(b, u)]
  BY <1>1, <1>2, <1>3, TableNow
<1>5. PICK e : e = [term |-> t, head |-> Len(pages) + 1, df |-> Bucket(t).df + 1,
                    ttf |-> Bucket(t).ttf + TermPage(t).tf]
  OBVIOUS
<1>6. /\ e \in [term : Terms \cup {""}, head : Nat, df : Nat, ttf : Nat] /\ e.term = t
      /\ e.head = Len(pages) + 1 /\ e.df = Bucket(t).df + 1
      /\ e.ttf = Bucket(t).ttf + TermPage(t).tf
  <2>1. Bucket(t).df \in Nat /\ Bucket(t).ttf \in Nat
    BY <1>1, BucketFacts
  <2>2. TermPage(t).tf \in Nat
    <3>1. PICK p, s : p = TermPage(t) /\ s = Positions(cur.doc, t)
      OBVIOUS
    <3>2. p \in TermPg
      BY <1>1, <3>1, TermPageFacts
    <3> QED
      BY <3>1, <3>2 DEF TermPg
  <2>3. Len(pages) + 1 \in Nat /\ Bucket(t).df + 1 \in Nat /\ Bucket(t).ttf + TermPage(t).tf \in Nat
    BY <1>2, <2>1, <2>2
  <2> QED
    BY <1>5, <2>3
<1>7. c = [b EXCEPT ![FindIn(b, t)] = e]
  BY <1>1, <1>3, <1>4, <1>5
<1>8. /\ TableOK(c) /\ Held(c) = Held(b) \cup {t} /\ c[FindIn(c, t)] = e
      /\ \A u \in Held(b) : u # t => c[FindIn(c, u)] = b[FindIn(b, u)]
  <2>1. TableOK(b) /\ ~ FullIn(b, t)
    BY <1>2, <1>3, <1>4
  <2>2. Puts(b, t, e, c)
    BY <1>6, <1>7, Zenon DEF Puts
  <2> QED
    BY <2>1, <2>2, UpsertFinds
<1>9. Present' = Held(c) /\ \A u \in Terms : Bucket(u)' = c[FindIn(c, u)]
  BY <1>3, <1>8, TableNext
<1>10. \A u \in Present : u \in Terms
  BY DEF Present
<1> QED
  <2>1. TableOK(buckets') /\ Present' = Present \cup {t}
    BY <1>3, <1>4, <1>8, <1>9
  <2>2. Bucket(t)' = e
    BY <1>8, <1>9
  <2>3. \A u \in Present : u # t => Bucket(u)' = Bucket(u)
    BY <1>4, <1>8, <1>9, <1>10, Zenon
  <2> QED
    BY <1>6, <2>1, <2>2, <2>3

\* The lists after it.
LEMMA IndexTermLists ==
  ASSUME IInv, NEW t \in Terms, IndexTerm(t), NEW p, p = TermPage(t),
         NEW s, s = Positions(cur.doc, t)
  PROVE  /\ List(t)' = <<p>> \o List(t)
         /\ \A u \in Terms : u # t => List(u)' = List(u)
         /\ \A u \in Terms : \A q \in Range(List(u)) : EntryPositions(q)' = EntryPositions(q)
         /\ EntryPositions(p)' = s
<1>1. /\ Present' = Present \cup {t} /\ Bucket(t)'.head = Len(pages) + 1
      /\ \A u \in Present : u # t => Bucket(u)' = Bucket(u)
  BY IndexTermTable
<1>2. /\ Ranked(pages') /\ Grown(pages, pages')
      /\ WalkIn(pages', Len(pages) + 1) = <<p>> \o List(t)
      /\ p.tf <= InlineLimit \/ (p.head \in 1 .. Len(pages') /\ DataIn(pages', p.head) = s)
  BY IndexTermPages
<1>3. Ranked(pages)
  BY DEF IInv, TypeOK
<1>4. PICK a, b : a = pages /\ b = pages'
  OBVIOUS
<1>5. \A o \in 0 .. Len(a) : WalkIn(b, o) = WalkIn(a, o) /\ DataIn(b, o) = DataIn(a, o)
  BY <1>2, <1>3, <1>4, GrownKeeps
<1>6. List(t)' = <<p>> \o List(t)
  <2>1. t \in Present'
    BY <1>1
  <2>2. List(t)' = WalkIn(pages', Bucket(t)'.head)
    BY <2>1, Zenon DEF List, TermPages, Walk, WalkIn
  <2> QED
    BY <1>1, <1>2, <2>2
<1>7. ASSUME NEW u \in Terms, u # t PROVE List(u)' = List(u)
  <2>1. CASE u \in Present
    <3>1. Bucket(u)' = Bucket(u) /\ u \in Present'
      BY <1>1, <1>7, <2>1
    <3>2. Bucket(u).head \in 0 .. Len(a)
      BY <1>4, <2>1 DEF IInv, ListsOK, ListOK
    <3>3. List(u) = WalkIn(a, Bucket(u).head)
      BY <1>4, <2>1, Zenon DEF List, TermPages, Walk, WalkIn
    <3>4. List(u)' = WalkIn(b, Bucket(u)'.head)
      BY <1>4, <3>1, Zenon DEF List, TermPages, Walk, WalkIn
    <3> QED
      BY <1>5, <3>1, <3>2, <3>3, <3>4
  <2>2. CASE u \notin Present
    <3>1. u \notin Present'
      BY <1>1, <1>7, <2>2
    <3> QED
      BY <2>2, <3>1 DEF List
  <2> QED
    BY <2>1, <2>2
<1>8. ASSUME NEW u \in Terms, NEW q \in Range(List(u))
      PROVE  EntryPositions(q)' = EntryPositions(q)
  <2>1. q.tf <= InlineLimit \/ q.head \in 0 .. Len(a)
    BY <1>4 DEF IInv, ListsOK, ListOK
  <2>2. CASE q.tf <= InlineLimit
    BY <2>2 DEF EntryPositions
  <2>3. CASE q.head \in 0 .. Len(a)
    <3>1. Data(q.head) = DataIn(a, q.head) /\ Data(q.head)' = DataIn(b, q.head)
      BY <1>4, Zenon DEF Data, DataIn
    <3>2. Data(q.head)' = Data(q.head)
      BY <1>5, <2>3, <3>1
    <3> QED
      BY <3>2 DEF EntryPositions
  <2> QED
    BY <2>1, <2>2, <2>3
<1>9. EntryPositions(p)' = s
  <2>1. /\ pc = "index" /\ t \in cur.todo /\ ~ TableFull(t)
    BY DEF IndexTerm
  <2>2. p.tf = Len(s) /\ (p.tf <= InlineLimit => p.data = s)
    BY <2>1, TermPageFacts
  <2>3. CASE p.tf <= InlineLimit
    BY <2>2, <2>3 DEF EntryPositions
  <2>4. CASE ~ (p.tf <= InlineLimit)
    <3>1. Data(p.head)' = DataIn(pages', p.head)
      BY Zenon DEF Data, DataIn
    <3>2. Data(p.head)' = s
      BY <1>2, <2>4, <3>1
    <3>3. EntryPositions(p)' = SubSeq(s, 1, Len(s))
      BY <2>2, <2>4, <3>2 DEF EntryPositions
    <3>4. s \in Seq(Nat)
      BY <2>1, NeededFacts
    <3> QED
      BY <3>3, <3>4, SubSeqFull
  <2> QED
    BY <2>3, <2>4
<1> QED
  BY <1>6, <1>7, <1>8, <1>9

\* An element in front of a sequence.
IsFront(m, p, l) == m = <<p>> \o l

LEMMA FrontFacts ==
  ASSUME NEW S, NEW l \in Seq(S), NEW p \in S, NEW m, IsFront(m, p, l)
  PROVE  /\ m \in Seq(S) /\ Len(m) = Len(l) + 1 /\ m[1] = p
         /\ \A k \in 2 .. Len(m) : k - 1 \in 1 .. Len(l) /\ m[k] = l[k - 1]
         /\ Range(m) = {p} \cup Range(l)
<1> USE DEF IsFront
<1>1. <<p>> \in Seq(S) /\ Len(<<p>>) = 1 /\ <<p>>[1] = p
  OBVIOUS
<1>2. m \in Seq(S) /\ Len(m) = Len(l) + 1 /\ Len(l) \in Nat
  BY <1>1
<1>3. m[1] = p
  BY <1>1
<1>4. \A k \in 2 .. Len(m) : k - 1 \in 1 .. Len(l) /\ m[k] = l[k - 1]
  BY <1>1, <1>2
<1>5. \A k \in 1 .. Len(l) : k + 1 \in 2 .. Len(m) /\ m[k + 1] = l[k]
  BY <1>2, <1>4
<1>6. Range(m) = {p} \cup Range(l)
  <2>1. DOMAIN m = 1 .. Len(m) /\ DOMAIN l = 1 .. Len(l) /\ 1 \in 1 .. Len(m)
    BY <1>2
  <2>2. ASSUME NEW x \in Range(m) PROVE x \in {p} \cup Range(l)
    <3>1. PICK k \in 1 .. Len(m) : m[k] = x
      BY <2>1 DEF Range
    <3>2. CASE k = 1
      BY <1>3, <3>1, <3>2
    <3>3. CASE k # 1
      <4>1. k \in 2 .. Len(m)
        BY <1>2, <3>3
      <4> QED
        BY <1>4, <2>1, <3>1, <4>1 DEF Range
    <3> QED
      BY <3>2, <3>3
  <2>3. ASSUME NEW x \in Range(l) PROVE x \in Range(m)
    <3>1. PICK k \in 1 .. Len(l) : l[k] = x
      BY <2>1 DEF Range
    <3>2. k + 1 \in DOMAIN m /\ m[k + 1] = x
      BY <1>2, <1>5, <2>1, <3>1
    <3> QED
      BY <3>2 DEF Range
  <2>4. p \in Range(m)
    BY <1>3, <2>1 DEF Range
  <2> QED
    BY <2>2, <2>3, <2>4
<1> QED
  BY <1>2, <1>3, <1>4, <1>6

\* What the step does to the lists and their entries.
LEMMA IndexTermPosts ==
  ASSUME IInv, NEW t \in Terms, IndexTerm(t), Known' = Known,
         NEW id, id = cur.id, NEW d, d = cur.doc
  PROVE  /\ ListsOK'
         /\ \A i, e, done : i # id /\ Posted(i, e, done) => Posted(i, e, done)'
         /\ \A done : done = (Range(Toks[d]) \ cur.todo) \cup {t} => Posted(id, d, done)'
<1>0. PICK p, s, l, m : /\ p = TermPage(t) /\ s = Positions(cur.doc, t)
                        /\ l = List(t) /\ m = <<p>> \o l
  OBVIOUS
<1>1. pc = "index" /\ t \in cur.todo /\ ~ TableFull(t)
  BY DEF IndexTerm
<1>2. /\ List(t)' = m
      /\ \A u \in Terms : u # t => List(u)' = List(u)
      /\ \A u \in Terms : \A q \in Range(List(u)) : EntryPositions(q)' = EntryPositions(q)
      /\ EntryPositions(p)' = s
  BY <1>0, IndexTermLists
<1>3. /\ Grown(pages, pages') /\ Len(pages) + 1 \in 1 .. Len(pages')
      /\ p.tf <= InlineLimit \/ p.head \in 1 .. Len(pages')
  BY <1>0, IndexTermPages
<1>4. p \in TermPg /\ p.doc = id /\ p.tf = Len(s)
  BY <1>0, <1>1, TermPageFacts
<1>5. /\ l \in Seq(TermPg) /\ Len(l) \in Nat
      /\ \A i, j \in 1 .. Len(l) : i < j => l[j].doc < l[i].doc
      /\ \A q \in Range(l) : q.doc \in Known
  BY <1>0 DEF IInv, ListsOK, ListOK
<1>6. /\ m \in Seq(TermPg) /\ Len(m) = Len(l) + 1 /\ m[1] = p
      /\ \A k \in 2 .. Len(m) : k - 1 \in 1 .. Len(l) /\ m[k] = l[k - 1]
      /\ Range(m) = {p} \cup Range(l)
  <2>1. IsFront(m, p, l)
    BY <1>0 DEF IsFront
  <2> QED
    BY <1>4, <1>5, <2>1, FrontFacts
<1>7. Posted(id, d, Range(Toks[d]) \ cur.todo)
  BY <1>1 DEF IInv, CurOK
<1>8. Entry(t, id) = {} /\ \A q \in Range(l) : q.doc # id
  <2>1. Entry(t, id) = {}
    BY <1>1, <1>7 DEF Posted
  <2> QED
    BY <1>0, <2>1 DEF Entry
<1>9. id = nextId - 1 /\ Known = 1 .. nextId - 1 /\ nextId \in Nat \ {0} /\ id \in Known
  BY <1>1 DEF IInv, IdsOK, TypeOK, Known
<1>10. \A k \in 1 .. Len(l) : l[k] \in Range(l) /\ l[k].doc < id
  <2>1. ASSUME NEW k \in 1 .. Len(l) PROVE l[k] \in Range(l)
    BY <1>5 DEF Range
  <2>2. \A q \in Range(l) : q.doc < id
    BY <1>5, <1>8, <1>9
  <2> QED
    BY <2>1, <2>2
<1>11. /\ Bucket(t)'.head = Len(pages) + 1 /\ Bucket(t)'.df = Len(m)
       /\ Present' = Present \cup {t} /\ \A u \in Present : u # t => Bucket(u)' = Bucket(u)
  <2>1. Bucket(t).df = Len(l)
    BY <1>0, <1>1, BucketFacts
  <2>2. Bucket(t)'.df = Bucket(t).df + 1
    BY IndexTermTable
  <2> QED
    BY <1>6, <2>1, <2>2, IndexTermTable
<1>12. ListOK(t)'
  <2>1. ASSUME NEW i \in 1 .. Len(m), NEW j \in 1 .. Len(m), i < j
        PROVE  m[j].doc < m[i].doc
    <3>1. j \in 2 .. Len(m) /\ j - 1 \in 1 .. Len(l) /\ m[j] = l[j - 1]
      BY <1>5, <1>6, <2>1
    <3>2. CASE i = 1
      BY <1>4, <1>6, <1>10, <3>1, <3>2
    <3>3. CASE i # 1
      <4>1. i \in 2 .. Len(m) /\ i - 1 \in 1 .. Len(l) /\ m[i] = l[i - 1] /\ i - 1 < j - 1
        BY <1>5, <1>6, <2>1, <3>1, <3>3
      <4> QED
        BY <1>5, <3>1, <4>1
    <3> QED
      BY <3>2, <3>3
  <2>2. ASSUME NEW q \in Range(m)
        PROVE  q.doc \in Known' /\ (q.tf <= InlineLimit \/ q.head \in 1 .. Len(pages'))
    <3>1. CASE q = p
      BY <1>3, <1>4, <1>9, <3>1
    <3>2. CASE q \in Range(l)
      <4>1. q.doc \in Known /\ (q.tf <= InlineLimit \/ q.head \in 1 .. Len(pages))
        BY <1>0, <3>2 DEF IInv, ListsOK, ListOK
      <4>2. Len(pages) \in Nat /\ Len(pages') \in Nat /\ Len(pages) <= Len(pages')
        BY <1>3 DEF Grown
      <4> QED
        BY <4>1, <4>2
    <3> QED
      BY <1>6, <3>1, <3>2
  <2>3. Bucket(t)'.head \in 1 .. Len(pages') /\ Bucket(t)'.df = Len(m)
    BY <1>3, <1>11
  <2> QED
    BY <1>2, <1>6, <2>1, <2>2, <2>3 DEF ListOK
<1>13. ASSUME NEW u \in Terms, u # t PROVE ListOK(u)'
  <2>1. List(u)' = List(u) /\ (u \in Present' <=> u \in Present)
    BY <1>2, <1>11, <1>13
  <2>2. u \in Present => Bucket(u)' = Bucket(u)
    BY <1>11, <1>13
  <2>3. ListOK(u)
    BY DEF IInv, ListsOK
  <2>4. Len(pages) \in Nat /\ Len(pages') \in Nat /\ Len(pages) <= Len(pages')
    BY <1>3 DEF Grown
  <2>5. \A o \in 1 .. Len(pages) : o \in 1 .. Len(pages')
    BY <2>4
  <2>6. /\ List(u) \in Seq(TermPg)
        /\ \A i, j \in 1 .. Len(List(u)) : i < j => List(u)[j].doc < List(u)[i].doc
        /\ \A q \in Range(List(u)) : /\ q.doc \in Known
                                     /\ q.tf <= InlineLimit \/ q.head \in 1 .. Len(pages')
        /\ u \in Present => Bucket(u).head \in 1 .. Len(pages') /\ Bucket(u).df = Len(List(u))
    BY <2>3, <2>5 DEF ListOK
  <2> QED
    BY <2>1, <2>2, <2>6 DEF ListOK
<1>14. ListsOK'
  BY <1>12, <1>13 DEF ListsOK
<1>15. /\ Entry(t, id)' = {p}
       /\ \A i : i # id => Entry(t, i)' = Entry(t, i)
       /\ \A u \in Terms : u # t => \A i : Entry(u, i)' = Entry(u, i)
  <2>1. \A i : Entry(t, i)' = {q \in Range(m) : q.doc = i} /\ Entry(t, i) = {q \in Range(l) : q.doc = i}
    BY <1>0, <1>2 DEF Entry
  <2>2. \A u \in Terms : u # t => \A i : Entry(u, i)' = Entry(u, i)
    BY <1>2 DEF Entry
  <2>3. Entry(t, id)' = {p}
    BY <1>4, <1>6, <1>8, <2>1
  <2>4. ASSUME NEW i, i # id PROVE Entry(t, i)' = Entry(t, i)
    <3>1. \A q : q \in Range(m) /\ q.doc = i <=> q \in Range(l) /\ q.doc = i
      BY <1>4, <1>6, <2>4
    <3> QED
      BY <2>1, <3>1
  <2> QED
    BY <2>2, <2>3, <2>4
<1>16. \A u \in Terms : \A i : \A q \in Entry(u, i) : EntryPositions(q)' = EntryPositions(q)
  BY <1>2 DEF Entry
<1>17. ASSUME NEW i, NEW e, NEW done, i # id, Posted(i, e, done)
       PROVE  Posted(i, e, done)'
  <2>1. \A u \in Terms : Entry(u, i)' = Entry(u, i)
    BY <1>15, <1>17
  <2> QED
    BY <1>16, <1>17, <2>1 DEF Posted, Positions
<1>18. PICK done : done = (Range(Toks[d]) \ cur.todo) \cup {t}
  OBVIOUS
<1>19. Posted(id, d, done)'
  <2>1. ASSUME NEW u \in Terms, u \in done
        PROVE  \E q : /\ Entry(u, id)' = {q} /\ q.tf = Len(Positions(d, u))
                      /\ EntryPositions(q)' = Positions(d, u)
    <3>1. CASE u = t
      BY <1>0, <1>2, <1>4, <1>15, <3>1
    <3>2. CASE u # t
      <4>1. PICK q : /\ Entry(u, id) = {q} /\ q.tf = Len(Positions(d, u))
                     /\ EntryPositions(q) = Positions(d, u)
        BY <1>7, <1>18, <2>1, <3>2 DEF Posted
      <4>2. EntryPositions(q)' = EntryPositions(q)
        BY <1>16, <4>1
      <4>3. Entry(u, id)' = {q}
        BY <1>15, <3>2, <4>1
      <4> QED
        BY <4>1, <4>2, <4>3
    <3> QED
      BY <3>1, <3>2
  <2>2. ASSUME NEW u \in Terms, u \notin done PROVE Entry(u, id)' = {}
    <3>1. u # t /\ u \notin Range(Toks[d]) \ cur.todo
      BY <1>18, <2>2
    <3>2. Entry(u, id) = {}
      BY <1>7, <3>1 DEF Posted
    <3> QED
      BY <1>15, <3>1, <3>2
  <2>3. Positions(d, t)' = Positions(d, t)
    BY DEF Positions
  <2> QED
    BY <2>1, <2>2 DEF Posted, Positions
<1> QED
  BY <1>14, <1>17, <1>18, <1>19

LEMMA IndexTermKeeps == ASSUME IInv, NEW t \in Terms, IndexTerm(t) PROVE IInv'
<1>0. PICK id, d, todo : id = cur.id /\ d = cur.doc /\ todo = cur.todo
  OBVIOUS
<1>1. /\ pc = "index" /\ t \in todo
      /\ UNCHANGED <<stored, ext, len, total, nextId, file, failed>>
  BY <1>0 DEF IndexTerm
<1>2. /\ id = nextId - 1 /\ id \notin DOMAIN acked \cup failed
      /\ Known = 1 .. nextId - 1 /\ nextId \in Nat \ {0} /\ docCount \in Nat
      /\ DOMAIN acked \cap failed = {} /\ Cardinality(DOMAIN acked) = docCount
      /\ DOMAIN ext \cup DOMAIN len \cup DOMAIN stored \subseteq 1 .. nextId - 1
  BY <1>0, <1>1 DEF IInv, IdsOK, TypeOK
<1>3. /\ d \in Docs /\ todo \subseteq Range(Toks[d])
      /\ cur = [doc |-> d, id |-> id, todo |-> todo] /\ Filed(id, d)
  BY <1>0, <1>1 DEF IInv, CurOK
<1>4. Known = DOMAIN acked \cup failed \cup {id}
  BY <1>0, <1>1 DEF Known
<1>5. \/ /\ todo = {t} /\ docCount' = docCount + 1 /\ pc' = "idle"
         /\ DOMAIN acked' = DOMAIN acked \cup {id} /\ acked'[id] = d
         /\ \A i \in DOMAIN acked : acked'[i] = acked[i]
      \/ /\ todo # {t} /\ UNCHANGED <<docCount, acked, pc>>
         /\ cur'.doc = d /\ cur'.id = id /\ cur'.todo = todo \ {t}
         /\ cur' = [doc |-> d, id |-> id, todo |-> todo \ {t}]
  <2>1. CASE todo = {t}
    <3>1. docCount' = docCount + 1 /\ pc' = "idle" /\ acked' = With(acked, id, d)
      BY <1>0, <2>1 DEF IndexTerm
    <3>2. /\ DOMAIN acked' = DOMAIN acked \cup {id} /\ acked'[id] = d
          /\ \A i \in DOMAIN acked : acked'[i] = acked[i]
      BY <1>2, <3>1 DEF With
    <3> QED
      BY <2>1, <3>1, <3>2
  <2>2. CASE todo # {t}
    <3>1. UNCHANGED <<docCount, acked, pc>> /\ cur' = [cur EXCEPT !.todo = @ \ {t}]
      BY <1>0, <2>2 DEF IndexTerm
    <3>2. cur' = [doc |-> d, id |-> id, todo |-> todo \ {t}]
      BY <1>3, <3>1
    <3>3. cur'.doc = d /\ cur'.id = id /\ cur'.todo = todo \ {t}
      BY <3>2
    <3>4. UNCHANGED <<docCount, acked, pc>>
      BY <3>1
    <3> QED
      BY <2>2, <3>2, <3>3, <3>4
  <2> QED
    BY <2>1, <2>2
<1>6. Known' = Known
  BY <1>1, <1>4, <1>5 DEF Known
<1>7. /\ pages' \in Seq(AnyPg) /\ Ranked(pages') /\ Len(pages') <= ArenaPages
      /\ Grown(pages, pages')
  <2>1. PICK p, s : p = TermPage(t) /\ s = Positions(cur.doc, t)
    OBVIOUS
  <2> QED
    BY <2>1, IndexTermPages
<1>8. TypeOK'
  <2>1. TableOK(buckets')
    BY IndexTermTable
  <2>2. docCount' \in Nat /\ nextId' \in Nat \ {0} /\ total' \in Nat
    BY <1>1, <1>2, <1>5 DEF IInv, TypeOK
  <2>3. pc' \in {"idle", "index", "flushed"}
    BY <1>1, <1>5
  <2> QED
    BY <1>7, <2>1, <2>2, <2>3 DEF TypeOK
<1>9. IdsOK'
  <2>1. Known' = 1 .. nextId' - 1
    BY <1>1, <1>2, <1>6
  <2>2. /\ DOMAIN acked' \cap failed' = {}
        /\ pc' = "index" => cur'.id = nextId' - 1 /\ cur'.id \notin DOMAIN acked' \cup failed'
        /\ DOMAIN ext' \cup DOMAIN len' \cup DOMAIN stored' \subseteq 1 .. nextId' - 1
    BY <1>1, <1>2, <1>5
  <2>3. Cardinality(DOMAIN acked') = docCount'
    <3>1. IsFiniteSet(DOMAIN acked)
      <4>1. DOMAIN acked \subseteq 1 .. nextId - 1 /\ IsFiniteSet(1 .. nextId - 1)
        BY <1>2, <1>4, FS_Interval
      <4> QED
        BY <4>1, FS_Subset
    <3>2. Cardinality(DOMAIN acked \cup {id}) = docCount + 1
      BY <1>2, <3>1, FS_AddElement
    <3> QED
      BY <1>2, <1>5, <3>2
  <2> QED
    BY <2>1, <2>2, <2>3 DEF IdsOK
<1>10. /\ ListsOK'
       /\ \A i, e, done : i # id /\ Posted(i, e, done) => Posted(i, e, done)'
       /\ \A done : done = (Range(Toks[d]) \ todo) \cup {t} => Posted(id, d, done)'
  BY <1>0, <1>6, IndexTermPosts
<1>11. ASSUME NEW i, NEW e, Filed(i, e) PROVE Filed(i, e)'
  <2>1. LenOf(i)' = LenOf(i)
    BY <1>1 DEF LenOf
  <2>2. TypeOK /\ i \in DOMAIN ext
    BY <1>11 DEF IInv, Filed
  <2> QED
    BY <1>1, <1>7, <1>11, <2>1, <2>2, FiledKept
<1>12. ASSUME NEW i \in DOMAIN acked, NEW e, acked[i] = e
       PROVE  e \in Docs /\ Filed(i, e)' /\ Posted(i, e, Range(Toks[e]))'
  <2>1. e \in Docs /\ Filed(i, e) /\ Posted(i, e, Range(Toks[e])) /\ i # id
    BY <1>2, <1>12 DEF IInv, AckedOK
  <2> QED
    BY <1>10, <1>11, <2>1
<1>13. AckedOK'
  <2>1. ASSUME NEW i \in DOMAIN acked'
        PROVE  acked'[i] \in Docs /\ Filed(i, acked[i])' /\ Posted(i, acked[i], Range(Toks[acked[i]]))'
    <3>1. PICK e : e = acked'[i]
      OBVIOUS
    <3>2. e \in Docs /\ Filed(i, e)' /\ Posted(i, e, Range(Toks[e]))'
      <4>1. CASE i \in DOMAIN acked
        BY <1>5, <1>12, <3>1, <4>1
      <4>2. CASE i \notin DOMAIN acked
        <5>1. i = id /\ e = d /\ todo = {t}
          BY <1>5, <2>1, <3>1, <4>2
        <5>2. Range(Toks[d]) = (Range(Toks[d]) \ todo) \cup {t}
          BY <1>3, <5>1
        <5>3. Posted(id, d, Range(Toks[d]))'
          BY <1>10, <5>2
        <5> QED
          BY <1>3, <1>11, <5>1, <5>3
      <4> QED
        BY <4>1, <4>2
    <3> QED
      BY <3>1, <3>2
  <2> QED
    BY <2>1 DEF AckedOK
<1>14. CurOK'
  <2> SUFFICES ASSUME pc' = "index" PROVE CurOK'
    BY DEF CurOK
  <2>1. /\ todo # {t} /\ cur'.doc = d /\ cur'.id = id /\ cur'.todo = todo \ {t}
        /\ cur' = [doc |-> d, id |-> id, todo |-> todo \ {t}]
    BY <1>5
  <2>2. Range(Toks[d]) \ (todo \ {t}) = (Range(Toks[d]) \ todo) \cup {t}
    BY <1>1, <1>3
  <2>3. Posted(id, d, Range(Toks[d]) \ (todo \ {t}))'
    BY <1>10, <2>2
  <2>4. Posted(cur.id, cur.doc, Range(Toks[cur.doc]) \ cur.todo)'
    BY <2>1, <2>3
  <2>5. Filed(cur.id, cur.doc)'
    BY <1>3, <1>11, <2>1
  <2>6. cur'.todo # {} /\ cur'.todo \subseteq Range(Toks[cur'.doc])
    BY <1>1, <1>3, <2>1
  <2> QED
    BY <1>3, <2>1, <2>4, <2>5, <2>6 DEF CurOK
<1>15. FileOK'
  BY <1>1, <1>5 DEF FileOK
<1> QED
  BY <1>8, <1>9, <1>10, <1>13, <1>14, <1>15 DEF IInv

-----------------------------------------------------------------------------
(* The invariant is one *)

LEMMA InitHolds == Init => IInv
<1>1. Init => Fresh
  BY DEF Init, Fresh
<1> QED
  BY <1>1, FreshHolds

LEMMA StutterKeeps == ASSUME IInv, UNCHANGED vars PROVE IInv'
<1>1. /\ UNCHANGED <<pages, buckets, stored, ext, len, total, docCount, nextId, cur, acked, failed>>
      /\ pc' = pc /\ file' = file
  BY DEF vars
<1>2. TypeOK' /\ IdsOK' /\ ListsOK' /\ AckedOK' /\ CurOK'
  BY <1>1, StillKeeps DEF IInv, TypeOK
<1>3. /\ Present' = Present /\ \A t : Bucket(t)' = Bucket(t)
      /\ \A t : Entries(t)' = Entries(t)
      /\ \A t : FlushBound(t)' = FlushBound(t)
      /\ \A i : LenOf(i)' = LenOf(i) /\ FdtRow(i)' = FdtRow(i)
  BY <1>1, ReadingKept
<1>4. FileOK'
  BY <1>1, <1>3 DEF IInv, FileOK
<1> QED
  BY <1>2, <1>4 DEF IInv

LEMMA NextKeeps == ASSUME IInv, [Next]_vars PROVE IInv'
<1>1. CASE \E d \in Docs : AddDocument(d)
  BY <1>1, AddDocumentKeeps
<1>2. ASSUME NEW t \in Terms, IndexTerm(t) \/ IndexTermThrows(t) \/ Search(t) PROVE IInv'
  BY <1>2, IndexTermKeeps, ThrowKeeps, SearchKeeps
<1>3. CASE FlushToDisk
  BY <1>3, FlushKeeps
<1>4. CASE Reset
  BY <1>4, ResetKeeps
<1>5. CASE UNCHANGED vars
  BY <1>5, StutterKeeps
<1> QED
  BY <1>1, <1>2, <1>3, <1>4, <1>5 DEF Next

\* The inductive invariant holds of every reachable state: ids, lists, stored
\* fields, the call in progress and the files.
THEOREM IInvHolds == Spec => []IInv
<1>1. Init => IInv
  BY InitHolds
<1>2. IInv /\ [Next]_vars => IInv'
  BY NextKeeps
<1> QED
  BY <1>1, <1>2, PTL DEF Spec

-----------------------------------------------------------------------------
(* What the invariant says of a search and of the files *)

\* A list with the newest document first is sorted by turning it round.
LEMMA SortedFacts ==
  ASSUME NEW l \in Seq(TermPg),
         \A i, j \in 1 .. Len(l) : i < j => l[j].doc < l[i].doc
  PROVE  /\ Len(Sorted(l)) = Len(l) /\ DOMAIN Sorted(l) = 1 .. Len(l)
         /\ \A k \in 2 .. Len(l) : Sorted(l)[k - 1].doc < Sorted(l)[k].doc
         /\ Range(Sorted(l)) = Range(l)
<1> DEFINE n == Len(l)
           upto(i) == {j \in DOMAIN l : \/ l[j].doc < l[i].doc
                                        \/ l[j].doc = l[i].doc /\ j <= i}
           back(k) == CHOOSE i \in DOMAIN l : Cardinality(upto(i)) = k
<1>1. n \in Nat /\ DOMAIN l = 1 .. n /\ \A i \in 1 .. n : l[i].doc \in Nat
  <2>1. n \in Nat /\ DOMAIN l = 1 .. n /\ \A i \in 1 .. n : l[i] \in TermPg
    OBVIOUS
  <2>2. \A x \in TermPg : x.doc \in Nat
    BY DEF TermPg
  <2> QED
    BY <2>1, <2>2
<1>2. \A i, j \in 1 .. n : i < j => l[j].doc < l[i].doc
  OBVIOUS
<1>3. Sorted(l) = [k \in DOMAIN l |-> l[back(k)]]
  BY Zenon DEF Sorted
<1> HIDE DEF n
<1>4. ASSUME NEW i \in 1 .. n PROVE Cardinality(upto(i)) = n - i + 1
  <2>1. \A j \in 1 .. n : (l[j].doc < l[i].doc \/ (l[j].doc = l[i].doc /\ j <= i)) <=> i <= j
    <3> TAKE j \in 1 .. n
    <3>1. CASE i < j
      BY <1>1, <1>2, <3>1
    <3>2. CASE j < i
      <4>1. l[i].doc < l[j].doc
        BY <1>2, <3>2
      <4> QED
        BY <1>1, <3>2, <4>1
    <3>3. CASE i = j
      BY <1>1, <3>3
    <3> QED
      BY <1>1, <3>1, <3>2, <3>3
  <2>2. upto(i) = {j \in 1 .. n : i <= j}
    BY <1>1, <2>1
  <2>3. upto(i) = i .. n
    BY <1>1, <2>2
  <2>4. Cardinality(i .. n) = n - i + 1
    BY <1>1, FS_Interval
  <2> QED
    BY <2>3, <2>4
<1> HIDE DEF upto
<1>5. ASSUME NEW k \in 1 .. n PROVE back(k) = n - k + 1 /\ n - k + 1 \in 1 .. n
  <2>1. n - k + 1 \in 1 .. n /\ n - (n - k + 1) + 1 = k
    BY <1>1
  <2>2. Cardinality(upto(n - k + 1)) = k
    BY <1>4, <2>1
  <2>3. ASSUME NEW i \in DOMAIN l, Cardinality(upto(i)) = k PROVE i = n - k + 1
    <3>1. i \in 1 .. n /\ n - i + 1 = k
      BY <1>1, <1>4, <2>3
    <3> QED
      BY <1>1, <3>1
  <2>4. n - k + 1 \in DOMAIN l
    BY <1>1, <2>1
  <2> QED
    BY <2>1, <2>2, <2>3, <2>4
<1> HIDE DEF back
<1>6. DOMAIN Sorted(l) = 1 .. n /\ \A k \in 1 .. n : Sorted(l)[k] = l[n - k + 1]
  BY <1>1, <1>3, <1>5
<1>7. Len(Sorted(l)) = n
  <2>1. Sorted(l) = [k \in 1 .. n |-> l[back(k)]]
    BY <1>1, <1>3
  <2> QED
    BY <1>1, <2>1
<1>8. \A k \in 2 .. n : Sorted(l)[k - 1].doc < Sorted(l)[k].doc
  <2> TAKE k \in 2 .. n
  <2>1. k \in 1 .. n /\ k - 1 \in 1 .. n /\ n - k + 1 \in 1 .. n
        /\ n - (k - 1) + 1 \in 1 .. n /\ n - k + 1 < n - (k - 1) + 1
    BY <1>1
  <2>2. l[n - (k - 1) + 1].doc < l[n - k + 1].doc
    BY <1>2, <2>1
  <2> QED
    BY <1>6, <2>1, <2>2
<1>9. Range(Sorted(l)) = Range(l)
  <2>1. \A k \in 1 .. n : n - k + 1 \in 1 .. n /\ n - (n - k + 1) + 1 = k
    BY <1>1
  <2>2. ASSUME NEW x \in Range(l) PROVE x \in Range(Sorted(l))
    <3>1. PICK k \in 1 .. n : x = l[k]
      BY <1>1 DEF Range
    <3>2. PICK j \in 1 .. n : j = n - k + 1 /\ n - j + 1 = k
      BY <2>1
    <3> QED
      BY <1>6, <3>1, <3>2 DEF Range
  <2>3. ASSUME NEW x \in Range(Sorted(l)) PROVE x \in Range(l)
    <3>1. PICK k \in 1 .. n : x = l[n - k + 1]
      BY <1>6 DEF Range
    <3> QED
      BY <1>1, <2>1, <3>1 DEF Range
  <2> QED
    BY <2>2, <2>3
<1> QED
  BY <1>6, <1>7, <1>8, <1>9 DEF n

\* The sorted list of a term.
LEMMA TermListFacts ==
  ASSUME IInv, NEW t \in Present
  PROVE  /\ t \in Terms /\ List(t) = TermPages(t) /\ List(t) \in Seq(TermPg)
         /\ Len(Sorted(TermPages(t))) = Bucket(t).df
         /\ DOMAIN Sorted(TermPages(t)) = 1 .. Bucket(t).df
         /\ \A k \in 2 .. Bucket(t).df :
              Sorted(TermPages(t))[k - 1].doc < Sorted(TermPages(t))[k].doc
         /\ Range(Sorted(TermPages(t))) = Range(List(t))
         /\ \A p \in Range(List(t)) : p.doc \in Known
<1>1. t \in Terms /\ List(t) = TermPages(t)
  BY DEF List, Present
<1>2. ListOK(t)
  BY <1>1 DEF IInv, ListsOK
<1>3. PICK l : l = List(t)
  OBVIOUS
<1>4. /\ l \in Seq(TermPg) /\ Bucket(t).df = Len(l)
      /\ \A i, j \in 1 .. Len(l) : i < j => l[j].doc < l[i].doc
  BY <1>2, <1>3 DEF ListOK
<1>5. /\ Len(Sorted(l)) = Len(l) /\ DOMAIN Sorted(l) = 1 .. Len(l)
      /\ \A k \in 2 .. Len(l) : Sorted(l)[k - 1].doc < Sorted(l)[k].doc
      /\ Range(Sorted(l)) = Range(l)
  BY <1>4, SortedFacts
<1>6. \A p \in Range(List(t)) : p.doc \in Known
  BY <1>2 DEF ListOK
<1> QED
  BY <1>1, <1>3, <1>4, <1>5, <1>6

\* What is stored of a document whose call returned.
LEMMA AckedFacts ==
  ASSUME IInv, NEW i \in DOMAIN acked
  PROVE  /\ acked[i] \in Docs /\ ext[i] = acked[i] /\ i \in DOMAIN ext
         /\ FdtRow(i).ext = acked[i] /\ FdtRow(i).fields = Stored(acked[i])
         /\ FdtRow(i) = [ext |-> acked[i], fields |-> Stored(acked[i])]
         /\ LenOf(i) = Len(Toks[acked[i]])
         /\ Posted(i, acked[i], Range(Toks[acked[i]]))
<1>1. /\ acked[i] \in Docs /\ Filed(i, acked[i])
      /\ Posted(i, acked[i], Range(Toks[acked[i]]))
  BY DEF IInv, AckedOK
<1>2. FdtRow(i) = [ext |-> acked[i], fields |-> Stored(acked[i])]
  <2>1. i \in DOMAIN ext /\ ext[i] = acked[i]
    BY <1>1 DEF Filed
  <2>2. (IF i \in DOMAIN stored THEN Data(stored[i]) ELSE <<>>) = Stored(acked[i])
    BY <1>1 DEF Filed
  <2> QED
    BY <2>1, <2>2 DEF FdtRow
<1> QED
  BY <1>1, <1>2 DEF Filed

\* MemoryExact: whatever calls threw and however the terms collide, a search
\* between two calls sees each document that was added, for its terms alone.
THEOREM MemoryExactHolds == Spec => []MemoryExact
<1>1. IInv => MemoryExact
  <2> SUFFICES ASSUME IInv, pc = "idle" PROVE MemoryExact
    BY DEF MemoryExact
  <2>1. Cardinality(DOMAIN acked) = docCount
    BY DEF IInv, IdsOK
  <2>2. Known = DOMAIN acked \cup failed
    BY DEF Known
  <2>3. ASSUME NEW t \in Present, NEW list, list = MemoryPostings(t)
        PROVE  /\ Len(list) = Bucket(t).df
               /\ \A i \in 2 .. Len(list) : list[i - 1].doc < list[i].doc
               /\ \A i \in 1 .. Len(list) : list[i].doc \in DOMAIN acked \cup failed
    <3>1. /\ Len(list) = Bucket(t).df /\ DOMAIN list = 1 .. Bucket(t).df
          /\ \A k \in 2 .. Bucket(t).df : list[k - 1].doc < list[k].doc
          /\ \A p \in Range(list) : p.doc \in Known
      BY <2>3, TermListFacts DEF MemoryPostings
    <3> QED
      BY <2>2, <3>1 DEF Range
  <2>7. \A t \in Terms : Range(MemoryPostings(t)) = Range(List(t))
    BY TermListFacts DEF MemoryPostings, List
  <2>4. ASSUME NEW i \in DOMAIN acked, NEW t \in Terms
        PROVE  {p.tf : p \in {q \in Range(MemoryPostings(t)) : q.doc = i}}
                 = {Len(Positions(acked[i], t))} \ {0}
    <3>1. acked[i] \in Docs /\ Posted(i, acked[i], Range(Toks[acked[i]]))
      BY AckedFacts
    <3>2. PICK n : n = Len(Positions(acked[i], t))
      OBVIOUS
    <3>3. t \in Range(Toks[acked[i]]) <=> n # 0
      BY <3>1, <3>2, PositionsFacts
    <3>4. {p.tf : p \in Entry(t, i)} = {n} \ {0}
      <4>1. CASE t \in Range(Toks[acked[i]])
        <5>1. PICK p : Entry(t, i) = {p} /\ p.tf = n
          BY <3>1, <3>2, <4>1 DEF Posted
        <5> QED
          BY <3>3, <4>1, <5>1
      <4>2. CASE t \notin Range(Toks[acked[i]])
        <5>1. Entry(t, i) = {}
          BY <3>1, <4>2 DEF Posted
        <5> QED
          BY <3>3, <4>2, <5>1
      <4> QED
        BY <4>1, <4>2
    <3> QED
      BY <2>7, <3>2, <3>4, Zenon DEF Entry
  <2>5. \A i \in DOMAIN acked : /\ ext[i] = acked[i]
                                /\ FdtRow(i).fields = Stored(acked[i])
                                /\ LenOf(i) = Len(Toks[acked[i]])
    BY AckedFacts
  <2>8. ASSUME NEW t \in Terms
        PROVE  SearchThrows(t) <=> \A s \in DOMAIN buckets : buckets[s].term \notin {"", t}
    <3>1. TableOK(buckets) /\ DOMAIN buckets = Slots
      BY DEF IInv, TypeOK, TableOK
    <3> QED
      BY <3>1, ThrowsIfFull DEF SearchThrows
  <2>9. ASSUME NEW i \in DOMAIN acked, NEW t \in Range(Toks[acked[i]])
        PROVE  ~ SearchThrows(t)
    <3>1. /\ acked[i] \in Docs /\ Posted(i, acked[i], Range(Toks[acked[i]]))
          /\ Toks[acked[i]] \in Seq(Terms)
      BY AckedFacts, MemorySegmentAssumption
    <3>2. t \in Terms
      BY <3>1 DEF Range
    <3>3. Range(List(t)) # {}
      BY <3>1, <3>2 DEF Posted, Entry
    <3>4. t \in Present
      BY <3>3 DEF List, Range
    <3> QED
      BY <3>4 DEF Present, SearchThrows
  <2> QED
    BY <2>1, <2>3, <2>4, <2>5, <2>8, <2>9 DEF MemoryExact
<1> QED
  BY <1>1, IInvHolds, PTL

\* The postings that a reader finds in the files.
LEMMA DiskFacts ==
  ASSUME IInv, pc = "flushed", NEW t \in Terms
  PROVE  /\ t \in Present => DiskPostings(t) = Entries(t)
         /\ t \notin Present => DiskPostings(t) = <<>>
<1>1. file.post = [u \in Present |-> Entries(u)]
  BY DEF IInv, FileOK
<1> QED
  BY <1>1 DEF DiskPostings

\* A page as .doc and .pos show it.
Shown(p) == [doc |-> p.doc, tf |-> Least(p.tf, TfCap), pos |-> EntryPositions(p)]

LEMMA ShownFacts ==
  ASSUME IInv, pc = "flushed", NEW t \in Terms
  PROVE  /\ Range(DiskPostings(t)) = {Shown(p) : p \in Range(List(t))}
         /\ \A k \in 2 .. Len(DiskPostings(t)) : DiskPostings(t)[k - 1].doc < DiskPostings(t)[k].doc
<1>1. CASE t \in Present
  <2>1. PICK l : l = Sorted(TermPages(t))
    OBVIOUS
  <2>2. PICK n : n = Bucket(t).df
    OBVIOUS
  <2>3. /\ Len(l) = n /\ DOMAIN l = 1 .. n /\ Range(l) = Range(List(t))
        /\ \A k \in 2 .. n : l[k - 1].doc < l[k].doc
    BY <1>1, <2>1, <2>2, TermListFacts
  <2>4. n \in Nat
    <3>1. List(t) \in Seq(TermPg) /\ Bucket(t).df = Len(List(t))
      BY <1>1 DEF IInv, ListsOK, ListOK
    <3> QED
      BY <2>2, <3>1
  <2>5. Entries(t) = [i \in 1 .. Len(l) |-> Shown(l[i])]
    BY <2>1, Zenon DEF Entries, Shown
  <2>6. PICK e : e = DiskPostings(t)
    OBVIOUS
  <2>7. e = [i \in 1 .. n |-> Shown(l[i])]
    BY <1>1, <2>3, <2>5, <2>6, DiskFacts
  <2>8. Len(e) = n /\ DOMAIN e = 1 .. n /\ \A k \in 1 .. n : e[k] = Shown(l[k])
    BY <2>4, <2>7
  <2>9. Range(e) = {Shown(p) : p \in Range(List(t))}
    <3>1. Range(e) = {Shown(p) : p \in Range(l)}
      BY <2>3, <2>8 DEF Range
    <3> QED
      BY <2>3, <3>1
  <2>10. \A k \in 2 .. Len(e) : e[k - 1].doc < e[k].doc
    <3> TAKE k \in 2 .. Len(e)
    <3>1. k \in 1 .. n /\ k - 1 \in 1 .. n /\ k \in 2 .. n
      BY <2>4, <2>8
    <3>2. e[k].doc = l[k].doc /\ e[k - 1].doc = l[k - 1].doc
      BY <2>8, <3>1 DEF Shown
    <3> QED
      BY <2>3, <3>1, <3>2
  <2> QED
    BY <2>6, <2>9, <2>10
<1>2. CASE t \notin Present
  <2>1. List(t) = <<>> /\ DiskPostings(t) = <<>>
    BY <1>2, DiskFacts DEF List
  <2>2. Range(<<>>) = {} /\ Len(<<>>) = 0
    BY DEF Range
  <2> QED
    BY <2>1, <2>2
<1> QED
  BY <1>1, <1>2

\* FlushExact: the files show each document that was added as it was, the
\* documents of a segment from which a call threw as far as their ids go.
THEOREM FlushExactHolds == Spec => []FlushExact
<1>1. IInv => FlushExact
  <2> SUFFICES ASSUME IInv, pc = "flushed" PROVE FlushExact
    BY DEF FlushExact
  <2>1. \A t \in Terms : \A k \in 2 .. Len(DiskPostings(t)) :
          DiskPostings(t)[k - 1].doc < DiskPostings(t)[k].doc
    BY ShownFacts
  <2>2. file = [docs  |-> docCount,
                post  |-> [t \in Present |-> Entries(t)],
                ttf   |-> [t \in Present |-> Bucket(t).ttf],
                bound |-> [t \in Present |-> FlushBound(t)],
                len   |-> [i \in 1 .. docCount |-> Least(LenOf(i), LenCap)],
                fdt   |-> [i \in 1 .. docCount |-> FdtRow(i)]]
    BY DEF IInv, FileOK
  <2>3. /\ file.docs = docCount /\ file.fdt = [i \in 1 .. docCount |-> FdtRow(i)]
        /\ file.len = [i \in 1 .. docCount |-> Least(LenOf(i), LenCap)]
    BY <2>2
  <2>4. ASSUME NEW i \in DOMAIN acked, failed = {} \/ i <= docCount
        PROVE  i \in 1 .. docCount
    <3>1. /\ DOMAIN acked \cup failed = 1 .. nextId - 1 /\ nextId \in Nat \ {0}
          /\ Cardinality(DOMAIN acked) = docCount /\ docCount \in Nat
      BY DEF IInv, IdsOK, TypeOK, Known
    <3>2. CASE failed = {}
      <4>1. DOMAIN acked = 1 .. nextId - 1
        BY <3>1, <3>2
      <4>2. Cardinality(1 .. nextId - 1) = nextId - 1
        BY <3>1, FS_Interval
      <4> QED
        BY <3>1, <4>1, <4>2
    <3>3. CASE i <= docCount
      <4>1. i \in 1 .. nextId - 1
        BY <3>1
      <4> QED
        BY <3>1, <3>3, <4>1
    <3> QED
      BY <2>4, <3>2, <3>3
  <2>5. ASSUME NEW i \in DOMAIN acked, failed = {} \/ i <= docCount
        PROVE  /\ DiskAlive(i)
               /\ DiskRow(i) = [ext |-> acked[i], fields |-> Stored(acked[i])]
               /\ DiskLen(i) = Least(Len(Toks[acked[i]]), LenCap)
    <3>1. i \in 1 .. docCount
      BY <2>4, <2>5
    <3>2. /\ FdtRow(i) = [ext |-> acked[i], fields |-> Stored(acked[i])]
          /\ LenOf(i) = Len(Toks[acked[i]])
      BY AckedFacts
    <3>3. DiskAlive(i)
      BY <2>3, <3>1 DEF DiskAlive
    <3>4. DiskRow(i) = FdtRow(i)
      BY <2>3, <3>1 DEF DiskRow, Fdx
    <3>5. DiskLen(i) = Least(LenOf(i), LenCap)
      BY <2>3, <3>1, <3>3 DEF DiskLen
    <3> QED
      BY <3>2, <3>3, <3>4, <3>5
  <2>6. ASSUME NEW i \in DOMAIN acked, NEW t \in Terms, NEW pos, pos = Positions(acked[i], t)
        PROVE  /\ {e.tf : e \in {x \in Range(DiskPostings(t)) : x.doc = i}}
                    = {Least(Len(pos), TfCap)} \ {0}
               /\ DiskPositions(t, i) = {pos} \ {<<>>}
    <3>1. acked[i] \in Docs /\ Posted(i, acked[i], Range(Toks[acked[i]]))
      BY AckedFacts
    <3>2. /\ Len(pos) \in Nat
          /\ t \in Range(Toks[acked[i]]) <=> Len(pos) # 0
          /\ t \in Range(Toks[acked[i]]) <=> pos # <<>>
      BY <2>6, <3>1, PositionsFacts
    <3>3. PICK E : E = {x \in Range(DiskPostings(t)) : x.doc = i}
      OBVIOUS
    <3>4. E = {Shown(p) : p \in Entry(t, i)}
      <4>1. Range(DiskPostings(t)) = {Shown(p) : p \in Range(List(t))}
        BY ShownFacts
      <4>2. \A p : Shown(p).doc = p.doc
        BY DEF Shown
      <4> QED
        BY <3>3, <4>1, <4>2 DEF Entry
    <3>5. {e.tf : e \in E} = {Least(Len(pos), TfCap)} \ {0} /\ {e.pos : e \in E} = {pos} \ {<<>>}
      <4>1. CASE t \in Range(Toks[acked[i]])
        <5>1. PICK p : Entry(t, i) = {p} /\ p.tf = Len(pos) /\ EntryPositions(p) = pos
          BY <2>6, <3>1, <4>1 DEF Posted
        <5>2. E = {Shown(p)}
          BY <3>4, <5>1
        <5>3. Shown(p).tf = Least(Len(pos), TfCap) /\ Shown(p).pos = pos
          BY <5>1 DEF Shown
        <5>4. Least(Len(pos), TfCap) # 0
          <6>1. TfCap \in Nat \ {0}
            BY Constants
          <6> QED
            BY <3>2, <4>1, <6>1 DEF Least
        <5> QED
          BY <3>2, <4>1, <5>2, <5>3, <5>4
      <4>2. CASE t \notin Range(Toks[acked[i]])
        <5>1. E = {}
          BY <3>1, <3>4, <4>2 DEF Posted
        <5>2. Least(Len(pos), TfCap) = 0
          <6>1. TfCap \in Nat \ {0}
            BY Constants
          <6> QED
            BY <3>2, <4>2, <6>1 DEF Least
        <5> QED
          BY <3>2, <4>2, <5>1, <5>2
      <4> QED
        BY <4>1, <4>2
    <3>6. DiskPositions(t, i) = {e.pos : e \in E}
      BY <3>3, Zenon DEF DiskPositions
    <3> QED
      BY <3>3, <3>5, <3>6
  <2> QED
    BY <2>1, <2>5, <2>6 DEF FlushExact
<1> QED
  BY <1>1, IInvHolds, PTL

-----------------------------------------------------------------------------
(* Fractions, and the factors of the bounds *)

\* What AtMost compares, and that it is an order of them.
Fraction == Nat \X (Nat \ {0})

LEMMA AtMostOrders ==
  ASSUME NEW x \in Fraction, NEW y \in Fraction, NEW z \in Fraction
  PROVE  /\ AtMost(x, x) /\ (AtMost(x, y) \/ AtMost(y, x))
         /\ AtMost(x, y) /\ AtMost(y, z) => AtMost(x, z)
<1>0. PICK x1 \in Nat, x2 \in Nat \ {0} : x1 = x[1] /\ x2 = x[2]
  BY DEF Fraction
<1>1. PICK y1 \in Nat, y2 \in Nat \ {0} : y1 = y[1] /\ y2 = y[2]
  BY DEF Fraction
<1>2. PICK z1 \in Nat, z2 \in Nat \ {0} : z1 = z[1] /\ z2 = z[2]
  BY DEF Fraction
<1>3. x1 * y2 \in Nat /\ y1 * x2 \in Nat
  OBVIOUS
<1>4. AtMost(x, x) /\ (AtMost(x, y) \/ AtMost(y, x))
  BY <1>0, <1>1, <1>3 DEF AtMost
<1>5. ASSUME AtMost(x, y), AtMost(y, z) PROVE AtMost(x, z)
  <2>1. x1 * y2 <= y1 * x2 /\ y1 * z2 <= z1 * y2
    BY <1>0, <1>1, <1>2, <1>5 DEF AtMost
  <2>2. (x1 * y2) * z2 <= (y1 * x2) * z2
    <3>1. x1 * y2 \in Nat /\ y1 * x2 \in Nat /\ z2 \in Nat /\ z2 <= z2
      OBVIOUS
    <3> QED
      BY <2>1, <3>1, Product
  <2>3. (y1 * z2) * x2 <= (z1 * y2) * x2
    <3>1. y1 * z2 \in Nat /\ z1 * y2 \in Nat /\ x2 \in Nat /\ x2 <= x2
      OBVIOUS
    <3> QED
      BY <2>1, <3>1, Product
  <2>4. /\ (x1 * y2) * z2 = (x1 * z2) * y2
        /\ (y1 * x2) * z2 = (y1 * z2) * x2
        /\ (z1 * y2) * x2 = (z1 * x2) * y2
        /\ x1 * z2 \in Nat /\ z1 * x2 \in Nat
    OBVIOUS
  <2>5. (x1 * z2) * y2 <= (z1 * x2) * y2
    <3>1. (y1 * z2) * x2 \in Nat /\ (z1 * x2) * y2 \in Nat /\ (x1 * z2) * y2 \in Nat
      OBVIOUS
    <3> QED
      BY <2>2, <2>3, <2>4, <3>1
  <2>6. x1 * z2 <= z1 * x2
    BY <2>4, <2>5, Cancel
  <2> QED
    BY <1>0, <1>2, <2>6 DEF AtMost
<1> QED
  BY <1>4, <1>5

\* A finite set of fractions has a greatest one.
LEMMA GreatestFraction ==
  ASSUME NEW F \in SUBSET Fraction, IsFiniteSet(F), F # {}
  PROVE  \E x \in F : \A y \in F : AtMost(y, x)
<1> DEFINE B == {U \in SUBSET F : U # {} /\ ~ \E x \in U : \A y \in U : AtMost(y, x)}
<1> SUFFICES ASSUME B # {} PROVE FALSE
  OBVIOUS
<1>1. PICK U \in B : \A V \in SUBSET U : V # U => V \notin B
  <2>1. B \in SUBSET (SUBSET F)
    OBVIOUS
  <2> HIDE DEF B
  <2> QED
    BY <2>1, MinimalSubset
<1>2. U \in SUBSET F /\ U # {} /\ ~ \E x \in U : \A y \in U : AtMost(y, x)
  OBVIOUS
<1>3. PICK x \in U : x \in Fraction
  BY <1>2
<1>4. AtMost(x, x)
  BY <1>3, AtMostOrders
<1>5. U \ {x} # {}
  BY <1>2, <1>3, <1>4
<1>6. PICK m \in U \ {x} : \A y \in U \ {x} : AtMost(y, m)
  <2>1. U \ {x} \in SUBSET U /\ U \ {x} # U
    BY <1>3
  <2>2. U \ {x} \notin B
    BY <1>1, <2>1
  <2> QED
    BY <1>2, <1>5, <2>2
<1>7. m \in Fraction /\ \A y \in U : y \in Fraction
  BY <1>2
<1>8. CASE AtMost(x, m)
  BY <1>2, <1>6, <1>8
<1>9. CASE AtMost(m, x)
  <2>1. ASSUME NEW y \in U \ {x} PROVE AtMost(y, x)
    BY <1>3, <1>6, <1>7, <1>9, AtMostOrders
  <2> QED
    BY <1>2, <1>3, <1>4, <2>1
<1> QED
  BY <1>3, <1>7, <1>8, <1>9, AtMostOrders

\* The numerator and denominator of a factor.
LEMMA FactorType ==
  ASSUME NEW tf \in Nat, NEW dl \in Nat \ {0}, NEW a \in Nat, NEW b \in Nat \ {0}
  PROVE  /\ Factor(tf, dl, <<a, b>>) \in Fraction
         /\ Factor(tf, dl, <<a, b>>)[1] = tf * a /\ Factor(tf, dl, <<a, b>>)[2] = a + 3 * b * dl
         /\ tf * a \in Nat /\ 3 * b * dl \in Nat \ {0}
<1>1. Factor(tf, dl, <<a, b>>) = <<tf * a, a + 3 * b * dl>>
  BY DEF Factor
<1>2. tf * a \in Nat /\ 3 * b * dl \in Nat \ {0}
  <2>1. 1 * 1 <= b * dl /\ b * dl \in Nat
    <3>1. 1 <= b /\ 1 <= dl
      OBVIOUS
    <3> QED
      BY <3>1, Product
  <2>2. 3 * b * dl = 3 * (b * dl)
    OBVIOUS
  <2> QED
    BY <2>1, <2>2
<1>3. a + 3 * b * dl \in Nat \ {0}
  BY <1>2
<1> QED
  BY <1>1, <1>2, <1>3 DEF Fraction

\* The bound that getTermMeta computes: all occurrences in a document of length one,
\* with an average of at least one.
LEMMA MemoryFactor ==
  ASSUME NEW tf \in Nat, NEW ttf \in Nat, tf <= ttf, NEW dl \in Nat \ {0},
         NEW a \in Nat, NEW b \in Nat \ {0}
  PROVE  AtMost(Factor(tf, dl, <<a, b>>), Factor(ttf, 1, AtLeastOne(<<a, b>>)))
<1>1. PICK k \in Nat : k = 3 * b * dl
  BY FactorType
<1>2. Factor(tf, dl, <<a, b>>)[1] = tf * a /\ Factor(tf, dl, <<a, b>>)[2] = a + k
  BY <1>1, FactorType
<1>3. b * 1 <= b * dl /\ b * dl \in Nat /\ 3 * b * dl = 3 * (b * dl)
  <2>1. b <= b /\ 1 <= dl
    OBVIOUS
  <2> QED
    BY <2>1, Product
<1>4. 3 * b <= k
  BY <1>1, <1>3
<1>5. tf * a \in Nat /\ ttf * a \in Nat /\ tf * a <= ttf * a
  BY Product
<1>6. CASE a < b
  <2>1. AtLeastOne(<<a, b>>) = <<1, 1>>
    BY <1>6 DEF AtLeastOne
  <2>2. Factor(ttf, 1, AtLeastOne(<<a, b>>)) = <<ttf, 4>>
    BY <2>1 DEF Factor
  <2>3. a * 4 \in Nat /\ a * 4 <= a + k /\ a + k \in Nat
    BY <1>4, <1>6
  <2>4. tf * (a * 4) <= ttf * (a + k)
    BY <2>3, Product
  <2>5. (tf * a) * 4 = tf * (a * 4)
    OBVIOUS
  <2> QED
    BY <1>2, <2>2, <2>4, <2>5 DEF AtMost
<1>7. CASE ~ (a < b)
  <2>1. AtLeastOne(<<a, b>>) = <<a, b>>
    BY <1>7 DEF AtLeastOne
  <2>2. Factor(ttf, 1, AtLeastOne(<<a, b>>)) = <<ttf * a, a + 3 * b * 1>>
    BY <2>1 DEF Factor
  <2>3. a + 3 * b * 1 \in Nat /\ a + 3 * b * 1 <= a + k /\ a + k \in Nat
    BY <1>4
  <2>4. (tf * a) * (a + 3 * b * 1) <= (ttf * a) * (a + k)
    BY <1>5, <2>3, Product
  <2> QED
    BY <1>2, <2>2, <2>4 DEF AtMost
<1> QED
  BY <1>6, <1>7

\* With a smaller frequency and a smaller average a factor is no larger.
LEMMA DiskFactor ==
  ASSUME NEW tf \in Nat, NEW full \in Nat, tf <= full, NEW dl \in Nat \ {0},
         NEW a \in Nat, NEW c \in Nat, a <= c, NEW b \in Nat \ {0}
  PROVE  AtMost(Factor(tf, dl, <<a, b>>), Factor(full, dl, <<c, b>>))
<1>1. PICK k \in Nat : k = 3 * b * dl
  BY FactorType
<1>2. /\ Factor(tf, dl, <<a, b>>)[1] = tf * a /\ Factor(tf, dl, <<a, b>>)[2] = a + k
      /\ Factor(full, dl, <<c, b>>)[1] = full * c /\ Factor(full, dl, <<c, b>>)[2] = c + k
  <2>1. Factor(tf, dl, <<a, b>>)[1] = tf * a /\ Factor(tf, dl, <<a, b>>)[2] = a + k
    BY <1>1, FactorType
  <2>2. Factor(full, dl, <<c, b>>)[1] = full * c /\ Factor(full, dl, <<c, b>>)[2] = c + k
    BY <1>1, FactorType
  <2> QED
    BY <2>1, <2>2
<1>3. tf * a \in Nat /\ full * c \in Nat /\ full * a \in Nat /\ tf * a <= full * c /\ tf * a <= full * a
  <2>1. a <= a
    OBVIOUS
  <2> QED
    BY <2>1, Product
<1>4. (tf * a) * c <= (full * a) * c /\ (tf * a) * k <= (full * c) * k
  <2>1. c <= c /\ k <= k
    OBVIOUS
  <2> QED
    BY <1>3, <2>1, Product
<1>5. /\ (tf * a) * (c + k) = (tf * a) * c + (tf * a) * k
      /\ (full * c) * (a + k) = (full * a) * c + (full * c) * k
  <2>1. (full * c) * a = (full * a) * c
    OBVIOUS
  <2>2. (full * c) * (a + k) = (full * c) * a + (full * c) * k
    BY <1>3
  <2>3. (tf * a) * (c + k) = (tf * a) * c + (tf * a) * k
    BY <1>3
  <2> QED
    BY <2>1, <2>2, <2>3
<1>6. (tf * a) * c \in Nat /\ (tf * a) * k \in Nat /\ (full * a) * c \in Nat /\ (full * c) * k \in Nat
  BY <1>3
<1>7. (tf * a) * (c + k) <= (full * c) * (a + k)
  BY <1>4, <1>5, <1>6
<1> QED
  BY <1>2, <1>7 DEF AtMost

\* The occurrences of the terms of a document add up to its tokens.
LEMMA TokensCounted ==
  ASSUME NEW d \in Docs, NEW f, \A t \in Range(Toks[d]) : f[t] = Len(Positions(d, t))
  PROVE  /\ IsFiniteSet(Range(Toks[d])) /\ \A t \in Range(Toks[d]) : t \in Terms /\ f[t] \in Nat
         /\ Total(f, Range(Toks[d])) = Len(Toks[d])
<1> DEFINE D == DOMAIN Toks[d]
           T == Range(Toks[d])
           at(U) == {i \in D : Toks[d][i] \in U}
           B == {U \in SUBSET T : Total(f, U) # Cardinality(at(U))}
<1>1. Toks[d] \in Seq(Terms) /\ D = 1 .. Len(Toks[d]) /\ Len(Toks[d]) \in Nat
  <2>1. Toks[d] \in Seq(Terms)
    BY MemorySegmentAssumption
  <2> QED
    BY <2>1
<1>2. IsFiniteSet(D) /\ Cardinality(D) = Len(Toks[d])
  <2>1. Cardinality(1 .. Len(Toks[d])) = Len(Toks[d]) - 1 + 1 /\ IsFiniteSet(1 .. Len(Toks[d]))
    BY <1>1, FS_Interval
  <2> QED
    BY <1>1, <2>1
<1>3. T = {Toks[d][i] : i \in D}
  BY DEF Range
<1>4. IsFiniteSet(T) /\ \A t \in T : t \in Terms
  <2>1. Toks[d] \in [D -> Terms]
    BY <1>1
  <2>2. \A t \in T : t \in Terms
    BY <1>1, <1>3
  <2>3. IsFiniteSet({Toks[d][i] : i \in D})
    BY <1>2, <2>1, RangeFinite
  <2> QED
    BY <1>3, <2>2, <2>3
<1>5. \A t \in T : f[t] \in Nat /\ f[t] = Cardinality(at({t}))
  <2> SUFFICES ASSUME NEW t \in T PROVE f[t] \in Nat /\ f[t] = Cardinality(at({t}))
    OBVIOUS
  <2>1. PICK S : S = {i \in DOMAIN Toks[d] : Toks[d][i] = t}
    OBVIOUS
  <2>2. S \in SUBSET Nat /\ IsFiniteSet(S) /\ S = at({t})
    <3>1. S \in SUBSET D /\ S = at({t})
      BY <2>1
    <3>2. IsFiniteSet(S)
      BY <1>2, <3>1, FS_Subset
    <3> QED
      BY <1>1, <3>1, <3>2
  <2>3. Positions(d, t) = InOrder(S)
    BY <2>1 DEF Positions
  <2>4. Len(InOrder(S)) = Cardinality(S) /\ Cardinality(S) \in Nat
    BY <2>2, InOrderFacts, FS_CardinalityType
  <2> QED
    BY <2>2, <2>3, <2>4
<1>6. B = {}
  <2> SUFFICES ASSUME B # {} PROVE FALSE
    OBVIOUS
  <2>1. PICK U \in B : \A V \in SUBSET U : V # U => V \notin B
    <3>1. B \in SUBSET (SUBSET T)
      OBVIOUS
    <3> HIDE DEF B, T
    <3> QED
      BY <1>4, <3>1, MinimalSubset
  <2>2. U \in SUBSET T /\ Total(f, U) # Cardinality(at(U))
    OBVIOUS
  <2>3. IsFiniteSet(U) /\ \A x \in U : f[x] \in Nat
    BY <1>4, <1>5, <2>2, FS_Subset
  <2> HIDE DEF T
  <2>4. U # {}
    <3>1. ASSUME U = {} PROVE FALSE
      <4>1. Total(f, U) = 0
        BY <2>3, <3>1, SumType
      <4>2. at(U) = {} /\ Cardinality({}) = 0
        BY <3>1, FS_EmptySet
      <4> QED
        BY <2>2, <4>1, <4>2
    <3> QED
      BY <3>1
  <2>5. PICK y \in U : TRUE
    BY <2>4
  <2>6. PICK V : V = U \ {y}
    OBVIOUS
  <2>7. Total(f, V) = Cardinality(at(V))
    <3>1. V \in SUBSET U /\ V # U
      BY <2>6
    <3>2. V \notin B
      BY <2>1, <3>1
    <3> QED
      BY <2>2, <3>1, <3>2
  <2>8. Total(f, U) = f[y] + Total(f, V)
    BY <2>3, <2>6, SumRemove
  <2>9. Cardinality(at(U)) = Cardinality(at({y})) + Cardinality(at(V))
    <3>1. at(U) = at({y}) \cup at(V) /\ at({y}) \cap at(V) = {}
      BY <2>6
    <3>2. IsFiniteSet(at({y})) /\ IsFiniteSet(at(V))
      <4>1. at({y}) \in SUBSET D /\ at(V) \in SUBSET D
        OBVIOUS
      <4> QED
        BY <1>2, <4>1, FS_Subset
    <3>3. /\ Cardinality(at({y}) \cup at(V))
               = Cardinality(at({y})) + Cardinality(at(V)) - Cardinality(at({y}) \cap at(V))
          /\ Cardinality(at({y})) \in Nat /\ Cardinality(at(V)) \in Nat
      <4> HIDE DEF at
      <4> QED
        BY <3>2, FS_Union, FS_CardinalityType
    <3>4. Cardinality({}) = 0
      BY FS_EmptySet
    <3> HIDE DEF at
    <3>5. Cardinality(at(U)) = Cardinality(at({y}) \cup at(V))
      BY <3>1
    <3>6. Cardinality(at({y}) \cap at(V)) = 0
      BY <3>1, <3>4
    <3> QED
      BY <3>3, <3>5, <3>6
  <2>10. f[y] = Cardinality(at({y}))
    BY <1>5, <2>2, <2>5
  <2> HIDE DEF at
  <2> QED
    BY <2>2, <2>7, <2>8, <2>9, <2>10
<1>7. Total(f, T) = Cardinality(at(T))
  BY <1>6
<1>8. at(T) = D
  BY <1>3
<1> QED
  BY <1>2, <1>4, <1>5, <1>7, <1>8

-----------------------------------------------------------------------------
(* The invariant of the counts behind the bounds *)

\* The ttf of the terms, and the occurrences that are still to be indexed.
TtfOf  == [t \in Present |-> Bucket(t).ttf]
Todo   == IF pc = "index" THEN cur.todo ELSE {}
TodoTf == [t \in Todo |-> Len(Positions(cur.doc, t))]

\* No entry of a term exceeds its ttf, the documents of a list are not empty, and the
\* ttf of all terms are of tokens that were counted.
TfsOK == \A t \in Terms : \A p \in Range(List(t)) : p.tf <= Bucket(t).ttf /\ LenOf(p.doc) \in Nat \ {0}

CountsOK == Total(TtfOf, Present) + Total(TodoTf, Todo) <= total

BInv == TfsOK /\ CountsOK /\ (pc = "flushed" => docCount > 0)

\* A frequency in a list.
LEMMA ListTf ==
  ASSUME IInv, NEW t \in Terms, NEW q \in Range(List(t))
  PROVE  q.tf \in Nat
<1>1. PICK l : l = List(t)
  OBVIOUS
<1>2. l \in Seq(TermPg) /\ q \in Range(l)
  BY <1>1 DEF IInv, ListsOK, ListOK
<1>3. q \in TermPg
  BY <1>2 DEF Range
<1> QED
  BY <1>3 DEF TermPg

LEMMA PresentFacts ==
  ASSUME IInv
  PROVE  /\ IsFiniteSet(Present) /\ \A t \in Present : t \in Terms /\ TtfOf[t] \in Nat
         /\ \A t \in Present : TtfOf[t] = Bucket(t).ttf
         /\ Total(TtfOf, Present) \in Nat
<1>1. TableOK(buckets)
  BY DEF IInv, TypeOK
<1>2. PICK g : g = [s \in Slots |-> buckets[s].term]
  OBVIOUS
<1>3. PICK X : X = {buckets[s].term : s \in Slots}
  OBVIOUS
<1>4. g \in [Slots -> X] /\ \A s \in Slots : g[s] = buckets[s].term
  BY <1>2, <1>3
<1>5. IsFiniteSet(Slots)
  <2>1. HashCap \in Nat \ {0}
    BY SlotNumbers
  <2>2. IsFiniteSet(0 .. HashCap - 1)
    BY <2>1, FS_Interval
  <2> QED
    BY <2>2 DEF Slots
<1>6. IsFiniteSet({g[s] : s \in Slots})
  <2>1. PICK D : D = Slots /\ g \in [D -> X] /\ IsFiniteSet(D)
    BY <1>4, <1>5
  <2>2. IsFiniteSet({g[s] : s \in D})
    BY <2>1, RangeFinite
  <2> QED
    BY <2>1, <2>2
<1>7. IsFiniteSet(Present)
  <2>1. Present = Held(buckets)
    BY <1>1, TableNow
  <2>2. Present \subseteq {g[s] : s \in Slots}
    BY <1>4, <2>1 DEF Held
  <2> QED
    BY <1>6, <2>2, FS_Subset
<1>8. \A t \in Present : t \in Terms /\ TtfOf[t] \in Nat /\ TtfOf[t] = Bucket(t).ttf
  <2> SUFFICES ASSUME NEW t \in Present
               PROVE  t \in Terms /\ TtfOf[t] \in Nat /\ TtfOf[t] = Bucket(t).ttf
    OBVIOUS
  <2>1. t \in Terms
    BY DEF Present
  <2>2. Bucket(t) = buckets[FindIn(buckets, t)] /\ ~ FullIn(buckets, t)
    BY <1>1, <2>1, TableNow DEF Present
  <2>3. FindIn(buckets, t) \in Slots
    BY <1>1, <2>1, <2>2, LookupFinds
  <2>4. Bucket(t).ttf \in Nat
    BY <1>1, <2>2, <2>3 DEF TableOK
  <2> QED
    BY <2>1, <2>4 DEF TtfOf
<1>9. Total(TtfOf, Present) \in Nat
  BY <1>7, <1>8, SumType
<1> QED
  BY <1>7, <1>8, <1>9

LEMMA TodoFacts ==
  ASSUME IInv
  PROVE  /\ IsFiniteSet(Todo) /\ \A t \in Todo : TodoTf[t] \in Nat
         /\ Total(TodoTf, Todo) \in Nat
<1>1. CASE pc = "index"
  <2>1. Todo = cur.todo /\ cur.todo \subseteq Range(Toks[cur.doc]) /\ cur.doc \in Docs
    BY <1>1 DEF Todo, IInv, CurOK
  <2>2. PICK d \in Docs : d = cur.doc
    BY <2>1
  <2>3. PICK f : f = [t \in Range(Toks[d]) |-> Len(Positions(d, t))]
    OBVIOUS
  <2>4. \A t \in Range(Toks[d]) : f[t] = Len(Positions(d, t))
    BY <2>3
  <2>5. IsFiniteSet(Range(Toks[d])) /\ \A t \in Range(Toks[d]) : t \in Terms /\ f[t] \in Nat
    BY <2>4, TokensCounted
  <2>6. IsFiniteSet(Todo)
    BY <2>1, <2>2, <2>5, FS_Subset
  <2>7. \A t \in Todo : TodoTf[t] \in Nat
    BY <2>1, <2>2, <2>4, <2>5 DEF TodoTf
  <2> QED
    BY <2>6, <2>7, SumType
<1>2. CASE pc # "index"
  <2>1. Todo = {}
    BY <1>2 DEF Todo
  <2>2. IsFiniteSet(Todo) /\ \A t \in Todo : TodoTf[t] \in Nat
    BY <2>1, FS_EmptySet
  <2> QED
    BY <2>2, SumType
<1> QED
  BY <1>1, <1>2

\* Nothing is left to be indexed when addDocument has returned.
LEMMA NothingTodo ==
  ASSUME NEW f, NEW S, S = {}
  PROVE  Total(f, S) = 0
<1>1. IsFiniteSet(S) /\ \A x \in S : f[x] \in Nat
  BY FS_EmptySet
<1> QED
  BY <1>1, SumType

\* The table and the lists stay: so do the counts of the terms.
LEMMA CountsKept ==
  ASSUME IInv, BInv, Ranked(pages'), Grown(pages, pages'), buckets' = buckets,
         \A i \in Known : LenOf(i)' = LenOf(i)
  PROVE  TfsOK' /\ Present' = Present /\ TtfOf' = TtfOf
<1>1. /\ Present' = Present
      /\ \A t \in Terms : Bucket(t)' = Bucket(t) /\ List(t)' = List(t)
  BY ListsKept DEF IInv
<1>2. TtfOf' = TtfOf
  <2>1. \A t \in Present : t \in Terms
    BY DEF Present
  <2> QED
    BY <1>1, <2>1 DEF TtfOf
<1>3. ASSUME NEW t \in Terms, NEW p \in Range(List(t))
      PROVE  p.tf <= Bucket(t).ttf /\ LenOf(p.doc)' \in Nat \ {0}
  <2>1. p.tf <= Bucket(t).ttf /\ LenOf(p.doc) \in Nat \ {0}
    BY DEF BInv, TfsOK
  <2>2. PICK i : i = p.doc
    OBVIOUS
  <2>3. i \in Known
    BY <2>2 DEF IInv, ListsOK, ListOK
  <2>4. LenOf(i)' = LenOf(i)
    BY <2>3
  <2> QED
    BY <2>1, <2>2, <2>4
<1>4. TfsOK'
  BY <1>1, <1>3 DEF TfsOK
<1> QED
  BY <1>1, <1>2, <1>4

\* The steps that leave table and arena as they are, and an exception.
LEMMA QuietCounts ==
  ASSUME IInv, BInv, Ranked(pages'), Grown(pages, pages'), buckets' = buckets,
         len' = len, total' = total, Todo' = {} \/ (Todo' = Todo /\ cur' = cur),
         pc' = "flushed" => docCount' > 0
  PROVE  BInv'
<1>1. \A i : LenOf(i)' = LenOf(i)
  BY DEF LenOf
<1>2. TfsOK' /\ Present' = Present /\ TtfOf' = TtfOf
  BY <1>1, CountsKept
<1>3. Total(TtfOf, Present)' = Total(TtfOf, Present)
  BY <1>2
<1>4. Total(TodoTf, Todo)' \in Nat /\ Total(TodoTf, Todo)' <= Total(TodoTf, Todo)
  <2>1. Total(TodoTf, Todo) \in Nat
    BY TodoFacts
  <2>2. CASE Todo' = {}
    <3>1. Total(TodoTf', Todo') = 0
      BY <2>2, NothingTodo
    <3> QED
      BY <2>1, <3>1
  <2>3. CASE Todo' = Todo /\ cur' = cur
    <3>1. TodoTf' = TodoTf
      BY <2>3 DEF TodoTf, Positions
    <3> QED
      BY <2>1, <2>3, <3>1
  <2> QED
    BY <2>2, <2>3
<1>5. Total(TtfOf, Present) \in Nat /\ Total(TodoTf, Todo) \in Nat /\ total \in Nat
  BY PresentFacts, TodoFacts DEF IInv, TypeOK
<1>6. CountsOK'
  BY <1>3, <1>4, <1>5 DEF BInv, CountsOK
<1> QED
  BY <1>2, <1>6 DEF BInv

\* addDocument counts the tokens before it indexes them.
LEMMA AddDocumentCounts == ASSUME IInv, BInv, NEW d \in Docs, AddDocument(d) PROVE BInv'
<1>1. pc = "idle" /\ buckets' = buckets /\ Todo = {}
  BY DEF AddDocument, Todo
<1>2. CASE ~ StoredFits(d)
  <2>1. UNCHANGED <<pages, len, total, pc>>
    BY <1>2 DEF AddDocument
  <2>2. Ranked(pages') /\ Grown(pages, pages')
    BY <2>1 DEF IInv, TypeOK, Grown
  <2>3. Todo' = {}
    BY <1>1, <2>1 DEF Todo
  <2> QED
    BY <1>1, <2>1, <2>2, <2>3, QuietCounts
<1>3. CASE StoredFits(d)
  <2>1. pages' = pages \o StoredChain(d)
    BY <1>3 DEF AddDocument
  <2>2. Ranked(pages') /\ Grown(pages, pages')
    BY <2>1, StoredPages
  <2>3. CASE Toks[d] = <<>>
    <3>1. UNCHANGED <<len, total, pc>>
      BY <1>3, <2>3 DEF AddDocument
    <3>2. Todo' = {}
      BY <1>1, <3>1 DEF Todo
    <3> QED
      BY <1>1, <2>2, <3>1, <3>2, QuietCounts
  <2>4. CASE Toks[d] # <<>>
    <3>1. /\ len' = With(len, nextId, Len(Toks[d])) /\ total' = total + Len(Toks[d])
          /\ cur' = [doc |-> d, id |-> nextId, todo |-> Range(Toks[d])] /\ pc' = "index"
      BY <1>3, <2>4 DEF AddDocument
    <3>2. \A i \in Known : LenOf(i)' = LenOf(i)
      <4>1. nextId \notin Known
        BY DEF IInv, IdsOK, TypeOK
      <4>2. \A i \in Known : i # nextId
        BY <4>1
      <4> QED
        BY <3>1, <4>2 DEF LenOf, With
    <3>3. TfsOK' /\ Present' = Present /\ TtfOf' = TtfOf
      BY <1>1, <2>2, <3>2, CountsKept
    <3>4. PICK f : f = TodoTf'
      OBVIOUS
    <3>5. Todo' = Range(Toks[d]) /\ \A t \in Range(Toks[d]) : f[t] = Len(Positions(d, t))
      <4>1. cur'.doc = d /\ cur'.todo = Range(Toks[d])
        BY <3>1
      <4>2. Todo' = Range(Toks[d])
        BY <3>1, <4>1 DEF Todo
      <4>3. \A t : Positions(d, t)' = Positions(d, t)
        BY DEF Positions
      <4> QED
        BY <3>4, <4>1, <4>2, <4>3 DEF TodoTf
    <3>6. Total(f, Range(Toks[d])) = Len(Toks[d])
      BY <3>5, TokensCounted
    <3>7. Total(TodoTf, Todo)' = Len(Toks[d])
      BY <3>4, <3>5, <3>6
    <3>8. Total(TodoTf, Todo) = 0
      BY <1>1, NothingTodo
    <3>9. Total(TtfOf, Present)' = Total(TtfOf, Present)
      BY <3>3
    <3>10. Total(TtfOf, Present) <= total
      <4>1. Total(TtfOf, Present) + 0 <= total
        BY <3>8 DEF BInv, CountsOK
      <4>2. Total(TtfOf, Present) \in Nat
        BY PresentFacts
      <4> QED
        BY <4>1, <4>2
    <3>11. Total(TtfOf, Present) \in Nat /\ total \in Nat /\ Len(Toks[d]) \in Nat
      <4>1. Toks[d] \in Seq(Terms)
        BY MemorySegmentAssumption
      <4> QED
        BY <4>1, PresentFacts DEF IInv, TypeOK
    <3>12. CountsOK'
      <4>1. Total(TtfOf, Present) + Len(Toks[d]) <= total + Len(Toks[d])
        BY <3>10, <3>11
      <4> QED
        BY <3>1, <3>7, <3>9, <4>1 DEF CountsOK
    <3> QED
      BY <3>1, <3>3, <3>12 DEF BInv
  <2> QED
    BY <2>3, <2>4
<1> QED
  BY <1>2, <1>3

\* indexField moves the occurrences of a term from those to be indexed to its ttf.
LEMMA IndexTermCounts == ASSUME IInv, BInv, NEW t \in Terms, IndexTerm(t) PROVE BInv'
<1>0. PICK p, s, l, n : /\ p = TermPage(t) /\ s = Positions(cur.doc, t) /\ l = List(t)
                        /\ n = Len(s)
  OBVIOUS
<1>1. /\ pc = "index" /\ t \in cur.todo /\ ~ TableFull(t) /\ len' = len /\ total' = total
      /\ Todo = cur.todo
  BY DEF IndexTerm, Todo
<1>2. p \in TermPg /\ p.doc = cur.id /\ p.tf = n /\ n \in Nat \ {0}
  <2>1. n \in Nat \ {0}
    BY <1>0, <1>1, NeededFacts
  <2> QED
    BY <1>0, <1>1, <2>1, TermPageFacts
<1>3. /\ Present' = Present \cup {t}
      /\ \A u \in Present : u # t => Bucket(u)' = Bucket(u)
  BY IndexTermTable
<1>4. /\ Bucket(t)'.ttf = Bucket(t).ttf + n /\ Bucket(t).ttf \in Nat
      /\ t \notin Present => Bucket(t).ttf = 0
  <2>1. Bucket(t)'.ttf = Bucket(t).ttf + TermPage(t).tf
    BY IndexTermTable
  <2>2. Bucket(t).ttf \in Nat /\ (t \notin Present => Bucket(t).ttf = 0)
    BY <1>1, BucketFacts
  <2> QED
    BY <1>0, <1>2, <2>1, <2>2
<1>5. TfsOK'
  <2>1. /\ IsFront(List(t)', p, l) /\ \A u \in Terms : u # t => List(u)' = List(u)
    BY <1>0, IndexTermLists, Zenon DEF IsFront
  <2>2. Range(List(t)') = {p} \cup Range(l)
    <3>1. l \in Seq(TermPg)
      BY <1>0 DEF IInv, ListsOK, ListOK
    <3> QED
      BY <1>2, <2>1, <3>1, FrontFacts
  <2>3. \A i : LenOf(i)' = LenOf(i)
    BY <1>1 DEF LenOf
  <2>4. ASSUME NEW u \in Terms, NEW q \in Range(List(u))
        PROVE  q.tf <= Bucket(u)'.ttf /\ LenOf(q.doc) \in Nat \ {0}
    <3>1. q.tf <= Bucket(u).ttf /\ LenOf(q.doc) \in Nat \ {0}
      BY DEF BInv, TfsOK
    <3>2. CASE u = t
      <4>1. q.tf \in Nat
        BY ListTf
      <4> QED
        BY <1>2, <1>4, <3>1, <3>2, <4>1
    <3>3. CASE u # t
      <4>1. u \in Present
        <5>1. Range(<<>>) = {}
          BY DEF Range
        <5> QED
          BY <5>1 DEF List
      <4> QED
        BY <1>3, <3>1, <3>3, <4>1
    <3> QED
      BY <3>2, <3>3
  <2>5. p.tf <= Bucket(t)'.ttf /\ LenOf(p.doc) \in Nat \ {0}
    <3>1. Filed(cur.id, cur.doc)
      BY <1>1 DEF IInv, CurOK
    <3>2. LenOf(p.doc) = Len(Toks[cur.doc])
      BY <1>2, <3>1 DEF Filed
    <3>3. cur.doc \in Docs /\ t \in Range(Toks[cur.doc])
      BY <1>1, NeededFacts
    <3>4. Toks[cur.doc] \in Seq(Terms)
      BY <3>3, MemorySegmentAssumption
    <3>5. Len(Toks[cur.doc]) \in Nat \ {0}
      BY <3>3, <3>4 DEF Range
    <3> QED
      BY <1>2, <1>4, <3>2, <3>5
  <2>6. ASSUME NEW u \in Terms, NEW q \in Range(List(u)')
        PROVE  q.tf <= Bucket(u)'.ttf /\ LenOf(q.doc)' \in Nat \ {0}
    <3>1. (q = p /\ u = t) \/ q \in Range(List(u))
      BY <1>0, <2>1, <2>2
    <3>2. PICK i : i = q.doc
      OBVIOUS
    <3>3. LenOf(i)' = LenOf(i)
      BY <2>3
    <3> QED
      BY <2>4, <2>5, <3>1, <3>2, <3>3
  <2> QED
    BY <2>6 DEF TfsOK
<1>6. CountsOK'
  <2>1. PICK P, F, D, G, b : /\ P = Present /\ F = TtfOf /\ D = Todo /\ G = TodoTf
                             /\ b = Bucket(t).ttf
    OBVIOUS
  <2>2. PICK F2, D2, G2 : F2 = TtfOf' /\ D2 = Todo' /\ G2 = TodoTf'
    OBVIOUS
  <2>3. /\ IsFiniteSet(P) /\ \A x \in P : x \in Terms /\ F[x] \in Nat /\ F[x] = Bucket(x).ttf
        /\ IsFiniteSet(D) /\ \A x \in D : G[x] \in Nat
    BY <2>1, PresentFacts, TodoFacts
  <2>4. Present' = P \cup {t} /\ IsFiniteSet(P \cup {t})
    BY <1>3, <2>1, <2>3, FS_AddElement
  <2>5. F2[t] = b + n /\ \A x \in P \ {t} : F2[x] = F[x]
    <3>1. \A x \in P \cup {t} : F2[x] = Bucket(x)'.ttf
      <4>1. F2 = [x \in Present' |-> Bucket(x)'.ttf]
        BY <2>2 DEF TtfOf
      <4> QED
        BY <2>4, <4>1
    <3> QED
      BY <1>3, <1>4, <2>1, <2>3, <3>1
  <2>6. Total(F, P) = b + Total(F, P \ {t})
    <3>1. CASE t \in P
      <4>1. Total(F, P) = F[t] + Total(F, P \ {t})
        BY <2>3, <3>1, SumRemove
      <4> QED
        BY <2>1, <2>3, <3>1, <4>1
    <3>2. CASE t \notin P
      <4>1. P \ {t} = P /\ b = 0
        BY <1>4, <2>1, <3>2
      <4>2. Total(F, P) \in Nat
        BY <2>3, SumType
      <4> QED
        BY <4>1, <4>2
    <3> QED
      BY <3>1, <3>2
  <2>7. Total(F2, P \cup {t}) = b + n + Total(F, P \ {t})
    <3>1. IsFiniteSet(P \ {t}) /\ P \ {t} = (P \cup {t}) \ {t}
      BY <2>3, FS_RemoveElement
    <3>2. b \in Nat /\ b + n \in Nat
      BY <1>2, <1>4, <2>1
    <3>3. \A x \in P \cup {t} : F2[x] \in Nat
      BY <2>3, <2>5, <3>2
    <3>4. Total(F2, P \cup {t}) = F2[t] + Total(F2, P \ {t})
      <4>1. t \in P \cup {t}
        OBVIOUS
      <4>2. Total(F2, P \cup {t}) = F2[t] + Total(F2, (P \cup {t}) \ {t})
        BY <2>4, <3>3, <4>1, SumRemove
      <4> QED
        BY <3>1, <4>2
    <3>5. Total(F2, P \ {t}) = Total(F, P \ {t})
      <4>1. \A x \in P \ {t} : F2[x] \in Nat /\ F[x] \in Nat /\ F2[x] = F[x]
        BY <2>3, <2>5
      <4> QED
        BY <3>1, <4>1, SumSame
    <3> QED
      BY <2>5, <3>4, <3>5
  <2>8. Total(G, D) = n + Total(G, D \ {t})
    <3>1. G[t] = n /\ t \in D
      BY <1>0, <1>1, <2>1 DEF TodoTf
    <3>2. Total(G, D) = G[t] + Total(G, D \ {t})
      BY <2>3, <3>1, SumRemove
    <3> QED
      BY <3>1, <3>2
  <2>9. Total(G2, D2) = Total(G, D \ {t})
    <3>1. IsFiniteSet(D \ {t})
      BY <2>3, FS_RemoveElement
    <3>2. CASE cur.todo = {t}
      <4>1. pc' = "idle"
        BY <3>2 DEF IndexTerm
      <4>2. D2 = {}
        BY <2>2, <4>1 DEF Todo
      <4>3. D \ {t} = {}
        BY <1>1, <2>1, <3>2
      <4> QED
        BY <4>2, <4>3, NothingTodo
    <3>3. CASE cur.todo # {t}
      <4>1. /\ cur' = [cur EXCEPT !.todo = @ \ {t}] /\ pc' = "index"
            /\ cur = [doc |-> cur.doc, id |-> cur.id, todo |-> cur.todo]
        BY <1>1, <3>3 DEF IndexTerm, IInv, CurOK
      <4>2. cur'.doc = cur.doc /\ cur'.todo = cur.todo \ {t}
        BY <4>1
      <4>3. D2 = D \ {t}
        BY <1>1, <2>1, <2>2, <4>1, <4>2 DEF Todo
      <4>4. \A x \in D2 : G2[x] = G[x]
        <5>1. \A x : Positions(cur.doc, x)' = Positions(cur.doc, x)
          BY <4>2 DEF Positions
        <5>2. G2 = [x \in D2 |-> Len(Positions(cur.doc, x))]
          BY <2>2, <5>1 DEF TodoTf
        <5>3. G = [x \in D |-> Len(Positions(cur.doc, x))]
          BY <2>1 DEF TodoTf
        <5> QED
          BY <4>3, <5>2, <5>3
      <4>5. \A x \in D \ {t} : G2[x] \in Nat /\ G[x] \in Nat /\ G2[x] = G[x]
        BY <2>3, <4>3, <4>4
      <4>6. Total(G2, D \ {t}) = Total(G, D \ {t})
        BY <3>1, <4>5, SumSame
      <4> QED
        BY <4>3, <4>6
    <3> QED
      BY <3>2, <3>3
  <2>10. Total(F, P \ {t}) \in Nat /\ Total(G, D \ {t}) \in Nat
    <3>1. IsFiniteSet(P \ {t}) /\ IsFiniteSet(D \ {t})
      BY <2>3, FS_RemoveElement
    <3>2. (\A x \in P \ {t} : F[x] \in Nat) /\ (\A x \in D \ {t} : G[x] \in Nat)
      BY <2>3
    <3> QED
      BY <3>1, <3>2, SumType
  <2>11. Total(F, P) + Total(G, D) <= total
    BY <2>1 DEF BInv, CountsOK
  <2>12. Total(F2, P \cup {t}) + Total(G2, D2) <= total
    BY <1>2, <1>4, <2>1, <2>6, <2>7, <2>8, <2>9, <2>10, <2>11
  <2> QED
    BY <1>1, <2>2, <2>4, <2>12 DEF CountsOK
<1>7. pc' # "flushed"
  BY <1>1 DEF IndexTerm
<1> QED
  BY <1>5, <1>6, <1>7 DEF BInv

LEMMA OtherCounts ==
  ASSUME IInv, IInv', BInv
  PROVE  /\ \A t \in Terms : IndexTermThrows(t) \/ Search(t) => BInv'
         /\ FlushToDisk \/ UNCHANGED vars => BInv'
<1>1. ASSUME NEW t \in Terms, IndexTermThrows(t) PROVE BInv'
  <2>1. buckets' = buckets /\ len' = len /\ total' = total /\ pc' = "idle"
    BY <1>1 DEF IndexTermThrows
  <2>2. Ranked(pages') /\ Grown(pages, pages')
    BY <1>1, ThrowPages
  <2>3. Todo' = {}
    BY <2>1 DEF Todo
  <2> QED
    BY <2>1, <2>2, <2>3, QuietCounts
<1>2. ASSUME UNCHANGED <<pages, buckets, len, total, docCount, cur>>,
             pc' = pc \/ (pc = "idle" /\ pc' = "flushed" /\ docCount > 0)
      PROVE  BInv'
  <2>1. Ranked(pages') /\ Grown(pages, pages')
    BY <1>2 DEF IInv, TypeOK, Grown
  <2>2. Todo' = Todo
    BY <1>2 DEF Todo
  <2>3. pc' = "flushed" => docCount' > 0
    BY <1>2 DEF BInv
  <2> QED
    BY <1>2, <2>1, <2>2, <2>3, QuietCounts
<1>3. \A t \in Terms : Search(t) => BInv'
  BY <1>2 DEF Search
<1>4. FlushToDisk => BInv'
  BY <1>2 DEF FlushToDisk
<1>5. UNCHANGED vars => BInv'
  BY <1>2 DEF vars
<1> QED
  BY <1>1, <1>3, <1>4, <1>5

LEMMA FreshCounts == Fresh => BInv
<1> SUFFICES ASSUME Fresh PROVE BInv
  OBVIOUS
<1>1. IInv
  BY FreshHolds
<1>2. Present = {} /\ Todo = {} /\ total = 0 /\ pc = "idle"
  <2>1. Present = {}
    <3>1. \A s \in Slots : buckets[s].term = ""
      <4>1. buckets = [s \in Slots |-> Free] /\ Free.term = ""
        BY DEF Fresh, Slots, Free
      <4> QED
        BY <4>1
    <3>2. Held(buckets) = {}
      BY <3>1, NoEmptyTerm DEF Held
    <3> QED
      BY <1>1, <3>2, TableNow DEF IInv, TypeOK
  <2> QED
    BY <2>1 DEF Fresh, Todo
<1>3. Total(TtfOf, Present) = 0 /\ Total(TodoTf, Todo) = 0
  BY <1>2, NothingTodo
<1>4. TfsOK
  <2>1. \A t \in Terms : List(t) = <<>>
    BY <1>2 DEF List
  <2>2. Range(<<>>) = {}
    BY DEF Range
  <2> QED
    BY <2>1, <2>2 DEF TfsOK
<1> QED
  BY <1>2, <1>3, <1>4 DEF BInv, CountsOK

LEMMA CountsStep == ASSUME IInv, BInv, [Next]_vars PROVE BInv'
<1>0. IInv'
  BY NextKeeps
<1>1. CASE \E d \in Docs : AddDocument(d)
  BY <1>1, AddDocumentCounts
<1>2. ASSUME NEW t \in Terms, IndexTerm(t) \/ IndexTermThrows(t) \/ Search(t) PROVE BInv'
  BY <1>0, <1>2, IndexTermCounts, OtherCounts
<1>3. CASE FlushToDisk \/ UNCHANGED vars
  BY <1>0, <1>3, OtherCounts
<1>4. CASE Reset
  <2>1. Fresh'
    BY <1>4 DEF Reset, Fresh
  <2>2. (Fresh => BInv)'
    BY FreshCounts, PTL
  <2> QED
    BY <2>1, <2>2
<1> QED
  BY <1>1, <1>2, <1>3, <1>4 DEF Next

\* Both invariants hold throughout.
LEMMA CountsHold == Spec => [](IInv /\ BInv)
<1>1. Init => IInv /\ BInv
  <2>1. Init => Fresh
    BY DEF Init, Fresh
  <2> QED
    BY <2>1, InitHolds, FreshCounts
<1>2. (IInv /\ BInv) /\ [Next]_vars => (IInv /\ BInv)'
  BY NextKeeps, CountsStep
<1> QED
  BY <1>1, <1>2, PTL DEF Spec

\* The bound from memory is one.
LEMMA MemoryBounds ==
  ASSUME IInv, BInv, NEW t \in Present, NEW p \in Range(TermPages(t))
  PROVE  AtMost(Factor(p.tf, LenOf(p.doc), MemAverage), ComputedBound(t))
<1>1. t \in Terms /\ List(t) = TermPages(t) /\ List(t) \in Seq(TermPg)
  BY TermListFacts
<1>2. PICK f, dl, ttf : f = p.tf /\ dl = LenOf(p.doc) /\ ttf = Bucket(t).ttf
  OBVIOUS
<1>3. f <= ttf /\ dl \in Nat \ {0}
  BY <1>1, <1>2 DEF BInv, TfsOK
<1>4. f \in Nat
  <2>1. p \in Range(List(t))
    BY <1>1
  <2> QED
    BY <1>1, <1>2, <2>1, ListTf
<1>5. ttf \in Nat
  BY <1>2, PresentFacts
<1>6. PICK a \in Nat, b \in Nat \ {0} : MemAverage = <<a, b>>
  <2>1. docCount \in Nat /\ total \in Nat
    BY DEF IInv, TypeOK
  <2>2. CASE docCount = 0
    <3>1. MemAverage = <<1, 1>> /\ 1 \in Nat \ {0}
      BY <2>2 DEF MemAverage
    <3> QED
      BY <3>1
  <2>3. CASE docCount # 0
    <3>1. MemAverage = <<total, docCount>> /\ docCount \in Nat \ {0}
      BY <2>1, <2>3 DEF MemAverage
    <3> QED
      BY <2>1, <3>1
  <2> QED
    BY <2>2, <2>3
<1>7. ComputedBound(t) = Factor(ttf, 1, AtLeastOne(<<a, b>>))
  BY <1>2, <1>6 DEF ComputedBound
<1>8. AtMost(Factor(f, dl, <<a, b>>), Factor(ttf, 1, AtLeastOne(<<a, b>>)))
  BY <1>3, <1>4, <1>5, MemoryFactor
<1> QED
  BY <1>2, <1>6, <1>7, <1>8

\* flushToDisk's bound is one of the exact factors, and none of them exceeds it.
LEMMA FlushBounds ==
  ASSUME IInv, BInv, pc = "flushed", NEW t \in Terms, NEW p \in Range(List(t))
  PROVE  /\ t \in Present /\ FlushBound(t) \in Fraction
         /\ p.tf \in Nat /\ LenOf(p.doc) \in Nat \ {0}
         /\ docCount \in Nat \ {0} /\ total \in Nat
         /\ Factor(p.tf, LenOf(p.doc), <<total, docCount>>) \in Fraction
         /\ AtMost(Factor(p.tf, LenOf(p.doc), <<total, docCount>>), FlushBound(t))
<1> DEFINE of(q) == Factor(q.tf, LenOf(q.doc), <<total, docCount>>)
           F == {of(q) : q \in Range(List(t))}
<1>1. t \in Present
  <2>1. Range(<<>>) = {}
    BY DEF Range
  <2> QED
    BY <2>1 DEF List
<1>2. List(t) = TermPages(t) /\ List(t) \in Seq(TermPg)
  BY <1>1, TermListFacts
<1>3. docCount \in Nat \ {0} /\ total \in Nat
  BY DEF BInv, IInv, TypeOK
<1>4. ASSUME NEW q \in Range(List(t))
      PROVE  q.tf \in Nat /\ LenOf(q.doc) \in Nat \ {0} /\ of(q) \in Fraction
  <2>1. q.tf \in Nat
    BY ListTf
  <2>2. LenOf(q.doc) \in Nat \ {0}
    BY DEF BInv, TfsOK
  <2>3. PICK f \in Nat, dl \in Nat \ {0} : f = q.tf /\ dl = LenOf(q.doc)
    BY <2>1, <2>2
  <2>4. Factor(f, dl, <<total, docCount>>) \in Fraction
    BY <1>3, FactorType
  <2> QED
    BY <2>1, <2>2, <2>3, <2>4
<1> HIDE DEF of
<1>5. IsFiniteSet(F) /\ F \in SUBSET Fraction /\ of(p) \in F
  <2>1. F \in SUBSET Fraction /\ of(p) \in F
    BY <1>4
  <2>2. PICK l \in Seq(TermPg) : l = List(t)
    BY <1>2
  <2>3. PICK g : g = [k \in 1 .. Len(l) |-> of(l[k])]
    OBVIOUS
  <2>4. F = {g[k] : k \in 1 .. Len(l)}
    <3>1. Range(l) = {l[k] : k \in 1 .. Len(l)}
      BY DEF Range
    <3> QED
      BY <2>2, <2>3, <3>1
  <2>5. IsFiniteSet(1 .. Len(l))
    <3>1. Len(l) \in Nat
      OBVIOUS
    <3> QED
      BY <3>1, FS_Interval
  <2>6. g \in [1 .. Len(l) -> F]
    BY <2>3, <2>4
  <2>7. IsFiniteSet({g[k] : k \in 1 .. Len(l)})
    <3> HIDE DEF F
    <3> QED
      BY <2>5, <2>6, RangeFinite
  <2> QED
    BY <2>1, <2>4, <2>7
<1>6. FlushBound(t) = CHOOSE x \in F : \A y \in F : AtMost(y, x)
  BY <1>2, Zenon DEF FlushBound, of
<1> HIDE DEF F
<1>7. \E x \in F : \A y \in F : AtMost(y, x)
  <2>1. F # {}
    BY <1>5
  <2> QED
    BY <1>5, <2>1, GreatestFraction
<1>8. FlushBound(t) \in F /\ \A y \in F : AtMost(y, FlushBound(t))
  BY <1>6, <1>7
<1>9. AtMost(of(p), FlushBound(t)) /\ FlushBound(t) \in Fraction
  BY <1>5, <1>8
<1> QED
  BY <1>1, <1>3, <1>4, <1>9, Zenon DEF of

\* The average from the files is not above the one flushToDisk worked with.
LEMMA DiskAverageFacts ==
  ASSUME IInv, BInv, pc = "flushed"
  PROVE  \E a \in Nat : a <= total /\ DiskAverage = <<a, docCount>>
<1>1. file.ttf = TtfOf /\ file.docs = docCount
  BY DEF IInv, FileOK, TtfOf
<1>2. FoldFunction(LAMBDA x, y : x + y, 0, TtfOf) = Total(TtfOf, DOMAIN TtfOf)
  BY Zenon DEF FoldFunction, FoldFunctionOnSet, MapThenFoldSet, Total
<1>3. DOMAIN TtfOf = Present
  BY DEF TtfOf
<1>4. DiskAverage = <<Total(TtfOf, Present), docCount>>
  BY <1>1, <1>2, <1>3, Zenon DEF DiskAverage
<1>5. Total(TtfOf, Present) \in Nat /\ Total(TtfOf, Present) <= total
  <2>1. Todo = {}
    BY DEF Todo
  <2>2. Total(TodoTf, Todo) = 0
    BY <2>1, NothingTodo
  <2>3. Total(TtfOf, Present) + 0 <= total
    BY <2>2 DEF BInv, CountsOK
  <2>4. Total(TtfOf, Present) \in Nat
    BY PresentFacts
  <2> QED
    BY <2>3, <2>4
<1> QED
  BY <1>4, <1>5

\* The bound from disk is one for the entries and lengths the reader sees.
LEMMA DiskBounds ==
  ASSUME IInv, BInv, pc = "flushed", NEW t \in Terms, NEW e \in Range(DiskPostings(t)),
         DiskAlive(e.doc), LenOf(e.doc) <= LenCap
  PROVE  AtMost(Factor(e.tf, DiskLen(e.doc), DiskAverage), file.bound[t])
<1>1. PICK p \in Range(List(t)) : e = Shown(p)
  BY ShownFacts
<1>2. e.doc = p.doc /\ e.tf = Least(p.tf, TfCap)
  BY <1>1 DEF Shown
<1>3. PICK f, dl, i : f = p.tf /\ i = p.doc /\ dl = LenOf(i)
  OBVIOUS
<1>4. /\ t \in Present /\ FlushBound(t) \in Fraction /\ f \in Nat /\ dl \in Nat \ {0}
      /\ docCount \in Nat \ {0} /\ total \in Nat
      /\ Factor(f, dl, <<total, docCount>>) \in Fraction
      /\ AtMost(Factor(f, dl, <<total, docCount>>), FlushBound(t))
  BY <1>3, FlushBounds
<1>5. /\ file.bound[t] = FlushBound(t) /\ file.docs = docCount
      /\ file.len = [k \in 1 .. docCount |-> Least(LenOf(k), LenCap)]
  BY <1>4 DEF IInv, FileOK
<1>6. DiskLen(i) = dl
  <2>1. i \in 1 .. docCount /\ DiskAlive(i)
    BY <1>2, <1>3, <1>5 DEF DiskAlive
  <2>2. DiskLen(i) = Least(dl, LenCap)
    BY <1>3, <1>5, <2>1 DEF DiskLen
  <2>3. dl <= LenCap /\ LenCap \in Nat \ {0}
    BY <1>2, <1>3, Constants
  <2> QED
    BY <1>4, <2>2, <2>3 DEF Least
<1>7. PICK g \in Nat : g = e.tf /\ g <= f
  <2>1. TfCap \in Nat \ {0}
    BY Constants
  <2> QED
    BY <1>2, <1>3, <1>4, <2>1 DEF Least
<1>8. PICK a \in Nat : a <= total /\ DiskAverage = <<a, docCount>>
  BY DiskAverageFacts
<1>9. AtMost(Factor(g, dl, <<a, docCount>>), Factor(f, dl, <<total, docCount>>))
  BY <1>4, <1>7, <1>8, DiskFactor
<1>10. Factor(g, dl, <<a, docCount>>) \in Fraction
  BY <1>4, FactorType
<1>11. AtMost(Factor(g, dl, <<a, docCount>>), FlushBound(t))
  BY <1>4, <1>9, <1>10, AtMostOrders
<1> QED
  BY <1>2, <1>3, <1>5, <1>6, <1>7, <1>8, <1>11

\* BoundsHold: no entry of a list scores above the bound of its term, neither from
\* memory with the bound of the moment nor from the files.
THEOREM BoundsHoldHolds == Spec => []BoundsHold
<1>1. IInv /\ BInv => BoundsHold
  <2> SUFFICES ASSUME IInv, BInv PROVE BoundsHold
    OBVIOUS
  <2> QED
    BY MemoryBounds, DiskBounds DEF BoundsHold
<1> QED
  BY <1>1, CountsHold, PTL
=============================================================================
