-------------------------- MODULE ParallelBuildProofs --------------------------
(***************************************************************************)
(* Proofs about ParallelBuild, for any number of callers, workers and       *)
(* documents, any capacity of the queue and any number of groups: from the  *)
(* push that accepts it a document is in one place, after commit() it is in *)
(* exactly one segment, and merged postings lead to their documents where   *)
(* every id is below 2^20.                                                  *)
(***************************************************************************)
EXTENDS ParallelBuild, DataLemmas

-----------------------------------------------------------------------------
(* The inductive invariant *)

Group == [ids : Seq(Nat), out : Nat, state : {"begin", "written", "done"}]

Stored(s)  == ToSet(dirs[s].stored)
Sources(g) == ToSet(groups[g].ids)
Out(g)     == groups[g].out
State(g)   == groups[g].state

TypeOK ==
  /\ buf \in Seq(Docs) /\ Len(buf) <= Capacity /\ closed \in BOOLEAN
  /\ offered \in [Producers -> Docs \cup {NoDoc}] /\ accepted \in SUBSET Docs
  /\ wpc \in [Workers -> {"pop", "process", "flush", "last", "exited"}]
  /\ hand \in [Workers -> Docs \cup {NoDoc}]
  /\ stored \in [Workers -> Seq(Docs)] /\ count \in [Workers -> Nat]
  /\ flushed \in [Workers -> SUBSET Nat]
  /\ DOMAIN docId \in SUBSET Docs /\ IsFiniteSet(DOMAIN docId)
  /\ nextDocId \in Nat /\ nextSegId \in Nat
  /\ DOMAIN dirs \in SUBSET Nat
  /\ \A s \in DOMAIN dirs :
       /\ dirs[s] = [stored |-> dirs[s].stored, post |-> dirs[s].post, done |-> dirs[s].done]
       /\ dirs[s].stored \in Seq(Docs) /\ dirs[s].done \in BOOLEAN
  /\ cpc \in {"open", "join", "merge", "done"}
  /\ groups \in Seq(Group) /\ finalIds \in SUBSET Nat

\* A worker has a document in hand while it processes it, and leaves its loop
\* only when the queue is closed and empty; then it has flushed what has terms.
WorkersInStep ==
  \A w \in Workers :
    /\ hand[w] # NoDoc <=> wpc[w] = "process"
    /\ wpc[w] \in {"last", "exited"} => closed /\ buf = <<>>
    /\ wpc[w] = "exited" => ToSet(stored[w]) \subseteq Termless

\* Once commit() has closed the queue, nobody offers a document; what is being
\* offered is not accepted yet, and no two callers offer the same.
CommitInStep ==
  /\ closed <=> cpc # "open"
  /\ cpc # "open" => \A p \in Producers : offered[p] = NoDoc
  /\ cpc \in {"merge", "done"} => \A w \in Workers : wpc[w] = "exited"

OfferedOnce ==
  \A p \in Producers : offered[p] # NoDoc =>
    /\ offered[p] \notin accepted
    /\ \A q \in Producers : offered[q] = offered[p] => q = p

\* The places a document may be in.
Queued(d)   == {i \in DOMAIN buf : buf[i] = d}
InHand(d)   == {w \in Workers : hand[w] = d}
Buffered(d) == UNION {{w} \X {i \in DOMAIN stored[w] : stored[w][i] = d} : w \in Workers}
Finished(d) == {s \in DOMAIN dirs : d \in Stored(s) /\ dirs[s].done}

Single(S) == \E x : S = {x}

OnePlace(d) ==
  \/ Single(Queued(d)) /\ InHand(d) = {} /\ Buffered(d) = {} /\ Finished(d) = {}
  \/ Queued(d) = {} /\ Single(InHand(d)) /\ Buffered(d) = {} /\ Finished(d) = {}
  \/ Queued(d) = {} /\ InHand(d) = {} /\ Single(Buffered(d)) /\ Finished(d) = {}
  \/ Queued(d) = {} /\ InHand(d) = {} /\ Buffered(d) = {} /\ Single(Finished(d))

NoPlace(d) == Queued(d) = {} /\ InHand(d) = {} /\ Buffered(d) = {} /\ Finished(d) = {}

Placed == \A d \in Docs : IF d \in accepted THEN OnePlace(d) ELSE NoPlace(d)

\* No two documents have the same id.
Numbered ==
  \A d \in DOMAIN docId :
    /\ docId[d] \in Nat /\ docId[d] < nextDocId
    /\ \A e \in DOMAIN docId : docId[e] = docId[d] => e = d

\* The counters count the documents that have left the queue and the hands.
Counted ==
  /\ nextDocId = Cardinality(DOMAIN docId) + 1
  /\ \A d \in Docs : d \in DOMAIN docId <=> d \in accepted /\ Queued(d) = {} /\ InHand(d) = {}
  /\ Total(count, Workers) = Cardinality(DOMAIN docId)
  /\ Numbered

\* A search finds each document of a segment by the id in its postings, if the
\* segment has no other one whose id is equal modulo 2^20.
Readable(s) == \A d \in Stored(s) \ Termless : Findable(d, s) \/ Aliased(d, s)

\* Before the merges the directories are the workers' segments.
BeforeMerge ==
  cpc \in {"open", "join"} =>
    /\ groups = <<>> /\ DOMAIN dirs = TempSegIds
    /\ \A s \in DOMAIN dirs : dirs[s].done /\ s < nextSegId

\* The groups deal out the temporary segments, and every output is new.
GroupsApart ==
  /\ \A g, h \in DOMAIN groups : g # h => Out(g) # Out(h) /\ Sources(g) \cap Sources(h) = {}
  /\ \A g, h \in DOMAIN groups : Out(g) \notin Sources(h)

\* How far each merge is.
GroupInStep(g) ==
  /\ State(g) = "begin" => Out(g) \notin DOMAIN dirs
  /\ State(g) # "begin" => Out(g) \in DOMAIN dirs /\ Readable(Out(g))
  /\ State(g) = "written" => /\ ~ dirs[Out(g)].done
                             /\ Stored(Out(g)) = UNION {Stored(s) : s \in Sources(g)}
  /\ State(g) = "done" => dirs[Out(g)].done
  /\ State(g) # "done" => \A s \in Sources(g) : s \in DOMAIN dirs /\ dirs[s].done

GroupsInStep == \A g \in DOMAIN groups : GroupInStep(g)

DuringMerge ==
  cpc = "merge" =>
    \A s \in DOMAIN dirs :
      \/ \E g \in DOMAIN groups : s \in Sources(g) /\ State(g) # "done"
      \/ \E g \in DOMAIN groups : s = Out(g) /\ State(g) # "begin"

AfterMerge ==
  cpc = "done" =>
    /\ DOMAIN dirs = finalIds /\ \A s \in DOMAIN dirs : dirs[s].done
    /\ groups # <<>> => \A s \in finalIds : Readable(s)

IInv == /\ TypeOK /\ WorkersInStep /\ CommitInStep /\ OfferedOnce /\ Placed /\ Counted
        /\ BeforeMerge /\ GroupsApart /\ GroupsInStep /\ DuringMerge /\ AfterMerge

-----------------------------------------------------------------------------
(* Lemmas about sequences *)

LEMMA Basics ==
  /\ Capacity \in Nat \ {0} /\ IsFiniteSet(Workers) /\ Workers # {}
  /\ NoDoc \notin Docs /\ SmallTotal \in Nat \ {0} /\ Termless \in SUBSET Docs
  /\ IdSpan \in Nat \ {0}
BY CapacityAssumption, BuildAssumption

\* The documents of a sequence, and of one with a document more.
LEMMA AppendFacts ==
  ASSUME NEW S, NEW s \in Seq(S), NEW x \in S
  PROVE  /\ Append(s, x) \in Seq(S) /\ ToSet(s) \in SUBSET S
         /\ ToSet(Append(s, x)) = ToSet(s) \cup {x}
         /\ DOMAIN Append(s, x) = DOMAIN s \cup {Len(s) + 1} /\ Len(s) + 1 \notin DOMAIN s
         /\ Append(s, x)[Len(s) + 1] = x
         /\ \A i \in DOMAIN s : Append(s, x)[i] = s[i]
<1>1. /\ Append(s, x) \in Seq(S) /\ Len(Append(s, x)) = Len(s) + 1 /\ Len(s) \in Nat
      /\ DOMAIN s = 1 .. Len(s) /\ DOMAIN Append(s, x) = 1 .. Len(s) + 1
      /\ Append(s, x)[Len(s) + 1] = x
      /\ \A i \in 1 .. Len(s) : Append(s, x)[i] = s[i] /\ s[i] \in S
  OBVIOUS
<1>2. DOMAIN Append(s, x) = DOMAIN s \cup {Len(s) + 1} /\ Len(s) + 1 \notin DOMAIN s
  BY <1>1
<1>3. ToSet(Append(s, x)) = ToSet(s) \cup {x}
  BY <1>1, <1>2 DEF ToSet
<1>4. ToSet(s) \in SUBSET S
  BY <1>1 DEF ToSet
<1> QED
  BY <1>1, <1>2, <1>3, <1>4

\* A sequence of sequences laid end to end has the elements of all of them.
LEMMA FlattenFacts ==
  ASSUME NEW S, NEW ss \in Seq(Seq(S))
  PROVE  /\ FlattenSeq(ss) \in Seq(S)
         /\ ToSet(FlattenSeq(ss)) = UNION {ToSet(ss[k]) : k \in DOMAIN ss}
<1> DEFINE n == Len(ss)
           Up(m) == UNION {ToSet(ss[k]) : k \in 1 .. m}
           Step(h) == h = [i \in 1 .. n |-> IF i = 1 THEN ss[i] ELSE h[i - 1] \o ss[i]]
           Upto(h, m) == /\ h \in [1 .. m -> Seq(S)]
                         /\ \A i \in 1 .. m : h[i] = IF i = 1 THEN ss[i] ELSE h[i - 1] \o ss[i]
           Good(h, m) == Upto(h, m) /\ \A i \in 1 .. m : ToSet(h[i]) = Up(i)
           Bad == {m \in 0 .. n : ~ \E h : Good(h, m)}
<1>1. n \in Nat /\ DOMAIN ss = 1 .. n /\ \A i \in 1 .. n : ss[i] \in Seq(S)
  OBVIOUS
<1>2. CASE n = 0
  <2>1. FlattenSeq(ss) = ss /\ ss = <<>>
    BY <1>2 DEF FlattenSeq
  <2>2. ToSet(<<>>) = {} /\ DOMAIN ss = {}
    BY <2>1 DEF ToSet
  <2> QED
    BY <2>1, <2>2
<1>3. CASE n # 0
  <2>1. \A a, b \in Seq(S) : a \o b \in Seq(S) /\ ToSet(a \o b) = ToSet(a) \cup ToSet(b)
    <3> TAKE a, b \in Seq(S)
    <3>1. /\ a \o b \in Seq(S) /\ Len(a) \in Nat /\ Len(b) \in Nat
          /\ DOMAIN (a \o b) = 1 .. Len(a) + Len(b)
          /\ DOMAIN a = 1 .. Len(a) /\ DOMAIN b = 1 .. Len(b)
          /\ \A i \in 1 .. Len(a) : (a \o b)[i] = a[i]
          /\ \A i \in 1 .. Len(b) : (a \o b)[i + Len(a)] = b[i]
      OBVIOUS
    <3>2. \A i \in DOMAIN (a \o b) : i \in 1 .. Len(a) \/ i - Len(a) \in 1 .. Len(b)
      BY <3>1
    <3>3. \A i \in DOMAIN (a \o b) : (a \o b)[i] \in ToSet(a) \cup ToSet(b)
      <4> TAKE i \in DOMAIN (a \o b)
      <4>1. CASE i \in 1 .. Len(a)
        BY <3>1, <4>1 DEF ToSet
      <4>2. CASE i - Len(a) \in 1 .. Len(b)
        <5>1. (a \o b)[(i - Len(a)) + Len(a)] = b[i - Len(a)] /\ (i - Len(a)) + Len(a) = i
          BY <3>1, <4>2
        <5> QED
          BY <3>1, <4>2, <5>1 DEF ToSet
      <4> QED
        BY <3>2, <4>1, <4>2
    <3>4. \A i \in DOMAIN a : i \in DOMAIN (a \o b)
      BY <3>1
    <3>5. \A i \in DOMAIN b : i + Len(a) \in DOMAIN (a \o b)
      BY <3>1
    <3>6. \A x \in ToSet(a) \cup ToSet(b) : x \in ToSet(a \o b)
      BY <3>1, <3>4, <3>5 DEF ToSet
    <3> QED
      BY <3>1, <3>3, <3>6 DEF ToSet
  <2>0. \A m \in 0 .. n : m \in Bad <=> ~ \E h : Good(h, m)
    <3> HIDE DEF Good
    <3> QED
      OBVIOUS
  <2>2. 0 \notin Bad
    <3>1. Good([i \in 1 .. 0 |-> <<>>], 0)
      OBVIOUS
    <3> HIDE DEF Good, Bad
    <3> QED
      BY <1>1, <2>0, <3>1
  <2>3. ASSUME NEW m \in 0 .. n, m # 0, m - 1 \notin Bad PROVE m \notin Bad
    <3>1. PICK h : Good(h, m - 1)
      <4>1. m - 1 \in 0 .. n
        BY <1>1, <2>3
      <4> HIDE DEF Good, Bad
      <4> QED
        BY <2>0, <2>3, <4>1
    <3> DEFINE t == IF m = 1 THEN ss[m] ELSE h[m - 1] \o ss[m]
               g == [i \in 1 .. m |-> IF i = m THEN t ELSE h[i]]
    <3>2. m = 1 \/ (h[m - 1] \in Seq(S) /\ ToSet(h[m - 1]) = Up(m - 1))
      BY <1>1, <2>3, <3>1
    <3>3. t \in Seq(S) /\ ToSet(t) = Up(m)
      <4>1. m \in 1 .. n /\ ss[m] \in Seq(S)
        BY <1>1, <2>3
      <4>2. CASE m = 1
        <5>1. 1 .. m = {m}
          BY <4>2
        <5> QED
          BY <4>1, <4>2, <5>1
      <4>3. CASE m # 1
        <5>1. 1 .. m = (1 .. (m - 1)) \cup {m}
          BY <4>1
        <5>2. Up(m) = Up(m - 1) \cup ToSet(ss[m])
          BY <5>1
        <5> HIDE DEF Up
        <5> QED
          BY <2>1, <3>2, <4>1, <4>3, <5>2
      <4> QED
        BY <4>2, <4>3
    <3> HIDE DEF t
    <3>4. \A i \in 1 .. (m - 1) : g[i] = h[i] /\ i \in 1 .. m
      BY <2>3
    <3>5. g[m] = t
      BY <2>3
    <3>6. \A i \in 1 .. m : i = m \/ i \in 1 .. (m - 1)
      BY <2>3
    <3>7. g \in [1 .. m -> Seq(S)]
      BY <3>1, <3>3, <3>6
    <3> HIDE DEF g
    <3>8. \A i \in 1 .. m : ToSet(g[i]) = Up(i)
      <4> HIDE DEF Up
      <4> QED
        BY <3>1, <3>3, <3>4, <3>5, <3>6
    <3>9. \A i \in 1 .. m : g[i] = IF i = 1 THEN ss[i] ELSE g[i - 1] \o ss[i]
      <4> TAKE i \in 1 .. m
      <4>1. CASE i = m
        <5>1. m = 1 \/ m - 1 \in 1 .. (m - 1)
          BY <2>3
        <5> QED
          BY <3>4, <3>5, <4>1, <5>1 DEF t
      <4>2. CASE i # m
        <5>1. i \in 1 .. (m - 1) /\ (i = 1 \/ i - 1 \in 1 .. (m - 1))
          BY <2>3, <4>2
        <5> QED
          BY <3>1, <3>4, <5>1
      <4> QED
        BY <4>1, <4>2
    <3>10. Good(g, m)
      <4> HIDE DEF Up
      <4> QED
        BY <3>7, <3>8, <3>9
    <3> HIDE DEF Good, Bad
    <3> QED
      BY <2>0, <2>3, <3>10
  <2>4. Bad = {}
    <3> SUFFICES ASSUME Bad # {} PROVE FALSE
      OBVIOUS
    <3>1. Bad \in SUBSET Nat
      BY <1>1
    <3>2. PICK m \in Bad : \A q \in Bad : m <= q
      <4> HIDE DEF Bad
      <4> QED
        BY <3>1, LeastElement
    <3>3. m \in 0 .. n /\ m # 0 /\ m - 1 \in Nat /\ m - 1 < m
      BY <1>1, <2>2, <3>1, <3>2
    <3> HIDE DEF Bad
    <3>4. m - 1 \notin Bad
      BY <3>1, <3>2, <3>3
    <3> QED
      BY <2>3, <3>2, <3>3, <3>4
  <2>10. n \in 1 .. n /\ n \in 0 .. n
    BY <1>1, <1>3
  <2>5. PICK h : Good(h, n)
    <3> HIDE DEF Good, Bad
    <3> QED
      BY <2>0, <2>4, <2>10
  <2>6. Step(h)
    BY <2>5
  <2> DEFINE c == CHOOSE x : Step(x)
  <2>7. Step(c)
    BY <2>6
  <2>8. FlattenSeq(ss) = c[n]
    BY <1>3, Zenon DEF FlattenSeq
  <2> HIDE DEF c
  <2>9. c[n] = h[n]
    <3> DEFINE Off == {i \in 1 .. n : c[i] # h[i]}
    <3> SUFFICES ASSUME Off # {} PROVE FALSE
      <4> SUFFICES ASSUME c[n] # h[n] PROVE Off # {}
        OBVIOUS
      <4> n \in Off
        BY <2>10
      <4> QED
        OBVIOUS
    <3>1. Off \in SUBSET Nat
      BY <1>1
    <3>2. PICK i \in Off : \A j \in Off : i <= j
      <4> HIDE DEF Off
      <4> QED
        BY <3>1, LeastElement
    <3>3. i \in 1 .. n /\ c[i] # h[i]
      OBVIOUS
    <3>4. i = 1 \/ (i - 1 \in 1 .. n /\ c[i - 1] = h[i - 1])
      BY <1>1, <3>2, <3>3
    <3>5. c[i] = IF i = 1 THEN ss[i] ELSE c[i - 1] \o ss[i]
      BY <2>7, <3>3
    <3>6. h[i] = IF i = 1 THEN ss[i] ELSE h[i - 1] \o ss[i]
      BY <2>5, <3>3
    <3> QED
      BY <3>3, <3>4, <3>5, <3>6
  <2>11. h[n] \in Seq(S) /\ ToSet(h[n]) = Up(n)
    BY <2>5, <2>10
  <2> QED
    BY <1>1, <2>8, <2>9, <2>11
<1> QED
  BY <1>2, <1>3

-----------------------------------------------------------------------------
(* Lemmas about the groups of commit() *)

\* There is at least one group, and none is empty.
LEMMA GroupCountFacts ==
  ASSUME NEW total \in Nat \ {0}
  PROVE  GroupCount(total) \in 1 .. total
<1> DEFINE R == {n \in Nat : n * n >= total}
           Root(n) == n \in 1 .. total /\ n * n >= total /\ (n - 1) * (n - 1) < total
           root == CHOOSE n \in 1 .. total : n * n >= total /\ (n - 1) * (n - 1) < total
<1>1. total \in R
  OBVIOUS
<1>2. PICK r \in R : \A q \in R : r <= q
  <2> R \in SUBSET Nat
    OBVIOUS
  <2> HIDE DEF R
  <2> QED
    BY <1>1, LeastElement
<1>3. r \in 1 .. total
  <2>1. r # 0 /\ r \in Nat
    OBVIOUS
  <2> QED
    BY <1>1, <1>2, <2>1
<1>4. r * r >= total /\ (r - 1) * (r - 1) < total
  <2>1. r * r >= total
    OBVIOUS
  <2>2. r - 1 \in Nat /\ ~ (r <= r - 1)
    BY <1>3
  <2>3. ~ ((r - 1) * (r - 1) >= total)
    BY <1>2, <2>2
  <2>4. (r - 1) * (r - 1) \in Int
    BY <2>2
  <2> QED
    BY <2>1, <2>3, <2>4
<1>5. root \in 1 .. total
  BY <1>3, <1>4
<1>6. Cardinality(Workers) \in Nat \ {0}
  BY Basics, FS_CardinalityType, FS_EmptySet
<1>7. GroupCount(total) = IF total <= SmallTotal THEN 1
                          ELSE IF root < Cardinality(Workers) THEN root ELSE Cardinality(Workers)
  BY DEF GroupCount
<1> HIDE DEF root
<1> QED
  BY <1>5, <1>6, <1>7

\* Every id goes to one of the groups, and no two groups get the same.
LEMMA SplitFacts ==
  ASSUME NEW ids \in Seq(Nat), NEW n \in 1 .. Len(ids),
         \A i, j \in DOMAIN ids : ids[i] = ids[j] => i = j
  PROVE  LET split == SplitIntoGroups(ids, n)
         IN  /\ split \in Seq(Seq(Nat)) /\ Len(split) = n
             /\ ToSet(ids) = UNION {ToSet(split[g]) : g \in 1 .. n}
             /\ \A g, h \in 1 .. n : g # h => ToSet(split[g]) \cap ToSet(split[h]) = {}
<1> DEFINE L == Len(ids)
           len(g) == ((L - g) \div n) + 1
           split == SplitIntoGroups(ids, n)
           at(g, k) == (k - 1) * n + g
<1>1. L \in Nat /\ n \in Nat \ {0} /\ n <= L /\ DOMAIN ids = 1 .. L
  OBVIOUS
<1>2. \A g \in 1 .. n : len(g) \in Nat \ {0}
  <2> TAKE g \in 1 .. n
  <2>1. L - g \in Nat
    BY <1>1
  <2>2. (L - g) \div n \in Nat
    BY <1>1, <2>1, DivFacts
  <2> QED
    BY <2>2
<1>3. \A g \in 1 .. n : split[g] = [k \in 1 .. len(g) |-> ids[at(g, k)]]
  BY DEF SplitIntoGroups
<1>4. split \in [1 .. n -> {split[g] : g \in 1 .. n}] /\ DOMAIN split = 1 .. n
  BY DEF SplitIntoGroups
<1> HIDE DEF split
<1>5. \A g \in 1 .. n : \A k \in 1 .. len(g) : at(g, k) \in 1 .. L
  <2> TAKE g \in 1 .. n
  <2> TAKE k \in 1 .. len(g)
  <2> DEFINE q == (L - g) \div n
  <2>1. L - g \in Nat
    BY <1>1
  <2>2. q \in Nat /\ k - 1 \in Nat /\ k - 1 <= q
    BY <1>2
  <2>3. n * q <= L - g /\ n * q = q * n
    BY <1>1, <2>1, <2>2, DivFacts
  <2> HIDE DEF q
  <2>4. (k - 1) * n <= q * n /\ (k - 1) * n \in Nat
    BY <1>1, <2>2
  <2>5. n * q \in Nat
    BY <1>1, <2>2
  <2>6. (k - 1) * n <= L - g
    BY <2>1, <2>3, <2>4, <2>5
  <2> DEFINE m == (k - 1) * n
  <2> HIDE DEF m
  <2>7. m \in Nat /\ m <= L - g
    BY <2>4, <2>6 DEF m
  <2>8. m + g \in 1 .. L
    BY <1>1, <2>7
  <2> QED
    BY <2>8 DEF m
<1>6. \A i \in 1 .. L : \E g \in 1 .. n : \E k \in 1 .. len(g) : at(g, k) = i
  <2> TAKE i \in 1 .. L
  <2> DEFINE a == i - 1
             g == (a % n) + 1
             k == (a \div n) + 1
             q == (L - g) \div n
  <2>1. a \in Nat /\ a < L
    BY <1>1
  <2> HIDE DEF a
  <2>2. a % n \in 0 .. n - 1
    BY <1>1, <2>1, DivFacts
  <2>3. a \div n \in Nat
    BY <1>1, <2>1, DivFacts
  <2>4. a = n * (a \div n) + (a % n)
    BY <1>1, <2>1, DivFacts
  <2>5. g \in 1 .. n /\ k \in Nat \ {0}
    BY <2>2, <2>3
  <2>6. at(g, k) = i
    <3>1. (k - 1) * n = n * (a \div n)
      BY <1>1, <2>3
    <3> QED
      BY <1>1, <2>1, <2>2, <2>3, <2>4, <3>1 DEF a
  <2> HIDE DEF g, k
  <2>7. (k - 1) * n <= L - g /\ L - g \in Nat
    <3>1. (k - 1) * n \in Nat
      BY <1>1, <2>5
    <3> QED
      BY <1>1, <2>5, <2>6, <3>1
  <2>8. q \in Nat
    BY <1>1, <2>7, DivFacts
  <2>9. L - g < n * q + n
    BY <1>1, <2>7, DivFacts
  <2> HIDE DEF q
  <2>10. k - 1 <= q
    <3> SUFFICES ASSUME q + 1 <= k - 1 PROVE FALSE
      BY <2>5, <2>8
    <3>1. (q + 1) * n <= (k - 1) * n
      BY <1>1, <2>5, <2>8
    <3>2. (q + 1) * n = n * q + n
      BY <1>1, <2>8
    <3>3. (k - 1) * n \in Nat /\ n * q \in Nat
      BY <1>1, <2>5, <2>8
    <3> QED
      BY <1>1, <2>7, <2>9, <3>1, <3>2, <3>3
  <2>11. k \in 1 .. len(g)
    BY <2>5, <2>8, <2>10 DEF q
  <2> QED
    BY <2>5, <2>6, <2>11
<1>7. \A g, h \in 1 .. n : \A k \in 1 .. len(g) : \A j \in 1 .. len(h) : at(g, k) = at(h, j) => g = h
  <2>1. ASSUME NEW g \in 1 .. n, NEW h \in 1 .. n, NEW k \in Nat, NEW j \in Nat, g < h,
               at(g, k) = at(h, j)
        PROVE  FALSE
    <3>1. (k - 1) * n + g = (j - 1) * n + h
      BY <2>1
    <3>2. (k - 1) * n = k * n - n /\ (j - 1) * n = j * n - n
      BY <1>1
    <3>3. k * n \in Nat /\ j * n \in Nat
      BY <1>1
    <3>4. k * n - j * n = h - g /\ h - g \in 1 .. n - 1
      BY <1>1, <2>1, <3>1, <3>2, <3>3
    <3>5. CASE k <= j
      <4>1. k * n <= j * n
        BY <1>1, <3>5
      <4> QED
        BY <3>3, <3>4, <4>1
    <3>6. CASE k >= j + 1
      <4>1. (j + 1) * n <= k * n
        BY <1>1, <3>6
      <4>2. (j + 1) * n = j * n + n
        BY <1>1
      <4> QED
        BY <1>1, <3>3, <3>4, <4>1, <4>2
    <3> QED
      BY <3>5, <3>6
  <2> TAKE g, h \in 1 .. n
  <2> TAKE k \in 1 .. len(g)
  <2> TAKE j \in 1 .. len(h)
  <2> HAVE at(g, k) = at(h, j)
  <2>2. k \in Nat /\ j \in Nat
    BY <1>2
  <2>3. g < h \/ h < g \/ g = h
    OBVIOUS
  <2> HIDE DEF at
  <2> QED
    BY <2>1, <2>2, <2>3
<1> HIDE DEF at, len
<1>8. \A g \in 1 .. n : /\ split[g] \in Seq(Nat) /\ DOMAIN split[g] = 1 .. len(g)
                        /\ \A k \in 1 .. len(g) : split[g][k] = ids[at(g, k)]
  <2> TAKE g \in 1 .. n
  <2>1. split[g] = [k \in 1 .. len(g) |-> ids[at(g, k)]] /\ len(g) \in Nat
    BY <1>2, <1>3
  <2>2. \A k \in 1 .. len(g) : ids[at(g, k)] \in Nat
    BY <1>1, <1>5
  <2> QED
    BY <2>1, <2>2
<1>9. split \in Seq(Seq(Nat)) /\ Len(split) = n
  <2>1. split \in [1 .. n -> Seq(Nat)]
    BY <1>4, <1>8
  <2> QED
    BY <1>1, <2>1
<1>10. \A g \in 1 .. n : ToSet(split[g]) = {ids[at(g, k)] : k \in 1 .. len(g)}
  <2> TAKE g \in 1 .. n
  <2>1. ToSet(split[g]) = {split[g][k] : k \in 1 .. len(g)}
    BY <1>8, Zenon DEF ToSet
  <2>2. \A k \in 1 .. len(g) : split[g][k] = ids[at(g, k)]
    BY <1>8
  <2> QED
    BY <2>1, <2>2
<1>11. ToSet(ids) = UNION {ToSet(split[g]) : g \in 1 .. n}
  <2>1. \A x \in ToSet(ids) : \E g \in 1 .. n : x \in ToSet(split[g])
    <3> TAKE x \in ToSet(ids)
    <3>1. PICK i \in 1 .. L : ids[i] = x
      BY <1>1 DEF ToSet
    <3>2. PICK g \in 1 .. n : \E k \in 1 .. len(g) : at(g, k) = i
      BY <1>6
    <3> QED
      BY <1>10, <3>1, <3>2
  <2>2. \A g \in 1 .. n : \A x \in ToSet(split[g]) : x \in ToSet(ids)
    <3> TAKE g \in 1 .. n
    <3> TAKE x \in ToSet(split[g])
    <3>1. PICK k \in 1 .. len(g) : x = ids[at(g, k)]
      BY <1>10
    <3> QED
      BY <1>1, <1>5, <3>1 DEF ToSet
  <2> QED
    BY <2>1, <2>2
<1>12. \A g, h \in 1 .. n : g # h => ToSet(split[g]) \cap ToSet(split[h]) = {}
  <2> TAKE g, h \in 1 .. n
  <2> HAVE g # h
  <2> SUFFICES ASSUME NEW x \in ToSet(split[g]) \cap ToSet(split[h]) PROVE FALSE
    OBVIOUS
  <2>1. /\ \E k \in 1 .. len(g) : x = ids[at(g, k)]
        /\ \E j \in 1 .. len(h) : x = ids[at(h, j)]
    BY <1>10
  <2>3. PICK k \in 1 .. len(g), j \in 1 .. len(h) : x = ids[at(g, k)] /\ x = ids[at(h, j)]
    BY <2>1
  <2>4. at(g, k) = at(h, j)
    BY <1>1, <1>5, <2>3
  <2> QED
    BY <1>7, <2>4
<1> QED
  BY <1>9, <1>11, <1>12 DEF split

-----------------------------------------------------------------------------
(* What a step keeps by leaving variables alone *)

LEMMA PlacedKept ==
  ASSUME Placed, UNCHANGED <<accepted, buf, hand, stored, dirs>>
  PROVE  Placed'
<1>1. ASSUME NEW d
      PROVE  /\ Queued(d)' = Queued(d) /\ InHand(d)' = InHand(d)
             /\ Buffered(d)' = Buffered(d) /\ Finished(d)' = Finished(d)
  BY DEF Queued, InHand, Buffered, Finished, Stored
<1>2. ASSUME NEW d PROVE OnePlace(d)' = OnePlace(d) /\ NoPlace(d)' = NoPlace(d)
  BY <1>1 DEF OnePlace, NoPlace
<1> QED
  BY <1>2 DEF Placed

LEMMA NumberedKept ==
  ASSUME Numbered, UNCHANGED <<docId, nextDocId>>
  PROVE  Numbered'
BY DEF Numbered

LEMMA CountedKept ==
  ASSUME Counted, UNCHANGED <<accepted, buf, hand, docId, nextDocId, count>>
  PROVE  Counted'
BY NumberedKept DEF Counted, Queued, InHand

LEMMA MergeKept ==
  ASSUME BeforeMerge, GroupsApart, GroupsInStep, DuringMerge, AfterMerge,
         docId' = docId \/ cpc \in {"open", "join"},
         UNCHANGED <<cpc, groups, dirs, flushed, nextSegId, finalIds>>
  PROVE  BeforeMerge' /\ GroupsApart' /\ GroupsInStep' /\ DuringMerge' /\ AfterMerge'
<1>1. BeforeMerge'
  BY DEF BeforeMerge, TempSegIds
<1>2. GroupsApart'
  BY DEF GroupsApart, Out, Sources
<1>3. DuringMerge'
  BY DEF DuringMerge, Out, Sources, State
<1>4. CASE docId' = docId
  <2>1. GroupsInStep'
    BY <1>4 DEF GroupsInStep, GroupInStep, Out, Sources, State, Readable, Aliased, Findable, Stored
  <2>2. AfterMerge'
    BY <1>4 DEF AfterMerge, Readable, Aliased, Findable, Stored
  <2> QED
    BY <1>1, <1>2, <1>3, <2>1, <2>2
<1>5. CASE cpc \in {"open", "join"}
  <2>1. groups' = <<>> /\ cpc' \in {"open", "join"}
    BY <1>5 DEF BeforeMerge
  <2>2. GroupsInStep' /\ AfterMerge'
    BY <2>1 DEF GroupsInStep, AfterMerge
  <2> QED
    BY <1>1, <1>2, <1>3, <2>2
<1> QED
  BY <1>4, <1>5

\* A document that moves to one place from none, or keeps its places.
LEMMA PlacedMoved ==
  ASSUME Placed,
         \A d \in Docs :
           \/ /\ d \in accepted' <=> d \in accepted
              /\ Queued(d)' = {} <=> Queued(d) = {}
              /\ InHand(d)' = {} <=> InHand(d) = {}
              /\ Buffered(d)' = {} <=> Buffered(d) = {}
              /\ Finished(d)' = {} <=> Finished(d) = {}
              /\ Single(Queued(d)) => Single(Queued(d)')
              /\ Single(InHand(d)) => Single(InHand(d)')
              /\ Single(Buffered(d)) => Single(Buffered(d)')
              /\ Single(Finished(d)) => Single(Finished(d)')
           \/ d \in accepted' /\ OnePlace(d)'
  PROVE  Placed'
<1> SUFFICES ASSUME NEW d \in Docs
             PROVE  IF d \in accepted' THEN OnePlace(d)' ELSE NoPlace(d)'
  BY DEF Placed
<1>1. IF d \in accepted THEN OnePlace(d) ELSE NoPlace(d)
  BY DEF Placed
<1> HIDE DEF Single
<1> QED
  BY <1>1 DEF OnePlace, NoPlace

-----------------------------------------------------------------------------
(* Every step preserves the invariant *)

LEMMA InitIInv == Init => IInv
<1> SUFFICES ASSUME Init PROVE IInv
  OBVIOUS
<1> USE Basics DEF Init, QueueInit
<1>1. TypeOK
  <2>1. DOMAIN docId = {} /\ IsFiniteSet(DOMAIN docId)
    BY FS_EmptySet
  <2>2. buf = <<>> /\ buf \in Seq(Docs) /\ Len(buf) <= Capacity
    BY DEF QueueInit
  <2>3. groups \in Seq(Group) /\ DOMAIN dirs = {}
    OBVIOUS
  <2>4. /\ hand \in [Workers -> Docs \cup {NoDoc}] /\ offered \in [Producers -> Docs \cup {NoDoc}]
        /\ wpc \in [Workers -> {"pop", "process", "flush", "last", "exited"}]
        /\ flushed \in [Workers -> SUBSET Nat] /\ count \in [Workers -> Nat]
    OBVIOUS
  <2>5. stored \in [Workers -> Seq(Docs)]
    <3>1. <<>> \in Seq(Docs)
      OBVIOUS
    <3> QED
      BY <3>1
  <2> QED
    BY <2>1, <2>2, <2>3, <2>4, <2>5 DEF TypeOK
<1>2. WorkersInStep /\ CommitInStep /\ OfferedOnce
  BY DEF WorkersInStep, CommitInStep, OfferedOnce
<1>3. Placed
  <2>1. \A d \in Docs : Queued(d) = {} /\ InHand(d) = {} /\ Buffered(d) = {} /\ Finished(d) = {}
    BY DEF Queued, InHand, Buffered, Finished
  <2> QED
    BY <2>1 DEF Placed, NoPlace
<1>4. Counted
  <2>1. DOMAIN docId = {} /\ Cardinality(DOMAIN docId) = 0
    BY FS_EmptySet
  <2>2. Total(count, Workers) = 0
    <3> DEFINE none == [w \in {} |-> 0]
    <3>1. Total(none, {}) = 0 /\ IsFiniteSet({})
      BY FS_EmptySet, SumType
    <3>2. Total(count, Workers) = Total(none, {})
      BY <3>1, SumSame
    <3> QED
      BY <3>1, <3>2
  <2>3. Numbered
    BY <2>1 DEF Numbered
  <2> QED
    BY <2>1, <2>2, <2>3 DEF Counted
<1>5. BeforeMerge /\ GroupsApart /\ GroupsInStep /\ DuringMerge /\ AfterMerge
  BY DEF BeforeMerge, TempSegIds, GroupsApart, GroupsInStep, GroupInStep, DuringMerge, AfterMerge
<1> QED
  BY <1>1, <1>2, <1>3, <1>4, <1>5 DEF IInv

LEMMA OfferKeeps ==
  ASSUME IInv, NEW p \in Producers, NEW d \in Docs, Offer(p, d)
  PROVE  IInv'
<1> USE DEF Offer, queueVars, workerVars, commitVars
<1>1. offered' = [offered EXCEPT ![p] = d] /\ offered \in [Producers -> Docs \cup {NoDoc}]
  BY DEF IInv, TypeOK
<1>2. TypeOK'
  BY <1>1 DEF IInv, TypeOK
<1>3. WorkersInStep' /\ CommitInStep'
  BY DEF IInv, WorkersInStep, CommitInStep
<1>4. OfferedOnce'
  BY <1>1, Basics DEF IInv, OfferedOnce
<1>5. Placed' /\ Counted'
  BY PlacedKept, CountedKept DEF IInv
<1>6. BeforeMerge' /\ GroupsApart' /\ GroupsInStep' /\ DuringMerge' /\ AfterMerge'
  BY MergeKept DEF IInv
<1> QED
  BY <1>2, <1>3, <1>4, <1>5, <1>6 DEF IInv

LEMMA QueueKeeps ==
  ASSUME IInv, UNCHANGED <<buf, closed, offered, accepted, workerVars, docId, nextDocId,
                           nextSegId, dirs, commitVars>>
  PROVE  IInv'
<1> USE DEF workerVars, commitVars
<1>1. TypeOK' /\ WorkersInStep' /\ CommitInStep' /\ OfferedOnce'
  BY DEF IInv, TypeOK, WorkersInStep, CommitInStep, OfferedOnce
<1>2. Placed' /\ Counted'
  BY PlacedKept, CountedKept DEF IInv
<1>3. BeforeMerge' /\ GroupsApart' /\ GroupsInStep' /\ DuringMerge' /\ AfterMerge'
  BY MergeKept DEF IInv
<1> QED
  BY <1>1, <1>2, <1>3 DEF IInv

LEMMA AddDocumentKeeps ==
  ASSUME IInv, NEW p \in Producers, AddDocument(p)
  PROVE  IInv'
<1> USE DEF workerVars, commitVars
<1>1. CASE PushWait(p) /\ UNCHANGED <<offered, accepted>>
  BY <1>1, QueueKeeps DEF AddDocument, PushWait
<1>2. CASE /\ Push(p, offered[p])
           /\ accepted' = accepted \cup {offered[p]}
           /\ offered'  = [offered EXCEPT ![p] = NoDoc]
  <2>0. PICK x : x = offered[p]
    OBVIOUS
  <2>1. /\ ~ closed /\ Len(buf) < Capacity /\ buf' = Append(buf, x) /\ closed' = closed
        /\ UNCHANGED <<workerVars, docId, nextDocId, nextSegId, dirs, commitVars>>
    BY <1>2, <2>0 DEF AddDocument, Push, PushReady
  <2>2. /\ offered \in [Producers -> Docs \cup {NoDoc}] /\ buf \in Seq(Docs)
        /\ Len(buf) \in Nat /\ accepted \in SUBSET Docs
    BY DEF IInv, TypeOK
  <2>3. x \in Docs /\ x # NoDoc /\ x \notin accepted
    BY <2>0, <2>2, Basics DEF AddDocument, IInv, OfferedOnce
  <2>4. \A q \in Producers : offered'[q] = IF q = p THEN NoDoc ELSE offered[q]
    BY <1>2, <2>2
  <2>5. /\ buf' \in Seq(Docs) /\ Len(buf') = Len(buf) + 1
        /\ DOMAIN buf' = DOMAIN buf \cup {Len(buf) + 1} /\ Len(buf) + 1 \notin DOMAIN buf
        /\ buf'[Len(buf) + 1] = x /\ \A i \in DOMAIN buf : buf'[i] = buf[i]
    <3>1. Append(buf, x) \in Seq(Docs) /\ Len(Append(buf, x)) = Len(buf) + 1
      BY <2>2, <2>3
    <3> QED
      BY <2>1, <2>2, <2>3, <3>1, AppendFacts
  <2>6. accepted' = accepted \cup {x}
    BY <1>2, <2>0
  <2>7. TypeOK'
    <3>1. offered' \in [Producers -> Docs \cup {NoDoc}]
      BY <1>2, <2>2
    <3>2. Len(buf') <= Capacity
      BY <2>1, <2>2, <2>5, Basics
    <3> QED
      BY <2>1, <2>2, <2>3, <2>5, <2>6, <3>1, <3>2 DEF IInv, TypeOK
  <2>8. WorkersInStep' /\ CommitInStep'
    BY <2>1 DEF IInv, WorkersInStep, CommitInStep
  <2>9. OfferedOnce'
    <3> SUFFICES ASSUME NEW q \in Producers, offered'[q] # NoDoc
                 PROVE  /\ offered'[q] \notin accepted'
                        /\ \A r \in Producers : offered'[r] = offered'[q] => r = q
      BY DEF OfferedOnce
    <3>1. q # p /\ offered'[q] = offered[q]
      BY <2>4
    <3>2. offered[q] # x /\ offered[q] \notin accepted
      BY <2>0, <2>3, <3>1 DEF IInv, OfferedOnce
    <3>3. \A r \in Producers : offered[r] = offered[q] => r = q
      BY <3>1 DEF IInv, OfferedOnce
    <3> QED
      BY <2>4, <2>6, <3>1, <3>2, <3>3
  <2>10. \A d \in Docs : Queued(d)' = IF d = x THEN Queued(d) \cup {Len(buf) + 1} ELSE Queued(d)
    BY <2>5 DEF Queued
  <2>11. \A d \in Docs : /\ InHand(d)' = InHand(d) /\ Buffered(d)' = Buffered(d)
                         /\ Finished(d)' = Finished(d)
    BY <2>1 DEF InHand, Buffered, Finished, Stored
  <2>12. Placed'
    <3>1. NoPlace(x)
      BY <2>3 DEF IInv, Placed
    <3>2. Single(Queued(x)') /\ InHand(x)' = {} /\ Buffered(x)' = {} /\ Finished(x)' = {}
      BY <2>3, <2>10, <2>11, <3>1 DEF NoPlace, Single
    <3>3. x \in accepted' /\ OnePlace(x)'
      BY <2>6, <3>2 DEF OnePlace
    <3>4. \A d \in Docs : d # x => /\ d \in accepted' <=> d \in accepted
                                   /\ Queued(d)' = Queued(d)
      BY <2>6, <2>10
    <3> HIDE DEF Single, OnePlace
    <3> QED
      BY <2>11, <3>3, <3>4, PlacedMoved DEF IInv
  <2>13. Counted'
    <3>1. x \notin DOMAIN docId
      BY <2>3 DEF IInv, Counted
    <3>2. Queued(x)' # {}
      BY <2>3, <2>10
    <3>3. \A d \in Docs : d \in DOMAIN docId <=>
                            d \in accepted' /\ Queued(d)' = {} /\ InHand(d)' = {}
      BY <2>6, <2>10, <2>11, <3>1, <3>2 DEF IInv, Counted
    <3>4. Numbered'
      BY <2>1, NumberedKept DEF IInv, Counted
    <3> QED
      BY <2>1, <3>3, <3>4 DEF IInv, Counted
  <2>14. BeforeMerge' /\ GroupsApart' /\ GroupsInStep' /\ DuringMerge' /\ AfterMerge'
    BY <2>1, MergeKept DEF IInv
  <2> QED
    BY <2>7, <2>8, <2>9, <2>12, <2>13, <2>14 DEF IInv
<1> QED
  BY <1>1, <1>2 DEF AddDocument

LEMMA WorkerPopKeeps ==
  ASSUME IInv, NEW w \in Workers, WorkerPop(w)
  PROVE  IInv'
<1> USE DEF workerVars, commitVars
<1>1. CASE PopWait(w) /\ UNCHANGED <<wpc, hand>>
  BY <1>1, QueueKeeps DEF WorkerPop, PopWait
<1>2. CASE Pop(w) /\ hand' = [hand EXCEPT ![w] = Head(buf)] /\ wpc' = [wpc EXCEPT ![w] = "process"]
  <2>0. PICK x : x = Head(buf)
    OBVIOUS
  <2>1. /\ buf # <<>> /\ buf' = Tail(buf) /\ closed' = closed /\ wpc[w] = "pop"
        /\ UNCHANGED <<offered, accepted, stored, count, flushed, docId, nextDocId, nextSegId,
                       dirs, commitVars>>
    BY <1>2 DEF WorkerPop, Pop
  <2>2. /\ buf \in Seq(Docs) /\ hand \in [Workers -> Docs \cup {NoDoc}]
        /\ wpc \in [Workers -> {"pop", "process", "flush", "last", "exited"}]
    BY DEF IInv, TypeOK
  <2>3. /\ Len(buf) \in Nat \ {0} /\ DOMAIN buf = 1 .. Len(buf) /\ x \in Docs /\ buf[1] = x
        /\ buf' \in Seq(Docs) /\ Len(buf') = Len(buf) - 1 /\ DOMAIN buf' = 1 .. Len(buf) - 1
        /\ \A i \in 1 .. Len(buf) - 1 : buf'[i] = buf[i + 1]
    BY <2>0, <2>1, <2>2
  <2>4. /\ \A v \in Workers : hand'[v] = IF v = w THEN x ELSE hand[v]
        /\ \A v \in Workers : wpc'[v] = IF v = w THEN "process" ELSE wpc[v]
        /\ hand' \in [Workers -> Docs \cup {NoDoc}]
        /\ wpc' \in [Workers -> {"pop", "process", "flush", "last", "exited"}]
    BY <1>2, <2>0, <2>2, <2>3
  <2>5. x # NoDoc /\ hand[w] = NoDoc
    BY <2>1, <2>3, Basics DEF IInv, WorkersInStep
  <2>6. TypeOK'
    <3>1. Len(buf') <= Capacity
      BY <2>3, Basics DEF IInv, TypeOK
    <3> QED
      BY <2>1, <2>3, <2>4, <3>1 DEF IInv, TypeOK
  <2>7. WorkersInStep'
    BY <2>1, <2>4, <2>5 DEF IInv, WorkersInStep
  <2>8. CommitInStep' /\ OfferedOnce'
    <3>1. cpc \notin {"merge", "done"}
      BY <2>1 DEF IInv, CommitInStep
    <3> QED
      BY <2>1, <3>1 DEF IInv, CommitInStep, OfferedOnce
  <2>9. \A d \in Docs : InHand(d)' = IF d = x THEN InHand(d) \cup {w} ELSE InHand(d)
    BY <2>4, <2>5, Basics DEF InHand
  <2>10. \A d \in Docs : /\ Buffered(d)' = Buffered(d) /\ Finished(d)' = Finished(d)
                         /\ accepted' = accepted
    BY <2>1 DEF Buffered, Finished, Stored
  <2>11. \A d \in Docs : Queued(d)' = {i \in 1 .. Len(buf) - 1 : i + 1 \in Queued(d)}
    BY <2>3 DEF Queued
  <2>12. 1 \in Queued(x) /\ \A d \in Docs : Queued(d) \in SUBSET (1 .. Len(buf)) /\ (d # x => 1 \notin Queued(d))
    BY <2>3 DEF Queued
  <2>13. \A d \in Docs : d # x => /\ Queued(d)' = {} <=> Queued(d) = {}
                                  /\ Single(Queued(d)) => Single(Queued(d)')
    <3> TAKE d \in Docs
    <3> HAVE d # x
    <3>1. \A i \in Queued(d) : i - 1 \in Queued(d)'
      BY <2>3, <2>11, <2>12
    <3>2. \A i \in Queued(d)' : i + 1 \in Queued(d) /\ i \in Nat
      BY <2>3, <2>11
    <3>3. ASSUME Single(Queued(d)) PROVE Single(Queued(d)')
      <4>1. PICK i : Queued(d) = {i}
        BY <3>3 DEF Single
      <4>2. i \in Nat
        BY <2>3, <2>12, <4>1
      <4>3. Queued(d)' = {i - 1}
        BY <3>1, <3>2, <4>1, <4>2
      <4> QED
        BY <4>3 DEF Single
    <3>4. Queued(d)' = {} <=> Queued(d) = {}
      BY <3>1, <3>2
    <3> QED
      BY <3>3, <3>4
  <2>14. /\ x \in accepted /\ Queued(x)' = {} /\ InHand(x) = {} /\ Buffered(x) = {}
         /\ Finished(x) = {}
    <3>1. x \in accepted /\ OnePlace(x)
      BY <2>3, <2>12 DEF IInv, Placed, NoPlace
    <3>2. Single(Queued(x)) /\ InHand(x) = {} /\ Buffered(x) = {} /\ Finished(x) = {}
      BY <2>12, <3>1 DEF OnePlace
    <3>3. Queued(x) = {1}
      BY <2>12, <3>2 DEF Single
    <3>4. Queued(x)' = {}
      BY <2>3, <2>11, <3>3
    <3> QED
      BY <3>1, <3>2, <3>4
  <2>15. Placed'
    <3>1. Single(InHand(x)')
      BY <2>3, <2>9, <2>14 DEF Single
    <3>2. x \in accepted' /\ OnePlace(x)'
      BY <2>1, <2>3, <2>10, <2>14, <3>1 DEF OnePlace
    <3> HIDE DEF OnePlace, Single
    <3> QED
      BY <2>9, <2>10, <2>13, <3>2, PlacedMoved DEF IInv
  <2>16. Counted'
    <3>1. x \notin DOMAIN docId
      BY <2>3, <2>12 DEF IInv, Counted
    <3>2. InHand(x)' # {}
      BY <2>3, <2>9
    <3>3. \A d \in Docs : d \in DOMAIN docId <=>
                            d \in accepted' /\ Queued(d)' = {} /\ InHand(d)' = {}
      BY <2>9, <2>10, <2>13, <3>1, <3>2 DEF IInv, Counted
    <3>4. Numbered'
      BY <2>1, NumberedKept DEF IInv, Counted
    <3> QED
      BY <2>1, <3>3, <3>4 DEF IInv, Counted
  <2>17. BeforeMerge' /\ GroupsApart' /\ GroupsInStep' /\ DuringMerge' /\ AfterMerge'
    BY <2>1, MergeKept DEF IInv
  <2> QED
    BY <2>6, <2>7, <2>8, <2>15, <2>16, <2>17 DEF IInv
<1>3. CASE PopEnd(w) /\ wpc' = [wpc EXCEPT ![w] = "last"] /\ UNCHANGED hand
  <2>1. /\ closed /\ buf = <<>> /\ wpc[w] = "pop"
        /\ UNCHANGED <<buf, closed, offered, accepted, hand, stored, count, flushed, docId,
                       nextDocId, nextSegId, dirs, commitVars>>
    BY <1>3 DEF WorkerPop, PopEnd, queueVars
  <2>2. /\ wpc \in [Workers -> {"pop", "process", "flush", "last", "exited"}]
        /\ \A v \in Workers : wpc'[v] = IF v = w THEN "last" ELSE wpc[v]
    BY <1>3 DEF IInv, TypeOK
  <2>3. TypeOK'
    BY <1>3, <2>1, <2>2 DEF IInv, TypeOK
  <2>4. WorkersInStep'
    BY <2>1, <2>2 DEF IInv, WorkersInStep
  <2>5. CommitInStep' /\ OfferedOnce'
    <3>1. cpc \notin {"merge", "done"}
      BY <2>1 DEF IInv, CommitInStep
    <3> QED
      BY <2>1, <3>1 DEF IInv, CommitInStep, OfferedOnce
  <2>6. Placed' /\ Counted'
    BY <2>1, PlacedKept, CountedKept DEF IInv
  <2>7. BeforeMerge' /\ GroupsApart' /\ GroupsInStep' /\ DuringMerge' /\ AfterMerge'
    BY <2>1, MergeKept DEF IInv
  <2> QED
    BY <2>3, <2>4, <2>5, <2>6, <2>7 DEF IInv
<1> QED
  BY <1>1, <1>2, <1>3 DEF WorkerPop

LEMMA WorkerProcessKeeps ==
  ASSUME IInv, NEW w \in Workers, WorkerProcess(w)
  PROVE  IInv'
<1> USE DEF workerVars, commitVars
<1>0. PICK x : x = hand[w]
  OBVIOUS
<1>1. /\ wpc[w] = "process" /\ nextDocId' = nextDocId + 1
      /\ docId' = [d \in DOMAIN docId \cup {x} |-> IF d = x THEN nextDocId ELSE docId[d]]
      /\ count' = [count EXCEPT ![w] = @ + 1] /\ stored' = [stored EXCEPT ![w] = Append(@, x)]
      /\ hand' = [hand EXCEPT ![w] = NoDoc]
      /\ wpc' \in {[wpc EXCEPT ![w] = "pop"], [wpc EXCEPT ![w] = "flush"]}
      /\ UNCHANGED <<buf, closed, offered, accepted, flushed, nextSegId, dirs, commitVars>>
  BY <1>0 DEF WorkerProcess, queueVars
<1>2. /\ hand \in [Workers -> Docs \cup {NoDoc}] /\ stored \in [Workers -> Seq(Docs)]
      /\ wpc \in [Workers -> {"pop", "process", "flush", "last", "exited"}]
      /\ count \in [Workers -> Nat] /\ nextDocId \in Nat
      /\ DOMAIN docId \in SUBSET Docs /\ IsFiniteSet(DOMAIN docId)
  BY DEF IInv, TypeOK
<1>3. x \in Docs /\ x # NoDoc
  BY <1>0, <1>1, <1>2 DEF IInv, WorkersInStep
<1>4. /\ \A v \in Workers : hand'[v] = IF v = w THEN NoDoc ELSE hand[v]
      /\ wpc'[w] \in {"pop", "flush"} /\ \A v \in Workers : v # w => wpc'[v] = wpc[v]
      /\ wpc' \in [Workers -> {"pop", "process", "flush", "last", "exited"}]
      /\ hand' \in [Workers -> Docs \cup {NoDoc}]
      /\ count' \in [Workers -> Nat]
      /\ \A v \in Workers : count'[v] = IF v = w THEN count[v] + 1 ELSE count[v]
  <2>1. /\ \A v \in Workers : hand'[v] = IF v = w THEN NoDoc ELSE hand[v]
        /\ hand' \in [Workers -> Docs \cup {NoDoc}]
    BY <1>1, <1>2
  <2>2. /\ wpc'[w] \in {"pop", "flush"} /\ \A v \in Workers : v # w => wpc'[v] = wpc[v]
        /\ wpc' \in [Workers -> {"pop", "process", "flush", "last", "exited"}]
    <3>1. \A s \in {"pop", "flush"} :
            LET q == [wpc EXCEPT ![w] = s]
            IN  /\ q[w] = s /\ \A v \in Workers : v # w => q[v] = wpc[v]
                /\ q \in [Workers -> {"pop", "process", "flush", "last", "exited"}]
      BY <1>2
    <3> QED
      BY <1>1, <3>1
  <2>3. count' \in [Workers -> Nat]
    BY <1>1, <1>2
  <2>4. \A v \in Workers : count'[v] = IF v = w THEN count[v] + 1 ELSE count[v]
    BY <1>1, <1>2
  <2> QED
    BY <2>1, <2>2, <2>3, <2>4
<1>5. /\ stored[w] \in Seq(Docs) /\ Append(stored[w], x) \in Seq(Docs)
      /\ stored' \in [Workers -> Seq(Docs)] /\ stored'[w] = Append(stored[w], x)
      /\ \A v \in Workers : v # w => stored'[v] = stored[v]
  <2>1. stored[w] \in Seq(Docs) /\ Append(stored[w], x) \in Seq(Docs)
    BY <1>2, <1>3
  <2> QED
    BY <1>1, <1>2, <2>1
<1>6. /\ DOMAIN stored'[w] = DOMAIN stored[w] \cup {Len(stored[w]) + 1}
      /\ Len(stored[w]) + 1 \notin DOMAIN stored[w] /\ stored'[w][Len(stored[w]) + 1] = x
      /\ \A i \in DOMAIN stored[w] : stored'[w][i] = stored[w][i]
  BY <1>3, <1>5, AppendFacts
<1>7. DOMAIN docId' = DOMAIN docId \cup {x}
  BY <1>1
<1>8. TypeOK'
  <2>1. IsFiniteSet(DOMAIN docId') /\ DOMAIN docId' \in SUBSET Docs
    <3>1. IsFiniteSet(DOMAIN docId \cup {x})
      BY <1>2, FS_AddElement
    <3> QED
      BY <1>2, <1>3, <1>7, <3>1
  <2>2. nextDocId' \in Nat
    BY <1>1, <1>2
  <2> QED
    BY <1>1, <1>4, <1>5, <2>1, <2>2 DEF IInv, TypeOK
<1>9. WorkersInStep'
  <2> SUFFICES ASSUME NEW v \in Workers
               PROVE  /\ hand'[v] # NoDoc <=> wpc'[v] = "process"
                      /\ wpc'[v] \in {"last", "exited"} => closed' /\ buf' = <<>>
                      /\ wpc'[v] = "exited" => ToSet(stored'[v]) \subseteq Termless
    BY DEF WorkersInStep
  <2>1. CASE v = w
    BY <1>4, <2>1
  <2>2. CASE v # w
    BY <1>1, <1>4, <1>5, <2>2 DEF IInv, WorkersInStep
  <2> QED
    BY <2>1, <2>2
<1>10. CommitInStep' /\ OfferedOnce'
  <2>1. cpc \notin {"merge", "done"}
    BY <1>1 DEF IInv, CommitInStep
  <2> QED
    BY <1>1, <2>1 DEF IInv, CommitInStep, OfferedOnce
<1>11. \A d \in Docs : InHand(d)' = IF d = x THEN InHand(d) \ {w} ELSE InHand(d)
  BY <1>0, <1>3, <1>4, Basics DEF InHand
<1>12. \A d \in Docs : Buffered(d)' = IF d = x THEN Buffered(d) \cup {<<w, Len(stored[w]) + 1>>}
                                             ELSE Buffered(d)
  <2> TAKE d \in Docs
  <2> DEFINE At(v) == {i \in DOMAIN stored[v] : stored[v][i] = d}
             n == Len(stored[w]) + 1
  <2>0. PICK k : k = n
    OBVIOUS
  <2>1. At(w)' = IF d = x THEN At(w) \cup {k} ELSE At(w)
    BY <1>6, <2>0
  <2>2. \A v \in Workers : v # w => At(v)' = At(v)
    BY <1>5
  <2>3. Buffered(d) = UNION {{v} \X At(v) : v \in Workers} /\ Buffered(d)' = UNION {{v} \X At(v)' : v \in Workers}
    BY DEF Buffered
  <2> HIDE DEF At, n
  <2>4. CASE d = x
    <3>1. Buffered(d)' = Buffered(d) \cup {<<w, k>>}
      BY <2>1, <2>2, <2>3, <2>4
    <3> QED
      BY <2>0, <2>4, <3>1 DEF n
  <2>5. CASE d # x
    BY <2>1, <2>2, <2>3, <2>5
  <2> QED
    BY <2>4, <2>5
<1>13. \A d \in Docs : Queued(d)' = Queued(d) /\ Finished(d)' = Finished(d) /\ accepted' = accepted
  BY <1>1 DEF Queued, Finished, Stored
<1>14. x \in accepted /\ Queued(x) = {} /\ InHand(x) = {w} /\ Buffered(x) = {} /\ Finished(x) = {}
  <2>1. w \in InHand(x)
    BY <1>0 DEF InHand
  <2>2. x \in accepted /\ OnePlace(x)
    BY <1>3, <2>1 DEF IInv, Placed, NoPlace
  <2> QED
    BY <2>1, <2>2 DEF OnePlace, Single
<1>15. InHand(x)' = {} /\ Buffered(x)' = {<<w, Len(stored[w]) + 1>>}
  BY <1>3, <1>11, <1>12, <1>14
<1>16. Placed'
  <2>1. Single(Buffered(x)')
    BY <1>15 DEF Single
  <2>2. x \in accepted' /\ OnePlace(x)'
    BY <1>3, <1>13, <1>14, <1>15, <2>1 DEF OnePlace
  <2> QED
    BY <1>11, <1>12, <1>13, <2>2, PlacedMoved DEF IInv
<1>17. Counted'
  <2>1. x \notin DOMAIN docId
    BY <1>3, <1>14 DEF IInv, Counted
  <2>2. Cardinality(DOMAIN docId') = Cardinality(DOMAIN docId) + 1
    BY <1>2, <1>7, <2>1, FS_AddElement
  <2>3. Cardinality(DOMAIN docId) \in Nat
    BY <1>2, FS_CardinalityType
  <2>4. Total(count', Workers) = Total(count, Workers) + 1
    <3>1. /\ IsFiniteSet(Workers) /\ \A v \in Workers : count[v] \in Nat /\ count'[v] \in Nat
          /\ count'[w] = count[w] + 1
      BY <1>2, <1>4, Basics
    <3>2. Total(count, Workers) = count[w] + Total(count, Workers \ {w})
      BY <3>1, SumRemove
    <3>3. Total(count', Workers) = count'[w] + Total(count', Workers \ {w})
      BY <3>1, SumRemove
    <3>4. IsFiniteSet(Workers \ {w})
      BY <3>1, FS_Subset
    <3>5. Total(count', Workers \ {w}) = Total(count, Workers \ {w})
      BY <1>4, <3>1, <3>4, SumSame
    <3>6. Total(count, Workers \ {w}) \in Nat
      BY <3>1, <3>4, SumType
    <3> QED
      BY <3>1, <3>2, <3>3, <3>5, <3>6
  <2>5. \A d \in Docs : d \in DOMAIN docId' <=>
                          d \in accepted' /\ Queued(d)' = {} /\ InHand(d)' = {}
    BY <1>7, <1>11, <1>13, <1>14, <1>15 DEF IInv, Counted
  <2>6. /\ nextDocId = Cardinality(DOMAIN docId) + 1
        /\ Total(count, Workers) = Cardinality(DOMAIN docId)
    BY DEF IInv, Counted
  <2>7. /\ nextDocId' = Cardinality(DOMAIN docId') + 1
        /\ Total(count', Workers) = Cardinality(DOMAIN docId')
    BY <1>1, <2>2, <2>3, <2>4, <2>6
  <2>8. Total(count, Workers)' = Total(count', Workers)
    BY DEF Total
  <2>9. Numbered'
    <3>1. /\ DOMAIN docId' = DOMAIN docId \cup {x} /\ docId'[x] = nextDocId
          /\ \A d \in DOMAIN docId : d # x /\ docId'[d] = docId[d]
      BY <1>1, <2>1
    <3>2. Numbered
      BY DEF IInv, Counted
    <3>3. \A d \in DOMAIN docId : docId'[d] \in Nat /\ docId'[d] < nextDocId
      BY <3>1, <3>2 DEF Numbered
    <3>4. \A d \in DOMAIN docId' : docId'[d] \in Nat /\ docId'[d] < nextDocId'
      BY <1>1, <1>2, <3>1, <3>3
    <3>5. \A d, e \in DOMAIN docId' : docId'[e] = docId'[d] => e = d
      BY <1>2, <3>1, <3>2, <3>3 DEF Numbered
    <3> QED
      BY <3>4, <3>5 DEF Numbered
  <2> QED
    BY <2>5, <2>7, <2>8, <2>9 DEF Counted
<1>18. BeforeMerge' /\ GroupsApart' /\ GroupsInStep' /\ DuringMerge' /\ AfterMerge'
  <2>1. cpc \in {"open", "join"}
    <3>1. cpc \notin {"merge", "done"} /\ cpc \in {"open", "join", "merge", "done"}
      BY <1>1 DEF IInv, CommitInStep, TypeOK
    <3> QED
      BY <3>1
  <2> QED
    BY <1>1, <2>1, MergeKept DEF IInv
<1> QED
  BY <1>8, <1>9, <1>10, <1>16, <1>17, <1>18 DEF IInv

LEMMA DoFlushKeeps ==
  ASSUME IInv, NEW w \in Workers, DoFlush(w)
  PROVE  IInv'
<1> USE DEF workerVars, commitVars
<1> DEFINE next == IF wpc[w] = "flush" THEN "pop" ELSE "exited"
<1>1. /\ wpc[w] \in {"flush", "last"} /\ wpc' = [wpc EXCEPT ![w] = next]
      /\ UNCHANGED <<buf, closed, offered, accepted, hand, count, docId, nextDocId, commitVars>>
  BY DEF DoFlush, AfterFlush, queueVars
<1>2. /\ wpc \in [Workers -> {"pop", "process", "flush", "last", "exited"}]
      /\ stored \in [Workers -> Seq(Docs)] /\ flushed \in [Workers -> SUBSET Nat]
      /\ nextSegId \in Nat
  BY DEF IInv, TypeOK
<1>3. /\ wpc' \in [Workers -> {"pop", "process", "flush", "last", "exited"}]
      /\ wpc'[w] = next /\ \A v \in Workers : v # w => wpc'[v] = wpc[v]
  BY <1>1, <1>2
<1>4. cpc \in {"open", "join"} /\ hand[w] = NoDoc
  <2>1. cpc \in {"open", "join", "merge", "done"}
    BY DEF IInv, TypeOK
  <2> QED
    BY <1>1, <2>1 DEF IInv, CommitInStep, WorkersInStep
<1>5. CommitInStep' /\ OfferedOnce'
  BY <1>1, <1>4 DEF IInv, CommitInStep, OfferedOnce
<1>6. ASSUME ToSet(stored'[w]) \subseteq Termless, \A v \in Workers : v # w => stored'[v] = stored[v]
      PROVE  WorkersInStep'
  <2> SUFFICES ASSUME NEW v \in Workers
               PROVE  /\ hand'[v] # NoDoc <=> wpc'[v] = "process"
                      /\ wpc'[v] \in {"last", "exited"} => closed' /\ buf' = <<>>
                      /\ wpc'[v] = "exited" => ToSet(stored'[v]) \subseteq Termless
    BY DEF WorkersInStep
  <2>1. CASE v = w
    BY <1>1, <1>3, <1>4, <1>6, <2>1 DEF IInv, WorkersInStep
  <2>2. CASE v # w
    BY <1>1, <1>3, <1>6, <2>2 DEF IInv, WorkersInStep
  <2> QED
    BY <2>1, <2>2
<1>7. Counted'
  BY <1>1, CountedKept DEF IInv
<1>8. CASE ~ HasTerms(w) /\ UNCHANGED <<stored, flushed, nextSegId, dirs>>
  <2>1. TypeOK'
    BY <1>1, <1>3, <1>8 DEF IInv, TypeOK
  <2>2. WorkersInStep'
    BY <1>6, <1>8 DEF HasTerms
  <2>3. Placed'
    BY <1>1, <1>8, PlacedKept DEF IInv
  <2>4. BeforeMerge' /\ GroupsApart' /\ GroupsInStep' /\ DuringMerge' /\ AfterMerge'
    BY <1>1, <1>8, MergeKept DEF IInv
  <2> QED
    BY <1>5, <1>7, <2>1, <2>2, <2>3, <2>4 DEF IInv
<1>9. CASE /\ HasTerms(w)
           /\ dirs' = [s \in DOMAIN dirs \cup {nextSegId} |->
                         IF s = nextSegId THEN Segment(stored[w], docId) ELSE dirs[s]]
           /\ nextSegId' = nextSegId + 1
           /\ flushed' = [flushed EXCEPT ![w] = @ \cup {nextSegId}]
           /\ stored'  = [stored EXCEPT ![w] = <<>>]
  <2>0. PICK n \in Nat : n = nextSegId
    BY <1>2
  <2>1. groups = <<>> /\ DOMAIN dirs = TempSegIds /\ \A s \in DOMAIN dirs : dirs[s].done /\ s < n
    BY <1>4, <2>0 DEF IInv, BeforeMerge
  <2>2. n \notin DOMAIN dirs
    BY <2>1
  <2>3. PICK docs \in Seq(Docs) : docs = stored[w]
    BY <1>2
  <2>4. /\ DOMAIN dirs' = DOMAIN dirs \cup {n} /\ \A s \in DOMAIN dirs : dirs'[s] = dirs[s]
        /\ dirs'[n].stored = docs /\ dirs'[n].done
        /\ dirs'[n] = [stored |-> dirs'[n].stored, post |-> dirs'[n].post, done |-> dirs'[n].done]
    BY <1>9, <2>0, <2>2, <2>3 DEF Segment
  <2>5. /\ stored'[w] = <<>> /\ \A v \in Workers : v # w => stored'[v] = stored[v]
        /\ stored' \in [Workers -> Seq(Docs)]
    <3>1. <<>> \in Seq(Docs)
      OBVIOUS
    <3> QED
      BY <1>2, <1>9, <3>1
  <2>6. /\ flushed' \in [Workers -> SUBSET Nat] /\ flushed'[w] = flushed[w] \cup {n}
        /\ \A v \in Workers : v # w => flushed'[v] = flushed[v]
    BY <1>2, <1>9, <2>0
  <2>7. TypeOK'
    <3>1. \A s \in DOMAIN dirs' :
            /\ dirs'[s] = [stored |-> dirs'[s].stored, post |-> dirs'[s].post, done |-> dirs'[s].done]
            /\ dirs'[s].stored \in Seq(Docs) /\ dirs'[s].done \in BOOLEAN
      <4> TAKE s \in DOMAIN dirs'
      <4>1. CASE s = n
        BY <2>3, <2>4, <4>1
      <4>2. CASE s # n
        <5>1. s \in DOMAIN dirs /\ dirs'[s] = dirs[s]
          BY <2>4, <4>2
        <5> QED
          BY <5>1 DEF IInv, TypeOK
      <4> QED
        BY <4>1, <4>2
    <3>2. DOMAIN dirs' \in SUBSET Nat /\ nextSegId' \in Nat
      BY <1>2, <1>9, <2>4 DEF IInv, TypeOK
    <3> QED
      BY <1>1, <1>3, <2>5, <2>6, <3>1, <3>2 DEF IInv, TypeOK
  <2>8. WorkersInStep'
    <3>1. ToSet(stored'[w]) = {}
      BY <2>5 DEF ToSet
    <3> QED
      BY <1>6, <2>5, <3>1
  <2>9. \A d \in Docs : /\ Queued(d)' = Queued(d) /\ InHand(d)' = InHand(d) /\ accepted' = accepted
                        /\ Finished(d)' = IF d \in ToSet(docs) THEN Finished(d) \cup {n}
                                                               ELSE Finished(d)
    <3>1. \A s \in DOMAIN dirs : dirs'[s] = dirs[s] /\ s # n
      BY <2>2, <2>4
    <3> QED
      BY <1>1, <2>4, <3>1 DEF Queued, InHand, Finished, Stored
  <2>10. \A d \in Docs : \A e \in Buffered(d)' : e \in Buffered(d)
    <3> TAKE d \in Docs
    <3> TAKE e \in Buffered(d)'
    <3>1. PICK v \in Workers : e \in {v} \X {i \in DOMAIN stored'[v] : stored'[v][i] = d}
      BY DEF Buffered
    <3>2. v # w
      BY <2>5, <3>1
    <3>3. stored'[v] = stored[v]
      BY <2>5, <3>2
    <3> QED
      BY <3>1, <3>3 DEF Buffered
  <2>11. \A d \in Docs : d \notin ToSet(docs) => Buffered(d)' = Buffered(d)
    <3> TAKE d \in Docs
    <3> HAVE d \notin ToSet(docs)
    <3> SUFFICES ASSUME NEW e \in Buffered(d) PROVE e \in Buffered(d)'
      BY <2>10
    <3>1. PICK v \in Workers : e \in {v} \X {i \in DOMAIN stored[v] : stored[v][i] = d}
      BY DEF Buffered
    <3>2. v # w
      BY <2>3, <3>1 DEF ToSet
    <3>3. stored'[v] = stored[v]
      BY <2>5, <3>2
    <3> QED
      BY <3>1, <3>3 DEF Buffered
  <2>12. ASSUME NEW d \in Docs, d \in ToSet(docs)
         PROVE  d \in accepted' /\ OnePlace(d)'
    <3>1. PICK i \in DOMAIN stored[w] : stored[w][i] = d
      BY <2>3, <2>12 DEF ToSet
    <3>2. <<w, i>> \in Buffered(d)
      BY <3>1 DEF Buffered
    <3>3. d \in accepted /\ OnePlace(d)
      BY <3>2 DEF IInv, Placed, NoPlace
    <3>4. Queued(d) = {} /\ InHand(d) = {} /\ Single(Buffered(d)) /\ Finished(d) = {}
      BY <3>2, <3>3 DEF OnePlace
    <3>5. Buffered(d) = {<<w, i>>}
      BY <3>2, <3>4 DEF Single
    <3>6. <<w, i>> \notin Buffered(d)'
      BY <2>5 DEF Buffered
    <3>7. Buffered(d)' = {}
      BY <2>10, <3>5, <3>6
    <3>8. Finished(d)' = {n}
      BY <2>9, <2>12, <3>4
    <3>9. Single(Finished(d)')
      BY <3>8 DEF Single
    <3> QED
      BY <2>9, <3>3, <3>4, <3>7, <3>9 DEF OnePlace
  <2>13. Placed'
    <3> HIDE DEF OnePlace, Single
    <3> QED
      BY <2>9, <2>11, <2>12, PlacedMoved DEF IInv
  <2>14. BeforeMerge'
    <3>1. TempSegIds' = TempSegIds \cup {n}
      BY <2>6 DEF TempSegIds
    <3>2. \A s \in DOMAIN dirs' : dirs'[s].done /\ s < n + 1
      BY <2>1, <2>4, <1>2 DEF IInv, TypeOK
    <3> QED
      BY <1>1, <1>9, <2>0, <2>1, <2>4, <3>1, <3>2 DEF BeforeMerge
  <2>15. GroupsApart' /\ GroupsInStep' /\ DuringMerge' /\ AfterMerge'
    <3>1. groups' = <<>> /\ cpc' \in {"open", "join"}
      BY <1>1, <1>4, <2>1
    <3> QED
      BY <3>1 DEF GroupsApart, GroupsInStep, GroupInStep, DuringMerge, AfterMerge
  <2> QED
    BY <1>5, <1>7, <2>7, <2>8, <2>13, <2>14, <2>15 DEF IInv
<1> QED
  BY <1>8, <1>9 DEF DoFlush

LEMMA CommitCloseKeeps ==
  ASSUME IInv, CommitClose
  PROVE  IInv'
<1> USE DEF workerVars, commitVars
<1>1. /\ cpc = "open" /\ cpc' = "join" /\ closed' = TRUE /\ \A p \in Producers : offered[p] = NoDoc
      /\ UNCHANGED <<buf, offered, accepted, wpc, hand, stored, count, flushed, docId, nextDocId,
                     nextSegId, dirs, groups, finalIds>>
  BY DEF CommitClose, Close
<1>2. TypeOK' /\ WorkersInStep' /\ CommitInStep' /\ OfferedOnce'
  BY <1>1 DEF IInv, TypeOK, WorkersInStep, CommitInStep, OfferedOnce
<1>3. Placed' /\ Counted'
  BY <1>1, PlacedKept, CountedKept DEF IInv
<1>4. BeforeMerge'
  BY <1>1 DEF IInv, BeforeMerge, TempSegIds
<1>5. GroupsApart' /\ GroupsInStep' /\ DuringMerge' /\ AfterMerge'
  <2>1. groups' = <<>>
    BY <1>1 DEF IInv, BeforeMerge
  <2> QED
    BY <1>1, <2>1 DEF GroupsApart, GroupsInStep, GroupInStep, DuringMerge, AfterMerge
<1> QED
  BY <1>2, <1>3, <1>4, <1>5 DEF IInv

LEMMA CommitCollectKeeps ==
  ASSUME IInv, CommitCollect
  PROVE  IInv'
<1> USE DEF workerVars, commitVars
<1> DEFINE ids   == InOrder(TempSegIds)
           split == SplitIntoGroups(ids, GroupCount(Len(ids)))
<1>1. /\ cpc = "join" /\ \A w \in Workers : wpc[w] = "exited"
      /\ UNCHANGED <<buf, closed, offered, accepted, wpc, hand, stored, count, flushed, docId,
                     nextDocId, dirs>>
      /\ \/ /\ Len(ids) < 2 /\ finalIds' = TempSegIds /\ cpc' = "done"
            /\ UNCHANGED <<groups, nextSegId>>
         \/ /\ Len(ids) >= 2
            /\ groups' = [g \in DOMAIN split |-> [ids |-> split[g], out |-> nextSegId + g - 1,
                                                  state |-> "begin"]]
            /\ nextSegId' = nextSegId + Len(split)
            /\ cpc' = "merge" /\ UNCHANGED finalIds
  BY Zenon DEF CommitCollect, queueVars
<1>2. nextSegId \in Nat /\ \A w \in Workers : flushed[w] \in SUBSET Nat
  BY DEF IInv, TypeOK
<1>3. /\ groups = <<>> /\ DOMAIN dirs = TempSegIds
      /\ \A s \in TempSegIds : dirs[s].done /\ s < nextSegId
  BY <1>1 DEF IInv, BeforeMerge
<1>4. TempSegIds \in SUBSET Nat /\ IsFiniteSet(TempSegIds)
  <2>1. TempSegIds \in SUBSET Nat
    BY <1>2 DEF TempSegIds
  <2>2. \A s \in TempSegIds : s <= nextSegId
    BY <1>2, <1>3, <2>1
  <2> QED
    BY <1>2, <2>1, <2>2, FS_BoundedSetOfNaturals
<1>5. /\ ids \in Seq(Nat) /\ ToSet(ids) = TempSegIds
      /\ \A i, j \in DOMAIN ids : ids[i] = ids[j] => i = j
  <2>1. ids \in Seq(Nat) /\ {ids[i] : i \in DOMAIN ids} = TempSegIds
    BY <1>4, InOrderFacts
  <2>2. \A i, j \in DOMAIN ids : ids[i] = ids[j] => i = j
    BY <1>4, InOrderFacts
  <2> QED
    BY <2>1, <2>2 DEF ToSet
<1>6. WorkersInStep' /\ OfferedOnce' /\ Placed' /\ Counted'
  <2>1. WorkersInStep' /\ OfferedOnce'
    BY <1>1 DEF IInv, WorkersInStep, OfferedOnce
  <2> QED
    BY <1>1, <2>1, PlacedKept, CountedKept DEF IInv
<1>7. cpc' \in {"merge", "done"} /\ CommitInStep' /\ BeforeMerge'
  <2>1. cpc' \in {"merge", "done"}
    BY <1>1
  <2> QED
    BY <1>1, <2>1 DEF IInv, CommitInStep, BeforeMerge
<1> HIDE DEF ids, split
<1>8. CASE /\ finalIds' = TempSegIds /\ cpc' = "done" /\ UNCHANGED <<groups, nextSegId>>
  <2>1. TypeOK'
    BY <1>1, <1>4, <1>8 DEF IInv, TypeOK
  <2>2. groups' = <<>>
    BY <1>3, <1>8
  <2>3. GroupsApart' /\ GroupsInStep' /\ DuringMerge'
    BY <1>8, <2>2 DEF GroupsApart, GroupsInStep, GroupInStep, DuringMerge
  <2>4. AfterMerge'
    BY <1>1, <1>3, <1>8, <2>2 DEF AfterMerge
  <2> QED
    BY <1>6, <1>7, <2>1, <2>3, <2>4 DEF IInv
<1>9. CASE /\ Len(ids) >= 2
           /\ groups' = [g \in DOMAIN split |-> [ids |-> split[g], out |-> nextSegId + g - 1,
                                                 state |-> "begin"]]
           /\ nextSegId' = nextSegId + Len(split)
           /\ cpc' = "merge" /\ UNCHANGED finalIds
  <2>1. PICK n \in 1 .. Len(ids) : n = GroupCount(Len(ids))
    <3>1. Len(ids) \in Nat \ {0}
      BY <1>5, <1>9
    <3> QED
      BY <3>1, GroupCountFacts
  <2>2. /\ split \in Seq(Seq(Nat)) /\ Len(split) = n
        /\ ToSet(ids) = UNION {ToSet(split[g]) : g \in 1 .. n}
        /\ \A g, h \in 1 .. n : g # h => ToSet(split[g]) \cap ToSet(split[h]) = {}
    <3>1. split = SplitIntoGroups(ids, n)
      BY <2>1 DEF split
    <3>2. LET sp == SplitIntoGroups(ids, n)
          IN  /\ sp \in Seq(Seq(Nat)) /\ Len(sp) = n
              /\ ToSet(ids) = UNION {ToSet(sp[g]) : g \in 1 .. n}
              /\ \A g, h \in 1 .. n : g # h => ToSet(sp[g]) \cap ToSet(sp[h]) = {}
      BY <1>5, SplitFacts
    <3> QED
      BY <3>1, <3>2
  <2>3. n \in Nat /\ DOMAIN split = 1 .. n /\ \A g \in 1 .. n : split[g] \in Seq(Nat)
    BY <1>5, <2>1, <2>2
  <2>4. groups' = [g \in 1 .. n |-> [ids |-> split[g], out |-> nextSegId + g - 1,
                                     state |-> "begin"]]
    BY <1>9, <2>3
  <2>5. DOMAIN groups' = 1 .. n
    BY <2>4
  <2>6. \A g \in 1 .. n : /\ groups'[g].out = nextSegId + g - 1 /\ groups'[g].state = "begin"
                          /\ ToSet(groups'[g].ids) = ToSet(split[g])
    BY <2>4
  <2>7. \A g \in 1 .. n : ToSet(split[g]) \in SUBSET TempSegIds
    BY <1>5, <2>2
  <2>8. TypeOK'
    <3>1. \A g \in 1 .. n : groups'[g] \in Group
      BY <1>2, <2>3, <2>4 DEF Group
    <3>2. groups' \in [1 .. n -> Group]
      BY <2>4, <3>1
    <3>3. groups' \in Seq(Group)
      BY <2>3, <3>2
    <3>4. nextSegId' \in Nat
      BY <1>2, <1>9, <2>2, <2>3
    <3> QED
      BY <1>1, <1>9, <3>3, <3>4 DEF IInv, TypeOK
  <2>9. GroupsApart'
    <3>1. \A g, h \in 1 .. n : g # h =>
            /\ groups'[g].out # groups'[h].out
            /\ ToSet(groups'[g].ids) \cap ToSet(groups'[h].ids) = {}
      BY <1>2, <2>2, <2>3, <2>6
    <3>2. \A g, h \in 1 .. n : groups'[g].out \notin ToSet(groups'[h].ids)
      <4> TAKE g, h \in 1 .. n
      <4>1. \A s \in ToSet(groups'[h].ids) : s \in Nat /\ s < nextSegId
        BY <1>3, <1>4, <2>6, <2>7
      <4> QED
        BY <1>2, <2>3, <2>6, <4>1
    <3> QED
      BY <2>5, <3>1, <3>2 DEF GroupsApart, Out, Sources
  <2>10. GroupsInStep'
    <3>1. \A g \in 1 .. n : groups'[g].out \notin DOMAIN dirs'
      <4> TAKE g \in 1 .. n
      <4>1. \A s \in DOMAIN dirs' : s \in Nat /\ s < nextSegId
        BY <1>1, <1>3, <1>4
      <4> QED
        BY <1>2, <2>3, <2>6, <4>1
    <3>2. \A g \in 1 .. n : \A s \in ToSet(groups'[g].ids) : s \in DOMAIN dirs' /\ dirs'[s].done
      BY <1>1, <1>3, <2>6, <2>7
    <3> QED
      BY <2>5, <2>6, <3>1, <3>2 DEF GroupsInStep, GroupInStep, Out, Sources, State
  <2>11. DuringMerge'
    <3>1. \A s \in DOMAIN dirs' : \E g \in 1 .. n : s \in ToSet(groups'[g].ids)
      BY <1>1, <1>3, <1>5, <2>2, <2>6
    <3> QED
      BY <2>5, <2>6, <3>1 DEF DuringMerge, Sources, State
  <2>12. AfterMerge'
    BY <1>9 DEF AfterMerge
  <2> QED
    BY <1>6, <1>7, <2>8, <2>9, <2>10, <2>11, <2>12 DEF IInv
<1> QED
  BY <1>1, <1>8, <1>9

\* A merge thread sets the state of its own group.
LEMMA StateSet ==
  ASSUME groups \in Seq(Group), NEW g \in DOMAIN groups, NEW x \in {"begin", "written", "done"},
         groups' = [groups EXCEPT ![g].state = x]
  PROVE  /\ groups' \in Seq(Group) /\ DOMAIN groups' = DOMAIN groups
         /\ \A h \in DOMAIN groups : /\ Out(h)' = Out(h) /\ Sources(h)' = Sources(h)
                                     /\ State(h)' = IF h = g THEN x ELSE State(h)
<1>1. groups \in [1 .. Len(groups) -> Group] /\ Len(groups) \in Nat /\ DOMAIN groups = 1 .. Len(groups)
  OBVIOUS
<1>2. groups' = [groups EXCEPT ![g] = [groups[g] EXCEPT !.state = x]]
  OBVIOUS
<1>3. \A h \in DOMAIN groups : groups'[h] = IF h = g THEN [groups[g] EXCEPT !.state = x] ELSE groups[h]
  BY <1>1, <1>2
<1>4. /\ groups[g] \in Group /\ [groups[g] EXCEPT !.state = x] \in Group
      /\ [groups[g] EXCEPT !.state = x].ids = groups[g].ids
      /\ [groups[g] EXCEPT !.state = x].out = groups[g].out
      /\ [groups[g] EXCEPT !.state = x].state = x
  BY <1>1 DEF Group
<1>5. groups' \in [1 .. Len(groups) -> Group]
  BY <1>1, <1>2, <1>4
<1>6. groups' \in Seq(Group) /\ DOMAIN groups' = DOMAIN groups
  BY <1>1, <1>5
<1>7. \A h \in DOMAIN groups : /\ Out(h)' = Out(h) /\ Sources(h)' = Sources(h)
                               /\ State(h)' = IF h = g THEN x ELSE State(h)
  BY <1>3, <1>4 DEF Out, Sources, State
<1> QED
  BY <1>6, <1>7

\* The keys of the documents of a group, and the positions remap gives them.
Keys(g, docs) ==
  LET src == [d \in ToSet(docs) |->
                CHOOSE s \in ToSet(groups[g].ids) : d \in ToSet(dirs[s].stored)]
  IN  [d \in ToSet(docs) |-> Key(src[d], docId[d])]

Positions(g, docs) == [d \in ToSet(docs) |-> Remap(docs, Keys(g, docs), d)]

\* Where no other id is equal modulo 2^20 no other document has the same key, so
\* that remap leads to the document.
LEMMA PositionsFacts ==
  ASSUME Numbered, NEW g, NEW docs \in Seq(Docs),
         \A d \in ToSet(docs) : d \in DOMAIN docId,
         NEW d \in ToSet(docs),
         \A e \in ToSet(docs) : docId[e] % IdSpan = docId[d] % IdSpan => docId[e] = docId[d]
  PROVE  /\ Positions(g, docs)[d] \in DOMAIN docs
         /\ docs[Positions(g, docs)[d]] = d
<1>0. PICK key : key = Keys(g, docs)
  OBVIOUS
<1>1. \A e \in ToSet(docs) : key[e][2] = docId[e] % IdSpan
  BY <1>0 DEF Keys, Key
<1>2. \A e \in ToSet(docs) : key[e] = key[d] => e = d
  BY <1>1 DEF Numbered
<1>3. \A i \in DOMAIN docs : docs[i] \in ToSet(docs)
  BY DEF ToSet
<1> DEFINE S == {i \in DOMAIN docs : key[docs[i]] = key[d]}
<1>4. S \in SUBSET Nat /\ S # {} /\ Len(docs) \in Nat /\ \A i \in S : i <= Len(docs)
  BY DEF ToSet
<1>5. PICK m \in S : \A i \in S : i <= m
  <2> HIDE DEF S
  <2> QED
    BY <1>4, GreatestElement
<1>6. \E i \in DOMAIN docs : /\ key[docs[i]] = key[d]
                            /\ \A j \in DOMAIN docs : j > i => key[docs[j]] # key[d]
  <2>1. \A j \in DOMAIN docs : j > m => j \notin S
    BY <1>4, <1>5
  <2> QED
    BY <1>5, <2>1
<1>7. Remap(docs, key, d) \in DOMAIN docs /\ key[docs[Remap(docs, key, d)]] = key[d]
  BY <1>6, Zenon DEF Remap
<1>8. Positions(g, docs)[d] = Remap(docs, key, d)
  BY <1>0 DEF Positions
<1> QED
  BY <1>2, <1>3, <1>7, <1>8

\* doMerge lays the documents of the sources end to end.
LEMMA ConcatenationFacts ==
  ASSUME TypeOK, NEW g \in DOMAIN groups, \A s \in Sources(g) : s \in DOMAIN dirs
  PROVE  /\ Concatenation(g) \in Seq(Docs)
         /\ ToSet(Concatenation(g)) = UNION {Stored(s) : s \in Sources(g)}
<1> DEFINE ids == groups[g].ids
           ss  == [k \in 1 .. Len(ids) |-> dirs[ids[k]].stored]
<1>1. ids \in Seq(Nat) /\ Len(ids) \in Nat /\ DOMAIN ids = 1 .. Len(ids)
  <2>1. groups[g] \in Group
    BY DEF TypeOK
  <2> QED
    BY <2>1 DEF Group
<1>2. \A k \in 1 .. Len(ids) : ids[k] \in Sources(g)
  BY <1>1 DEF Sources, ToSet
<1>3. \A k \in 1 .. Len(ids) : dirs[ids[k]].stored \in Seq(Docs)
  BY <1>2 DEF TypeOK
<1>4. ss \in Seq(Seq(Docs)) /\ DOMAIN ss = 1 .. Len(ids)
  <2>1. ss \in [1 .. Len(ids) -> Seq(Docs)]
    BY <1>3
  <2> QED
    BY <1>1, <2>1
<1>5. \A k \in 1 .. Len(ids) : ss[k] = dirs[ids[k]].stored
  OBVIOUS
<1>6. Concatenation(g) = FlattenSeq(ss)
  BY DEF Concatenation
<1> HIDE DEF ss
<1>7. /\ FlattenSeq(ss) \in Seq(Docs)
      /\ ToSet(FlattenSeq(ss)) = UNION {ToSet(ss[k]) : k \in 1 .. Len(ids)}
  BY <1>4, FlattenFacts
<1>8. \A s \in Sources(g) : \E k \in 1 .. Len(ids) : s = ids[k]
  BY <1>1 DEF Sources, ToSet
<1>9. UNION {ToSet(ss[k]) : k \in 1 .. Len(ids)} = UNION {Stored(s) : s \in Sources(g)}
  <2>1. \A k \in 1 .. Len(ids) : ToSet(ss[k]) = Stored(ids[k])
    BY <1>5 DEF Stored
  <2> QED
    BY <1>2, <1>8, <2>1
<1> QED
  BY <1>6, <1>7, <1>9

LEMMA MergeWriteKeeps ==
  ASSUME IInv, NEW g \in DOMAIN groups, MergeWrite(g)
  PROVE  IInv'
<1> USE DEF workerVars, commitVars
<1>0. PICK docs, o, pos : /\ docs = Concatenation(g) /\ o = Out(g)
                          /\ pos = Positions(g, docs)
  OBVIOUS
<1>1. /\ cpc = "merge" /\ State(g) = "begin"
      /\ dirs' = [s \in DOMAIN dirs \cup {o} |->
                    IF s = o THEN [Segment(docs, pos) EXCEPT !.done = FALSE] ELSE dirs[s]]
      /\ groups' = [groups EXCEPT ![g].state = "written"]
      /\ UNCHANGED <<buf, closed, offered, accepted, wpc, hand, stored, count, flushed, docId,
                     nextDocId, nextSegId, cpc, finalIds>>
  BY <1>0 DEF MergeWrite, Positions, Keys, queueVars, Out, State
<1>2. /\ groups \in Seq(Group) /\ DOMAIN dirs \in SUBSET Nat /\ o \in Nat
      /\ o \notin DOMAIN dirs /\ \A s \in Sources(g) : s \in DOMAIN dirs
  <2>1. groups \in Seq(Group) /\ DOMAIN dirs \in SUBSET Nat
    BY DEF IInv, TypeOK
  <2>2. o \in Nat
    <3>1. groups[g] \in Group
      BY <2>1
    <3> QED
      BY <1>0, <3>1 DEF Group, Out
  <2> QED
    BY <1>0, <1>1, <2>1, <2>2 DEF IInv, GroupsInStep, GroupInStep
<1>3. /\ groups' \in Seq(Group) /\ DOMAIN groups' = DOMAIN groups
      /\ \A h \in DOMAIN groups : /\ Out(h)' = Out(h) /\ Sources(h)' = Sources(h)
                                  /\ State(h)' = IF h = g THEN "written" ELSE State(h)
  BY <1>1, <1>2, StateSet
<1>4. docs \in Seq(Docs) /\ ToSet(docs) = UNION {Stored(s) : s \in Sources(g)}
  BY <1>0, <1>2, ConcatenationFacts DEF IInv
<1>5. /\ DOMAIN dirs' = DOMAIN dirs \cup {o}
      /\ \A s \in DOMAIN dirs : s # o /\ dirs'[s] = dirs[s]
      /\ dirs'[o] = [stored |-> docs, post |-> [d \in ToSet(docs) \ Termless |-> pos[d]], done |-> FALSE]
  BY <1>1, <1>2 DEF Segment
<1>6. Stored(o)' = ToSet(docs) /\ \A s \in DOMAIN dirs : Stored(s)' = Stored(s)
  BY <1>5 DEF Stored
<1>7. \A s \in DOMAIN dirs : Readable(s) => Readable(s)'
  BY <1>1, <1>5, <1>6 DEF Readable, Aliased, Findable
<1>8. Readable(o)'
  <2> SUFFICES ASSUME NEW d \in ToSet(docs) \ Termless, ~ Aliased(d, o)' PROVE Findable(d, o)'
    BY <1>6 DEF Readable
  <2>1. \A e \in ToSet(docs) : docId[e] % IdSpan = docId[d] % IdSpan => docId[e] = docId[d]
    BY <1>1, <1>5 DEF Aliased
  <2>2. \A e \in ToSet(docs) : e \in DOMAIN docId
    <3> TAKE e \in ToSet(docs)
    <3>1. PICK s \in Sources(g) : e \in Stored(s)
      BY <1>4
    <3>2. s \in DOMAIN dirs /\ dirs[s].done
      BY <1>1 DEF IInv, GroupsInStep, GroupInStep
    <3>3. e \in Docs /\ s \in Finished(e)
      BY <1>4, <3>1, <3>2 DEF Finished, ToSet
    <3>4. e \in accepted /\ OnePlace(e)
      BY <3>3 DEF IInv, Placed, NoPlace
    <3>5. Queued(e) = {} /\ InHand(e) = {}
      BY <3>3, <3>4 DEF OnePlace
    <3> QED
      BY <3>3, <3>4, <3>5 DEF IInv, Counted
  <2>3. pos[d] \in DOMAIN docs /\ docs[pos[d]] = d
    <3>1. pos = Positions(g, docs) /\ Numbered
      BY <1>0 DEF IInv, Counted
    <3> QED
      BY <1>4, <2>1, <2>2, <3>1, PositionsFacts
  <2> QED
    BY <1>5, <2>3 DEF Findable
<1>9. TypeOK'
  <2>1. \A s \in DOMAIN dirs' :
          /\ dirs'[s] = [stored |-> dirs'[s].stored, post |-> dirs'[s].post, done |-> dirs'[s].done]
          /\ dirs'[s].stored \in Seq(Docs) /\ dirs'[s].done \in BOOLEAN
    <3> TAKE s \in DOMAIN dirs'
    <3>1. CASE s = o
      <4>1. dirs'[o].stored = docs /\ dirs'[o].done = FALSE
        BY <1>5
      <4>2. dirs'[o] = [stored |-> dirs'[o].stored, post |-> dirs'[o].post, done |-> dirs'[o].done]
        BY <1>5
      <4> QED
        BY <1>4, <3>1, <4>1, <4>2
    <3>2. CASE s # o
      BY <1>5, <3>2 DEF IInv, TypeOK
    <3> QED
      BY <3>1, <3>2
  <2>2. DOMAIN dirs' \in SUBSET Nat
    BY <1>2, <1>5
  <2> QED
    BY <1>1, <1>3, <2>1, <2>2 DEF IInv, TypeOK
<1>10. WorkersInStep' /\ CommitInStep' /\ OfferedOnce' /\ Counted'
  <2>1. WorkersInStep' /\ CommitInStep' /\ OfferedOnce'
    BY <1>1 DEF IInv, WorkersInStep, CommitInStep, OfferedOnce
  <2> QED
    BY <1>1, <2>1, CountedKept DEF IInv
<1>11. Placed'
  <2>1. \A d \in Docs : /\ Queued(d)' = Queued(d) /\ InHand(d)' = InHand(d)
                        /\ Buffered(d)' = Buffered(d) /\ accepted' = accepted
    BY <1>1 DEF Queued, InHand, Buffered
  <2>2. \A d \in Docs : Finished(d)' = Finished(d)
    BY <1>5, <1>6 DEF Finished
  <2> QED
    BY <2>1, <2>2, PlacedMoved DEF IInv
<1>12. BeforeMerge' /\ AfterMerge'
  BY <1>1 DEF BeforeMerge, AfterMerge
<1>13. GroupsApart'
  BY <1>3 DEF IInv, GroupsApart
<1>14. GroupsInStep'
  <2>1. ASSUME NEW h \in DOMAIN groups PROVE GroupInStep(h)'
    <3>0. PICK oh, sh : oh = Out(h) /\ sh = Sources(h)
      OBVIOUS
    <3>1. oh = Out(h)' /\ sh = Sources(h)' /\ Readable(Out(h))' = Readable(oh)' /\ Stored(Out(h))' = Stored(oh)'
      <4>1. oh = Out(h)' /\ sh = Sources(h)'
        BY <1>1, <1>3, <3>0
      <4>2. /\ Stored(Out(h))' = Stored(oh)'
            /\ \A d : Findable(d, Out(h))' <=> Findable(d, oh)'
        BY <4>1 DEF Findable, Stored
      <4>3. \A d : Aliased(d, Out(h))' <=> Aliased(d, oh)'
        BY <4>1, Zenon DEF Aliased
      <4> QED
        BY <4>1, <4>2, <4>3 DEF Readable
    <3>2. CASE h = g
      <4>1. State(h)' = "written" /\ oh = o /\ \A s \in sh : s \in DOMAIN dirs
        BY <1>0, <1>2, <1>3, <3>0, <3>2
      <4>2. \A s \in sh : Stored(s)' = Stored(s) /\ dirs'[s].done
        BY <1>1, <1>5, <1>6, <3>0, <3>2, <4>1 DEF IInv, GroupsInStep, GroupInStep
      <4>3. Stored(oh)' = UNION {Stored(s)' : s \in sh}
        BY <1>4, <1>6, <3>0, <3>2, <4>1, <4>2
      <4> HIDE DEF Readable, Stored
      <4> QED
        BY <1>5, <1>8, <3>1, <4>1, <4>2, <4>3 DEF GroupInStep
    <3>3. CASE h # g
      <4>1. State(h)' = State(h) /\ oh # o
        BY <1>0, <1>3, <3>0, <3>3 DEF IInv, GroupsApart
      <4>2. /\ State(h) = "begin" => oh \notin DOMAIN dirs
            /\ State(h) # "begin" => oh \in DOMAIN dirs /\ Readable(oh)
            /\ State(h) = "written" => /\ ~ dirs[oh].done
                                       /\ Stored(oh) = UNION {Stored(s) : s \in sh}
            /\ State(h) = "done" => dirs[oh].done
            /\ State(h) # "done" => \A s \in sh : s \in DOMAIN dirs /\ dirs[s].done
        BY <3>0 DEF IInv, GroupsInStep, GroupInStep
      <4>3. State(h) # "done" => \A s \in sh : s \in DOMAIN dirs' /\ dirs'[s].done
        BY <1>5, <4>2
      <4>4. State(h) = "written" => Stored(oh)' = UNION {Stored(s)' : s \in sh}
        BY <1>6, <4>2
      <4> QED
        BY <1>5, <1>7, <3>1, <4>1, <4>2, <4>3, <4>4 DEF GroupInStep
    <3> QED
      BY <3>2, <3>3
  <2> QED
    BY <1>3, <2>1 DEF GroupsInStep
<1>15. DuringMerge'
  <2>1. \A s \in DOMAIN dirs :
          \/ \E h \in DOMAIN groups : s \in Sources(h) /\ State(h) # "done"
          \/ \E h \in DOMAIN groups : s = Out(h) /\ State(h) # "begin"
    BY <1>1 DEF IInv, DuringMerge
  <2>2. o = Out(g)' /\ State(g)' # "begin"
    BY <1>0, <1>3
  <2>3. \A h \in DOMAIN groups : (State(h) # "done" => State(h)' # "done") /\ (State(h) # "begin" => State(h)' # "begin")
    BY <1>1, <1>3
  <2> QED
    BY <1>3, <1>5, <2>1, <2>2, <2>3 DEF DuringMerge
<1> QED
  BY <1>9, <1>10, <1>11, <1>12, <1>13, <1>14, <1>15 DEF IInv

LEMMA MergeFinishKeeps ==
  ASSUME IInv, NEW g \in DOMAIN groups, MergeFinish(g)
  PROVE  IInv'
<1> USE DEF workerVars, commitVars
<1>0. PICK o, sg : o = Out(g) /\ sg = Sources(g)
  OBVIOUS
<1>1. /\ cpc = "merge" /\ State(g) = "written"
      /\ dirs' = [s \in DOMAIN dirs \ sg |->
                    IF s = o THEN [dirs[s] EXCEPT !.done = TRUE] ELSE dirs[s]]
      /\ groups' = [groups EXCEPT ![g].state = "done"]
      /\ UNCHANGED <<buf, closed, offered, accepted, wpc, hand, stored, count, flushed, docId,
                     nextDocId, nextSegId, cpc, finalIds>>
  BY <1>0 DEF MergeFinish, queueVars, Out, State, Sources
<1>2. /\ o \in DOMAIN dirs /\ Readable(o) /\ ~ dirs[o].done /\ o \notin sg
      /\ Stored(o) = UNION {Stored(s) : s \in sg}
      /\ \A s \in sg : s \in DOMAIN dirs /\ dirs[s].done
  BY <1>0, <1>1 DEF IInv, GroupsApart, GroupsInStep, GroupInStep
<1>3. /\ groups' \in Seq(Group) /\ DOMAIN groups' = DOMAIN groups
      /\ \A h \in DOMAIN groups : /\ Out(h)' = Out(h) /\ Sources(h)' = Sources(h)
                                  /\ State(h)' = IF h = g THEN "done" ELSE State(h)
  <2>1. groups \in Seq(Group)
    BY DEF IInv, TypeOK
  <2> QED
    BY <1>1, <2>1, StateSet
<1>4. \A s \in DOMAIN dirs :
        /\ dirs[s] = [stored |-> dirs[s].stored, post |-> dirs[s].post, done |-> dirs[s].done]
        /\ dirs[s].stored \in Seq(Docs) /\ dirs[s].done \in BOOLEAN
  BY DEF IInv, TypeOK
<1>5. /\ DOMAIN dirs' = DOMAIN dirs \ sg
      /\ \A s \in DOMAIN dirs' : s # o => dirs'[s] = dirs[s]
      /\ o \in DOMAIN dirs' /\ dirs'[o] = [dirs[o] EXCEPT !.done = TRUE]
  BY <1>1, <1>2
<1>6. dirs'[o] = [stored |-> dirs[o].stored, post |-> dirs[o].post, done |-> TRUE]
  <2>1. dirs[o] = [stored |-> dirs[o].stored, post |-> dirs[o].post, done |-> dirs[o].done]
    BY <1>2, <1>4
  <2> QED
    BY <1>5, <2>1
<1>7. \A s \in DOMAIN dirs' : /\ s \in DOMAIN dirs /\ s \notin sg
                              /\ dirs'[s].stored = dirs[s].stored /\ dirs'[s].post = dirs[s].post
                              /\ dirs'[s].done = IF s = o THEN TRUE ELSE dirs[s].done
  <2> TAKE s \in DOMAIN dirs'
  <2>1. CASE s = o
    BY <1>2, <1>5, <1>6, <2>1
  <2>2. CASE s # o
    BY <1>5, <2>2
  <2> QED
    BY <2>1, <2>2
<1>8. \A s \in DOMAIN dirs' : Stored(s)' = Stored(s) /\ (Readable(s) => Readable(s)')
  BY <1>1, <1>7 DEF Stored, Readable, Aliased, Findable
<1>9. TypeOK'
  <2>1. \A s \in DOMAIN dirs' :
          /\ dirs'[s] = [stored |-> dirs'[s].stored, post |-> dirs'[s].post, done |-> dirs'[s].done]
          /\ dirs'[s].stored \in Seq(Docs) /\ dirs'[s].done \in BOOLEAN
    <3> TAKE s \in DOMAIN dirs'
    <3>1. CASE s = o
      <4>1. dirs'[o] = [stored |-> dirs'[o].stored, post |-> dirs'[o].post, done |-> dirs'[o].done]
        BY <1>6
      <4>2. dirs'[o].stored = dirs[o].stored /\ dirs'[o].done = TRUE
        BY <1>6
      <4> QED
        BY <1>2, <1>4, <3>1, <4>1, <4>2
    <3>2. CASE s # o
      BY <1>4, <1>5, <3>2
    <3> QED
      BY <3>1, <3>2
  <2>2. DOMAIN dirs' \in SUBSET Nat
    BY <1>5 DEF IInv, TypeOK
  <2> QED
    BY <1>1, <1>3, <2>1, <2>2 DEF IInv, TypeOK
<1>10. WorkersInStep' /\ CommitInStep' /\ OfferedOnce' /\ Counted'
  <2>1. WorkersInStep' /\ CommitInStep' /\ OfferedOnce'
    BY <1>1 DEF IInv, WorkersInStep, CommitInStep, OfferedOnce
  <2> QED
    BY <1>1, <2>1, CountedKept DEF IInv
<1>11. Placed'
  <2>1. \A d \in Docs : /\ Queued(d)' = Queued(d) /\ InHand(d)' = InHand(d)
                        /\ Buffered(d)' = Buffered(d) /\ accepted' = accepted
    BY <1>1 DEF Queued, InHand, Buffered
  <2>2. \A d \in Docs : Finished(d)' = (Finished(d) \ sg) \cup (IF d \in Stored(o) THEN {o} ELSE {})
    <3> TAKE d \in Docs
    <3>1. \A s \in DOMAIN dirs' : s \in Finished(d)' <=>
             s \in (Finished(d) \ sg) \cup (IF d \in Stored(o) THEN {o} ELSE {})
      BY <1>2, <1>7, <1>8 DEF Finished
    <3>2. Finished(d)' \in SUBSET DOMAIN dirs'
      BY DEF Finished
    <3>3. (Finished(d) \ sg) \cup (IF d \in Stored(o) THEN {o} ELSE {}) \in SUBSET DOMAIN dirs'
      BY <1>5 DEF Finished
    <3> QED
      BY <3>1, <3>2, <3>3
  <2>3. ASSUME NEW d \in Docs, d \in Stored(o)
        PROVE  d \in accepted' /\ OnePlace(d)'
    <3>1. PICK s \in sg : d \in Stored(s)
      BY <1>2, <2>3
    <3>2. s \in Finished(d)
      BY <1>2, <3>1 DEF Finished
    <3>3. d \in accepted /\ OnePlace(d)
      BY <3>2 DEF IInv, Placed, NoPlace
    <3>4. Queued(d) = {} /\ InHand(d) = {} /\ Buffered(d) = {} /\ Finished(d) = {s}
      BY <3>2, <3>3 DEF OnePlace, Single
    <3>5. Finished(d)' = {o}
      BY <2>2, <2>3, <3>4
    <3>6. Single(Finished(d)')
      BY <3>5 DEF Single
    <3> QED
      BY <2>1, <3>3, <3>4, <3>6 DEF OnePlace
  <2>4. \A d \in Docs : d \notin Stored(o) => Finished(d)' = Finished(d)
    <3> TAKE d \in Docs
    <3> HAVE d \notin Stored(o)
    <3>1. \A s \in sg : s \notin Finished(d)
      BY <1>2 DEF Finished
    <3> QED
      BY <2>2, <3>1
  <2> HIDE DEF OnePlace, Single
  <2> QED
    BY <2>1, <2>3, <2>4, PlacedMoved DEF IInv
<1>12. BeforeMerge' /\ AfterMerge'
  BY <1>1 DEF BeforeMerge, AfterMerge
<1>13. GroupsApart'
  BY <1>3 DEF IInv, GroupsApart
<1>14. GroupsInStep'
  <2>1. ASSUME NEW h \in DOMAIN groups PROVE GroupInStep(h)'
    <3>0. PICK oh, sh : oh = Out(h) /\ sh = Sources(h)
      OBVIOUS
    <3>1. oh = Out(h)' /\ sh = Sources(h)' /\ Readable(Out(h))' = Readable(oh)' /\ Stored(Out(h))' = Stored(oh)'
      <4>1. oh = Out(h)' /\ sh = Sources(h)'
        BY <1>1, <1>3, <3>0
      <4>2. /\ Stored(Out(h))' = Stored(oh)'
            /\ \A d : Findable(d, Out(h))' <=> Findable(d, oh)'
        BY <4>1 DEF Findable, Stored
      <4>3. \A d : Aliased(d, Out(h))' <=> Aliased(d, oh)'
        BY <4>1, Zenon DEF Aliased
      <4> QED
        BY <4>1, <4>2, <4>3 DEF Readable
    <3>2. CASE h = g
      <4>1. State(h)' = "done" /\ oh = o
        BY <1>0, <1>3, <3>0, <3>2
      <4> HIDE DEF Readable, Stored
      <4> QED
        BY <1>2, <1>5, <1>7, <1>8, <3>1, <4>1 DEF GroupInStep
    <3>3. CASE h # g
      <4>1. State(h)' = State(h) /\ oh # o /\ oh \notin sg /\ sh \cap sg = {} /\ o \notin sh
        BY <1>0, <1>3, <3>0, <3>3 DEF IInv, GroupsApart
      <4>2. /\ State(h) = "begin" => oh \notin DOMAIN dirs
            /\ State(h) # "begin" => oh \in DOMAIN dirs /\ Readable(oh)
            /\ State(h) = "written" => /\ ~ dirs[oh].done
                                       /\ Stored(oh) = UNION {Stored(s) : s \in sh}
            /\ State(h) = "done" => dirs[oh].done
            /\ State(h) # "done" => \A s \in sh : s \in DOMAIN dirs /\ dirs[s].done
        BY <3>0 DEF IInv, GroupsInStep, GroupInStep
      <4>3. State(h) # "done" => \A s \in sh : s \in DOMAIN dirs' /\ dirs'[s].done
        BY <1>5, <4>1, <4>2
      <4>4. State(h) # "begin" => oh \in DOMAIN dirs' /\ dirs'[oh] = dirs[oh] /\ Stored(oh)' = Stored(oh)
        BY <1>5, <1>8, <4>1, <4>2
      <4>5. State(h) = "written" => Stored(oh)' = UNION {Stored(s)' : s \in sh}
        <5> SUFFICES ASSUME State(h) = "written" PROVE Stored(oh)' = UNION {Stored(s)' : s \in sh}
          OBVIOUS
        <5>1. \A s \in sh : Stored(s)' = Stored(s)
          BY <1>8, <4>3
        <5>2. Stored(oh)' = UNION {Stored(s) : s \in sh}
          BY <4>2, <4>4
        <5> QED
          BY <5>1, <5>2
      <4>6. State(h) = "begin" => oh \notin DOMAIN dirs'
        BY <1>5, <4>2
      <4>7. State(h) # "begin" => Readable(oh)'
        BY <1>8, <4>2, <4>4
      <4> HIDE DEF Readable, Stored
      <4> QED
        BY <3>1, <4>1, <4>2, <4>3, <4>4, <4>5, <4>6, <4>7 DEF GroupInStep
    <3> QED
      BY <3>2, <3>3
  <2> QED
    BY <1>3, <2>1 DEF GroupsInStep
<1>15. DuringMerge'
  <2>1. \A s \in DOMAIN dirs :
          \/ \E h \in DOMAIN groups : s \in Sources(h) /\ State(h) # "done"
          \/ \E h \in DOMAIN groups : s = Out(h) /\ State(h) # "begin"
    BY <1>1 DEF IInv, DuringMerge
  <2>2. \A s \in DOMAIN dirs' : s \in DOMAIN dirs /\ s \notin Sources(g)
    BY <1>0, <1>5
  <2>3. \A h \in DOMAIN groups : State(h) # "begin" => State(h)' # "begin"
    BY <1>3
  <2>4. \A h \in DOMAIN groups : h # g => State(h)' = State(h)
    BY <1>3
  <2> QED
    BY <1>3, <2>1, <2>2, <2>3, <2>4 DEF DuringMerge
<1> QED
  BY <1>9, <1>10, <1>11, <1>12, <1>13, <1>14, <1>15 DEF IInv

LEMMA CommitFinishKeeps ==
  ASSUME IInv, CommitFinish
  PROVE  IInv'
<1> USE DEF workerVars, commitVars
<1>1. /\ cpc = "merge" /\ cpc' = "done" /\ \A g \in DOMAIN groups : State(g) = "done"
      /\ finalIds' = {Out(g) : g \in DOMAIN groups}
      /\ UNCHANGED <<buf, closed, offered, accepted, wpc, hand, stored, count, flushed, docId,
                     nextDocId, nextSegId, dirs, groups>>
  BY DEF CommitFinish, queueVars, State, Out
<1>2. \A g \in DOMAIN groups : Out(g) \in DOMAIN dirs /\ Readable(Out(g)) /\ dirs[Out(g)].done
  BY <1>1 DEF IInv, GroupsInStep, GroupInStep
<1>3. DOMAIN dirs = finalIds'
  BY <1>1, <1>2 DEF IInv, DuringMerge
<1>4. TypeOK'
  <2>1. finalIds' \in SUBSET Nat
    BY <1>3 DEF IInv, TypeOK
  <2> QED
    BY <1>1, <2>1 DEF IInv, TypeOK
<1>5. WorkersInStep' /\ CommitInStep' /\ OfferedOnce' /\ BeforeMerge' /\ DuringMerge'
  BY <1>1 DEF IInv, WorkersInStep, CommitInStep, OfferedOnce, BeforeMerge, DuringMerge
<1>6. Placed' /\ Counted'
  BY <1>1, PlacedKept, CountedKept DEF IInv
<1>7. GroupsApart'
  BY <1>1 DEF IInv, GroupsApart, Out, Sources
<1>8. GroupsInStep'
  BY <1>1 DEF IInv, GroupsInStep, GroupInStep, Out, Sources, State, Readable, Aliased, Findable,
              Stored
<1>9. AfterMerge'
  <2>1. \A s \in finalIds' : Readable(s) /\ dirs[s].done
    BY <1>1, <1>2
  <2>2. \A s \in finalIds' : Readable(s)'
    BY <1>1, <2>1 DEF Readable, Aliased, Findable, Stored
  <2> QED
    BY <1>1, <1>3, <2>1, <2>2 DEF AfterMerge
<1> QED
  BY <1>4, <1>5, <1>6, <1>7, <1>8, <1>9 DEF IInv

\* The invariant is inductive.
THEOREM IInvHolds == Spec => []IInv
<1>1. Init => IInv
  BY InitIInv
<1>2. IInv /\ [Next]_vars => IInv'
  <2> SUFFICES ASSUME IInv, [Next]_vars PROVE IInv'
    OBVIOUS
  <2>1. ASSUME NEW p \in Producers, AddDocument(p) PROVE IInv'
    BY <2>1, AddDocumentKeeps
  <2>2. ASSUME NEW p \in Producers, NEW d \in Docs, Offer(p, d) PROVE IInv'
    BY <2>2, OfferKeeps
  <2>3. ASSUME NEW w \in Workers, WorkerStep(w) PROVE IInv'
    <3>1. CASE WorkerPop(w)
      BY <3>1, WorkerPopKeeps
    <3>2. CASE WorkerProcess(w)
      BY <3>2, WorkerProcessKeeps
    <3>3. CASE DoFlush(w)
      BY <3>3, DoFlushKeeps
    <3> QED
      BY <2>3, <3>1, <3>2, <3>3 DEF WorkerStep
  <2>4. CASE CommitClose
    BY <2>4, CommitCloseKeeps
  <2>5. CASE CommitStep
    <3>1. CASE CommitCollect
      BY <3>1, CommitCollectKeeps
    <3>2. CASE CommitFinish
      BY <3>2, CommitFinishKeeps
    <3>3. ASSUME NEW g \in DOMAIN groups, MergeWrite(g) PROVE IInv'
      BY <3>3, MergeWriteKeeps
    <3>4. ASSUME NEW g \in DOMAIN groups, MergeFinish(g) PROVE IInv'
      BY <3>4, MergeFinishKeeps
    <3> QED
      BY <2>5, <3>1, <3>2, <3>3, <3>4 DEF CommitStep
  <2>6. ASSUME NEW t \in Producers \cup Workers, Wake(t) PROVE IInv'
    BY <2>6, QueueKeeps DEF Wake, SpuriousWake
  <2>7. CASE UNCHANGED vars
    BY <2>7, QueueKeeps DEF vars, queueVars
  <2> QED
    BY <2>1, <2>2, <2>3, <2>4, <2>5, <2>6, <2>7 DEF Next
<1> QED
  BY <1>1, <1>2, PTL DEF Spec

-----------------------------------------------------------------------------
(* What the invariant means to callers and searches *)

LEMMA OneCard ==
  /\ Cardinality({}) = 0
  /\ \A S : Single(S) => Cardinality(S) = 1
BY FS_EmptySet, FS_Singleton DEF Single

\* From the push that accepts it on, a document is in exactly one place: the
\* queue, a worker's hand or buffer, or a segment that counts.
THEOREM HeldOnceHolds == Spec => []HeldOnce
<1>1. IInv => HeldOnce
  <2> SUFFICES ASSUME IInv PROVE HeldOnce
    OBVIOUS
  <2>1. Len(buf) <= Capacity
    BY DEF IInv, TypeOK
  <2>2. ASSUME NEW d \in accepted
        PROVE  Cardinality(Queued(d)) + Cardinality(InHand(d)) + Cardinality(Buffered(d))
                 + Cardinality(Finished(d)) = 1
    <3>1. OnePlace(d)
      BY <2>2 DEF IInv, TypeOK, Placed
    <3> QED
      BY <3>1, OneCard DEF OnePlace
  <2>3. ASSUME NEW d
        PROVE  /\ {i \in DOMAIN buf : buf[i] = d} = Queued(d)
               /\ {w \in Workers : hand[w] = d} = InHand(d)
               /\ UNION {{w} \X {i \in DOMAIN stored[w] : stored[w][i] = d} : w \in Workers} = Buffered(d)
               /\ {s \in StoredIn(d) : dirs[s].done} = Finished(d)
    <3>1. {s \in StoredIn(d) : dirs[s].done} = Finished(d)
      BY DEF Finished, StoredIn, Stored
    <3> QED
      BY <3>1 DEF Queued, InHand, Buffered
  <2> QED
    BY <2>1, <2>2, <2>3 DEF HeldOnce
<1> QED
  BY <1>1, IInvHolds, PTL

\* After commit() every accepted document with a term is in exactly one final
\* segment, and the counters agree with what was accepted.
THEOREM CommitKeepsDocsHolds == Spec => []CommitKeepsDocs
<1>1. IInv => CommitKeepsDocs
  <2> SUFFICES ASSUME IInv, cpc = "done"
               PROVE  /\ buf = <<>> /\ DOMAIN dirs = finalIds /\ \A s \in DOMAIN dirs : dirs[s].done
                      /\ \A d \in accepted \ Termless : Cardinality(StoredIn(d)) = 1
                      /\ nextDocId - 1 = Cardinality(accepted)
                      /\ FoldSet(LAMBDA w, sum : count[w] + sum, 0, Workers) = Cardinality(accepted)
    BY DEF CommitKeepsDocs
  <2>1. \A w \in Workers : wpc[w] = "exited"
    BY DEF IInv, CommitInStep
  <2>2. /\ buf = <<>>
        /\ \A w \in Workers : hand[w] = NoDoc /\ ToSet(stored[w]) \subseteq Termless
    BY <2>1, Basics DEF IInv, WorkersInStep
  <2>3. DOMAIN dirs = finalIds /\ \A s \in DOMAIN dirs : dirs[s].done
    BY DEF IInv, AfterMerge
  <2>4. \A d \in Docs : Queued(d) = {} /\ InHand(d) = {}
    BY <2>2, Basics DEF Queued, InHand
  <2>5. ASSUME NEW d \in accepted \ Termless PROVE Cardinality(StoredIn(d)) = 1
    <3>1. d \in Docs /\ OnePlace(d)
      BY DEF IInv, TypeOK, Placed
    <3>2. Buffered(d) = {}
      <4> SUFFICES ASSUME NEW e \in Buffered(d) PROVE FALSE
        OBVIOUS
      <4>1. PICK w \in Workers : e \in {w} \X {i \in DOMAIN stored[w] : stored[w][i] = d}
        BY DEF Buffered
      <4>2. d \in ToSet(stored[w])
        BY <4>1 DEF ToSet
      <4> QED
        BY <2>2, <4>2
    <3>3. Single(Finished(d))
      BY <2>4, <3>1, <3>2 DEF OnePlace, Single
    <3>4. StoredIn(d) = Finished(d)
      BY <2>3 DEF StoredIn, Finished, Stored
    <3> QED
      BY <3>3, <3>4, OneCard
  <2>6. DOMAIN docId = accepted
    BY <2>4 DEF IInv, TypeOK, Counted
  <2>7. nextDocId - 1 = Cardinality(accepted)
    <3>1. Cardinality(DOMAIN docId) \in Nat
      BY FS_CardinalityType DEF IInv, TypeOK
    <3> QED
      BY <2>6, <3>1 DEF IInv, Counted
  <2>8. FoldSet(LAMBDA w, sum : count[w] + sum, 0, Workers) = Total(count, Workers)
    BY Zenon DEF FoldSet, MapThenFoldSet, Total
  <2> QED
    BY <2>2, <2>3, <2>5, <2>6, <2>7, <2>8 DEF IInv, Counted
<1> QED
  BY <1>1, IInvHolds, PTL

\* After the merges a posting leads to the stored document it is of, unless the
\* segment has another one whose id differs by a multiple of 2^20.
THEOREM MergedFindableHolds == Spec => []MergedFindable
<1>1. IInv => MergedFindable
  BY DEF IInv, AfterMerge, Readable, Stored, MergedFindable
<1> QED
  BY <1>1, IInvHolds, PTL
=============================================================================
