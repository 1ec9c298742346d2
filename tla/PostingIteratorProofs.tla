------------------------ MODULE PostingIteratorProofs ------------------------
(***************************************************************************)
(* Proofs about PostingIterator: the codec gives back the documents of a   *)
(* block, the readers find in the files of a flush and of a merge what the *)
(* writers put there, and the lazy iterator is a cursor on the list.       *)
(***************************************************************************)
EXTENDS PostingIterator, DataLemmas, SequenceTheorems

-----------------------------------------------------------------------------
(* PForDelta: a block and back *)

LEMMA LeastOf ==
  ASSUME NEW S \in SUBSET Nat, S # {}
  PROVE  Min(S) \in S /\ \A x \in S : Min(S) <= x
BY LeastElement DEF Min

LEMMA PowerType == ASSUME NEW b \in Nat PROVE 2 ^ b \in Int
OBVIOUS

LEMMA RemainderOfSmall ==
  ASSUME NEW x \in Nat, NEW m \in Int, x <= m - 1
  PROVE  x % m = x
OBVIOUS

\* The width of a block.
LEMMA BitWidthType ==
  ASSUME NEW deltas
  PROVE  ChooseBitWidth(deltas) \in 1 .. Width
<1> DEFINE S == {b \in 1 .. Width : \/ b = Width
                                    \/ Cardinality(Fits(deltas, b))
                                         >= (Len(deltas) * CoverTenths + 9) \div 10}
<1>1. Width \in S /\ S \in SUBSET Nat
  BY CodecAssumption
<1>2. ChooseBitWidth(deltas) = Min(S)
  BY Zenon DEF ChooseBitWidth
<1>3. Min(S) \in S
  <2> HIDE DEF S
  <2> QED
    BY <1>1, LeastOf
<1> QED
  BY <1>2, <1>3

\* The documents of a block: a sequence in ascending order.
Ascending(s) == s \in Seq(Nat) /\ \A i, j \in 1 .. Len(s) : i < j => s[i] < s[j]

\* What is decoded, one document after the other.
DeltaOf(b, k) == IF k \in DOMAIN b.patch THEN b.patch[k] ELSE b.slots[k]

Decodes(b, f) ==
  f = [k \in 1 .. b.size |-> IF k = 1 THEN DeltaOf(b, 1) ELSE f[k - 1] + DeltaOf(b, k)]

LEMMA EncodedBlock ==
  ASSUME NEW docs, Ascending(docs), docs # <<>>, NEW e, e = Encode(docs)
  PROVE  /\ e.size = Len(docs) /\ e.maxDoc = docs[Len(docs)]
         /\ \A k \in 1 .. Len(docs) : DeltaOf(e, k) = IF k = 1 THEN docs[1] ELSE docs[k] - docs[k - 1]
         /\ e.b \in 1 .. Width
         /\ DOMAIN e.patch \subseteq 1 .. Len(docs)
<1> DEFINE deltas == Deltas(docs)
           b == ChooseBitWidth(deltas)
           fits == Fits(deltas, b)
<1>1. b \in 1 .. Width /\ 1 .. Width \subseteq Nat
  BY BitWidthType, CodecAssumption
<1>2. DOMAIN docs = 1 .. Len(docs) /\ Len(docs) \in Nat \ {0} /\ \A k \in 1 .. Len(docs) : docs[k] \in Nat
  BY DEF Ascending
<1>3. /\ DOMAIN deltas = 1 .. Len(docs)
      /\ \A k \in 1 .. Len(docs) : deltas[k] = IF k = 1 THEN docs[1] ELSE docs[k] - docs[k - 1]
  BY <1>2 DEF Deltas
<1>4. \A k \in 1 .. Len(docs) : deltas[k] \in Nat
  <2> TAKE k \in 1 .. Len(docs)
  <2>1. k # 1 => k - 1 \in 1 .. Len(docs) /\ k - 1 < k
    BY <1>2
  <2>2. k # 1 => docs[k - 1] < docs[k]
    BY <2>1 DEF Ascending
  <2> HIDE DEF deltas
  <2> QED
    BY <1>2, <1>3, <2>1, <2>2
<1>5. /\ e.b = b /\ e.size = Len(docs) /\ e.maxDoc = docs[Len(docs)]
      /\ e.slots = PackBits([k \in DOMAIN docs |-> IF k \in fits THEN deltas[k] ELSE 0], b)
      /\ e.patch = [k \in DOMAIN docs \ fits |-> deltas[k]]
  <2>1. e = [b |-> b, size |-> Len(docs), maxDoc |-> docs[Len(docs)],
             slots |-> PackBits([k \in DOMAIN docs |-> IF k \in fits THEN deltas[k] ELSE 0], b),
             patch |-> [k \in DOMAIN docs \ fits |-> deltas[k]]]
    BY Zenon DEF Encode
  <2> HIDE DEF deltas, b, fits
  <2> QED
    BY <2>1
<1>6. fits = {k \in 1 .. Len(docs) : deltas[k] <= 2 ^ b - 1}
  BY <1>3, Zenon DEF Fits, MaxVal
<1>7. 2 ^ b \in Int
  BY <1>1, PowerType
<1> HIDE DEF deltas, b, fits
<1>8. ASSUME NEW k \in 1 .. Len(docs) PROVE DeltaOf(e, k) = deltas[k]
  <2>1. CASE k \in fits
    <3>1. e.slots[k] = deltas[k] % 2 ^ b
      BY <1>2, <1>5, <2>1 DEF PackBits
    <3>2. PICK m \in Int, x \in Nat : m = 2 ^ b /\ x = deltas[k] /\ x <= m - 1
      BY <1>4, <1>6, <1>7, <2>1
    <3>3. x % m = x
      BY <3>2, RemainderOfSmall
    <3>4. k \notin DOMAIN e.patch
      BY <1>5, <2>1
    <3> QED
      BY <3>1, <3>2, <3>3, <3>4 DEF DeltaOf
  <2>2. CASE k \notin fits
    BY <1>2, <1>5, <2>2 DEF DeltaOf
  <2> QED
    BY <2>1, <2>2
<1> QED
  BY <1>1, <1>2, <1>3, <1>5, <1>8

\* decompressBlock gives back what compress was given.
LEMMA DecodesEncoded ==
  ASSUME NEW docs, Ascending(docs), docs # <<>>
  PROVE  Decode(Encode(docs)) = docs
<1>1. PICK e : e = Encode(docs)
  OBVIOUS
<1>2. /\ e.size = Len(docs)
      /\ \A k \in 1 .. Len(docs) : DeltaOf(e, k) = IF k = 1 THEN docs[1] ELSE docs[k] - docs[k - 1]
  BY <1>1, EncodedBlock
<1>3. /\ Len(docs) \in Nat \ {0} /\ \A k \in 1 .. Len(docs) : docs[k] \in Nat
      /\ docs = [k \in 1 .. Len(docs) |-> docs[k]]
  BY DEF Ascending
<1>4. \A k \in 1 .. Len(docs) : k # 1 => k - 1 \in 1 .. Len(docs)
  BY <1>3
<1>5. Decode(e) = CHOOSE f : Decodes(e, f)
  BY Zenon DEF Decode, Decodes, DeltaOf
<1>6. Decodes(e, docs)
  <2>1. \A k \in 1 .. Len(docs) : docs[k] = IF k = 1 THEN DeltaOf(e, 1) ELSE docs[k - 1] + DeltaOf(e, k)
    BY <1>2, <1>3, <1>4
  <2>2. docs = [k \in 1 .. Len(docs) |-> IF k = 1 THEN DeltaOf(e, 1) ELSE docs[k - 1] + DeltaOf(e, k)]
    BY <1>3, <2>1, Zenon
  <2> QED
    BY <1>2, <2>2, Zenon DEF Decodes
<1>7. PICK f : f = Decode(e) /\ Decodes(e, f)
  BY <1>5, <1>6
<1>8. /\ f = [k \in 1 .. Len(docs) |-> f[k]]
      /\ \A k \in 1 .. Len(docs) : f[k] = IF k = 1 THEN DeltaOf(e, 1) ELSE f[k - 1] + DeltaOf(e, k)
  BY <1>2, <1>7 DEF Decodes
<1>9. \A k \in 1 .. Len(docs) : f[k] = docs[k]
  <2> DEFINE Bad == {k \in 1 .. Len(docs) : f[k] # docs[k]}
  <2> SUFFICES ASSUME Bad # {} PROVE FALSE
    OBVIOUS
  <2>1. Bad \in SUBSET Nat
    BY <1>3
  <2>2. PICK k \in Bad : \A j \in Bad : k <= j
    BY <2>1, LeastElement
  <2>3. k \in 1 .. Len(docs) /\ f[k] # docs[k]
    OBVIOUS
  <2>4. k # 1 => f[k - 1] = docs[k - 1]
    <3>1. k # 1 => k - 1 \in 1 .. Len(docs) /\ ~ (k <= k - 1)
      BY <1>3, <2>3
    <3> QED
      BY <2>2, <3>1
  <2> HIDE DEF Bad
  <2>5. k # 1 => docs[k - 1] \in Nat /\ docs[k] \in Nat
    BY <1>3, <1>4, <2>3
  <2>6. CASE k = 1
    <3>1. f[k] = DeltaOf(e, 1) /\ DeltaOf(e, k) = docs[1]
      BY <1>2, <1>8, <2>3, <2>6
    <3> QED
      BY <2>3, <2>6, <3>1
  <2>7. CASE k # 1
    <3>1. f[k] = f[k - 1] + DeltaOf(e, k) /\ DeltaOf(e, k) = docs[k] - docs[k - 1]
      BY <1>2, <1>8, <2>3, <2>7
    <3> QED
      BY <2>3, <2>4, <2>5, <2>7, <3>1
  <2> QED
    BY <2>6, <2>7
<1>10. f = docs
  BY <1>3, <1>8, <1>9
<1> QED
  BY <1>1, <1>7, <1>10

\* A block takes some bytes.
LEMMA BlockBytesType ==
  ASSUME NEW docs, Ascending(docs), docs # <<>>
  PROVE  BlockBytes(Encode(docs)) \in Nat \ {0}
<1>1. PICK e : e = Encode(docs)
  OBVIOUS
<1>2. e.size \in Nat /\ e.b \in Nat /\ DOMAIN e.patch \subseteq 1 .. Len(docs) /\ Len(docs) \in Nat
  <2>1. Len(docs) \in Nat /\ 1 .. Width \subseteq Nat
    BY CodecAssumption DEF Ascending
  <2> QED
    BY <1>1, <2>1, EncodedBlock
<1>3. Cardinality(DOMAIN e.patch) \in Nat
  <2>1. IsFiniteSet(1 .. Len(docs))
    BY <1>2, FS_Interval
  <2>2. IsFiniteSet(DOMAIN e.patch)
    BY <1>2, <2>1, FS_Subset
  <2> QED
    BY <2>2, FS_CardinalityType
<1>4. (e.size * e.b + 7) \div 8 \in Nat
  <2>1. e.size * e.b + 7 \in Nat /\ 8 \in Nat \ {0}
    BY <1>2
  <2> QED
    BY <2>1, DivFacts
<1> QED
  BY <1>1, <1>3, <1>4 DEF BlockBytes, HeaderBytes, PatchBytes

-----------------------------------------------------------------------------
(* The blocks of a list *)

\* Where the k-th block of a list of n documents begins and ends.
From(k)    == (k - 1) * BlockSize
Upto(n, k) == Min({k * BlockSize, n})

LEMMA LesserOf ==
  ASSUME NEW a \in Nat, NEW b \in Nat
  PROVE  /\ Min({a, b}) \in Nat /\ Min({a, b}) <= a /\ Min({a, b}) <= b
         /\ Min({a, b}) = IF a <= b THEN a ELSE b
<1>1. Min({a, b}) \in {a, b} /\ \A x \in {a, b} : Min({a, b}) <= x
  <2>1. {a, b} \in SUBSET Nat /\ {a, b} # {}
    OBVIOUS
  <2> QED
    BY <2>1, LeastOf
<1> QED
  BY <1>1

LEMMA BlockBounds ==
  ASSUME NEW s \in Seq(Nat), s # <<>>
  PROVE  /\ BlockCount(s) \in Nat \ {0}
         /\ \A k \in 1 .. BlockCount(s) :
              /\ From(k) \in Nat /\ Upto(Len(s), k) \in Nat
              /\ From(k) < Upto(Len(s), k) /\ Upto(Len(s), k) <= Len(s)
              /\ Upto(Len(s), k) <= From(k) + BlockSize
              /\ k < BlockCount(s) => Upto(Len(s), k) = From(k + 1) /\ Upto(Len(s), k) = From(k) + BlockSize
              /\ k = BlockCount(s) => Upto(Len(s), k) = Len(s)
<1> DEFINE m == Len(s)
           n == BlockCount(s)
<1>1. m \in Nat \ {0} /\ BlockSize \in Nat \ {0}
  BY CodecAssumption
<1>2. /\ n \in Nat /\ m <= n * BlockSize
      /\ n = 0 <=> m = 0
      /\ \A k \in 1 .. n : (k - 1) * BlockSize \in Nat /\ (k - 1) * BlockSize < m
  BY <1>1, PagesOfChain DEF BlockCount
<1> HIDE DEF m, n
<1>3. ASSUME NEW k \in 1 .. n
      PROVE  /\ From(k) \in Nat /\ Upto(m, k) \in Nat
             /\ From(k) < Upto(m, k) /\ Upto(m, k) <= m
             /\ Upto(m, k) <= From(k) + BlockSize
             /\ k < n => Upto(m, k) = From(k + 1) /\ Upto(m, k) = From(k) + BlockSize
             /\ k = n => Upto(m, k) = m
  <2>1. k * BlockSize = (k - 1) * BlockSize + BlockSize /\ k * BlockSize \in Nat
    BY <1>1, <1>2
  <2>2. From(k) = (k - 1) * BlockSize /\ From(k) \in Nat /\ From(k) < m
    BY <1>2 DEF From
  <2>3. Upto(m, k) = IF k * BlockSize <= m THEN k * BlockSize ELSE m
    BY <1>1, <2>1, LesserOf DEF Upto
  <2>4. k < n => k * BlockSize < m /\ From(k + 1) = k * BlockSize
    <3> SUFFICES ASSUME k < n PROVE k * BlockSize < m /\ From(k + 1) = k * BlockSize
      OBVIOUS
    <3>1. k + 1 \in 1 .. n /\ (k + 1) - 1 = k
      BY <1>2
    <3> QED
      BY <1>2, <3>1 DEF From
  <2>5. k = n => m <= k * BlockSize
    BY <1>2
  <2> DEFINE p == k * BlockSize
  <2>6. p = From(k) + BlockSize /\ p \in Nat
    BY <2>1, <2>2
  <2>7. /\ Upto(m, k) = IF p <= m THEN p ELSE m
        /\ k < n => p < m /\ From(k + 1) = p
        /\ k = n => m <= p
    BY <2>3, <2>4, <2>5
  <2> HIDE DEF p
  <2> QED
    BY <1>1, <2>2, <2>6, <2>7
<1> QED
  BY <1>1, <1>2, <1>3 DEF m, n

\* A block is a part of the list.
LEMMA BlockIs ==
  ASSUME NEW s \in Seq(Nat), s # <<>>, NEW k \in 1 .. BlockCount(s)
  PROVE  /\ BlockDocs(s, k) \in Seq(Nat) /\ BlockDocs(s, k) # <<>>
         /\ Len(BlockDocs(s, k)) = Upto(Len(s), k) - From(k)
         /\ \A i \in 1 .. Len(BlockDocs(s, k)) : BlockDocs(s, k)[i] = s[From(k) + i]
<1> DEFINE i == From(k) + 1
           j == Upto(Len(s), k)
           b == BlockDocs(s, k)
<1>1. From(k) \in Nat /\ j \in Nat /\ From(k) < j /\ j <= Len(s)
  BY BlockBounds
<1>2. i = From(k) + 1 /\ i \in Int /\ j \in Int
  BY <1>1
<1>3. b = SubSeq(s, i, j)
  BY DEF BlockDocs, From, Upto
<1> HIDE DEF i, j, b
<1>4. \A x \in i .. j : s[x] \in Nat
  BY <1>1, <1>2
<1>5. /\ b \in Seq(Nat) /\ Len(b) = j - i + 1
      /\ \A x \in 1 .. j - i + 1 : b[x] = s[i + x - 1]
  BY <1>1, <1>2, <1>3, <1>4, SubSeqProperties
<1>6. Len(b) = j - From(k) /\ b # <<>>
  BY <1>1, <1>2, <1>5
<1>7. \A x \in 1 .. Len(b) : i + x - 1 = From(k) + x
  BY <1>1, <1>2
<1> QED
  BY <1>5, <1>6, <1>7 DEF b, j

LEMMA BlockAscending ==
  ASSUME NEW s, Ascending(s), s # <<>>, NEW k \in 1 .. BlockCount(s)
  PROVE  Ascending(BlockDocs(s, k)) /\ BlockDocs(s, k) # <<>>
<1>1. s \in Seq(Nat) /\ Len(s) \in Nat /\ \A i, j \in 1 .. Len(s) : i < j => s[i] < s[j]
  BY DEF Ascending
<1>2. From(k) \in Nat /\ Upto(Len(s), k) \in Nat /\ Upto(Len(s), k) <= Len(s)
  BY <1>1, BlockBounds
<1>3. PICK b : b = BlockDocs(s, k)
  OBVIOUS
<1>4. /\ b \in Seq(Nat) /\ b # <<>> /\ Len(b) = Upto(Len(s), k) - From(k)
      /\ \A i \in 1 .. Len(b) : b[i] = s[From(k) + i]
  BY <1>1, <1>3, BlockIs
<1>5. ASSUME NEW i \in 1 .. Len(b), NEW j \in 1 .. Len(b), i < j PROVE b[i] < b[j]
  <2>1. PICK f \in Nat, u \in Nat, m \in Nat :
          f = From(k) /\ m = Len(s) /\ u <= m /\ Len(b) = u - f
    BY <1>1, <1>2, <1>4
  <2>2. f + i \in 1 .. m /\ f + j \in 1 .. m /\ f + i < f + j
    <3>1. i \in 1 .. u - f /\ j \in 1 .. u - f /\ i < j
      BY <1>5, <2>1
    <3> QED
      BY <2>1, <3>1
  <2> QED
    BY <1>1, <1>4, <2>1, <2>2
<1> QED
  BY <1>3, <1>4, <1>5 DEF Ascending

-----------------------------------------------------------------------------
(* The documents of a term *)

\* A set of documents as a sequence: each once, in ascending order.
LEMMA IncreasingFacts ==
  ASSUME NEW S \in SUBSET Nat, IsFiniteSet(S)
  PROVE  /\ Ascending(Increasing(S)) /\ Len(Increasing(S)) = Cardinality(S)
         /\ ToSet(Increasing(S)) = S
<1> DEFINE n == Cardinality(S)
           below(d) == {e \in S : e < d}
           rank == [d \in S |-> Cardinality(below(d)) + 1]
           s == Increasing(S)
<1>1. n \in Nat
  BY FS_CardinalityType
<1>2. ASSUME NEW d \in S PROVE IsFiniteSet(below(d)) /\ Cardinality(below(d)) \in Nat /\ Cardinality(below(d)) < n
  <2>1. below(d) \in SUBSET S /\ below(d) # S
    OBVIOUS
  <2> HIDE DEF below
  <2>2. /\ IsFiniteSet(below(d)) /\ Cardinality(below(d)) <= n
        /\ n = Cardinality(below(d)) => S = below(d)
    BY <2>1, FS_Subset
  <2> QED
    BY <1>1, <2>1, <2>2, FS_CardinalityType
<1>3. ASSUME NEW d \in S, NEW e \in S, d < e PROVE Cardinality(below(d)) < Cardinality(below(e))
  <2>1. below(d) \in SUBSET below(e) /\ d \in below(e) /\ d \notin below(d)
    <3>1. d \in Nat /\ e \in Nat /\ \A x \in S : x \in Nat /\ (x < d => x < e)
      BY <1>3
    <3>2. ~ (d < d)
      BY <3>1
    <3> QED
      BY <1>3, <3>1, <3>2
  <2> HIDE DEF below
  <2>2. /\ Cardinality(below(d)) <= Cardinality(below(e))
        /\ Cardinality(below(e)) = Cardinality(below(d)) => below(e) = below(d)
    BY <1>2, <2>1, FS_Subset
  <2> QED
    BY <1>2, <2>1, <2>2
<1> HIDE DEF below
<1>4. rank \in [S -> 1 .. n] /\ \A d, e \in S : d < e => rank[d] < rank[e]
  BY <1>1, <1>2, <1>3
<1>5. \A d \in S : rank[d] = Cardinality(below(d)) + 1
  OBVIOUS
<1> HIDE DEF rank
<1>6. \A d, e \in S : rank[d] = rank[e] => d = e
  <2> TAKE d, e \in S
  <2>1. d < e \/ e < d \/ d = e
    OBVIOUS
  <2>2. rank[d] \in Nat /\ rank[e] \in Nat
    BY <1>1, <1>4
  <2> QED
    BY <1>4, <2>1, <2>2
<1>7. \A i \in 1 .. n : \E d \in S : rank[d] = i
  <2>1. rank \in Injection(S, 1 .. n)
    BY <1>4, <1>6 DEF Injection, IsInjective
  <2>2. IsFiniteSet(1 .. n) /\ Cardinality(1 .. n) = n
    BY <1>1, FS_Interval
  <2>3. rank \in Surjection(S, 1 .. n)
    BY <2>1, <2>2, FS_Injection
  <2> QED
    BY <2>3 DEF Surjection
<1>8. s = [i \in 1 .. n |-> CHOOSE d \in S : Cardinality(below(d)) = i - 1]
  BY Zenon DEF Increasing, below
<1>9. ASSUME NEW i \in 1 .. n PROVE s[i] \in S /\ rank[s[i]] = i
  <2>1. \E d \in S : Cardinality(below(d)) = i - 1
    BY <1>1, <1>2, <1>5, <1>7
  <2>2. s[i] = CHOOSE d \in S : Cardinality(below(d)) = i - 1
    BY <1>8
  <2> HIDE DEF s
  <2>3. s[i] \in S /\ Cardinality(below(s[i])) = i - 1
    BY <2>1, <2>2
  <2>4. (i - 1) + 1 = i
    BY <1>1
  <2> QED
    BY <1>5, <2>3, <2>4, Zenon
<1>10. s = [i \in 1 .. n |-> s[i]]
  BY <1>8
<1> HIDE DEF s
<1>11. s \in Seq(Nat) /\ Len(s) = n /\ DOMAIN s = 1 .. n
  BY <1>1, <1>9, <1>10
<1>12. ASSUME NEW i \in 1 .. n, NEW j \in 1 .. n, i < j PROVE s[i] < s[j]
  <2>1. s[i] \in S /\ s[j] \in S /\ rank[s[i]] = i /\ rank[s[j]] = j
    BY <1>9
  <2>2. s[j] < s[i] => rank[s[j]] < rank[s[i]]
    BY <1>4, <2>1
  <2>3. s[i] # s[j]
    BY <1>12, <2>1
  <2>4. s[i] \in Nat /\ s[j] \in Nat
    BY <2>1
  <2>5. i \in Nat /\ j \in Nat /\ ~ (j < i)
    BY <1>1, <1>12
  <2> QED
    BY <2>1, <2>2, <2>3, <2>4, <2>5
<1>13. ToSet(s) = S
  <2>1. \A d \in S : rank[d] \in 1 .. n /\ s[rank[d]] = d
    BY <1>4, <1>6, <1>9
  <2> QED
    BY <1>9, <1>11, <2>1 DEF ToSet
<1> QED
  BY <1>11, <1>12, <1>13 DEF Ascending, s

\* The list of a term, as the initial states have it.
AscendingDocs(s) ==
  /\ Ascending(s) /\ s # <<>>
  /\ ToSet(s) \in SUBSET Docs /\ \A i \in 1 .. Len(s) : s[i] \in Docs

LEMMA ListsFacts ==
  ASSUME NEW s \in Lists
  PROVE  AscendingDocs(s)
<1>1. PICK S \in (SUBSET Docs) \ {{}} : s = Increasing(S)
  BY DEF Lists
<1>2. Docs \in SUBSET Nat /\ IsFiniteSet(Docs)
  BY IteratorAssumption, FS_Interval DEF Docs
<1>3. S \in SUBSET Nat /\ IsFiniteSet(S) /\ S # {} /\ S \in SUBSET Docs
  <2>1. S # {} /\ S \in SUBSET Docs
    OBVIOUS
  <2> QED
    BY <1>2, <2>1, FS_Subset
<1>4. Ascending(s) /\ Len(s) = Cardinality(S) /\ ToSet(s) = S
  BY <1>1, <1>3, IncreasingFacts
<1>5. \A i \in 1 .. Len(s) : s[i] \in S
  BY <1>4 DEF ToSet, Ascending
<1>6. s # <<>>
  BY <1>3, <1>4 DEF ToSet
<1> QED
  BY <1>3, <1>4, <1>5, <1>6 DEF AscendingDocs

\* ids never changes.
LEMMA IdsConstant == Spec => []AscendingDocs(ids)
<1>1. Init => AscendingDocs(ids)
  BY ListsFacts DEF Init
<1>2. AscendingDocs(ids) /\ [Next]_vars => AscendingDocs(ids)'
  <2> SUFFICES ASSUME AscendingDocs(ids), [Next]_vars PROVE AscendingDocs(ids)'
    OBVIOUS
  <2>1. ids' = ids
    BY DEF Next, NextInBlock, NextBlock, Advance, ScanBlock, SeekToBlock, SeekRound, vars, onDisk
  <2> QED
    BY <2>1 DEF AscendingDocs, Ascending, ToSet
<1> QED
  BY <1>1, <1>2, PTL DEF Spec

\* Whatever a block's differences are, however wide its slots and however many
\* of its documents lie in patches: decompressBlock gives back the documents.
THEOREM ReadsBackHolds == Spec => []ReadsBack
<1>1. AscendingDocs(ids) => ReadsBack
  <2> SUFFICES ASSUME AscendingDocs(ids), NEW k \in 1 .. BlockCount(ids)
               PROVE  Decode(Blocks(ids)[k]) = BlockDocs(ids, k)
    BY DEF ReadsBack
  <2>1. Blocks(ids)[k] = Encode(BlockDocs(ids, k))
    BY DEF Blocks
  <2>2. Ascending(BlockDocs(ids, k)) /\ BlockDocs(ids, k) # <<>>
    BY BlockAscending DEF AscendingDocs
  <2> QED
    BY <2>1, <2>2, DecodesEncoded
<1> QED
  BY <1>1, IdsConstant, PTL

-----------------------------------------------------------------------------
(* Files *)

\* Whatever lies in a file lies before its end.
GoodFile(f) == f.end \in Nat /\ DOMAIN f.at \subseteq 0 .. f.end - 1

Has(f, o, v) == o \in DOMAIN f.at /\ f.at[o] = v

\* What was in f is in g.
Keeps(f, g) ==
  f.end <= g.end /\ \A o \in DOMAIN f.at : o \in DOMAIN g.at /\ g.at[o] = f.at[o]

LEMMA KeepsHas ==
  ASSUME NEW f, NEW g, Keeps(f, g), NEW o, NEW v, Has(f, o, v)
  PROVE  Has(g, o, v)
BY DEF Keeps, Has

LEMMA KeepsOn ==
  ASSUME NEW f, NEW g, NEW h, f.end \in Nat, g.end \in Nat, h.end \in Nat, Keeps(f, g), Keeps(g, h)
  PROVE  Keeps(f, h)
BY DEF Keeps

LEMMA PutFacts ==
  ASSUME NEW f, GoodFile(f), NEW thing, thing[1] \in Nat \ {0}, NEW g, g = Put(f, thing)
  PROVE  /\ GoodFile(g) /\ Keeps(f, g)
         /\ g.end = f.end + thing[1] /\ Has(g, f.end, thing[2])
<1>1. g.end = f.end + thing[1] /\ g.at = With(f.at, f.end, thing[2])
  BY DEF Put
<1>2. g.at = [o \in {f.end} \cup DOMAIN f.at |-> IF o = f.end THEN thing[2] ELSE f.at[o]]
  BY <1>1, Zenon DEF With
<1>3. f.end \in Nat /\ DOMAIN f.at \subseteq 0 .. f.end - 1
  BY DEF GoodFile
<1>4. DOMAIN g.at = {f.end} \cup DOMAIN f.at /\ f.end \notin DOMAIN f.at
  BY <1>2, <1>3
<1>5. \A o \in DOMAIN f.at : g.at[o] = f.at[o]
  BY <1>2, <1>4
<1>6. g.at[f.end] = thing[2]
  BY <1>2
<1>7. GoodFile(g)
  <2>1. PICK e \in Nat, n \in Nat \ {0} : e = f.end /\ n = thing[1]
    BY <1>3
  <2>2. DOMAIN g.at \subseteq 0 .. (e + n) - 1 /\ e + n \in Nat
    BY <1>3, <1>4, <2>1
  <2> QED
    BY <1>1, <2>1, <2>2 DEF GoodFile
<1> QED
  BY <1>1, <1>3, <1>4, <1>5, <1>6, <1>7 DEF Keeps, Has

\* The recursion of PutAll has a solution.
Putting(f, things, N, g) ==
  g = [n \in 0 .. N |-> IF n = 0 THEN f ELSE Put(g[n - 1], things[n])]

LEMMA PutAllUnfolds ==
  ASSUME NEW f, NEW things, Len(things) \in Nat
  PROVE  \E g : Putting(f, things, Len(things), g) /\ PutAll(f, things) = g[Len(things)]
<1> DEFINE N == Len(things)
           S == {n \in 0 .. N : \E g : Putting(f, things, n, g)}
<1>1. 0 \in S
  <2>1. Putting(f, things, 0, [n \in 0 .. 0 |-> f])
    BY DEF Putting
  <2> QED
    BY <2>1
<1>2. ASSUME NEW n \in 0 .. N, n < N, n \in S PROVE n + 1 \in S
  <2>1. PICK g : Putting(f, things, n, g)
    BY <1>2
  <2> DEFINE h == [m \in 0 .. n + 1 |-> IF m = 0 THEN f ELSE Put(g[m - 1], things[m])]
  <2>2. \A m \in 0 .. n : h[m] = g[m]
    BY <2>1 DEF Putting
  <2>3. \A m \in 0 .. n + 1 : m = 0 \/ m - 1 \in 0 .. n
    OBVIOUS
  <2>4. Putting(f, things, n + 1, h)
    BY <2>2, <2>3 DEF Putting
  <2> QED
    BY <1>2, <2>4
<1>3. PICK g : Putting(f, things, N, g)
  <2> HIDE DEF S
  <2>1. \A n \in 0 .. N : n \in S
    BY <1>1, <1>2, AllUpTo
  <2> QED
    BY <2>1 DEF S
<1>4. PutAll(f, things) = (CHOOSE h : Putting(f, things, N, h))[N]
  BY Zenon DEF PutAll, Each, Putting
<1>5. PICK h : h = CHOOSE x : Putting(f, things, N, x)
  OBVIOUS
<1> QED
  BY <1>3, <1>4, <1>5

\* Things of some bytes each.
Sized(things) ==
  Len(things) \in Nat /\ \A n \in 1 .. Len(things) : things[n][1] \in Nat \ {0}

\* p says where the things lie in g, one behind the other.
Lie(g, p, things) ==
  /\ p \in [1 .. Len(things) + 1 -> Nat]
  /\ \A n \in 1 .. Len(things) :
       p[n + 1] = p[n] + things[n][1] /\ Has(g, p[n], things[n][2])

LEMMA PutAllFacts ==
  ASSUME NEW f, GoodFile(f), NEW things, Sized(things), NEW g, g = PutAll(f, things)
  PROVE  /\ GoodFile(g) /\ Keeps(f, g)
         /\ \E p : Lie(g, p, things) /\ p[1] = f.end /\ p[Len(things) + 1] = g.end
<1> DEFINE N == Len(things)
<1>1. PICK a : Putting(f, things, N, a) /\ g = a[N]
  BY PutAllUnfolds DEF Sized
<1>2. N \in Nat /\ \A n \in 1 .. N : things[n][1] \in Nat \ {0}
  BY DEF Sized
<1> HIDE DEF N
<1>3. a[0] = f /\ \A n \in 1 .. N : a[n] = Put(a[n - 1], things[n])
  BY <1>1, <1>2 DEF Putting
<1> DEFINE p == [n \in 1 .. N + 1 |-> a[n - 1].end]
           Ok(n) == /\ GoodFile(a[n]) /\ Keeps(f, a[n])
                    /\ \A m \in 1 .. n : /\ a[m].end = a[m - 1].end + things[m][1]
                                         /\ Has(a[n], a[m - 1].end, things[m][2])
           S == {n \in 0 .. N : Ok(n)}
<1>4. 0 \in S
  <2>1. Keeps(f, f) /\ f.end \in Nat
    BY DEF Keeps, GoodFile
  <2> QED
    BY <1>2, <1>3, <2>1
<1>5. ASSUME NEW n \in 0 .. N, n < N, n \in S PROVE n + 1 \in S
  <2> HIDE DEF p
  <2>1. n + 1 \in 1 .. N /\ (n + 1) - 1 = n
    BY <1>2, <1>5
  <2>2. PICK b, c, t : b = a[n] /\ c = a[n + 1] /\ t = things[n + 1]
    OBVIOUS
  <2>3. c = Put(b, t) /\ GoodFile(b) /\ t[1] \in Nat \ {0}
    BY <1>2, <1>3, <1>5, <2>1, <2>2
  <2>4. GoodFile(c) /\ Keeps(b, c) /\ c.end = b.end + t[1] /\ Has(c, b.end, t[2])
    BY <2>3, PutFacts
  <2>5. Keeps(f, c)
    <3>1. f.end \in Nat /\ b.end \in Nat /\ c.end \in Nat
      BY <2>3, <2>4 DEF GoodFile
    <3> QED
      BY <1>5, <2>2, <2>4, <3>1, KeepsOn
  <2>6. ASSUME NEW m \in 1 .. n + 1
        PROVE  /\ a[m].end = a[m - 1].end + things[m][1]
               /\ Has(c, a[m - 1].end, things[m][2])
    <3>1. CASE m = n + 1
      BY <2>1, <2>2, <2>4, <3>1
    <3>2. CASE m # n + 1
      <4>1. m \in 1 .. n
        BY <1>2, <3>2
      <4>2. a[m].end = a[m - 1].end + things[m][1] /\ Has(b, a[m - 1].end, things[m][2])
        BY <1>5, <2>2, <4>1
      <4> QED
        BY <2>4, <4>2, KeepsHas
    <3> QED
      BY <3>1, <3>2
  <2> QED
    BY <2>1, <2>2, <2>4, <2>5, <2>6
<1>6. \A n \in 0 .. N : n \in S
  <2> HIDE DEF S
  <2> QED
    BY <1>2, <1>4, <1>5, AllUpTo
<1>7. Ok(N) /\ \A n \in 0 .. N : a[n].end \in Nat
  BY <1>2, <1>6 DEF GoodFile
<1>8. \A n \in 1 .. N + 1 : p[n] = a[n - 1].end /\ n - 1 \in 0 .. N
  BY <1>2
<1>9. p \in [1 .. N + 1 -> Nat] /\ p[1] = f.end /\ p[N + 1] = g.end
  <2>1. p[1] = a[0].end /\ p[N + 1] = a[N].end
    BY <1>2, <1>8
  <2> QED
    BY <1>1, <1>3, <1>7, <1>8, <2>1
<1>10. \A n \in 1 .. N : p[n + 1] = p[n] + things[n][1] /\ Has(g, p[n], things[n][2])
  <2> TAKE n \in 1 .. N
  <2>1. p[n] = a[n - 1].end /\ p[n + 1] = a[n].end
    <3>1. n \in 1 .. N + 1 /\ n + 1 \in 1 .. N + 1 /\ (n + 1) - 1 = n
      BY <1>2
    <3> QED
      BY <1>8, <3>1
  <2> HIDE DEF p
  <2> QED
    BY <1>1, <1>7, <2>1
<1> HIDE DEF p
<1> QED
  BY <1>1, <1>7, <1>9, <1>10 DEF Lie, N

LEMMA LieKept ==
  ASSUME NEW f, NEW g, Keeps(f, g), NEW p, NEW things, Lie(f, p, things)
  PROVE  Lie(g, p, things)
BY KeepsHas DEF Lie

\* Things of the same size lie at equal distances.
LEMMA Strides ==
  ASSUME NEW N \in Nat, NEW c \in Nat, NEW p \in [1 .. N + 1 -> Nat],
         \A n \in 1 .. N : p[n + 1] = p[n] + c
  PROVE  \A n \in 1 .. N + 1 : p[n] = p[1] + (n - 1) * c
<1> DEFINE S == {n \in 0 .. N : p[n + 1] = p[1] + n * c}
<1>1. 0 \in S
  <2>1. p[1] \in Nat /\ 0 * c = 0
    OBVIOUS
  <2> QED
    BY <2>1
<1>2. ASSUME NEW n \in 0 .. N, n < N, n \in S PROVE n + 1 \in S
  <2>1. n + 1 \in 1 .. N /\ p[n + 1] = p[1] + n * c
    BY <1>2
  <2>2. p[(n + 1) + 1] = p[n + 1] + c
    BY <2>1
  <2>3. n * c \in Nat /\ (n + 1) * c = n * c + c /\ p[1] \in Nat
    OBVIOUS
  <2>4. p[(n + 1) + 1] = p[1] + (n + 1) * c
    BY <2>1, <2>2, <2>3
  <2> QED
    BY <2>1, <2>4
<1>3. \A n \in 0 .. N : n \in S
  <2> HIDE DEF S
  <2> QED
    BY <1>1, <1>2, AllUpTo
<1> TAKE n \in 1 .. N + 1
<1>4. n - 1 \in 0 .. N /\ (n - 1) + 1 = n
  OBVIOUS
<1> QED
  BY <1>3, <1>4

\* An entry of a posting list whose tf counts its positions.
Whole(e) == e \in [id : Nat, tf : Nat, pos : Seq(Nat)] /\ Len(e.pos) = e.tf

\* The entry e lies at o in a .pos file.
EntryAt(g, o, e) ==
  /\ Has(g, o, e.id) /\ Has(g, o + 4, e.tf)
  /\ \A n \in 1 .. e.tf : Has(g, o + 4 + 4 * n, e.pos[n])

LEMMA PosThingsAre ==
  ASSUME NEW e, Whole(e), NEW t, t = PosThings(e)
  PROVE  /\ Len(t) = e.tf + 2
         /\ \A n \in 1 .. e.tf + 2 : t[n][1] = 4
         /\ t[1][2] = e.id /\ t[2][2] = e.tf
         /\ \A n \in 1 .. e.tf : t[n + 2][2] = e.pos[n]
<1> DEFINE a == <<<<4, e.id>>, <<4, e.tf>>>>
           b == [n \in DOMAIN e.pos |-> <<4, e.pos[n]>>]
           X == {a[1], a[2]} \cup {b[n] : n \in 1 .. e.tf}
<1>1. e.tf \in Nat /\ DOMAIN e.pos = 1 .. e.tf
  BY DEF Whole
<1>2. PICK m \in Nat : m = e.tf
  BY <1>1
<1>3. a \in Seq(X) /\ Len(a) = 2 /\ a[1] = <<4, e.id>> /\ a[2] = <<4, e.tf>>
  OBVIOUS
<1>4. b = [n \in 1 .. m |-> b[n]] /\ \A n \in 1 .. m : b[n] = <<4, e.pos[n]>>
  BY <1>1, <1>2
<1> HIDE DEF b
<1>5. \A n \in 1 .. m : b[n] \in X
  BY <1>2
<1>6. t = a \o b
  BY Zenon DEF PosThings, b
<1>7. a[1][1] = 4 /\ a[1][2] = e.id /\ a[2][1] = 4 /\ a[2][2] = e.tf
  BY <1>3
<1>8. \A n \in 1 .. m : b[n][1] = 4 /\ b[n][2] = e.pos[n]
  BY <1>4
<1> HIDE DEF a, X
<1>9. b \in Seq(X) /\ Len(b) = m
  <2>1. b \in [1 .. m -> X]
    BY <1>4, <1>5, Zenon
  <2> QED
    BY <1>2, <2>1
<1>10. /\ Len(t) = Len(a) + Len(b)
       /\ \A i \in 1 .. Len(a) + Len(b) : t[i] = IF i <= Len(a) THEN a[i] ELSE b[i - Len(a)]
  <2>1. /\ Len(a \o b) = Len(a) + Len(b)
        /\ \A i \in 1 .. Len(a) + Len(b) : (a \o b)[i] = IF i <= Len(a) THEN a[i] ELSE b[i - Len(a)]
    BY <1>3, <1>9, ConcatProperties, Zenon
  <2> QED
    BY <1>6, <2>1, Zenon
<1>11. Len(a) = 2 /\ Len(b) = m /\ m \in Nat
  BY <1>3, <1>9
<1>12. \A i \in 1 .. m + 2 : i \in 1 .. Len(a) + Len(b)
  BY <1>11
<1>13. t[1] = a[1] /\ t[2] = a[2] /\ \A n \in 1 .. m : t[n + 2] = b[n]
  <2>1. 1 \in 1 .. m + 2 /\ 2 \in 1 .. m + 2
    BY <1>11
  <2>2. t[1] = a[1] /\ t[2] = a[2]
    BY <1>10, <1>11, <1>12, <2>1
  <2>3. ASSUME NEW n \in 1 .. m PROVE t[n + 2] = b[n]
    <3>1. n + 2 \in 1 .. m + 2 /\ ~ (n + 2 <= 2) /\ (n + 2) - 2 = n
      BY <1>11
    <3> QED
      BY <1>10, <1>11, <1>12, <3>1
  <2> QED
    BY <2>2, <2>3
<1>14. \A n \in 1 .. m + 2 : t[n][1] = 4
  <2> TAKE n \in 1 .. m + 2
  <2>1. n = 1 \/ n = 2 \/ (n - 2 \in 1 .. m /\ (n - 2) + 2 = n)
    BY <1>11
  <2> QED
    BY <1>7, <1>8, <1>13, <2>1
<1>15. Len(t) = m + 2
  BY <1>10, <1>11
<1> QED
  BY <1>2, <1>7, <1>8, <1>13, <1>14, <1>15

LEMMA PutEntryFacts ==
  ASSUME NEW f, GoodFile(f), NEW e, Whole(e), NEW g, g = PutEntry(f, e)
  PROVE  /\ GoodFile(g) /\ Keeps(f, g)
         /\ g.end = f.end + 8 + 4 * e.tf /\ EntryAt(g, f.end, e)
<1>0. PICK t : t = PosThings(e)
  OBVIOUS
<1>1. PICK m \in Nat, o \in Nat : m = e.tf /\ o = f.end
  BY DEF Whole, GoodFile
<1>2. /\ Len(t) = m + 2 /\ \A n \in 1 .. m + 2 : t[n][1] = 4
      /\ t[1][2] = e.id /\ t[2][2] = e.tf
      /\ \A n \in 1 .. m : t[n + 2][2] = e.pos[n]
  BY <1>0, <1>1, PosThingsAre
<1>3. Sized(t)
  BY <1>2 DEF Sized
<1>4. g = PutAll(f, t)
  BY <1>0 DEF PutEntry
<1>5. GoodFile(g) /\ Keeps(f, g)
  BY <1>3, <1>4, PutAllFacts
<1>6. PICK p : Lie(g, p, t) /\ p[1] = o /\ p[Len(t) + 1] = g.end
  BY <1>1, <1>3, <1>4, PutAllFacts
<1> DEFINE N == m + 2
<1>7. /\ N \in Nat /\ p \in [1 .. N + 1 -> Nat]
      /\ \A n \in 1 .. N : p[n + 1] = p[n] + 4 /\ Has(g, p[n], t[n][2])
  <2>1. N = Len(t) /\ N \in Nat
    BY <1>2
  <2> HIDE DEF N
  <2>2. /\ p \in [1 .. N + 1 -> Nat]
        /\ \A n \in 1 .. N : p[n + 1] = p[n] + t[n][1] /\ Has(g, p[n], t[n][2])
    BY <1>6, <2>1 DEF Lie
  <2>3. \A n \in 1 .. N : t[n][1] = 4
    BY <1>2, <2>1
  <2> QED
    BY <2>1, <2>2, <2>3
<1>8. N = m + 2
  OBVIOUS
<1> HIDE DEF N
<1>9. \A n \in 1 .. N + 1 : p[n] = p[1] + (n - 1) * 4
  <2>1. \A n \in 1 .. N : p[n + 1] = p[n] + 4
    BY <1>7
  <2> QED
    BY <1>7, <2>1, Strides
<1>10. g.end = o + 8 + 4 * m
  <2>1. N + 1 \in 1 .. N + 1 /\ (N + 1) - 1 = m + 2
    BY <1>7, <1>8
  <2>2. p[N + 1] = o + (m + 2) * 4
    BY <1>6, <1>9, <2>1
  <2>3. p[N + 1] = g.end
    BY <1>2, <1>6, <1>8
  <2> QED
    BY <2>2, <2>3
<1>11. Has(g, o, e.id) /\ Has(g, o + 4, e.tf)
  <2>1. 1 \in 1 .. N /\ 2 \in 1 .. N /\ 2 \in 1 .. N + 1
    BY <1>7, <1>8
  <2>2. p[2] = o + (2 - 1) * 4
    BY <1>6, <1>9, <2>1
  <2>3. p[2] = o + 4
    BY <2>2
  <2> QED
    BY <1>2, <1>6, <1>7, <2>1, <2>3
<1>12. ASSUME NEW n \in 1 .. m PROVE Has(g, o + 4 + 4 * n, e.pos[n])
  <2>1. n + 2 \in 1 .. N /\ n + 2 \in 1 .. N + 1 /\ (n + 2) - 1 = n + 1
    BY <1>7, <1>8
  <2>2. p[n + 2] = o + (n + 1) * 4
    BY <1>6, <1>9, <2>1
  <2>3. p[n + 2] = o + 4 + 4 * n
    BY <2>2
  <2>4. t[n + 2][2] = e.pos[n] /\ Has(g, p[n + 2], t[n + 2][2])
    BY <1>2, <1>7, <2>1
  <2> QED
    BY <2>3, <2>4
<1> QED
  BY <1>1, <1>5, <1>10, <1>11, <1>12 DEF EntryAt

LEMMA EntryKept ==
  ASSUME NEW f, NEW g, Keeps(f, g), NEW o, NEW e, EntryAt(f, o, e)
  PROVE  EntryAt(g, o, e)
BY KeepsHas DEF EntryAt

\* The recursion of PutEntries has a solution.
Entering(f, list, N, g) ==
  g = [n \in 0 .. N |-> IF n = 0 THEN f ELSE PutEntry(g[n - 1], list[n])]

LEMMA PutEntriesUnfolds ==
  ASSUME NEW f, NEW list, Len(list) \in Nat
  PROVE  \E g : Entering(f, list, Len(list), g) /\ PutEntries(f, list) = g[Len(list)]
<1> DEFINE N == Len(list)
           S == {n \in 0 .. N : \E g : Entering(f, list, n, g)}
<1>1. 0 \in S
  <2>1. Entering(f, list, 0, [n \in 0 .. 0 |-> f])
    BY DEF Entering
  <2> QED
    BY <2>1
<1>2. ASSUME NEW n \in 0 .. N, n < N, n \in S PROVE n + 1 \in S
  <2>1. PICK g : Entering(f, list, n, g)
    BY <1>2
  <2> DEFINE h == [m \in 0 .. n + 1 |-> IF m = 0 THEN f ELSE PutEntry(g[m - 1], list[m])]
  <2>2. \A m \in 0 .. n : h[m] = g[m]
    BY <2>1 DEF Entering
  <2>3. \A m \in 0 .. n + 1 : m = 0 \/ m - 1 \in 0 .. n
    OBVIOUS
  <2>4. Entering(f, list, n + 1, h)
    BY <2>2, <2>3 DEF Entering
  <2> QED
    BY <1>2, <2>4
<1>3. PICK g : Entering(f, list, N, g)
  <2> HIDE DEF S
  <2>1. \A n \in 0 .. N : n \in S
    BY <1>1, <1>2, AllUpTo
  <2> QED
    BY <2>1 DEF S
<1>4. PutEntries(f, list) = (CHOOSE h : Entering(f, list, N, h))[N]
  BY Zenon DEF PutEntries, Each, Entering
<1>5. PICK h : h = CHOOSE x : Entering(f, list, N, x)
  OBVIOUS
<1> QED
  BY <1>3, <1>4, <1>5

\* A list of whole entries.
WholeList(list) == Len(list) \in Nat /\ \A n \in 1 .. Len(list) : Whole(list[n])

\* p says where the entries of a list lie in g, one behind the other.
Entries(g, p, list) ==
  /\ p \in [1 .. Len(list) + 1 -> Nat]
  /\ \A n \in 1 .. Len(list) :
       p[n + 1] = p[n] + 8 + 4 * list[n].tf /\ EntryAt(g, p[n], list[n])

LEMMA PutEntriesFacts ==
  ASSUME NEW f, GoodFile(f), NEW list, WholeList(list), NEW g, g = PutEntries(f, list)
  PROVE  /\ GoodFile(g) /\ Keeps(f, g)
         /\ \E p : Entries(g, p, list) /\ p[1] = f.end
<1> DEFINE N == Len(list)
<1>1. PICK a : Entering(f, list, N, a) /\ g = a[N]
  BY PutEntriesUnfolds DEF WholeList
<1>2. N \in Nat /\ \A n \in 1 .. N : Whole(list[n])
  BY DEF WholeList
<1> HIDE DEF N
<1>3. a[0] = f /\ \A n \in 1 .. N : a[n] = PutEntry(a[n - 1], list[n])
  BY <1>1, <1>2 DEF Entering
<1> DEFINE p == [n \in 1 .. N + 1 |-> a[n - 1].end]
           Ok(n) == /\ GoodFile(a[n]) /\ Keeps(f, a[n])
                    /\ \A m \in 1 .. n : /\ a[m].end = a[m - 1].end + 8 + 4 * list[m].tf
                                         /\ EntryAt(a[n], a[m - 1].end, list[m])
           S == {n \in 0 .. N : Ok(n)}
<1>4. 0 \in S
  <2>1. Keeps(f, f) /\ f.end \in Nat
    BY DEF Keeps, GoodFile
  <2> QED
    BY <1>2, <1>3, <2>1
<1>5. ASSUME NEW n \in 0 .. N, n < N, n \in S PROVE n + 1 \in S
  <2> HIDE DEF p
  <2>1. n + 1 \in 1 .. N /\ (n + 1) - 1 = n
    BY <1>2, <1>5
  <2>2. PICK b, c, e : b = a[n] /\ c = a[n + 1] /\ e = list[n + 1]
    OBVIOUS
  <2>3. c = PutEntry(b, e) /\ GoodFile(b) /\ Whole(e)
    BY <1>2, <1>3, <1>5, <2>1, <2>2
  <2>4. GoodFile(c) /\ Keeps(b, c) /\ c.end = b.end + 8 + 4 * e.tf /\ EntryAt(c, b.end, e)
    BY <2>3, PutEntryFacts
  <2>5. Keeps(f, c)
    <3>1. f.end \in Nat /\ b.end \in Nat /\ c.end \in Nat
      BY <2>3, <2>4 DEF GoodFile
    <3> QED
      BY <1>5, <2>2, <2>4, <3>1, KeepsOn
  <2>6. ASSUME NEW m \in 1 .. n + 1
        PROVE  /\ a[m].end = a[m - 1].end + 8 + 4 * list[m].tf
               /\ EntryAt(c, a[m - 1].end, list[m])
    <3>1. CASE m = n + 1
      BY <2>1, <2>2, <2>4, <3>1
    <3>2. CASE m # n + 1
      <4>1. m \in 1 .. n
        BY <1>2, <3>2
      <4>2. a[m].end = a[m - 1].end + 8 + 4 * list[m].tf /\ EntryAt(b, a[m - 1].end, list[m])
        BY <1>5, <2>2, <4>1
      <4> QED
        BY <2>4, <4>2, EntryKept
    <3> QED
      BY <3>1, <3>2
  <2> QED
    BY <2>1, <2>2, <2>4, <2>5, <2>6
<1>6. \A n \in 0 .. N : n \in S
  <2> HIDE DEF S
  <2> QED
    BY <1>2, <1>4, <1>5, AllUpTo
<1>7. Ok(N) /\ \A n \in 0 .. N : a[n].end \in Nat
  BY <1>2, <1>6 DEF GoodFile
<1>8. \A n \in 1 .. N + 1 : p[n] = a[n - 1].end /\ n - 1 \in 0 .. N
  BY <1>2
<1>9. p \in [1 .. N + 1 -> Nat] /\ p[1] = f.end
  <2>1. p[1] = a[0].end
    BY <1>2, <1>8
  <2> QED
    BY <1>3, <1>7, <1>8, <2>1
<1>10. \A n \in 1 .. N : p[n + 1] = p[n] + 8 + 4 * list[n].tf /\ EntryAt(g, p[n], list[n])
  <2> TAKE n \in 1 .. N
  <2>1. p[n] = a[n - 1].end /\ p[n + 1] = a[n].end
    <3>1. n \in 1 .. N + 1 /\ n + 1 \in 1 .. N + 1 /\ (n + 1) - 1 = n
      BY <1>2
    <3> QED
      BY <1>8, <3>1
  <2> HIDE DEF p
  <2> QED
    BY <1>1, <1>7, <2>1
<1> HIDE DEF p
<1> QED
  BY <1>1, <1>7, <1>9, <1>10 DEF Entries, N

\* PosIterator: what it makes of an entry after another.
Reading(file, m, g) ==
  g = [n \in 0 .. m.df |->
         IF n = 0 THEN [next |-> m.pos, out |-> <<>>]
         ELSE LET o == g[n - 1].next
                  t == file.at[o + 4]
              IN [next |-> o + 8 + 4 * t,
                  out  |-> Append(g[n - 1].out,
                             [id |-> file.at[o], tf |-> t,
                              pos |-> [i \in 1 .. t |-> file.at[o + 4 + 4 * i]]])]]

\* It reads back the list whose entries lie there.
LEMMA ReadPositionsBack ==
  ASSUME NEW file, NEW list, WholeList(list), NEW p, Entries(file, p, list),
         NEW m, m.df = Len(list), m.pos = p[1], list = [n \in 1 .. Len(list) |-> list[n]]
  PROVE  ReadPositions(file, m) = list
<1>1. PICK N \in Nat : N = Len(list)
  BY DEF WholeList
<1>2. /\ p \in [1 .. N + 1 -> Nat]
      /\ \A n \in 1 .. N : p[n + 1] = p[n] + 8 + 4 * list[n].tf /\ EntryAt(file, p[n], list[n])
      /\ \A n \in 1 .. N : Whole(list[n])
      /\ list = [n \in 1 .. N |-> list[n]] /\ m.df = N /\ m.pos = p[1]
  BY <1>1 DEF Entries, WholeList
<1> DEFINE X == {list[n] : n \in 1 .. N}
           entry(o) == [id |-> file.at[o], tf |-> file.at[o + 4],
                        pos |-> [i \in 1 .. file.at[o + 4] |-> file.at[o + 4 + 4 * i]]]
           part(n) == [i \in 1 .. n |-> list[i]]
           a == [n \in 0 .. N |-> [next |-> p[n + 1], out |-> part(n)]]
<1>3. ASSUME NEW n \in 1 .. N
      PROVE  entry(p[n]) = list[n] /\ file.at[p[n] + 4] = list[n].tf
  <2>1. PICK e, o : e = list[n] /\ o = p[n]
    OBVIOUS
  <2>2. Whole(e) /\ EntryAt(file, o, e)
    BY <1>2, <2>1
  <2>3. file.at[o] = e.id /\ file.at[o + 4] = e.tf
    BY <2>2 DEF EntryAt, Has
  <2>4. \A i \in 1 .. e.tf : file.at[o + 4 + 4 * i] = e.pos[i]
    BY <2>2 DEF EntryAt, Has
  <2>5. e = [id |-> e.id, tf |-> e.tf, pos |-> e.pos] /\ e.pos = [i \in 1 .. e.tf |-> e.pos[i]]
    BY <2>2 DEF Whole
  <2>6. [i \in 1 .. e.tf |-> file.at[o + 4 + 4 * i]] = e.pos
    BY <2>4, <2>5, Zenon
  <2> QED
    BY <2>1, <2>3, <2>5, <2>6
<1>4. ASSUME NEW n \in 1 .. N
      PROVE  Append(part(n - 1), list[n]) = part(n)
  <2>1. part(n - 1) \in Seq(X) /\ Len(part(n - 1)) = n - 1
    OBVIOUS
  <2> QED
    BY <2>1
<1>5. Reading(file, m, a)
  <2> DEFINE step(n) ==
         IF n = 0 THEN [next |-> m.pos, out |-> <<>>]
         ELSE [next |-> a[n - 1].next + 8 + 4 * file.at[a[n - 1].next + 4],
               out  |-> Append(a[n - 1].out, entry(a[n - 1].next))]
  <2>1. ASSUME NEW n \in 0 .. N PROVE a[n] = step(n)
    <3>1. CASE n = 0
      <4>1. part(0) = <<>>
        OBVIOUS
      <4> QED
        BY <1>2, <3>1, <4>1
    <3>2. CASE n # 0
      <4>1. n \in 1 .. N /\ n - 1 \in 0 .. N /\ (n - 1) + 1 = n
        BY <3>2
      <4>2. a[n - 1].next = p[n] /\ a[n - 1].out = part(n - 1)
        BY <4>1
      <4>3. a[n] = [next |-> p[n + 1], out |-> part(n)]
        OBVIOUS
      <4> HIDE DEF a, part
      <4>4. entry(p[n]) = list[n] /\ file.at[p[n] + 4] = list[n].tf
        BY <1>3, <4>1
      <4> HIDE DEF entry
      <4>5. /\ p[n + 1] = p[n] + 8 + 4 * file.at[p[n] + 4]
            /\ part(n) = Append(part(n - 1), entry(p[n]))
        BY <1>2, <1>4, <4>1, <4>4
      <4> QED
        BY <3>2, <4>2, <4>3, <4>5
    <3> QED
      BY <3>1, <3>2
  <2>2. a = [n \in 0 .. N |-> a[n]]
    OBVIOUS
  <2>3. a = [n \in 0 .. N |-> step(n)]
    <3> HIDE DEF a, step
    <3> QED
      BY <2>1, <2>2, Zenon
  <2> HIDE DEF a
  <2> QED
    BY <1>2, <2>3, Zenon DEF Reading
<1> HIDE DEF a
<1>6. ReadPositions(file, m) = (CHOOSE g : Reading(file, m, g))[m.df].out
  BY Zenon DEF ReadPositions, Reading
<1>7. PICK g : g = (CHOOSE x : Reading(file, m, x)) /\ Reading(file, m, g)
  BY <1>5
<1> DEFINE S == {n \in 0 .. N : g[n].next = p[n + 1] /\ g[n].out = part(n)}
           first == [next |-> m.pos, out |-> <<>>]
           after(n) == [next |-> g[n - 1].next + 8 + 4 * file.at[g[n - 1].next + 4],
                        out  |-> Append(g[n - 1].out, entry(g[n - 1].next))]
<1>8. \A n \in 0 .. N : g[n] = IF n = 0 THEN first ELSE after(n)
  <2>1. g = [n \in 0 .. N |-> IF n = 0 THEN first ELSE after(n)]
    BY <1>2, <1>7, Zenon DEF Reading
  <2> HIDE DEF first, after
  <2> QED
    BY <2>1
<1>9. 0 \in S
  <2>1. g[0] = first
    <3>1. 0 \in 0 .. N
      OBVIOUS
    <3> HIDE DEF first, after
    <3> QED
      BY <1>8, <3>1
  <2>2. part(0) = <<>>
    OBVIOUS
  <2> QED
    BY <1>2, <2>1, <2>2
<1>10. ASSUME NEW n \in 0 .. N, n < N, n \in S PROVE n + 1 \in S
  <2>1. n + 1 \in 1 .. N /\ (n + 1) - 1 = n /\ n + 1 \in 0 .. N /\ n + 1 # 0
    BY <1>10
  <2>2. g[n + 1] = [next |-> g[n].next + 8 + 4 * file.at[g[n].next + 4],
                    out  |-> Append(g[n].out, entry(g[n].next))]
    <3> HIDE DEF entry
    <3> QED
      BY <1>8, <2>1
  <2>3. g[n].next = p[n + 1] /\ g[n].out = part(n)
    BY <1>10
  <2>4. entry(p[n + 1]) = list[n + 1] /\ file.at[p[n + 1] + 4] = list[n + 1].tf
    BY <1>3, <2>1
  <2>5. Append(part(n), list[n + 1]) = part(n + 1)
    BY <1>4, <2>1
  <2> HIDE DEF part, entry
  <2>6. p[(n + 1) + 1] = p[n + 1] + 8 + 4 * list[n + 1].tf
    BY <1>2, <2>1
  <2> QED
    BY <2>1, <2>2, <2>3, <2>4, <2>5, <2>6
<1>11. g[N].out = part(N)
  <2>1. \A n \in 0 .. N : n \in S
    <3> HIDE DEF S
    <3> QED
      BY <1>9, <1>10, AllUpTo
  <2> QED
    BY <2>1
<1> QED
  BY <1>2, <1>6, <1>7, <1>11

-----------------------------------------------------------------------------
(* The lists of the terms *)

\* What is done for each of three terms.
LEMMA EachDoc ==
  ASSUME NEW w, NEW terms, Len(terms) = 3
  PROVE  Each(PutDoc, w, terms) = PutDoc(PutDoc(PutDoc(w, terms[1]), terms[2]), terms[3])
<1> DEFINE Steps(g) == g = [n \in 0 .. 3 |-> IF n = 0 THEN w ELSE PutDoc(g[n - 1], terms[n])]
           a1 == PutDoc(w, terms[1])
           a2 == PutDoc(a1, terms[2])
           a3 == PutDoc(a2, terms[3])
           a == [n \in 0 .. 3 |-> IF n = 0 THEN w ELSE IF n = 1 THEN a1 ELSE IF n = 2 THEN a2 ELSE a3]
<1>1. Each(PutDoc, w, terms) = (CHOOSE g : Steps(g))[3]
  BY Zenon DEF Each
<1>2. Steps(a)
  OBVIOUS
<1> HIDE DEF a
<1>3. PICK g : g = (CHOOSE x : Steps(x)) /\ Steps(g)
  BY <1>2
<1>4. g[3] = a3
  BY <1>3
<1> QED
  BY <1>1, <1>3, <1>4

LEMMA EachPos ==
  ASSUME NEW w, NEW terms, Len(terms) = 3
  PROVE  Each(PutPos, w, terms) = PutPos(PutPos(PutPos(w, terms[1]), terms[2]), terms[3])
<1> DEFINE Steps(g) == g = [n \in 0 .. 3 |-> IF n = 0 THEN w ELSE PutPos(g[n - 1], terms[n])]
           a1 == PutPos(w, terms[1])
           a2 == PutPos(a1, terms[2])
           a3 == PutPos(a2, terms[3])
           a == [n \in 0 .. 3 |-> IF n = 0 THEN w ELSE IF n = 1 THEN a1 ELSE IF n = 2 THEN a2 ELSE a3]
<1>1. Each(PutPos, w, terms) = (CHOOSE g : Steps(g))[3]
  BY Zenon DEF Each
<1>2. Steps(a)
  OBVIOUS
<1> HIDE DEF a
<1>3. PICK g : g = (CHOOSE x : Steps(x)) /\ Steps(g)
  BY <1>2
<1>4. g[3] = a3
  BY <1>3
<1> QED
  BY <1>1, <1>3, <1>4

LEMMA EachZeros ==
  ASSUME NEW w, NEW terms, Len(terms) = 3
  PROVE  Each(PutZeros, w, terms) = PutZeros(PutZeros(PutZeros(w, terms[1]), terms[2]), terms[3])
<1> DEFINE Steps(g) == g = [n \in 0 .. 3 |-> IF n = 0 THEN w ELSE PutZeros(g[n - 1], terms[n])]
           a1 == PutZeros(w, terms[1])
           a2 == PutZeros(a1, terms[2])
           a3 == PutZeros(a2, terms[3])
           a == [n \in 0 .. 3 |-> IF n = 0 THEN w ELSE IF n = 1 THEN a1 ELSE IF n = 2 THEN a2 ELSE a3]
<1>1. Each(PutZeros, w, terms) = (CHOOSE g : Steps(g))[3]
  BY Zenon DEF Each
<1>2. Steps(a)
  OBVIOUS
<1> HIDE DEF a
<1>3. PICK g : g = (CHOOSE x : Steps(x)) /\ Steps(g)
  BY <1>2
<1>4. g[3] = a3
  BY <1>3
<1> QED
  BY <1>1, <1>3, <1>4

LEMMA EachPatchDoc ==
  ASSUME NEW w, NEW terms, Len(terms) = 3
  PROVE  Each(PatchDoc, w, terms) = PatchDoc(PatchDoc(PatchDoc(w, terms[1]), terms[2]), terms[3])
<1> DEFINE Steps(g) == g = [n \in 0 .. 3 |-> IF n = 0 THEN w ELSE PatchDoc(g[n - 1], terms[n])]
           a1 == PatchDoc(w, terms[1])
           a2 == PatchDoc(a1, terms[2])
           a3 == PatchDoc(a2, terms[3])
           a == [n \in 0 .. 3 |-> IF n = 0 THEN w ELSE IF n = 1 THEN a1 ELSE IF n = 2 THEN a2 ELSE a3]
<1>1. Each(PatchDoc, w, terms) = (CHOOSE g : Steps(g))[3]
  BY Zenon DEF Each
<1>2. Steps(a)
  OBVIOUS
<1> HIDE DEF a
<1>3. PICK g : g = (CHOOSE x : Steps(x)) /\ Steps(g)
  BY <1>2
<1>4. g[3] = a3
  BY <1>3
<1> QED
  BY <1>1, <1>3, <1>4

LEMMA EachPatchPos ==
  ASSUME NEW w, NEW terms, Len(terms) = 3
  PROVE  Each(PatchPos, w, terms) = PatchPos(PatchPos(PatchPos(w, terms[1]), terms[2]), terms[3])
<1> DEFINE Steps(g) == g = [n \in 0 .. 3 |-> IF n = 0 THEN w ELSE PatchPos(g[n - 1], terms[n])]
           a1 == PatchPos(w, terms[1])
           a2 == PatchPos(a1, terms[2])
           a3 == PatchPos(a2, terms[3])
           a == [n \in 0 .. 3 |-> IF n = 0 THEN w ELSE IF n = 1 THEN a1 ELSE IF n = 2 THEN a2 ELSE a3]
<1>1. Each(PatchPos, w, terms) = (CHOOSE g : Steps(g))[3]
  BY Zenon DEF Each
<1>2. Steps(a)
  OBVIOUS
<1> HIDE DEF a
<1>3. PICK g : g = (CHOOSE x : Steps(x)) /\ Steps(g)
  BY <1>2
<1>4. g[3] = a3
  BY <1>3
<1> QED
  BY <1>1, <1>3, <1>4

LEMMA EachTerm ==
  ASSUME NEW w, NEW terms, Len(terms) = 3
  PROVE  Each(PutTerm, w, terms) = PutTerm(PutTerm(PutTerm(w, terms[1]), terms[2]), terms[3])
<1> DEFINE Steps(g) == g = [n \in 0 .. 3 |-> IF n = 0 THEN w ELSE PutTerm(g[n - 1], terms[n])]
           a1 == PutTerm(w, terms[1])
           a2 == PutTerm(a1, terms[2])
           a3 == PutTerm(a2, terms[3])
           a == [n \in 0 .. 3 |-> IF n = 0 THEN w ELSE IF n = 1 THEN a1 ELSE IF n = 2 THEN a2 ELSE a3]
<1>1. Each(PutTerm, w, terms) = (CHOOSE g : Steps(g))[3]
  BY Zenon DEF Each
<1>2. Steps(a)
  OBVIOUS
<1> HIDE DEF a
<1>3. PICK g : g = (CHOOSE x : Steps(x)) /\ Steps(g)
  BY <1>2
<1>4. g[3] = a3
  BY <1>3
<1> QED
  BY <1>1, <1>3, <1>4

-----------------------------------------------------------------------------
(* .doc: skip list, blocks and tf bytes of a term *)

Offsets(blocks, N, g) ==
  g = [k \in 1 .. N |-> IF k = 1 THEN 0 ELSE g[k - 1] + BlockBytes(blocks[k - 1])]

LEMMA OffsetsExist ==
  ASSUME NEW blocks, NEW N \in Nat
  PROVE  \E g : Offsets(blocks, N, g)
<1> DEFINE S == {n \in 0 .. N : \E g : Offsets(blocks, n, g)}
<1>1. 0 \in S
  <2>1. Offsets(blocks, 0, [n \in 1 .. 0 |-> 0])
    BY DEF Offsets
  <2> QED
    BY <2>1
<1>2. ASSUME NEW n \in 0 .. N, n < N, n \in S PROVE n + 1 \in S
  <2>1. PICK g : Offsets(blocks, n, g)
    BY <1>2
  <2> DEFINE h == [k \in 1 .. n + 1 |-> IF k = 1 THEN 0 ELSE g[k - 1] + BlockBytes(blocks[k - 1])]
  <2>2. \A k \in 1 .. n : h[k] = g[k]
    BY <2>1 DEF Offsets
  <2>3. \A k \in 1 .. n + 1 : k = 1 \/ k - 1 \in 1 .. n
    OBVIOUS
  <2>4. Offsets(blocks, n + 1, h)
    BY <2>2, <2>3 DEF Offsets
  <2> QED
    BY <1>2, <2>4
<1>3. \A n \in 0 .. N : n \in S
  <2> HIDE DEF S
  <2> QED
    BY <1>1, <1>2, AllUpTo
<1> QED
  BY <1>3

LEMMA SkipNodesFacts ==
  ASSUME NEW blocks, NEW N \in Nat \ {0}, DOMAIN blocks = 1 .. N, NEW nodes, nodes = SkipNodes(blocks)
  PROVE  /\ DOMAIN nodes = 1 .. N /\ Len(nodes) = N
         /\ \A k \in 1 .. N : /\ nodes[k].maxDoc = blocks[k].maxDoc
                              /\ nodes[k].score = k /\ nodes[k].count = blocks[k].size
         /\ nodes[1].offset = 0
         /\ \A k \in 1 .. N : k # 1 =>
              nodes[k].offset = nodes[k - 1].offset + BlockBytes(blocks[k - 1])
<1>1. nodes = [k \in 1 .. N |->
                [maxDoc |-> blocks[k].maxDoc,
                 offset |-> (CHOOSE g : Offsets(blocks, N, g))[k],
                 score |-> k, count |-> blocks[k].size]]
  <2>1. SkipNodes(blocks) =
          [k \in DOMAIN blocks |->
             [maxDoc |-> blocks[k].maxDoc,
              offset |-> (CHOOSE g : g = [j \in DOMAIN blocks |->
                            IF j = 1 THEN 0 ELSE g[j - 1] + BlockBytes(blocks[j - 1])])[k],
              score |-> k, count |-> blocks[k].size]]
    BY Zenon DEF SkipNodes
  <2> QED
    BY <2>1, Zenon DEF Offsets
<1>2. PICK g : g = (CHOOSE x : Offsets(blocks, N, x)) /\ Offsets(blocks, N, g)
  BY OffsetsExist
<1>3. nodes = [k \in 1 .. N |->
                [maxDoc |-> blocks[k].maxDoc, offset |-> g[k],
                 score |-> k, count |-> blocks[k].size]]
  BY <1>1, <1>2, Zenon
<1>4. \A k \in 1 .. N : nodes[k].offset = g[k]
  BY <1>3
<1>5. g[1] = 0 /\ \A k \in 1 .. N : k # 1 => g[k] = g[k - 1] + BlockBytes(blocks[k - 1]) /\ k - 1 \in 1 .. N
  <2>1. g = [k \in 1 .. N |-> IF k = 1 THEN 0 ELSE g[k - 1] + BlockBytes(blocks[k - 1])]
    BY <1>2, Zenon DEF Offsets
  <2>2. \A k \in 1 .. N : k # 1 => k - 1 \in 1 .. N
    OBVIOUS
  <2>3. 1 \in 1 .. N
    OBVIOUS
  <2> QED
    BY <2>1, <2>2, <2>3
<1> QED
  BY <1>3, <1>4, <1>5

\* A list as the writers get it.
GoodList(list) ==
  /\ WholeList(list) /\ list = [n \in 1 .. Len(list) |-> list[n]]
  /\ Ascending(Ids(list)) /\ Ids(list) # <<>>

LEMMA GoodListFacts ==
  ASSUME NEW list, GoodList(list)
  PROVE  /\ Len(list) \in Nat /\ DOMAIN list = 1 .. Len(list)
         /\ Len(Ids(list)) = Len(list) /\ Ids(list) \in Seq(Nat)
         /\ \A i \in 1 .. Len(list) : Ids(list)[i] = list[i].id
<1>1. Len(list) \in Nat /\ DOMAIN list = 1 .. Len(list)
  BY DEF GoodList, WholeList
<1>2. Ids(list) = [i \in 1 .. Len(list) |-> list[i].id]
  BY <1>1 DEF Ids
<1>3. Ids(list) \in Seq(Nat)
  BY DEF GoodList, Ascending
<1> QED
  BY <1>1, <1>2, <1>3

\* The blocks of a list, and the bytes they take.
BlockThings(blocks) == [k \in DOMAIN blocks |-> <<BlockBytes(blocks[k]), blocks[k]>>]

LEMMA BlocksFacts ==
  ASSUME NEW s, Ascending(s), s # <<>>, NEW blocks, blocks = Blocks(s)
  PROVE  /\ BlockCount(s) \in Nat \ {0} /\ DOMAIN blocks = 1 .. BlockCount(s)
         /\ \A k \in 1 .. BlockCount(s) :
              /\ BlockBytes(blocks[k]) \in Nat \ {0}
              /\ Decode(blocks[k]) = BlockDocs(s, k)
              /\ blocks[k].size = Len(BlockDocs(s, k))
              /\ blocks[k].maxDoc = BlockDocs(s, k)[Len(BlockDocs(s, k))]
<1>1. BlockCount(s) \in Nat \ {0}
  BY BlockBounds DEF Ascending
<1>2. DOMAIN blocks = 1 .. BlockCount(s) /\ \A k \in 1 .. BlockCount(s) : blocks[k] = Encode(BlockDocs(s, k))
  BY DEF Blocks
<1>3. ASSUME NEW k \in 1 .. BlockCount(s)
      PROVE  /\ BlockBytes(blocks[k]) \in Nat \ {0}
             /\ Decode(blocks[k]) = BlockDocs(s, k)
             /\ blocks[k].size = Len(BlockDocs(s, k))
             /\ blocks[k].maxDoc = BlockDocs(s, k)[Len(BlockDocs(s, k))]
  <2>1. PICK d : d = BlockDocs(s, k)
    OBVIOUS
  <2>2. Ascending(d) /\ d # <<>>
    BY <2>1, BlockAscending
  <2>3. PICK e : e = Encode(d)
    OBVIOUS
  <2>4. e.size = Len(d) /\ e.maxDoc = d[Len(d)]
    BY <2>2, <2>3, EncodedBlock
  <2>5. BlockBytes(e) \in Nat \ {0} /\ Decode(e) = d
    BY <2>2, <2>3, BlockBytesType, DecodesEncoded
  <2> QED
    BY <1>2, <2>1, <2>3, <2>4, <2>5
<1> QED
  BY <1>1, <1>2, <1>3

LEMMA BlockThingsSized ==
  ASSUME NEW s, Ascending(s), s # <<>>, NEW blocks, blocks = Blocks(s), NEW t, t = BlockThings(blocks)
  PROVE  /\ Sized(t) /\ Len(t) = BlockCount(s)
         /\ \A k \in 1 .. BlockCount(s) : t[k][1] = BlockBytes(blocks[k]) /\ t[k][2] = blocks[k]
<1>1. PICK N \in Nat : N = BlockCount(s) /\ DOMAIN blocks = 1 .. N
  BY BlocksFacts
<1>2. t = [k \in 1 .. N |-> <<BlockBytes(blocks[k]), blocks[k]>>]
  BY <1>1, Zenon DEF BlockThings
<1>3. \A k \in 1 .. N : t[k][1] = BlockBytes(blocks[k]) /\ t[k][2] = blocks[k]
  BY <1>2
<1>4. Len(t) = N
  BY <1>2
<1>5. \A k \in 1 .. N : BlockBytes(blocks[k]) \in Nat \ {0}
  BY <1>1, BlocksFacts
<1> QED
  BY <1>1, <1>3, <1>4, <1>5 DEF Sized

LEMMA SkipBytesType ==
  ASSUME NEW s, Ascending(s), s # <<>>
  PROVE  SkipBytes(Skips(Blocks(s))) \in Nat \ {0}
<1>1. PICK blocks : blocks = Blocks(s)
  OBVIOUS
<1>2. PICK nodes : nodes = SkipNodes(blocks)
  OBVIOUS
<1>3. PICK N \in Nat \ {0} : N = BlockCount(s) /\ DOMAIN blocks = 1 .. N
  BY <1>1, BlocksFacts
<1>4. Len(nodes) = N
  BY <1>2, <1>3, SkipNodesFacts
<1>5. Len(BuildLevel1(nodes)) \in Nat
  <2>1. CASE Len(nodes) <= SkipInterval
    BY <2>1 DEF BuildLevel1
  <2>2. CASE ~ (Len(nodes) <= SkipInterval)
    <3> DEFINE m == (Len(nodes) + SkipInterval - 1) \div SkipInterval
    <3>1. m \in Nat
      BY <1>4, SkipAssumption, PagesOfChain
    <3>2. BuildLevel1(nodes) = [g \in 1 .. m |-> [maxDoc |-> nodes[GroupEnd(nodes, g)].maxDoc]]
      BY <2>2 DEF BuildLevel1
    <3> HIDE DEF m
    <3> QED
      BY <3>1, <3>2
  <2> QED
    BY <2>1, <2>2
<1>6. Skips(blocks).level0 = nodes /\ Skips(blocks).level1 = BuildLevel1(nodes)
  BY <1>2 DEF Skips
<1>7. SkipBytes(Skips(blocks)) = 8 + (N + Len(BuildLevel1(nodes))) * 24
  BY <1>4, <1>6, Zenon DEF SkipBytes
<1> QED
  BY <1>1, <1>5, <1>7

\* What the .doc file f holds of a list, m its offsets.
DocAt(f, m, list) ==
  /\ m.skip \in Nat /\ m.posting \in Nat /\ m.tfData \in Nat \ {0}
  /\ Has(f, m.skip, Skips(Blocks(Ids(list))))
  /\ \E q : Lie(f, q, BlockThings(Blocks(Ids(list)))) /\ q[1] = m.posting
  /\ \A i \in 1 .. Len(list) : Has(f, m.tfData + i - 1, Min({list[i].tf, MaxTfByte}))

LEMMA DocAtKept ==
  ASSUME NEW f, NEW g, Keeps(f, g), NEW m, NEW list, DocAt(f, m, list)
  PROVE  DocAt(g, m, list)
<1>1. \E q : Lie(g, q, BlockThings(Blocks(Ids(list)))) /\ q[1] = m.posting
  BY LieKept DEF DocAt
<1>2. Has(g, m.skip, Skips(Blocks(Ids(list))))
  BY KeepsHas DEF DocAt
<1>3. \A i \in 1 .. Len(list) : Has(g, m.tfData + i - 1, Min({list[i].tf, MaxTfByte}))
  BY KeepsHas DEF DocAt
<1> QED
  BY <1>1, <1>2, <1>3 DEF DocAt

LEMMA PutDocFacts ==
  ASSUME NEW w, GoodFile(w.file), NEW t, GoodList(t.list), NEW r, r = PutDoc(w, t)
  PROVE  /\ GoodFile(r.file) /\ Keeps(w.file, r.file)
         /\ \E m : r.metas = Append(w.metas, m) /\ DocAt(r.file, m, t.list)
<1>1. PICK list, f : list = t.list /\ f = w.file
  OBVIOUS
<1>2. PICK s : s = Ids(list)
  OBVIOUS
<1>3. Ascending(s) /\ s # <<>> /\ Len(list) \in Nat /\ DOMAIN list = 1 .. Len(list)
  BY <1>1, <1>2, GoodListFacts DEF GoodList
<1>4. PICK blocks, skips : blocks = Blocks(s) /\ skips = Skips(blocks)
  OBVIOUS
<1>5. PICK skipThing : skipThing = <<SkipBytes(skips), skips>>
  OBVIOUS
<1>6. PICK blockThings : blockThings = BlockThings(blocks)
  OBVIOUS
<1> DEFINE tfByte(i) == Min({list[i].tf, MaxTfByte})
           tfs0 == [i \in DOMAIN list |-> <<1, tfByte(i)>>]
<1>7. PICK tfThings : tfThings = tfs0
  OBVIOUS
<1>8. PICK skipped : skipped = Put(f, skipThing)
  OBVIOUS
<1>9. PICK packed : packed = PutAll(skipped, blockThings)
  OBVIOUS
<1>10. PICK g : g = PutAll(packed, tfThings)
  OBVIOUS
<1>11. r = [file  |-> g,
            metas |-> Append(w.metas, [skip |-> f.end, posting |-> skipped.end, tfData |-> packed.end])]
  <2>1. PutDoc(w, t) =
          [file  |-> PutAll(PutAll(Put(w.file, <<SkipBytes(Skips(Blocks(Ids(t.list)))), Skips(Blocks(Ids(t.list)))>>),
                                   BlockThings(Blocks(Ids(t.list)))),
                            [i \in DOMAIN t.list |-> <<1, Min({t.list[i].tf, MaxTfByte})>>]),
           metas |-> Append(w.metas,
             [skip |-> w.file.end,
              posting |-> Put(w.file, <<SkipBytes(Skips(Blocks(Ids(t.list)))), Skips(Blocks(Ids(t.list)))>>).end,
              tfData |-> PutAll(Put(w.file, <<SkipBytes(Skips(Blocks(Ids(t.list)))), Skips(Blocks(Ids(t.list)))>>),
                                   BlockThings(Blocks(Ids(t.list)))).end])]
    BY Zenon DEF PutDoc, BlockThings
  <2> QED
    BY <1>1, <1>2, <1>4, <1>5, <1>6, <1>7, <1>8, <1>9, <1>10, <2>1, Zenon
<1>12. PICK m : m = [skip |-> f.end, posting |-> skipped.end, tfData |-> packed.end]
  OBVIOUS
<1>13. skipThing[1] \in Nat \ {0} /\ skipThing[2] = skips
  <2>1. SkipBytes(skips) \in Nat \ {0}
    BY <1>3, <1>4, SkipBytesType
  <2> QED
    BY <1>5, <2>1
<1>14. /\ GoodFile(skipped) /\ Keeps(f, skipped)
       /\ skipped.end = f.end + skipThing[1] /\ Has(skipped, f.end, skips)
  <2>1. GoodFile(f)
    BY <1>1
  <2>2. /\ GoodFile(skipped) /\ Keeps(f, skipped)
        /\ skipped.end = f.end + skipThing[1] /\ Has(skipped, f.end, skipThing[2])
    BY <1>8, <1>13, <2>1, PutFacts
  <2> QED
    BY <1>13, <2>2
<1>15. Sized(blockThings)
  BY <1>3, <1>4, <1>6, BlockThingsSized
<1>16. /\ GoodFile(packed) /\ Keeps(skipped, packed)
       /\ \E p : Lie(packed, p, blockThings) /\ p[1] = skipped.end
  BY <1>9, <1>14, <1>15, PutAllFacts
<1>17. PICK N \in Nat : N = Len(list)
  BY <1>3
<1>18. /\ Sized(tfThings) /\ Len(tfThings) = N
       /\ \A i \in 1 .. N : tfThings[i][1] = 1 /\ tfThings[i][2] = tfByte(i)
  <2>1. tfThings = [i \in 1 .. N |-> <<1, tfByte(i)>>]
    BY <1>3, <1>7, <1>17, Zenon
  <2> HIDE DEF tfByte
  <2>2. \A i \in 1 .. N : tfThings[i][1] = 1 /\ tfThings[i][2] = tfByte(i)
    BY <2>1
  <2>3. Len(tfThings) = N
    BY <2>1
  <2> QED
    BY <2>2, <2>3 DEF Sized
<1>19. GoodFile(g) /\ Keeps(packed, g)
  BY <1>10, <1>16, <1>18, PutAllFacts
<1>20. PICK p : Lie(g, p, tfThings) /\ p[1] = packed.end
  BY <1>10, <1>16, <1>18, PutAllFacts
<1> HIDE DEF tfByte, tfs0
<1>21. \A i \in 1 .. N : Has(g, packed.end + i - 1, tfByte(i))
  <2>1. /\ p \in [1 .. N + 1 -> Nat]
        /\ \A i \in 1 .. N : p[i + 1] = p[i] + tfThings[i][1] /\ Has(g, p[i], tfThings[i][2])
    BY <1>18, <1>20 DEF Lie
  <2>2. \A i \in 1 .. N : p[i + 1] = p[i] + 1
    BY <1>18, <2>1
  <2>3. \A i \in 1 .. N + 1 : p[i] = p[1] + (i - 1) * 1
    <3>1. 1 \in Nat
      OBVIOUS
    <3> QED
      BY <2>1, <2>2, <3>1, Strides
  <2> TAKE i \in 1 .. N
  <2>4. PICK o \in Nat : o = packed.end
    BY <1>16 DEF GoodFile
  <2>5. i \in 1 .. N + 1 /\ o + (i - 1) * 1 = o + i - 1
    OBVIOUS
  <2>6. p[i] = o + i - 1
    BY <1>20, <2>3, <2>4, <2>5
  <2> QED
    BY <1>18, <2>1, <2>4, <2>6
<1>22. f.end \in Nat /\ skipped.end \in Nat /\ packed.end \in Nat /\ g.end \in Nat
  BY <1>1, <1>14, <1>16, <1>19 DEF GoodFile
<1>23. packed.end # 0
  <2>1. skipped.end <= packed.end
    BY <1>16 DEF Keeps
  <2> QED
    BY <1>13, <1>14, <1>22, <2>1
<1>24. Keeps(skipped, g) /\ Keeps(f, g)
  <2>1. Keeps(skipped, g)
    BY <1>16, <1>19, <1>22, KeepsOn
  <2>2. Keeps(f, g)
    BY <1>14, <1>22, <2>1, KeepsOn
  <2> QED
    BY <2>1, <2>2
<1>25. DocAt(g, m, list)
  <2>1. m.skip = f.end /\ m.posting = skipped.end /\ m.tfData = packed.end
    BY <1>12
  <2>2. Has(g, m.skip, Skips(Blocks(Ids(list))))
    BY <1>2, <1>4, <1>14, <1>24, <2>1, KeepsHas
  <2>3. \E q : Lie(g, q, BlockThings(Blocks(Ids(list)))) /\ q[1] = m.posting
    BY <1>2, <1>4, <1>6, <1>16, <1>19, <2>1, LieKept
  <2>4. \A i \in 1 .. Len(list) : Has(g, m.tfData + i - 1, Min({list[i].tf, MaxTfByte}))
    BY <1>17, <1>21, <2>1 DEF tfByte
  <2> QED
    BY <1>22, <1>23, <2>1, <2>2, <2>3, <2>4 DEF DocAt
<1> QED
  <2>1. r.file = g /\ r.metas = Append(w.metas, m)
    BY <1>11, <1>12
  <2> QED
    BY <1>1, <1>19, <1>24, <1>25, <2>1

-----------------------------------------------------------------------------
(* .pos: the entries of a term; and the two files of three terms           *)

\* What the .pos file f holds of a list, from o on.
PosAt(f, o, list) == \E p : Entries(f, p, list) /\ p[1] = o

LEMMA PosAtKept ==
  ASSUME NEW f, NEW g, Keeps(f, g), NEW o, NEW list, PosAt(f, o, list)
  PROVE  PosAt(g, o, list)
<1>1. PICK p : Entries(f, p, list) /\ p[1] = o
  BY DEF PosAt
<1>2. Entries(g, p, list)
  BY <1>1, EntryKept DEF Entries
<1> QED
  BY <1>1, <1>2 DEF PosAt

LEMMA PutPosFacts ==
  ASSUME NEW w, GoodFile(w.file), NEW t, GoodList(t.list), NEW r, r = PutPos(w, t)
  PROVE  /\ GoodFile(r.file) /\ Keeps(w.file, r.file)
         /\ \E o : r.at = Append(w.at, o) /\ PosAt(r.file, o, t.list)
<1>1. PICK f, list : f = w.file /\ list = t.list
  OBVIOUS
<1>2. PICK g : g = PutEntries(f, list)
  OBVIOUS
<1>3. r.file = g /\ r.at = Append(w.at, f.end)
  BY <1>1, <1>2 DEF PutPos
<1>4. WholeList(list) /\ GoodFile(f)
  BY <1>1 DEF GoodList
<1>5. GoodFile(g) /\ Keeps(f, g) /\ \E p : Entries(g, p, list) /\ p[1] = f.end
  BY <1>2, <1>4, PutEntriesFacts
<1>6. PosAt(g, f.end, list)
  BY <1>5 DEF PosAt
<1> QED
  BY <1>1, <1>3, <1>5, <1>6

\* Three terms with their lists.
ThreeTerms(terms) == Len(terms) = 3 /\ \A i \in 1 .. 3 : GoodList(terms[i].list)

LEMMA DocFile ==
  ASSUME NEW terms, ThreeTerms(terms), NEW w, GoodFile(w.file), w.metas = <<>>,
         NEW r, r = Each(PutDoc, w, terms)
  PROVE  DocAt(r.file, r.metas[2], terms[2].list)
<1>1. PICK r1, r2 : r1 = PutDoc(w, terms[1]) /\ r2 = PutDoc(r1, terms[2])
  OBVIOUS
<1>2. r = PutDoc(r2, terms[3])
  BY <1>1, EachDoc DEF ThreeTerms
<1>3. GoodList(terms[1].list) /\ GoodList(terms[2].list) /\ GoodList(terms[3].list)
  BY DEF ThreeTerms
<1>4. GoodFile(r1.file) /\ \E m : r1.metas = Append(w.metas, m)
  BY <1>1, <1>3, PutDocFacts
<1>5. /\ GoodFile(r2.file)
      /\ \E m : r2.metas = Append(r1.metas, m) /\ DocAt(r2.file, m, terms[2].list)
  BY <1>1, <1>3, <1>4, PutDocFacts
<1>6. GoodFile(r.file) /\ Keeps(r2.file, r.file) /\ \E m : r.metas = Append(r2.metas, m)
  <2>1. PICK t : t = terms[3]
    OBVIOUS
  <2>2. PICK x : x = PutDoc(r2, t)
    OBVIOUS
  <2>3. r = x
    BY <1>2, <2>1, <2>2, Zenon
  <2>4. GoodList(t.list)
    BY <1>3, <2>1, Zenon
  <2>5. /\ GoodFile(x.file) /\ Keeps(r2.file, x.file)
        /\ \E m : x.metas = Append(r2.metas, m) /\ DocAt(x.file, m, t.list)
    BY <1>5, <2>2, <2>4, PutDocFacts
  <2> QED
    BY <2>3, <2>5, Zenon
<1>7. PICK m1, m2, m3 :
        /\ r1.metas = Append(w.metas, m1) /\ r2.metas = Append(r1.metas, m2)
        /\ r.metas = Append(r2.metas, m3) /\ DocAt(r2.file, m2, terms[2].list)
  BY <1>4, <1>5, <1>6
<1>8. r.metas[2] = m2
  <2>1. Append(Append(Append(<<>>, m1), m2), m3)[2] = m2
    OBVIOUS
  <2> QED
    BY <1>7, <2>1
<1> QED
  BY <1>6, <1>7, <1>8, DocAtKept

LEMMA PosFile ==
  ASSUME NEW terms, ThreeTerms(terms), NEW w, GoodFile(w.file), w.at = <<>>,
         NEW r, r = Each(PutPos, w, terms)
  PROVE  PosAt(r.file, r.at[2], terms[2].list)
<1>1. PICK r1, r2 : r1 = PutPos(w, terms[1]) /\ r2 = PutPos(r1, terms[2])
  OBVIOUS
<1>2. r = PutPos(r2, terms[3])
  BY <1>1, EachPos DEF ThreeTerms
<1>3. GoodList(terms[1].list) /\ GoodList(terms[2].list) /\ GoodList(terms[3].list)
  BY DEF ThreeTerms
<1>4. GoodFile(r1.file) /\ \E o : r1.at = Append(w.at, o)
  BY <1>1, <1>3, PutPosFacts
<1>5. /\ GoodFile(r2.file)
      /\ \E o : r2.at = Append(r1.at, o) /\ PosAt(r2.file, o, terms[2].list)
  BY <1>1, <1>3, <1>4, PutPosFacts
<1>6. GoodFile(r.file) /\ Keeps(r2.file, r.file) /\ \E o : r.at = Append(r2.at, o)
  <2>1. PICK t : t = terms[3]
    OBVIOUS
  <2>2. PICK x : x = PutPos(r2, t)
    OBVIOUS
  <2>3. r = x
    BY <1>2, <2>1, <2>2, Zenon
  <2>4. GoodList(t.list)
    BY <1>3, <2>1, Zenon
  <2>5. /\ GoodFile(x.file) /\ Keeps(r2.file, x.file)
        /\ \E o : x.at = Append(r2.at, o) /\ PosAt(x.file, o, t.list)
    BY <1>5, <2>2, <2>4, PutPosFacts
  <2> QED
    BY <2>3, <2>5, Zenon
<1>7. PICK o1, o2, o3 :
        /\ r1.at = Append(w.at, o1) /\ r2.at = Append(r1.at, o2)
        /\ r.at = Append(r2.at, o3) /\ PosAt(r2.file, o2, terms[2].list)
  BY <1>4, <1>5, <1>6
<1>8. r.at[2] = o2
  <2>1. Append(Append(Append(<<>>, o1), o2), o3)[2] = o2
    OBVIOUS
  <2> QED
    BY <1>7, <2>1
<1> QED
  BY <1>6, <1>7, <1>8, PosAtKept

-----------------------------------------------------------------------------
(* .tim: the entries of the terms                                          *)

\* The beginning of a term's entry at o, and its offsets.
HeadAt(f, o, t) ==
  /\ Has(f, o, t.name) /\ Has(f, o + 4 + Len(t.name), Len(t.list))

OffsetsAt(f, base, m, pos0) ==
  /\ Has(f, base, m.posting) /\ Has(f, base + 8, m.skip)
  /\ Has(f, base + 16, pos0) /\ Has(f, base + 28, m.tfData)

LEMMA HeadThings ==
  ASSUME NEW f, GoodFile(f), NEW t, Len(t.name) \in Nat, NEW g, g = PutAll(f, TermThings(t))
  PROVE  /\ GoodFile(g) /\ Keeps(f, g)
         /\ g.end = f.end + 12 + Len(t.name) /\ HeadAt(g, f.end, t)
<1>1. PICK L \in Nat, o \in Nat : L = Len(t.name) /\ o = f.end
  BY DEF GoodFile
<1>2. PICK s : s = TermThings(t)
  OBVIOUS
<1>3. /\ Len(s) = 3
      /\ s[1][1] = 4 + L /\ s[1][2] = t.name
      /\ s[2][1] = 4 /\ s[2][2] = Len(t.list)
      /\ s[3][1] = 4
  BY <1>1, <1>2 DEF TermThings
<1>4. \A n \in 1 .. 3 : n = 1 \/ n = 2 \/ n = 3
  OBVIOUS
<1>5. Sized(s)
  <2>1. \A n \in 1 .. 3 : s[n][1] \in Nat \ {0}
    BY <1>3, <1>4
  <2> QED
    BY <1>3, <2>1 DEF Sized
<1>6. GoodFile(g) /\ Keeps(f, g)
  BY <1>2, <1>5, PutAllFacts
<1>7. PICK p : Lie(g, p, s) /\ p[1] = o /\ p[Len(s) + 1] = g.end
  BY <1>1, <1>2, <1>5, PutAllFacts
<1>8. \A n \in 1 .. 3 : p[n + 1] = p[n] + s[n][1] /\ Has(g, p[n], s[n][2])
  BY <1>3, <1>7 DEF Lie
<1>9. p[2] = o + (4 + L) /\ Has(g, o, t.name)
  <2>1. 1 \in 1 .. 3 /\ 1 + 1 = 2
    OBVIOUS
  <2> QED
    BY <1>3, <1>7, <1>8, <2>1
<1>10. p[3] = o + (4 + L) + 4 /\ Has(g, o + (4 + L), Len(t.list))
  <2>1. 2 \in 1 .. 3 /\ 2 + 1 = 3
    OBVIOUS
  <2> QED
    BY <1>3, <1>8, <1>9, <2>1
<1>11. p[4] = o + (4 + L) + 4 + 4
  <2>1. 3 \in 1 .. 3 /\ 3 + 1 = 4
    OBVIOUS
  <2> QED
    BY <1>3, <1>8, <1>10, <2>1
<1>12. g.end = o + 12 + L
  <2>1. Len(s) + 1 = 4
    BY <1>3
  <2>2. g.end = o + (4 + L) + 4 + 4
    BY <1>7, <1>11, <2>1
  <2> QED
    BY <2>2
<1>13. o + (4 + L) = o + 4 + L
  OBVIOUS
<1> QED
  BY <1>1, <1>6, <1>9, <1>10, <1>12, <1>13 DEF HeadAt

LEMMA OffsetsThings ==
  ASSUME NEW f, GoodFile(f), NEW a, NEW b, NEW c, NEW d, NEW g, g = PutAll(f, OffsetThings(a, b, c, d))
  PROVE  GoodFile(g) /\ Keeps(f, g) /\ g.end = f.end + 36
<1>1. PICK o \in Nat : o = f.end
  BY DEF GoodFile
<1>2. PICK s : s = OffsetThings(a, b, c, d)
  OBVIOUS
<1>3. /\ Len(s) = 5
      /\ s[1][1] = 8 /\ s[2][1] = 8 /\ s[3][1] = 8 /\ s[4][1] = 4 /\ s[5][1] = 8
  BY <1>2 DEF OffsetThings
<1>4. Sized(s)
  <2>1. \A n \in 1 .. 5 : n = 1 \/ n = 2 \/ n = 3 \/ n = 4 \/ n = 5
    OBVIOUS
  <2>2. \A n \in 1 .. 5 : s[n][1] \in Nat \ {0}
    BY <1>3, <2>1
  <2> QED
    BY <1>3, <2>2 DEF Sized
<1>5. GoodFile(g) /\ Keeps(f, g)
  BY <1>2, <1>4, PutAllFacts
<1>6. PICK p : Lie(g, p, s) /\ p[1] = o /\ p[Len(s) + 1] = g.end
  BY <1>1, <1>2, <1>4, PutAllFacts
<1>7. \A n \in 1 .. 5 : p[n + 1] = p[n] + s[n][1]
  BY <1>3, <1>6 DEF Lie
<1>8. p[1 + 1] = o + 8 /\ p[2 + 1] = p[2] + 8 /\ p[3 + 1] = p[3] + 8 /\ p[4 + 1] = p[4] + 4 /\ p[5 + 1] = p[5] + 8
  <2>1. 1 \in 1 .. 5 /\ 2 \in 1 .. 5 /\ 3 \in 1 .. 5 /\ 4 \in 1 .. 5 /\ 5 \in 1 .. 5
    OBVIOUS
  <2> QED
    BY <1>3, <1>6, <1>7, <2>1
<1>9. p[6] = o + 36
  BY <1>8
<1>10. Len(s) + 1 = 6
  BY <1>3
<1> QED
  BY <1>1, <1>5, <1>6, <1>9, <1>10

\* All of a term's entry.
TermRow(t, a, b, c, d) == TermThings(t) \o OffsetThings(a, b, c, d)

LEMMA TermAndOffsets ==
  ASSUME NEW t, NEW a, NEW b, NEW c, NEW d, NEW s, s = TermRow(t, a, b, c, d)
  PROVE  /\ Len(s) = 8
         /\ s[1] = <<4 + Len(t.name), t.name>> /\ s[2] = <<4, Len(t.list)>>
         /\ s[3] = <<4, TotalTf(t.list)>>
         /\ s[4] = <<8, a>> /\ s[5] = <<8, b>> /\ s[6] = <<8, c>> /\ s[7] = <<4, 0>> /\ s[8] = <<8, d>>
<1>1. PICK x1, x2, x3, y1, y2, y3, y4, y5 :
        /\ x1 = <<4 + Len(t.name), t.name>> /\ x2 = <<4, Len(t.list)>>
        /\ x3 = <<4, TotalTf(t.list)>>
        /\ y1 = <<8, a>> /\ y2 = <<8, b>> /\ y3 = <<8, c>> /\ y4 = <<4, 0>> /\ y5 = <<8, d>>
  OBVIOUS
<1>2. PICK h, z : h = <<x1, x2, x3>> /\ z = <<y1, y2, y3, y4, y5>>
  OBVIOUS
<1>3. s = h \o z
  BY <1>1, <1>2, Zenon DEF TermRow, TermThings, OffsetThings
<1> DEFINE X == {x1, x2, x3, y1, y2, y3, y4, y5}
<1>4. /\ h \in Seq(X) /\ Len(h) = 3 /\ h[1] = x1 /\ h[2] = x2 /\ h[3] = x3
      /\ z \in Seq(X) /\ Len(z) = 5
      /\ z[1] = y1 /\ z[2] = y2 /\ z[3] = y3 /\ z[4] = y4 /\ z[5] = y5
  <2>1. x1 \in X /\ x2 \in X /\ x3 \in X /\ y1 \in X /\ y2 \in X /\ y3 \in X /\ y4 \in X /\ y5 \in X
    OBVIOUS
  <2> HIDE DEF X
  <2> QED
    BY <1>2, <2>1
<1> HIDE DEF X
<1>5. /\ Len(h \o z) = Len(h) + Len(z)
      /\ \A i \in 1 .. Len(h) + Len(z) : (h \o z)[i] = IF i <= Len(h) THEN h[i] ELSE z[i - Len(h)]
  BY <1>4, ConcatProperties, Zenon
<1>6. PICK c0 : c0 = h \o z
  OBVIOUS
<1>7. Len(c0) = 3 + 5 /\ \A i \in 1 .. 3 + 5 : c0[i] = IF i <= 3 THEN h[i] ELSE z[i - 3]
  BY <1>4, <1>5, <1>6, Zenon
<1>8. /\ Len(c0) = 8 /\ c0[1] = x1 /\ c0[2] = x2 /\ c0[3] = x3
      /\ c0[4] = y1 /\ c0[5] = y2 /\ c0[6] = y3 /\ c0[7] = y4 /\ c0[8] = y5
  <2>1. /\ c0[1] = h[1] /\ c0[2] = h[2] /\ c0[3] = h[3]
        /\ c0[4] = z[1] /\ c0[5] = z[2] /\ c0[6] = z[3] /\ c0[7] = z[4] /\ c0[8] = z[5]
    BY <1>7
  <2> QED
    BY <1>4, <1>7, <2>1
<1> QED
  BY <1>1, <1>3, <1>6, <1>8, Zenon

LEMMA PutTermFacts ==
  ASSUME NEW f, GoodFile(f), NEW t, Len(t.term.name) \in Nat, NEW g, g = PutTerm(f, t)
  PROVE  /\ GoodFile(g) /\ Keeps(f, g) /\ g.end = f.end + 48 + Len(t.term.name)
         /\ HeadAt(g, f.end, t.term)
         /\ OffsetsAt(g, f.end + 12 + Len(t.term.name), t.meta, t.pos)
<1>1. PICK L \in Nat, o \in Nat : L = Len(t.term.name) /\ o = f.end
  BY DEF GoodFile
<1>2. PICK m, u, x, a, b, d :
        /\ m = t.meta /\ u = t.term /\ x = t.pos
        /\ a = m.posting /\ b = m.skip /\ d = m.tfData
  OBVIOUS
<1>3. PICK s : s = TermRow(u, a, b, x, d)
  OBVIOUS
<1>4. g = PutAll(f, s)
  BY <1>2, <1>3, Zenon DEF PutTerm, TermRow
<1>5. /\ Len(s) = 8
      /\ s[1] = <<4 + Len(u.name), u.name>> /\ s[2] = <<4, Len(u.list)>>
      /\ s[3] = <<4, TotalTf(u.list)>>
      /\ s[4] = <<8, a>> /\ s[5] = <<8, b>> /\ s[6] = <<8, x>>
      /\ s[7] = <<4, 0>> /\ s[8] = <<8, d>>
  BY <1>3, TermAndOffsets
<1>6. /\ s[1][1] = 4 + L /\ s[2][1] = 4 /\ s[3][1] = 4
      /\ s[4][1] = 8 /\ s[5][1] = 8 /\ s[6][1] = 8 /\ s[7][1] = 4 /\ s[8][1] = 8
      /\ s[1][2] = u.name /\ s[2][2] = Len(u.list)
      /\ s[4][2] = a /\ s[5][2] = b /\ s[6][2] = x /\ s[8][2] = d
  BY <1>1, <1>2, <1>5
<1>7. Sized(s)
  <2>1. \A n \in 1 .. 8 : n = 1 \/ n = 2 \/ n = 3 \/ n = 4 \/ n = 5 \/ n = 6 \/ n = 7 \/ n = 8
    OBVIOUS
  <2>2. \A n \in 1 .. 8 : s[n][1] \in Nat \ {0}
    BY <1>6, <2>1
  <2>3. Len(s) = 8
    BY <1>5
  <2> QED
    BY <2>2, <2>3 DEF Sized
<1>8. GoodFile(g) /\ Keeps(f, g)
  BY <1>4, <1>7, PutAllFacts
<1>9. PICK p : Lie(g, p, s) /\ p[1] = o /\ p[Len(s) + 1] = g.end
  BY <1>1, <1>4, <1>7, PutAllFacts
<1>10. p[9] = g.end /\ \A n \in 1 .. 8 : p[n + 1] = p[n] + s[n][1] /\ Has(g, p[n], s[n][2])
  <2>1. Len(s) = 8 /\ 8 + 1 = 9
    BY <1>5
  <2>2. Lie(g, p, s) /\ p[Len(s) + 1] = g.end
    BY <1>9
  <2> QED
    BY <2>1, <2>2 DEF Lie
<1>11. /\ 1 \in 1 .. 8 /\ 2 \in 1 .. 8 /\ 3 \in 1 .. 8 /\ 4 \in 1 .. 8
       /\ 5 \in 1 .. 8 /\ 6 \in 1 .. 8 /\ 7 \in 1 .. 8 /\ 8 \in 1 .. 8
  OBVIOUS
<1>12. /\ p[1] = o /\ p[1 + 1] = p[1] + (4 + L) /\ p[2 + 1] = p[2] + 4 /\ p[3 + 1] = p[3] + 4
       /\ p[4 + 1] = p[4] + 8 /\ p[5 + 1] = p[5] + 8 /\ p[6 + 1] = p[6] + 8
       /\ p[7 + 1] = p[7] + 4 /\ p[8 + 1] = p[8] + 8
  BY <1>6, <1>9, <1>10, <1>11
<1>13. /\ Has(g, p[1], u.name) /\ Has(g, p[2], Len(u.list))
       /\ Has(g, p[4], a) /\ Has(g, p[5], b) /\ Has(g, p[6], x) /\ Has(g, p[8], d)
  BY <1>6, <1>10, <1>11
<1>14. /\ p[2] = o + 4 + L /\ p[4] = o + 12 + L /\ p[5] = o + 12 + L + 8
       /\ p[6] = o + 12 + L + 16 /\ p[8] = o + 12 + L + 28 /\ p[9] = o + 48 + L
  BY <1>12
<1>15. HeadAt(g, o, u)
  BY <1>1, <1>2, <1>12, <1>13, <1>14 DEF HeadAt
<1>16. OffsetsAt(g, o + 12 + L, m, x)
  BY <1>2, <1>13, <1>14 DEF OffsetsAt
<1> QED
  BY <1>1, <1>2, <1>8, <1>10, <1>14, <1>15, <1>16

LEMMA HeadKept ==
  ASSUME NEW f, NEW g, Keeps(f, g), NEW o, NEW t, HeadAt(f, o, t)
  PROVE  HeadAt(g, o, t)
BY KeepsHas DEF HeadAt

LEMMA OffsetsKept ==
  ASSUME NEW f, NEW g, Keeps(f, g), NEW b, NEW m, NEW x, OffsetsAt(f, b, m, x)
  PROVE  OffsetsAt(g, b, m, x)
BY KeepsHas DEF OffsetsAt

LEMMA PutZerosFacts ==
  ASSUME NEW w, GoodFile(w.file), NEW t, Len(t.name) \in Nat, NEW r, r = PutZeros(w, t)
  PROVE  /\ GoodFile(r.file) /\ Keeps(w.file, r.file)
         /\ r.file.end = w.file.end + 48 + Len(t.name)
         /\ HeadAt(r.file, w.file.end, t)
         /\ r.patch = Append(w.patch, w.file.end + 12 + Len(t.name))
<1>1. PICK f : f = w.file
  OBVIOUS
<1>2. PICK L \in Nat, o \in Nat : L = Len(t.name) /\ o = f.end
  BY <1>1 DEF GoodFile
<1>3. PICK h : h = PutAll(f, TermThings(t))
  OBVIOUS
<1>4. PICK g : g = PutAll(h, OffsetThings(0, 0, 0, 0))
  OBVIOUS
<1>5. r.file = g /\ r.patch = Append(w.patch, h.end)
  <2>1. r = [file |-> g, patch |-> Append(w.patch, h.end)]
    BY <1>1, <1>3, <1>4, Zenon DEF PutZeros
  <2> QED
    BY <2>1
<1>6. GoodFile(h) /\ Keeps(f, h) /\ h.end = o + 12 + L /\ HeadAt(h, o, t)
  BY <1>1, <1>2, <1>3, HeadThings
<1>7. GoodFile(g) /\ Keeps(h, g) /\ g.end = h.end + 36
  BY <1>4, <1>6, OffsetsThings
<1>8. g.end = o + 48 + L
  BY <1>6, <1>7
<1>9. Keeps(f, g)
  <2>1. f.end \in Nat /\ h.end \in Nat /\ g.end \in Nat
    BY <1>2, <1>6, <1>7 DEF GoodFile
  <2> QED
    BY <1>6, <1>7, <2>1, KeepsOn
<1>10. HeadAt(g, o, t)
  BY <1>6, <1>7, HeadKept
<1>11. h.end = o + 12 + L
  BY <1>6
<1> QED
  BY <1>1, <1>2, <1>5, <1>7, <1>8, <1>9, <1>10, <1>11

LEMMA WithFacts ==
  ASSUME NEW f, NEW x, NEW v, NEW g, g = With(f, x, v)
  PROVE  /\ x \in DOMAIN g /\ g[x] = v
         /\ \A y \in DOMAIN f : y # x => y \in DOMAIN g /\ g[y] = f[y]
BY DEF With

\* A file with its two fields.
IsFile(f) == \E e, a : f = [end |-> e, at |-> a]

\* g is f but for what lies at the places S.
KeptBut(f, g, S) == \A o, v : o \notin S /\ Has(f, o, v) => Has(g, o, v)

LEMMA PatchDocFacts ==
  ASSUME NEW f, IsFile(f), NEW p, p.base \in Nat, NEW g, g = PatchDoc(f, p)
  PROVE  /\ IsFile(g)
         /\ Has(g, p.base, p.meta.posting) /\ Has(g, p.base + 8, p.meta.skip)
         /\ Has(g, p.base + 28, p.meta.tfData)
         /\ KeptBut(f, g, {p.base, p.base + 8, p.base + 28})
<1>0. PICK e, a : f = [end |-> e, at |-> a]
  BY DEF IsFile
<1>1. PICK b \in Nat : b = p.base
  OBVIOUS
<1>2. PICK v1, v2, v3 : v1 = p.meta.posting /\ v2 = p.meta.skip /\ v3 = p.meta.tfData
  OBVIOUS
<1>3. PICK a1 : a1 = With(a, b, v1)
  OBVIOUS
<1>4. PICK a2 : a2 = With(a1, b + 8, v2)
  OBVIOUS
<1>5. PICK a3 : a3 = With(a2, b + 28, v3)
  OBVIOUS
<1>6. g = [end |-> e, at |-> a3]
  <2>1. g = [f EXCEPT !.at = With(With(With(@, p.base, p.meta.posting), p.base + 8, p.meta.skip),
                                  p.base + 28, p.meta.tfData)]
    BY Zenon DEF PatchDoc
  <2>2. f.at = a
    BY <1>0
  <2>3. With(With(With(f.at, p.base, p.meta.posting), p.base + 8, p.meta.skip), p.base + 28, p.meta.tfData) = a3
    BY <1>1, <1>2, <1>3, <1>4, <1>5, <2>2, Zenon
  <2>4. g = [f EXCEPT !.at = a3]
    BY <2>1, <2>3, Zenon
  <2> QED
    BY <1>0, <2>4
<1>7. g.at = a3 /\ f.at = a
  BY <1>0, <1>6
<1>8. b # b + 8 /\ b # b + 28 /\ b + 8 # b + 28
  OBVIOUS
<1>9. /\ b \in DOMAIN a1 /\ a1[b] = v1
      /\ \A y \in DOMAIN a : y # b => y \in DOMAIN a1 /\ a1[y] = a[y]
  BY <1>3, WithFacts
<1>10. /\ b + 8 \in DOMAIN a2 /\ a2[b + 8] = v2
       /\ \A y \in DOMAIN a1 : y # b + 8 => y \in DOMAIN a2 /\ a2[y] = a1[y]
  BY <1>4, WithFacts
<1>11. /\ b + 28 \in DOMAIN a3 /\ a3[b + 28] = v3
       /\ \A y \in DOMAIN a2 : y # b + 28 => y \in DOMAIN a3 /\ a3[y] = a2[y]
  BY <1>5, WithFacts
<1>12. Has(g, b, v1) /\ Has(g, b + 8, v2) /\ Has(g, b + 28, v3)
  BY <1>7, <1>8, <1>9, <1>10, <1>11, Zenon DEF Has
<1>13. KeptBut(f, g, {b, b + 8, b + 28})
  BY <1>7, <1>9, <1>10, <1>11, Zenon DEF Has, KeptBut
<1>14. IsFile(g)
  BY <1>6, Zenon DEF IsFile
<1> QED
  BY <1>1, <1>2, <1>12, <1>13, <1>14, Zenon

LEMMA PatchPosFacts ==
  ASSUME NEW f, IsFile(f), NEW p, NEW g, g = PatchPos(f, p)
  PROVE  IsFile(g) /\ Has(g, p.base + 16, p.pos) /\ KeptBut(f, g, {p.base + 16})
<1>0. PICK e, a : f = [end |-> e, at |-> a]
  BY DEF IsFile
<1>1. PICK b, x : b = p.base + 16 /\ x = p.pos
  OBVIOUS
<1>2. PICK a1 : a1 = With(a, b, x)
  OBVIOUS
<1>3. g = [end |-> e, at |-> a1]
  <2>1. g = [f EXCEPT !.at = With(@, p.base + 16, p.pos)]
    BY Zenon DEF PatchPos
  <2>2. f.at = a
    BY <1>0
  <2>3. With(f.at, p.base + 16, p.pos) = a1
    BY <1>1, <1>2, <2>2, Zenon
  <2>4. g = [f EXCEPT !.at = a1]
    BY <2>1, <2>3, Zenon
  <2> QED
    BY <1>0, <2>4
<1>4. g.at = a1 /\ f.at = a
  BY <1>0, <1>3
<1>5. /\ b \in DOMAIN a1 /\ a1[b] = x
      /\ \A y \in DOMAIN a : y # b => y \in DOMAIN a1 /\ a1[y] = a[y]
  BY <1>2, WithFacts
<1>6. Has(g, b, x) /\ KeptBut(f, g, {b})
  BY <1>4, <1>5, Zenon DEF Has, KeptBut
<1>7. IsFile(g)
  BY <1>3, Zenon DEF IsFile
<1> QED
  BY <1>1, <1>6, <1>7, Zenon

\* Three terms with names of one, two and three letters.
Named(terms) ==
  Len(terms) = 3 /\ DOMAIN terms = 1 .. 3 /\ \A i \in 1 .. 3 : Len(terms[i].name) = i

\* What the reader needs of a .tim file to find the second of them.
TimHas(f, terms, m, x) ==
  /\ Has(f, 0, 3) /\ HeadAt(f, 4, terms[1]) /\ HeadAt(f, 53, terms[2]) /\ HeadAt(f, 103, terms[3])
  /\ OffsetsAt(f, 67, m, x)

LEMMA EmptyGood == GoodFile(EmptyFile) /\ EmptyFile.end = 0
BY DEF GoodFile, EmptyFile

\* The count of the terms is written first.
LEMMA CountFirst ==
  ASSUME NEW f, f = Put(EmptyFile, <<4, 3>>)
  PROVE  GoodFile(f) /\ f.end = 4 /\ Has(f, 0, 3)
<1>1. PICK e, t : e = EmptyFile /\ t = <<4, 3>>
  OBVIOUS
<1>2. GoodFile(e) /\ e.end = 0 /\ t[1] = 4 /\ t[2] = 3
  BY <1>1, EmptyGood
<1>3. f = Put(e, t) /\ t[1] \in Nat \ {0}
  BY <1>1, <1>2
<1>4. GoodFile(f) /\ f.end = e.end + t[1] /\ Has(f, e.end, t[2])
  BY <1>2, <1>3, PutFacts
<1> QED
  BY <1>2, <1>4

\* What comes of writing a thing is a file with its two fields.
LEMMA PutAllRecord ==
  ASSUME NEW f, NEW things, Len(things) = 5, NEW h, h = PutAll(f, things)
  PROVE  IsFile(h)
<1>1. PICK N \in Nat : N = 5
  OBVIOUS
<1>2. Len(things) = N
  BY <1>1
<1>3. PICK g : Putting(f, things, N, g) /\ PutAll(f, things) = g[N]
  BY <1>2, PutAllUnfolds
<1>4. g[N] = Put(g[N - 1], things[N])
  BY <1>1, <1>3 DEF Putting
<1>5. PICK k, t : k = g[N - 1] /\ t = things[N]
  OBVIOUS
<1>6. h = Put(k, t)
  BY <1>3, <1>4, <1>5, Zenon
<1>7. h = [end |-> k.end + t[1], at |-> With(k.at, k.end, t[2])]
  BY <1>6, Zenon DEF Put
<1> QED
  BY <1>7, Zenon DEF IsFile

LEMMA Appended ==
  ASSUME NEW s \in Seq(Nat), NEW n \in Nat, NEW q, q = Append(s, n)
  PROVE  /\ q \in Seq(Nat) /\ Len(q) = Len(s) + 1
         /\ \A i \in 1 .. Len(s) : q[i] = s[i]
         /\ q[Len(s) + 1] = n
BY AppendProperties

LEMMA WriteTimFacts ==
  ASSUME NEW terms, Named(terms), NEW w, w = WriteTim(terms)
  PROVE  /\ Has(w.file, 0, 3) /\ HeadAt(w.file, 4, terms[1])
         /\ HeadAt(w.file, 53, terms[2]) /\ HeadAt(w.file, 103, terms[3])
         /\ w.patch[1] = 17 /\ w.patch[2] = 67 /\ w.patch[3] = 118
         /\ IsFile(w.file)
<1>1. PICK t1, t2, t3 : t1 = terms[1] /\ t2 = terms[2] /\ t3 = terms[3]
  OBVIOUS
<1>2. Len(t1.name) = 1 /\ Len(t2.name) = 2 /\ Len(t3.name) = 3 /\ Len(terms) = 3
  BY <1>1 DEF Named
<1>3. PICK f0 : f0 = Put(EmptyFile, <<4, 3>>)
  OBVIOUS
<1>4. PICK w0 : w0 = [file |-> f0, patch |-> <<>>]
  OBVIOUS
<1>5. PICK w1 : w1 = PutZeros(w0, t1)
  OBVIOUS
<1>6. PICK w2 : w2 = PutZeros(w1, t2)
  OBVIOUS
<1>7. PICK w3 : w3 = PutZeros(w2, t3)
  OBVIOUS
<1>8. w = w3
  <2>1. w = Each(PutZeros, w0, terms)
    BY <1>2, <1>3, <1>4, Zenon DEF WriteTim
  <2>2. Each(PutZeros, w0, terms) = PutZeros(PutZeros(PutZeros(w0, terms[1]), terms[2]), terms[3])
    BY <1>2, EachZeros
  <2> QED
    BY <1>1, <1>5, <1>6, <1>7, <2>1, <2>2, Zenon
<1>9. w0.file = f0 /\ w0.patch = <<>>
  BY <1>4
<1>10. GoodFile(f0) /\ f0.end = 4 /\ Has(f0, 0, 3)
  BY <1>3, CountFirst
<1>11. /\ GoodFile(w1.file) /\ Keeps(f0, w1.file) /\ w1.file.end = 53
       /\ HeadAt(w1.file, 4, t1) /\ w1.patch = Append(<<>>, 17)
  <2>1. GoodFile(w0.file) /\ Len(t1.name) \in Nat
    BY <1>2, <1>9, <1>10
  <2>2. /\ GoodFile(w1.file) /\ Keeps(w0.file, w1.file)
        /\ w1.file.end = w0.file.end + 48 + Len(t1.name)
        /\ HeadAt(w1.file, w0.file.end, t1)
        /\ w1.patch = Append(w0.patch, w0.file.end + 12 + Len(t1.name))
    BY <1>5, <2>1, PutZerosFacts
  <2>3. w0.file.end = 4 /\ 4 + 48 + 1 = 53 /\ 4 + 12 + 1 = 17
    BY <1>9, <1>10
  <2> QED
    BY <1>2, <1>9, <2>2, <2>3
<1>12. /\ GoodFile(w2.file) /\ Keeps(w1.file, w2.file) /\ w2.file.end = 103
       /\ HeadAt(w2.file, 53, t2) /\ w2.patch = Append(w1.patch, 67)
  <2>1. GoodFile(w1.file) /\ Len(t2.name) \in Nat
    BY <1>2, <1>11
  <2>2. /\ GoodFile(w2.file) /\ Keeps(w1.file, w2.file)
        /\ w2.file.end = w1.file.end + 48 + Len(t2.name)
        /\ HeadAt(w2.file, w1.file.end, t2)
        /\ w2.patch = Append(w1.patch, w1.file.end + 12 + Len(t2.name))
    BY <1>6, <2>1, PutZerosFacts
  <2>3. w1.file.end = 53 /\ 53 + 48 + 2 = 103 /\ 53 + 12 + 2 = 67
    BY <1>11
  <2> QED
    BY <1>2, <2>2, <2>3
<1>13. /\ GoodFile(w3.file) /\ Keeps(w2.file, w3.file)
       /\ HeadAt(w3.file, 103, t3) /\ w3.patch = Append(w2.patch, 118)
  <2>1. GoodFile(w2.file) /\ Len(t3.name) \in Nat
    BY <1>2, <1>12
  <2>2. /\ GoodFile(w3.file) /\ Keeps(w2.file, w3.file)
        /\ HeadAt(w3.file, w2.file.end, t3)
        /\ w3.patch = Append(w2.patch, w2.file.end + 12 + Len(t3.name))
    BY <1>7, <2>1, PutZerosFacts
  <2>3. w2.file.end = 103 /\ 103 + 12 + 3 = 118
    BY <1>12
  <2> QED
    BY <1>2, <2>2, <2>3
<1>14. HeadAt(w3.file, 4, t1) /\ HeadAt(w3.file, 53, t2) /\ Has(w3.file, 0, 3)
  <2>1. HeadAt(w2.file, 4, t1) /\ Has(w2.file, 0, 3)
    BY <1>10, <1>11, <1>12, HeadKept, KeepsHas
  <2> QED
    BY <1>12, <1>13, <2>1, HeadKept, KeepsHas
<1>15. w3.patch[1] = 17 /\ w3.patch[2] = 67 /\ w3.patch[3] = 118
  <2>1. PICK q1, q2, q3 : q1 = w1.patch /\ q2 = w2.patch /\ q3 = w3.patch
    OBVIOUS
  <2>2. q1 = Append(<<>>, 17)
    BY <1>11, <2>1, Zenon
  <2>3. q2 = Append(q1, 67)
    BY <1>12, <2>1, Zenon
  <2>4. q3 = Append(q2, 118)
    BY <1>13, <2>1, Zenon
  <2>5. q1 \in Seq(Nat) /\ Len(q1) = 1 /\ q1[1] = 17
    BY <2>2
  <2>6. q2 \in Seq(Nat) /\ Len(q2) = 2 /\ q2[1] = 17 /\ q2[2] = 67
    <3>1. 67 \in Nat /\ 1 \in 1 .. 1 /\ Len(q1) + 1 = 2
      BY <2>5
    <3>2. /\ q2 \in Seq(Nat) /\ Len(q2) = Len(q1) + 1
          /\ \A i \in 1 .. Len(q1) : q2[i] = q1[i]
          /\ q2[Len(q1) + 1] = 67
      BY <2>3, <2>5, <3>1, Appended
    <3> QED
      BY <2>5, <3>1, <3>2
  <2>7. q3[1] = 17 /\ q3[2] = 67 /\ q3[3] = 118
    <3>1. 118 \in Nat /\ 1 \in 1 .. 2 /\ 2 \in 1 .. 2 /\ Len(q2) + 1 = 3
      BY <2>6
    <3>2. /\ \A i \in 1 .. Len(q2) : q3[i] = q2[i]
          /\ q3[Len(q2) + 1] = 118
      BY <2>4, <2>6, <3>1, Appended
    <3> QED
      BY <2>6, <3>1, <3>2
  <2> QED
    BY <2>1, <2>7, Zenon
<1>16. IsFile(w3.file)
  <2>1. PICK f : f = PutAll(w2.file, TermThings(t3))
    OBVIOUS
  <2>2. PICK things : things = OffsetThings(0, 0, 0, 0)
    OBVIOUS
  <2>3. Len(things) = 5
    BY <2>2 DEF OffsetThings
  <2>4. PICK h : h = PutAll(f, things)
    OBVIOUS
  <2>5. w3 = [file |-> h, patch |-> Append(w2.patch, f.end)]
    BY <1>7, <2>1, <2>2, <2>4, Zenon DEF PutZeros
  <2>6. w3.file = h
    BY <2>5
  <2>7. IsFile(h)
    BY <2>3, <2>4, PutAllRecord
  <2> QED
    BY <2>6, <2>7, Zenon
<1>17. HeadAt(w3.file, 4, terms[1]) /\ HeadAt(w3.file, 53, terms[2])
       /\ HeadAt(w3.file, 103, terms[3])
  BY <1>1, <1>13, <1>14, Zenon
<1>18. Has(w.file, 0, 3) /\ HeadAt(w.file, 4, terms[1])
       /\ HeadAt(w.file, 53, terms[2]) /\ HeadAt(w.file, 103, terms[3])
  BY <1>8, <1>14, <1>17, Zenon
<1>19. w.patch[1] = 17 /\ w.patch[2] = 67 /\ w.patch[3] = 118
  BY <1>8, <1>15
<1>20. IsFile(w.file)
  BY <1>8, <1>16, Zenon
<1> QED
  BY <1>18, <1>19, <1>20, Zenon

-----------------------------------------------------------------------------
(* What a flush writes back into .tim *)

LEMMA KeptButOn ==
  ASSUME NEW f, NEW g, NEW h, NEW S, NEW T, KeptBut(f, g, S), KeptBut(g, h, T)
  PROVE  KeptBut(f, h, S \cup T)
BY DEF KeptBut

LEMMA KeptButHas ==
  ASSUME NEW f, NEW g, NEW S, KeptBut(f, g, S), NEW o, NEW v, o \notin S, Has(f, o, v)
  PROVE  Has(g, o, v)
BY DEF KeptBut

LEMMA HeadKeptBut ==
  ASSUME NEW f, NEW g, NEW S, KeptBut(f, g, S), NEW o, NEW t, HeadAt(f, o, t),
         o \notin S, o + 4 + Len(t.name) \notin S
  PROVE  HeadAt(g, o, t)
BY DEF KeptBut, HeadAt

\* Three terms' offsets of .doc are put back.
LEMMA ThreeDocPatches ==
  ASSUME NEW f, IsFile(f), NEW p1, NEW p2, NEW p3, p1.base = 17, p2.base = 67, p3.base = 118,
         NEW f1, f1 = PatchDoc(f, p1), NEW f2, f2 = PatchDoc(f1, p2), NEW f3, f3 = PatchDoc(f2, p3)
  PROVE  /\ IsFile(f3)
         /\ Has(f3, 67, p2.meta.posting) /\ Has(f3, 75, p2.meta.skip)
         /\ Has(f3, 95, p2.meta.tfData)
         /\ KeptBut(f, f3, {17, 25, 45, 67, 75, 95, 118, 126, 146})
<1>1. p1.base \in Nat /\ p2.base \in Nat /\ p3.base \in Nat
  OBVIOUS
<1>2. IsFile(f1) /\ KeptBut(f, f1, {p1.base, p1.base + 8, p1.base + 28})
  BY <1>1, PatchDocFacts
<1>3. /\ IsFile(f2) /\ KeptBut(f1, f2, {p2.base, p2.base + 8, p2.base + 28})
      /\ Has(f2, p2.base, p2.meta.posting) /\ Has(f2, p2.base + 8, p2.meta.skip)
      /\ Has(f2, p2.base + 28, p2.meta.tfData)
  BY <1>1, <1>2, PatchDocFacts
<1>4. IsFile(f3) /\ KeptBut(f2, f3, {p3.base, p3.base + 8, p3.base + 28})
  BY <1>1, <1>3, PatchDocFacts
<1>5. /\ {p1.base, p1.base + 8, p1.base + 28} = {17, 25, 45}
      /\ {p2.base, p2.base + 8, p2.base + 28} = {67, 75, 95}
      /\ {p3.base, p3.base + 8, p3.base + 28} = {118, 126, 146}
      /\ p2.base + 8 = 75 /\ p2.base + 28 = 95
  OBVIOUS
<1>6. KeptBut(f, f1, {17, 25, 45}) /\ KeptBut(f1, f2, {67, 75, 95}) /\ KeptBut(f2, f3, {118, 126, 146})
  BY <1>2, <1>3, <1>4, <1>5, Zenon
<1>7. Has(f2, 67, p2.meta.posting) /\ Has(f2, 75, p2.meta.skip) /\ Has(f2, 95, p2.meta.tfData)
  BY <1>3, <1>5, Zenon
<1>8. 67 \notin {118, 126, 146} /\ 75 \notin {118, 126, 146} /\ 95 \notin {118, 126, 146}
  OBVIOUS
<1>9. Has(f3, 67, p2.meta.posting) /\ Has(f3, 75, p2.meta.skip) /\ Has(f3, 95, p2.meta.tfData)
  BY <1>6, <1>7, <1>8, KeptButHas
<1>10. KeptBut(f, f2, {17, 25, 45} \cup {67, 75, 95})
  BY <1>6, KeptButOn, Zenon
<1>11. KeptBut(f, f3, ({17, 25, 45} \cup {67, 75, 95}) \cup {118, 126, 146})
  BY <1>6, <1>10, KeptButOn
<1>12. ({17, 25, 45} \cup {67, 75, 95}) \cup {118, 126, 146} = {17, 25, 45, 67, 75, 95, 118, 126, 146}
  OBVIOUS
<1> QED
  BY <1>4, <1>9, <1>11, <1>12, Zenon

\* The offsets of .pos.
LEMMA ThreePosPatches ==
  ASSUME NEW f, IsFile(f), NEW p1, NEW p2, NEW p3, p1.base = 17, p2.base = 67, p3.base = 118,
         NEW f1, f1 = PatchPos(f, p1), NEW f2, f2 = PatchPos(f1, p2), NEW f3, f3 = PatchPos(f2, p3)
  PROVE  Has(f3, 83, p2.pos) /\ KeptBut(f, f3, {33, 83, 134})
<1>1. p1.base + 16 = 33 /\ p2.base + 16 = 83 /\ p3.base + 16 = 134
  OBVIOUS
<1>2. IsFile(f1) /\ KeptBut(f, f1, {p1.base + 16})
  BY PatchPosFacts
<1>3. IsFile(f2) /\ KeptBut(f1, f2, {p2.base + 16}) /\ Has(f2, p2.base + 16, p2.pos)
  BY <1>2, PatchPosFacts
<1>4. KeptBut(f2, f3, {p3.base + 16})
  BY <1>3, PatchPosFacts
<1>5. KeptBut(f, f1, {33}) /\ KeptBut(f1, f2, {83}) /\ Has(f2, 83, p2.pos) /\ KeptBut(f2, f3, {134})
  BY <1>1, <1>2, <1>3, <1>4, Zenon
<1>6. 83 \notin {134}
  OBVIOUS
<1>7. Has(f3, 83, p2.pos)
  BY <1>5, <1>6, KeptButHas
<1>8. KeptBut(f, f2, {33} \cup {83})
  BY <1>5, KeptButOn, Zenon
<1>9. KeptBut(f, f3, ({33} \cup {83}) \cup {134})
  BY <1>5, <1>8, KeptButOn
<1>10. ({33} \cup {83}) \cup {134} = {33, 83, 134}
  OBVIOUS
<1> QED
  BY <1>7, <1>9, <1>10, Zenon

\* The writing back of a field, under names of their own.
DocsBack(f, s) == Each(PatchDoc, f, s)
PosBack(f, s)  == Each(PatchPos, f, s)

LEMMA DocsBackIs ==
  ASSUME NEW f, NEW s, Len(s) = 3
  PROVE  DocsBack(f, s) = PatchDoc(PatchDoc(PatchDoc(f, s[1]), s[2]), s[3])
BY EachPatchDoc DEF DocsBack

LEMMA PosBackIs ==
  ASSUME NEW f, NEW s, Len(s) = 3
  PROVE  PosBack(f, s) = PatchPos(PatchPos(PatchPos(f, s[1]), s[2]), s[3])
BY EachPatchPos DEF PosBack

\* The .tim file of a flush, when all is put back.
LEMMA FlushedTim ==
  ASSUME NEW terms, Named(terms), NEW tim, tim = WriteTim(terms), NEW m, NEW x,
         NEW s, s = [i \in DOMAIN terms |-> [base |-> tim.patch[i], meta |-> m[i]]],
         NEW u, u = [i \in DOMAIN terms |-> [base |-> tim.patch[i], pos |-> x[i]]],
         NEW f, f = tim.file, NEW d, d = DocsBack(f, s), NEW g, g = PosBack(d, u)
  PROVE  TimHas(g, terms, m[2], x[2])
<1>4. PICK p1, p2, p3 : p1 = s[1] /\ p2 = s[2] /\ p3 = s[3]
  OBVIOUS
<1>5. PICK q1, q2, q3 : q1 = u[1] /\ q2 = u[2] /\ q3 = u[3]
  OBVIOUS
<1>21. PICK f1 : f1 = PatchDoc(f, p1)
  OBVIOUS
<1>22. PICK f2 : f2 = PatchDoc(f1, p2)
  OBVIOUS
<1>23. PICK h : h = PatchDoc(f2, p3)
  OBVIOUS
<1>24. PICK h1 : h1 = PatchPos(h, q1)
  OBVIOUS
<1>25. PICK h2 : h2 = PatchPos(h1, q2)
  OBVIOUS
<1>26. PICK k : k = PatchPos(h2, q3)
  OBVIOUS
<1>7. /\ Has(f, 0, 3) /\ HeadAt(f, 4, terms[1])
      /\ HeadAt(f, 53, terms[2]) /\ HeadAt(f, 103, terms[3])
      /\ tim.patch[1] = 17 /\ tim.patch[2] = 67 /\ tim.patch[3] = 118
      /\ IsFile(f)
  <2>1. /\ Has(tim.file, 0, 3) /\ HeadAt(tim.file, 4, terms[1])
        /\ HeadAt(tim.file, 53, terms[2]) /\ HeadAt(tim.file, 103, terms[3])
        /\ tim.patch[1] = 17 /\ tim.patch[2] = 67 /\ tim.patch[3] = 118
        /\ IsFile(tim.file)
    BY WriteTimFacts
  <2> QED
    BY <2>1
<1>8. DOMAIN terms = 1 .. 3 /\ 1 \in 1 .. 3 /\ 2 \in 1 .. 3 /\ 3 \in 1 .. 3
  BY DEF Named
<1>9. Len(s) = 3 /\ p1.base = 17 /\ p2.base = 67 /\ p3.base = 118 /\ p2.meta = m[2]
  BY <1>4, <1>7, <1>8
<1>10. Len(u) = 3 /\ q1.base = 17 /\ q2.base = 67 /\ q3.base = 118 /\ q2.pos = x[2]
  BY <1>5, <1>7, <1>8
<1>6. g = k
  <2>1. d = PatchDoc(PatchDoc(PatchDoc(f, s[1]), s[2]), s[3])
    BY <1>9, DocsBackIs
  <2>2. g = PatchPos(PatchPos(PatchPos(d, u[1]), u[2]), u[3])
    BY <1>10, PosBackIs
  <2>3. d = h
    BY <1>4, <1>21, <1>22, <1>23, <2>1
  <2> QED
    BY <1>5, <1>24, <1>25, <1>26, <2>2, <2>3
<1>11. /\ IsFile(h)
       /\ Has(h, 67, p2.meta.posting) /\ Has(h, 75, p2.meta.skip)
       /\ Has(h, 95, p2.meta.tfData)
       /\ KeptBut(f, h, {17, 25, 45, 67, 75, 95, 118, 126, 146})
  BY <1>7, <1>9, <1>21, <1>22, <1>23, ThreeDocPatches
<1>12. Has(k, 83, q2.pos) /\ KeptBut(h, k, {33, 83, 134})
  BY <1>10, <1>11, <1>24, <1>25, <1>26, ThreePosPatches
<1>13. PICK S : S = {17, 25, 45, 67, 75, 95, 118, 126, 146} \cup {33, 83, 134}
  OBVIOUS
<1>14. KeptBut(f, k, S)
  BY <1>11, <1>12, <1>13, KeptButOn
<1>15. 0 \notin S /\ 4 \notin S /\ 9 \notin S /\ 53 \notin S /\ 59 \notin S /\ 103 \notin S /\ 110 \notin S
  BY <1>13
<1>16. Len(terms[1].name) = 1 /\ Len(terms[2].name) = 2 /\ Len(terms[3].name) = 3
  BY <1>8 DEF Named
<1>17. 4 + 4 + Len(terms[1].name) = 9 /\ 53 + 4 + Len(terms[2].name) = 59 /\ 103 + 4 + Len(terms[3].name) = 110
  BY <1>16
<1>18. HeadAt(k, 4, terms[1]) /\ HeadAt(k, 53, terms[2]) /\ HeadAt(k, 103, terms[3])
  <2>1. HeadAt(k, 4, terms[1])
    BY <1>7, <1>14, <1>15, <1>17, HeadKeptBut
  <2>2. HeadAt(k, 53, terms[2])
    BY <1>7, <1>14, <1>15, <1>17, HeadKeptBut
  <2>3. HeadAt(k, 103, terms[3])
    BY <1>7, <1>14, <1>15, <1>17, HeadKeptBut
  <2> QED
    BY <2>1, <2>2, <2>3
<1>19. Has(k, 0, 3)
  BY <1>7, <1>14, <1>15, KeptButHas
<1>20. OffsetsAt(k, 67, m[2], x[2])
  <2>1. 67 + 8 = 75 /\ 67 + 16 = 83 /\ 67 + 28 = 95
    OBVIOUS
  <2>2. 67 \notin {33, 83, 134} /\ 75 \notin {33, 83, 134} /\ 95 \notin {33, 83, 134}
    OBVIOUS
  <2>3. Has(k, 67, m[2].posting) /\ Has(k, 75, m[2].skip) /\ Has(k, 95, m[2].tfData)
    BY <1>9, <1>11, <1>12, <2>2, KeptButHas
  <2>4. Has(k, 83, x[2])
    BY <1>10, <1>12, Zenon
  <2> QED
    BY <2>1, <2>3, <2>4 DEF OffsetsAt
<1> QED
  BY <1>6, <1>18, <1>19, <1>20, Zenon DEF TimHas

TermsPut(f, s) == Each(PutTerm, f, s)

LEMMA TermsPutIs ==
  ASSUME NEW f, NEW s, Len(s) = 3
  PROVE  TermsPut(f, s) = PutTerm(PutTerm(PutTerm(f, s[1]), s[2]), s[3])
BY EachTerm DEF TermsPut

\* The .tim file of a merge.
LEMMA MergedTim ==
  ASSUME NEW terms, Named(terms), NEW m, NEW x,
         NEW s, s = [i \in DOMAIN terms |-> [term |-> terms[i], meta |-> m[i], pos |-> x[i]]],
         NEW f, f = Put(EmptyFile, <<4, 3>>), NEW g, g = TermsPut(f, s)
  PROVE  TimHas(g, terms, m[2], x[2])
<1>1. PICK p1, p2, p3 : p1 = s[1] /\ p2 = s[2] /\ p3 = s[3]
  OBVIOUS
<1>2. PICK g1 : g1 = PutTerm(f, p1)
  OBVIOUS
<1>3. PICK g2 : g2 = PutTerm(g1, p2)
  OBVIOUS
<1>4. PICK g3 : g3 = PutTerm(g2, p3)
  OBVIOUS
<1>5. DOMAIN terms = 1 .. 3 /\ 1 \in 1 .. 3 /\ 2 \in 1 .. 3 /\ 3 \in 1 .. 3
  BY DEF Named
<1>6. /\ Len(s) = 3 /\ p1.term = terms[1] /\ p2.term = terms[2] /\ p3.term = terms[3]
      /\ p2.meta = m[2] /\ p2.pos = x[2]
  BY <1>1, <1>5
<1>7. g = g3
  <2>1. g = PutTerm(PutTerm(PutTerm(f, s[1]), s[2]), s[3])
    BY <1>6, TermsPutIs
  <2> QED
    BY <1>1, <1>2, <1>3, <1>4, <2>1
<1>8. Len(p1.term.name) = 1 /\ Len(p2.term.name) = 2 /\ Len(p3.term.name) = 3
  BY <1>5, <1>6 DEF Named
<1>9. GoodFile(f) /\ f.end = 4 /\ Has(f, 0, 3)
  BY CountFirst
<1>10. /\ GoodFile(g1) /\ Keeps(f, g1) /\ g1.end = 53
       /\ HeadAt(g1, 4, terms[1])
  <2>1. Len(p1.term.name) \in Nat
    BY <1>8
  <2>2. /\ GoodFile(g1) /\ Keeps(f, g1) /\ g1.end = f.end + 48 + Len(p1.term.name)
        /\ HeadAt(g1, f.end, p1.term)
    BY <1>2, <1>9, <2>1, PutTermFacts
  <2>3. f.end + 48 + Len(p1.term.name) = 53
    BY <1>8, <1>9
  <2> QED
    BY <1>6, <1>9, <2>2, <2>3, Zenon
<1>11. /\ GoodFile(g2) /\ Keeps(g1, g2) /\ g2.end = 103
       /\ HeadAt(g2, 53, terms[2]) /\ OffsetsAt(g2, 67, m[2], x[2])
  <2>1. Len(p2.term.name) \in Nat
    BY <1>8
  <2>2. /\ GoodFile(g2) /\ Keeps(g1, g2) /\ g2.end = g1.end + 48 + Len(p2.term.name)
        /\ HeadAt(g2, g1.end, p2.term)
        /\ OffsetsAt(g2, g1.end + 12 + Len(p2.term.name), p2.meta, p2.pos)
    BY <1>3, <1>10, <2>1, PutTermFacts
  <2>3. g1.end + 48 + Len(p2.term.name) = 103 /\ g1.end + 12 + Len(p2.term.name) = 67
    BY <1>8, <1>10
  <2> QED
    BY <1>6, <1>10, <2>2, <2>3, Zenon
<1>12. Keeps(g2, g3) /\ HeadAt(g3, 103, terms[3])
  <2>1. Len(p3.term.name) \in Nat
    BY <1>8
  <2>2. Keeps(g2, g3) /\ HeadAt(g3, g2.end, p3.term)
    BY <1>4, <1>11, <2>1, PutTermFacts
  <2> QED
    BY <1>6, <1>11, <2>2, Zenon
<1>13. Has(g2, 0, 3) /\ HeadAt(g2, 4, terms[1])
  BY <1>9, <1>10, <1>11, HeadKept, KeepsHas
<1>14. Has(g3, 0, 3) /\ HeadAt(g3, 4, terms[1]) /\ HeadAt(g3, 53, terms[2])
  BY <1>11, <1>12, <1>13, HeadKept, KeepsHas
<1>15. OffsetsAt(g3, 67, m[2], x[2])
  BY <1>11, <1>12, OffsetsKept
<1> QED
  BY <1>7, <1>12, <1>14, <1>15 DEF TimHas

-----------------------------------------------------------------------------
(* loadPerFieldTims *)

\* What it makes of one entry.
AfterTerm(f, st) ==
  LET o    == st.next
      base == o + 4 + Len(f.at[o]) + 8
      meta0 == [df |-> f.at[base - 8], ttf |-> f.at[base - 4],
               posting |-> f.at[base], skip |-> f.at[base + 8],
               pos |-> f.at[base + 16], tfData |-> f.at[base + 28]]
  IN [next |-> base + 36, dict |-> With(st.dict, f.at[o], meta0)]

NoTerms == [next |-> 4, dict |-> [t \in {} |-> 0]]

LEMMA LoadTimUnrolled ==
  ASSUME NEW f, f.at[0] = 3
  PROVE  LoadTim(f) = AfterTerm(f, AfterTerm(f, AfterTerm(f, NoTerms))).dict
<1> DEFINE Steps(N, g) == g = [n \in 0 .. N |-> IF n = 0 THEN NoTerms ELSE AfterTerm(f, g[n - 1])]
           a1 == AfterTerm(f, NoTerms)
           a2 == AfterTerm(f, a1)
           a3 == AfterTerm(f, a2)
           a == [n \in 0 .. 3 |-> IF n = 0 THEN NoTerms ELSE IF n = 1 THEN a1 ELSE IF n = 2 THEN a2 ELSE a3]
<1>1. LoadTim(f) = (CHOOSE g : Steps(f.at[0], g))[f.at[0]].dict
  BY Zenon DEF LoadTim, AfterTerm, NoTerms
<1>2. LoadTim(f) = (CHOOSE g : Steps(3, g))[3].dict
  BY <1>1, Zenon
<1>3. Steps(3, a)
  <2> HIDE DEF a1, a2, a3
  <2>1. a1 = AfterTerm(f, NoTerms) /\ a2 = AfterTerm(f, a1) /\ a3 = AfterTerm(f, a2)
    BY Zenon DEF a1, a2, a3
  <2> QED
    BY <2>1
<1> HIDE DEF a
<1>4. PICK g : g = (CHOOSE x : Steps(3, x)) /\ Steps(3, g)
  BY <1>3
<1>5. g[3] = a3
  <2> HIDE DEF a1, a2, a3
  <2>1. a1 = AfterTerm(f, NoTerms) /\ a2 = AfterTerm(f, a1) /\ a3 = AfterTerm(f, a2)
    BY Zenon DEF a1, a2, a3
  <2>2. g[0] = NoTerms /\ g[1] = AfterTerm(f, g[0]) /\ g[2] = AfterTerm(f, g[1]) /\ g[3] = AfterTerm(f, g[2])
    BY <1>4
  <2> QED
    BY <2>1, <2>2
<1> QED
  BY <1>2, <1>4, <1>5

\* What the reader knows of a term whose offsets lie at b.
MetaFrom(f, t, b) ==
  [df |-> Len(t.list), ttf |-> f.at[b - 4], posting |-> f.at[b], skip |-> f.at[b + 8],
   pos |-> f.at[b + 16], tfData |-> f.at[b + 28]]

LEMMA AfterTermIs ==
  ASSUME NEW f, NEW st, st.next \in Nat, NEW t, HeadAt(f, st.next, t), Len(t.name) \in Nat,
         NEW r, r = AfterTerm(f, st)
  PROVE  /\ r.next = st.next + 48 + Len(t.name)
         /\ r.dict = With(st.dict, t.name, MetaFrom(f, t, st.next + 12 + Len(t.name)))
<1>9. PICK o \in Nat, L \in Nat : o = st.next /\ L = Len(t.name)
  OBVIOUS
<1>1. PICK b \in Nat : b = o + 12 + L
  OBVIOUS
<1>2. f.at[o] = t.name /\ f.at[o + 4 + L] = Len(t.list)
  BY <1>9 DEF HeadAt, Has
<1>3. PICK d : d = st.dict
  OBVIOUS
<1>4. o + 4 + Len(f.at[o]) + 8 = b
  <2>1. Len(f.at[o]) = L
    BY <1>2, <1>9, Zenon
  <2> QED
    BY <1>1, <2>1
<1>5. b - 8 = o + 4 + L /\ b + 36 = o + 48 + L
  BY <1>1
<1>6. r = [next |-> b + 36,
           dict |-> With(d, f.at[o], [df |-> f.at[b - 8], ttf |-> f.at[b - 4],
               posting |-> f.at[b], skip |-> f.at[b + 8],
               pos |-> f.at[b + 16], tfData |-> f.at[b + 28]])]
  BY <1>3, <1>4, <1>9, Zenon DEF AfterTerm
<1>7. r.next = b + 36 /\ r.dict = With(d, f.at[o], [df |-> f.at[b - 8], ttf |-> f.at[b - 4],
               posting |-> f.at[b], skip |-> f.at[b + 8],
               pos |-> f.at[b + 16], tfData |-> f.at[b + 28]])
  BY <1>6
<1>8. r.dict = With(d, t.name, MetaFrom(f, t, b))
  <2>1. f.at[b - 8] = Len(t.list)
    BY <1>2, <1>5, Zenon
  <2> QED
    BY <1>2, <1>7, <2>1, Zenon DEF MetaFrom
<1> QED
  BY <1>1, <1>3, <1>5, <1>7, <1>8, <1>9

LEMMA LoadTimFacts ==
  ASSUME NEW terms, Named(terms), NEW m, NEW x, NEW f, TimHas(f, terms, m, x),
         NEW r, r = LoadTim(f)[terms[2].name]
  PROVE  /\ r.df = Len(terms[2].list) /\ r.posting = m.posting /\ r.skip = m.skip
         /\ r.pos = x /\ r.tfData = m.tfData
<1>1. PICK t1, t2, t3 : t1 = terms[1] /\ t2 = terms[2] /\ t3 = terms[3]
  OBVIOUS
<1>2. Len(t1.name) = 1 /\ Len(t2.name) = 2 /\ Len(t3.name) = 3
  BY <1>1 DEF Named
<1>3. HeadAt(f, 4, t1) /\ HeadAt(f, 53, t2) /\ HeadAt(f, 103, t3) /\ f.at[0] = 3
  BY <1>1 DEF TimHas, Has
<1>4. PICK a0 : a0 = NoTerms
  OBVIOUS
<1>5. PICK a1 : a1 = AfterTerm(f, a0)
  OBVIOUS
<1>6. PICK a2 : a2 = AfterTerm(f, a1)
  OBVIOUS
<1>7. PICK a3 : a3 = AfterTerm(f, a2)
  OBVIOUS
<1>8. LoadTim(f) = a3.dict
  BY <1>3, <1>4, <1>5, <1>6, <1>7, LoadTimUnrolled
<1>9. a0.next = 4 /\ 4 \in Nat /\ 53 \in Nat /\ 103 \in Nat /\ 1 \in Nat /\ 2 \in Nat /\ 3 \in Nat
  BY <1>4 DEF NoTerms
<1>20. Len(t1.name) \in Nat /\ Len(t2.name) \in Nat /\ Len(t3.name) \in Nat
  BY <1>2
<1>10. a1.next = 53
  <2>1. a0.next \in Nat /\ HeadAt(f, a0.next, t1)
    BY <1>3, <1>9
  <2>2. a1.next = a0.next + 48 + Len(t1.name)
    BY <1>5, <1>20, <2>1, AfterTermIs
  <2> QED
    BY <1>2, <1>9, <2>2
<1>11. a2.next = 103 /\ a2.dict = With(a1.dict, t2.name, MetaFrom(f, t2, 67))
  <2>1. a1.next \in Nat /\ HeadAt(f, a1.next, t2)
    BY <1>3, <1>10
  <2>2. a2.next = a1.next + 48 + Len(t2.name)
        /\ a2.dict = With(a1.dict, t2.name, MetaFrom(f, t2, a1.next + 12 + Len(t2.name)))
    BY <1>6, <1>20, <2>1, AfterTermIs
  <2>3. a1.next + 48 + Len(t2.name) = 103 /\ a1.next + 12 + Len(t2.name) = 67
    BY <1>2, <1>10
  <2> QED
    BY <2>2, <2>3, Zenon
<1>12. \E v : a3.dict = With(a2.dict, t3.name, v)
  <2>1. a2.next \in Nat /\ HeadAt(f, a2.next, t3)
    BY <1>3, <1>11
  <2>2. a3.dict = With(a2.dict, t3.name, MetaFrom(f, t3, a2.next + 12 + Len(t3.name)))
    BY <1>7, <1>20, <2>1, AfterTermIs
  <2> QED
    BY <2>2, Zenon
<1>13. PICK v : a3.dict = With(a2.dict, t3.name, v)
  BY <1>12
<1>14. t2.name # t3.name
  BY <1>2
<1>15. t2.name \in DOMAIN a2.dict /\ a2.dict[t2.name] = MetaFrom(f, t2, 67)
  BY <1>11, WithFacts
<1>16. a3.dict[t2.name] = MetaFrom(f, t2, 67)
  BY <1>13, <1>14, <1>15, WithFacts
<1>17. r = MetaFrom(f, t2, 67)
  BY <1>1, <1>8, <1>16, Zenon
<1>18. /\ r.df = Len(t2.list) /\ r.posting = f.at[67] /\ r.skip = f.at[67 + 8]
       /\ r.pos = f.at[67 + 16] /\ r.tfData = f.at[67 + 28]
  BY <1>17 DEF MetaFrom
<1>19. f.at[67] = m.posting /\ f.at[67 + 8] = m.skip /\ f.at[67 + 16] = x /\ f.at[67 + 28] = m.tfData
  BY DEF TimHas, OffsetsAt, Has
<1> QED
  BY <1>1, <1>18, <1>19

-----------------------------------------------------------------------------
(* The files of a flush and of a merge *)

DocsPut(w, terms) == Each(PutDoc, w, terms)
PosPut(w, terms)  == Each(PutPos, w, terms)

LEMMA DocsPutHas ==
  ASSUME NEW terms, ThreeTerms(terms), NEW w, GoodFile(w.file), w.metas = <<>>,
         NEW r, r = DocsPut(w, terms)
  PROVE  DocAt(r.file, r.metas[2], terms[2].list)
BY DocFile DEF DocsPut

LEMMA PosPutHas ==
  ASSUME NEW terms, ThreeTerms(terms), NEW w, GoodFile(w.file), w.at = <<>>,
         NEW r, r = PosPut(w, terms)
  PROVE  PosAt(r.file, r.at[2], terms[2].list)
BY PosFile DEF PosPut

\* What the files of a field hold of the second of three terms: m and x are the
\* places that .tim names.
FilesHold(files, terms, m, x) ==
  /\ TimHas(files.tim, terms, m, x)
  /\ DocAt(files.doc, m, terms[2].list)
  /\ PosAt(files.pos, x, terms[2].list)

LEMMA NewFilesGood ==
  /\ GoodFile(NewDoc.file) /\ NewDoc.metas = <<>>
  /\ GoodFile(NewPos.file) /\ NewPos.at = <<>>
BY EmptyGood DEF NewDoc, NewPos

LEMMA FlushedHold ==
  ASSUME NEW terms, Named(terms), ThreeTerms(terms)
  PROVE  \E m, x : FilesHold(FlushedFiles(terms), terms, m, x)
<1>1. PICK n : n = NewDoc
  OBVIOUS
<1>2. PICK e : e = Put(n.file, <<4, 3>>)
  OBVIOUS
<1>3. PICK c : c = [n EXCEPT !.file = e]
  OBVIOUS
<1>4. PICK d : d = DocsPut(c, terms)
  OBVIOUS
<1>5. PICK q : q = PosPut(NewPos, terms)
  OBVIOUS
<1>6. PICK tim : tim = WriteTim(terms)
  OBVIOUS
<1>7. PICK s : s = [i \in DOMAIN terms |-> [base |-> tim.patch[i], meta |-> d.metas[i]]]
  OBVIOUS
<1>8. PICK u : u = [i \in DOMAIN terms |-> [base |-> tim.patch[i], pos |-> q.at[i]]]
  OBVIOUS
<1>9. PICK f : f = tim.file
  OBVIOUS
<1>10. PICK h : h = DocsBack(f, s)
  OBVIOUS
<1>11. PICK g : g = PosBack(h, u)
  OBVIOUS
<1>12. Len(terms) = 3
  BY DEF Named
<1>13. c = [NewDoc EXCEPT !.file = Put(@, <<4, Len(terms)>>)]
  <2>1. c = [NewDoc EXCEPT !.file = Put(@, <<4, 3>>)]
    BY <1>1, <1>2, <1>3, Zenon
  <2> QED
    BY <1>12, <2>1, Zenon
<1>14. FlushedFiles(terms) = [tim |-> g, doc |-> d.file, pos |-> q.file]
  <2>1. FlushedFiles(terms) =
          [tim |-> PosBack(DocsBack(WriteTim(terms).file,
                      [i \in DOMAIN terms |-> [base |-> WriteTim(terms).patch[i],
                         meta |-> DocsPut([NewDoc EXCEPT !.file = Put(@, <<4, Len(terms)>>)], terms).metas[i]]]),
                      [i \in DOMAIN terms |-> [base |-> WriteTim(terms).patch[i],
                         pos |-> PosPut(NewPos, terms).at[i]]]),
           doc |-> DocsPut([NewDoc EXCEPT !.file = Put(@, <<4, Len(terms)>>)], terms).file,
           pos |-> PosPut(NewPos, terms).file]
    BY Zenon DEF FlushedFiles, PosBack, DocsBack, DocsPut, PosPut
  <2> QED
    BY <1>4, <1>5, <1>6, <1>7, <1>8, <1>9, <1>10, <1>11, <1>13, <2>1, Zenon
<1>15. TimHas(g, terms, d.metas[2], q.at[2])
  <2>1. PICK m, x : m = d.metas /\ x = q.at
    OBVIOUS
  <2>2. s = [i \in DOMAIN terms |-> [base |-> tim.patch[i], meta |-> m[i]]]
    BY <1>7, <2>1, Zenon
  <2>3. u = [i \in DOMAIN terms |-> [base |-> tim.patch[i], pos |-> x[i]]]
    BY <1>8, <2>1, Zenon
  <2>4. TimHas(g, terms, m[2], x[2])
    BY <1>6, <1>9, <1>10, <1>11, <2>2, <2>3, FlushedTim
  <2> QED
    BY <2>1, <2>4, Zenon
<1>16. GoodFile(c.file) /\ c.metas = <<>>
  <2>1. GoodFile(n.file) /\ n.metas = <<>> /\ n = [file |-> EmptyFile, metas |-> <<>>]
    BY <1>1, NewFilesGood DEF NewDoc
  <2>2. PICK t : t = <<4, 3>>
    OBVIOUS
  <2>3. t[1] \in Nat \ {0}
    BY <2>2
  <2>4. e = Put(n.file, t)
    BY <1>2, <2>2, Zenon
  <2>5. GoodFile(e)
    BY <2>1, <2>3, <2>4, PutFacts
  <2>6. c.file = e /\ c.metas = n.metas
    BY <1>3, <2>1
  <2> QED
    BY <2>1, <2>5, <2>6
<1>17. DocAt(d.file, d.metas[2], terms[2].list)
  BY <1>4, <1>16, DocsPutHas
<1>18. PosAt(q.file, q.at[2], terms[2].list)
  BY <1>5, NewFilesGood, PosPutHas
<1>19. PICK F : F = FlushedFiles(terms)
  OBVIOUS
<1>20. F.tim = g /\ F.doc = d.file /\ F.pos = q.file
  BY <1>14, <1>19
<1>21. FilesHold(F, terms, d.metas[2], q.at[2])
  BY <1>15, <1>17, <1>18, <1>20, Zenon DEF FilesHold
<1> QED
  BY <1>19, <1>21, Zenon

LEMMA MergedHold ==
  ASSUME NEW terms, Named(terms), ThreeTerms(terms)
  PROVE  \E m, x : FilesHold(MergedFiles(terms), terms, m, x)
<1>1. PICK d : d = DocsPut(NewDoc, terms)
  OBVIOUS
<1>2. PICK q : q = PosPut(NewPos, terms)
  OBVIOUS
<1>3. PICK s : s = [i \in DOMAIN terms |->
                      [term |-> terms[i], meta |-> d.metas[i], pos |-> q.at[i]]]
  OBVIOUS
<1>4. PICK f : f = Put(EmptyFile, <<4, 3>>)
  OBVIOUS
<1>5. PICK g : g = TermsPut(f, s)
  OBVIOUS
<1>6. Len(terms) = 3
  BY DEF Named
<1>7. MergedFiles(terms) = [tim |-> g, doc |-> d.file, pos |-> q.file]
  <2>1. MergedFiles(terms) =
          [tim |-> TermsPut(Put(EmptyFile, <<4, Len(terms)>>),
                      [i \in DOMAIN terms |->
                         [term |-> terms[i], meta |-> DocsPut(NewDoc, terms).metas[i],
                          pos |-> PosPut(NewPos, terms).at[i]]]),
           doc |-> DocsPut(NewDoc, terms).file, pos |-> PosPut(NewPos, terms).file]
    BY Zenon DEF MergedFiles, TermsPut, DocsPut, PosPut
  <2> QED
    BY <1>1, <1>2, <1>3, <1>4, <1>5, <1>6, <2>1, Zenon
<1>8. TimHas(g, terms, d.metas[2], q.at[2])
  <2>1. PICK m, x : m = d.metas /\ x = q.at
    OBVIOUS
  <2>2. s = [i \in DOMAIN terms |-> [term |-> terms[i], meta |-> m[i], pos |-> x[i]]]
    BY <1>3, <2>1, Zenon
  <2>3. TimHas(g, terms, m[2], x[2])
    BY <1>4, <1>5, <2>2, MergedTim
  <2> QED
    BY <2>1, <2>3, Zenon
<1>9. DocAt(d.file, d.metas[2], terms[2].list)
  BY <1>1, NewFilesGood, DocsPutHas
<1>10. PosAt(q.file, q.at[2], terms[2].list)
  BY <1>2, NewFilesGood, PosPutHas
<1>11. PICK F : F = MergedFiles(terms)
  OBVIOUS
<1>12. F.tim = g /\ F.doc = d.file /\ F.pos = q.file
  BY <1>7, <1>11
<1>13. FilesHold(F, terms, d.metas[2], q.at[2])
  BY <1>8, <1>9, <1>10, <1>12, Zenon DEF FilesHold
<1> QED
  BY <1>11, <1>13, Zenon

-----------------------------------------------------------------------------
(* The terms of the model *)

\* The entries of the terms, as the model makes them.
LEMMA EntryFacts ==
  ASSUME NEW i \in Nat, NEW n \in Nat
  PROVE  Whole(Entry(i, n)) /\ Entry(i, n).id = i /\ Entry(i, n).tf = n
<1>1. PICK p : p = [k \in 1 .. n |-> 100 * n + k]
  OBVIOUS
<1>2. p \in Seq(Nat) /\ Len(p) = n
  <2>1. p \in [1 .. n -> Nat]
    <3>1. 100 * n \in Nat
      OBVIOUS
    <3> QED
      BY <1>1, <3>1
  <2> QED
    BY <2>1
<1>3. Entry(i, n) = [id |-> i, tf |-> n, pos |-> p]
  BY <1>1, Zenon DEF Entry
<1> QED
  BY <1>2, <1>3 DEF Whole

\* A list of N entries.
Rows(list, N) ==
  /\ N \in Nat \ {0} /\ list = [n \in 1 .. N |-> list[n]]
  /\ \A n \in 1 .. N : Whole(list[n])
  /\ \A i, j \in 1 .. N : i < j => list[i].id < list[j].id

LEMMA RowsGood ==
  ASSUME NEW list, NEW N, Rows(list, N)
  PROVE  GoodList(list) /\ Len(list) = N
<1>1. N \in Nat \ {0} /\ list = [n \in 1 .. N |-> list[n]]
  BY DEF Rows
<1>2. Len(list) = N /\ DOMAIN list = 1 .. N
  BY <1>1
<1>3. WholeList(list) /\ list = [n \in 1 .. Len(list) |-> list[n]]
  BY <1>1, <1>2 DEF Rows, WholeList
<1>4. PICK s : s = Ids(list)
  OBVIOUS
<1>5. s = [n \in 1 .. N |-> list[n].id]
  BY <1>2, <1>4, Zenon DEF Ids
<1>6. \A n \in 1 .. N : list[n].id \in Nat
  BY DEF Rows, Whole
<1>7. s \in [1 .. N -> Nat]
  BY <1>5, <1>6
<1>8. s \in Seq(Nat) /\ Len(s) = N /\ s # <<>>
  BY <1>1, <1>7
<1>9. \A i, j \in 1 .. N : i < j => s[i] < s[j]
  BY <1>5 DEF Rows
<1>10. Ascending(s)
  BY <1>8, <1>9 DEF Ascending
<1> QED
  BY <1>2, <1>3, <1>4, <1>8, <1>10 DEF GoodList

LEMMA OneEntry ==
  ASSUME NEW a, Whole(a)
  PROVE  GoodList(<<a>>)
<1>1. PICK list : list = <<a>>
  OBVIOUS
<1>2. 1 \in Nat \ {0} /\ list = [n \in 1 .. 1 |-> list[n]]
  BY <1>1
<1>3. \A n \in 1 .. 1 : Whole(list[n])
  BY <1>1
<1>4. Rows(list, 1)
  BY <1>2, <1>3 DEF Rows
<1> QED
  BY <1>1, <1>4, RowsGood

LEMMA ThreeEntries ==
  ASSUME NEW a, NEW b, NEW c, Whole(a), Whole(b), Whole(c), a.id < b.id, b.id < c.id
  PROVE  GoodList(<<a, b, c>>)
<1>1. PICK list : list = <<a, b, c>>
  OBVIOUS
<1>2. 3 \in Nat \ {0} /\ list = [n \in 1 .. 3 |-> list[n]]
  BY <1>1
<1>3. list[1] = a /\ list[2] = b /\ list[3] = c
  BY <1>1
<1>4. \A n \in 1 .. 3 : n = 1 \/ n = 2 \/ n = 3
  OBVIOUS
<1>5. \A n \in 1 .. 3 : Whole(list[n])
  BY <1>3, <1>4
<1>6. a.id \in Nat /\ b.id \in Nat /\ c.id \in Nat
  BY DEF Whole
<1>7. \A i, j \in 1 .. 3 : i < j => list[i].id < list[j].id
  BY <1>3, <1>4, <1>6
<1>8. Rows(list, 3)
  BY <1>2, <1>5, <1>7 DEF Rows
<1> QED
  BY <1>1, <1>8, RowsGood

\* The list of the term, too.
LEMMA TermFacts ==
  ASSUME NEW s, AscendingDocs(s), NEW list, list = Term(s).list
  PROVE  /\ GoodList(list) /\ Len(list) = Len(s) /\ Ids(list) = s
         /\ \A i \in 1 .. Len(s) : list[i].id = s[i] /\ list[i].tf = i
<1>1. s \in Seq(Nat) /\ s # <<>> /\ \A i, j \in 1 .. Len(s) : i < j => s[i] < s[j]
  BY DEF AscendingDocs, Ascending
<1>2. PICK N \in Nat \ {0} : N = Len(s) /\ DOMAIN s = 1 .. N /\ s \in [1 .. N -> Nat]
  BY <1>1
<1>3. list = [i \in 1 .. N |-> Entry(s[i], i)]
  <2>1. Term(s).list = [i \in DOMAIN s |-> Entry(s[i], i)]
    BY DEF Term
  <2> QED
    BY <1>2, <2>1, Zenon
<1>4. \A i \in 1 .. N : list[i] = Entry(s[i], i) /\ s[i] \in Nat /\ i \in Nat
  BY <1>2, <1>3
<1>5. \A i \in 1 .. N : Whole(list[i]) /\ list[i].id = s[i] /\ list[i].tf = i
  BY <1>4, EntryFacts
<1>6. Rows(list, N)
  <2>1. list = [i \in 1 .. N |-> list[i]]
    BY <1>3
  <2> QED
    BY <1>1, <1>2, <1>5, <2>1 DEF Rows
<1>7. GoodList(list) /\ Len(list) = N
  BY <1>6, RowsGood
<1>8. Ids(list) = s
  <2>1. Ids(list) = [i \in 1 .. N |-> list[i].id]
    <3>1. DOMAIN list = 1 .. N
      BY <1>3
    <3> QED
      BY <3>1, Zenon DEF Ids
  <2>2. \A i \in 1 .. N : list[i].id = s[i]
    BY <1>5
  <2> QED
    BY <1>2, <2>1, <2>2
<1> QED
  BY <1>2, <1>5, <1>7, <1>8

LEMMA TermsFacts ==
  ASSUME NEW s, AscendingDocs(s), NEW terms, terms = Terms(s)
  PROVE  Named(terms) /\ ThreeTerms(terms) /\ terms[2] = Term(s)
<1>1. PICK a, b, c, d : a = Entry(2, 3) /\ b = Entry(3, 1) /\ c = Entry(MaxDoc, 2) /\ d = Entry(1, 2)
  OBVIOUS
<1>2. PICK l1, l2, l3 : l1 = <<a, b, c>> /\ l2 = Term(s).list /\ l3 = <<d>>
  OBVIOUS
<1>3. PICK n1, n2, n3 : n1 = <<"b">> /\ n2 = <<"m", "m">> /\ n3 = <<"x", "y", "z">>
  OBVIOUS
<1>4. PICK t1, t2, t3 : t1 = [name |-> n1, list |-> l1] /\ t2 = Term(s) /\ t3 = [name |-> n3, list |-> l3]
  OBVIOUS
<1>5. terms = <<t1, t2, t3>>
  BY <1>1, <1>2, <1>3, <1>4, Zenon DEF Terms
<1>6. terms[1] = t1 /\ terms[2] = t2 /\ terms[3] = t3 /\ Len(terms) = 3 /\ DOMAIN terms = 1 .. 3
  BY <1>5
<1>7. t1.name = n1 /\ t1.list = l1 /\ t3.name = n3 /\ t3.list = l3
  BY <1>4
<1>8. t2.name = n2 /\ t2.list = l2
  <2>1. t2 = [name |-> <<"m", "m">>, list |-> [i \in DOMAIN s |-> Entry(s[i], i)]]
    BY <1>4, Zenon DEF Term
  <2>2. t2.name = <<"m", "m">>
    BY <2>1
  <2>3. t2.list = l2
    BY <1>2, <1>4, Zenon
  <2> QED
    BY <1>3, <2>2, <2>3
<1>9. Len(n1) = 1 /\ Len(n2) = 2 /\ Len(n3) = 3
  BY <1>3
<1>10. \A i \in 1 .. 3 : i = 1 \/ i = 2 \/ i = 3
  OBVIOUS
<1>11. Named(terms)
  <2>1. Len(terms[1].name) = 1 /\ Len(terms[2].name) = 2 /\ Len(terms[3].name) = 3
    BY <1>6, <1>7, <1>8, <1>9, Zenon
  <2> QED
    BY <1>6, <1>10, <2>1 DEF Named
<1>12. /\ Whole(a) /\ a.id = 2 /\ Whole(b) /\ b.id = 3 /\ Whole(c) /\ c.id = MaxDoc /\ Whole(d)
  <2>1. 1 \in Nat /\ 2 \in Nat /\ 3 \in Nat /\ MaxDoc \in Nat
    BY IteratorAssumption
  <2> QED
    BY <1>1, <2>1, EntryFacts
<1>13. GoodList(l1)
  <2>1. a.id < b.id /\ b.id < c.id
    BY <1>12, IteratorAssumption
  <2> QED
    BY <1>2, <1>12, <2>1, ThreeEntries
<1>14. GoodList(l3)
  BY <1>2, <1>12, OneEntry
<1>15. GoodList(l2)
  BY <1>2, TermFacts
<1>16. ThreeTerms(terms)
  <2>1. GoodList(terms[1].list) /\ GoodList(terms[2].list) /\ GoodList(terms[3].list)
    BY <1>6, <1>7, <1>8, <1>13, <1>14, <1>15, Zenon
  <2> QED
    BY <1>6, <1>10, <2>1 DEF ThreeTerms
<1> QED
  BY <1>4, <1>6, <1>11, <1>16

-----------------------------------------------------------------------------
(* What the constructor finds on disk *)

\* What the constructor finds for the list s, as the other steps need it.
OnDisk(s, d) ==
  /\ d.meta.df = Len(s) /\ d.meta.posting \in Nat
  /\ d.level0 = SkipNodes(Blocks(s)) /\ d.level1 = BuildLevel1(d.level0)
  /\ \A k \in 1 .. BlockCount(s) :
       /\ d.meta.posting + d.level0[k].offset \in DOMAIN d.data
       /\ d.data[d.meta.posting + d.level0[k].offset] = Blocks(s)[k]
  /\ d.allTfs = [i \in 1 .. Len(s) |-> Min({i, MaxTfByte})]
  /\ d.entries = Term(s).list

\* The places of blocks, one behind the other, are those of the skip list.
LEMMA PlacesAreOffsets ==
  ASSUME NEW s, Ascending(s), s # <<>>, NEW f, NEW q, NEW blocks, blocks = Blocks(s),
         Lie(f, q, BlockThings(blocks)), NEW nodes, nodes = SkipNodes(blocks)
  PROVE  /\ q[1] \in Nat
         /\ \A k \in 1 .. BlockCount(s) : Has(f, q[1] + nodes[k].offset, blocks[k])
<1>1. PICK N \in Nat \ {0} : N = BlockCount(s) /\ DOMAIN blocks = 1 .. N
  BY BlocksFacts
<1>2. PICK t : t = BlockThings(blocks)
  OBVIOUS
<1>3. Len(t) = N /\ \A k \in 1 .. N : t[k][1] = BlockBytes(blocks[k]) /\ t[k][2] = blocks[k]
  BY <1>1, <1>2, BlockThingsSized
<1>4. Lie(f, q, t)
  BY <1>2, Zenon
<1>5. /\ q \in [1 .. N + 1 -> Nat]
      /\ \A k \in 1 .. N : q[k + 1] = q[k] + t[k][1] /\ Has(f, q[k], t[k][2])
  BY <1>3, <1>4 DEF Lie
<1>6. \A k \in 1 .. N : q[k + 1] = q[k] + BlockBytes(blocks[k]) /\ Has(f, q[k], blocks[k])
  BY <1>3, <1>5
<1>7. /\ nodes[1].offset = 0
      /\ \A k \in 1 .. N : k # 1 =>
           nodes[k].offset = nodes[k - 1].offset + BlockBytes(blocks[k - 1])
  BY <1>1, SkipNodesFacts
<1>8. \A k \in 1 .. N : BlockBytes(blocks[k]) \in Nat
  BY <1>1, BlocksFacts
<1> DEFINE S == {k \in 0 .. N - 1 : nodes[k + 1].offset \in Nat /\ q[k + 1] = q[1] + nodes[k + 1].offset}
<1>9. \A k \in 0 .. N - 1 : k \in S
  <2>1. 0 \in S
    <3>1. q[1] \in Nat /\ 0 \in 0 .. N - 1 /\ 0 + 1 = 1
      BY <1>1, <1>5
    <3> QED
      BY <1>7, <3>1
  <2>2. ASSUME NEW k \in 0 .. N - 1, k < N - 1, k \in S PROVE k + 1 \in S
    <3>1. PICK n \in Nat : n = k + 1
      OBVIOUS
    <3>2. n \in 1 .. N /\ n + 1 \in 1 .. N /\ (n + 1) - 1 = n /\ n + 1 # 1 /\ n \in 0 .. N - 1
      BY <1>1, <2>2, <3>1
    <3>3. nodes[n].offset \in Nat /\ q[n] = q[1] + nodes[n].offset
      BY <2>2, <3>1
    <3>4. nodes[n + 1].offset = nodes[n].offset + BlockBytes(blocks[n])
      BY <1>7, <3>2
    <3>5. q[n + 1] = q[n] + BlockBytes(blocks[n]) /\ BlockBytes(blocks[n]) \in Nat /\ q[1] \in Nat
      <4>1. q[n + 1] = q[n] + BlockBytes(blocks[n])
        BY <1>6, <3>2
      <4>2. BlockBytes(blocks[n]) \in Nat
        BY <1>8, <3>2
      <4>3. q[1] \in Nat
        BY <1>1, <1>5
      <4> QED
        BY <4>1, <4>2, <4>3
    <3>6. nodes[n + 1].offset \in Nat /\ q[n + 1] = q[1] + nodes[n + 1].offset
      BY <3>3, <3>4, <3>5
    <3> QED
      BY <3>1, <3>2, <3>6
  <2> HIDE DEF S
  <2>3. N - 1 \in Nat
    BY <1>1
  <2> QED
    BY <2>1, <2>2, <2>3, AllUpTo
<1>10. ASSUME NEW k \in 1 .. N PROVE Has(f, q[1] + nodes[k].offset, blocks[k])
  <2>1. k - 1 \in 0 .. N - 1 /\ (k - 1) + 1 = k
    BY <1>1
  <2>2. q[k] = q[1] + nodes[k].offset
    BY <1>9, <2>1
  <2> QED
    BY <1>6, <2>2
<1>11. q[1] \in Nat
  BY <1>1, <1>5
<1> QED
  BY <1>1, <1>10, <1>11

LEMMA OpenedOnDisk ==
  ASSUME NEW s, AscendingDocs(s), NEW files, NEW m, NEW x, FilesHold(files, Terms(s), m, x),
         NEW d, d = Opened(s, files)
  PROVE  OnDisk(s, d)
<1>1. PICK list : list = Term(s).list
  OBVIOUS
<1>2. PICK terms : terms = Terms(s)
  OBVIOUS
<1>3. Named(terms) /\ terms[2] = Term(s)
  BY <1>2, TermsFacts
<1>4. GoodList(list) /\ Len(list) = Len(s) /\ Ids(list) = s
      /\ \A i \in 1 .. Len(s) : list[i].tf = i
  BY <1>1, TermFacts
<1>5. TimHas(files.tim, terms, m, x) /\ DocAt(files.doc, m, list) /\ PosAt(files.pos, x, list)
  BY <1>1, <1>2, <1>3 DEF FilesHold
<1>6. PICK mt : mt = LoadTim(files.tim)[Term(s).name]
  OBVIOUS
<1>7. mt.df = Len(list) /\ mt.posting = m.posting /\ mt.skip = m.skip /\ mt.pos = x /\ mt.tfData = m.tfData
  <2>1. mt = LoadTim(files.tim)[terms[2].name]
    BY <1>3, <1>6, Zenon
  <2>2. mt.df = Len(terms[2].list) /\ mt.posting = m.posting /\ mt.skip = m.skip /\ mt.pos = x /\ mt.tfData = m.tfData
    BY <1>3, <1>5, <2>1, LoadTimFacts
  <2> QED
    BY <1>1, <1>3, <2>2, Zenon
<1>8. PICK f, skips : f = files.doc /\ skips = f.at[mt.skip]
  OBVIOUS
<1>9. d = [meta |-> mt, data |-> f.at, level0 |-> skips.level0, level1 |-> skips.level1,
           allTfs |-> LoadTfs(f, mt), entries |-> ReadPositions(files.pos, mt)]
  BY <1>6, <1>8, Zenon DEF Opened
<1>10. /\ d.meta = mt /\ d.data = f.at /\ d.level0 = skips.level0 /\ d.level1 = skips.level1
       /\ d.allTfs = LoadTfs(f, mt) /\ d.entries = ReadPositions(files.pos, mt)
  BY <1>9
<1>11. PICK blocks, nodes : blocks = Blocks(s) /\ nodes = SkipNodes(blocks)
  OBVIOUS
<1>12. skips.level0 = nodes /\ skips.level1 = BuildLevel1(nodes)
  <2>1. Has(f, m.skip, Skips(Blocks(Ids(list))))
    BY <1>5, <1>8 DEF DocAt
  <2>2. skips = Skips(blocks)
    BY <1>4, <1>7, <1>8, <1>11, <2>1 DEF Has
  <2>3. skips = [level0 |-> nodes, level1 |-> BuildLevel1(nodes)]
    BY <1>11, <2>2, Zenon DEF Skips
  <2> QED
    BY <2>3
<1>13. Ascending(s) /\ s # <<>> /\ Len(s) \in Nat
  BY DEF AscendingDocs, Ascending
<1>14. /\ mt.posting \in Nat
       /\ \A k \in 1 .. BlockCount(s) : Has(f, mt.posting + nodes[k].offset, blocks[k])
  <2>1. PICK q : Lie(f, q, BlockThings(Blocks(Ids(list)))) /\ q[1] = m.posting
    BY <1>5, <1>8 DEF DocAt
  <2>2. Lie(f, q, BlockThings(blocks))
    BY <1>4, <1>11, <2>1, Zenon
  <2>3. q[1] \in Nat /\ \A k \in 1 .. BlockCount(s) : Has(f, q[1] + nodes[k].offset, blocks[k])
    BY <1>11, <1>13, <2>2, PlacesAreOffsets
  <2> QED
    BY <1>7, <2>1, <2>3
<1>15. d.allTfs = [i \in 1 .. Len(s) |-> Min({i, MaxTfByte})]
  <2>1. m.tfData \in Nat \ {0} /\ \A i \in 1 .. Len(list) : Has(f, m.tfData + i - 1, Min({list[i].tf, MaxTfByte}))
    BY <1>5, <1>8 DEF DocAt
  <2>2. LoadTfs(f, mt) = [i \in 1 .. mt.df |-> f.at[mt.tfData + i - 1]]
    <3>1. mt.tfData # 0
      BY <1>7, <2>1
    <3> QED
      BY <3>1, Zenon DEF LoadTfs
  <2>3. \A i \in 1 .. Len(s) : f.at[m.tfData + i - 1] = Min({i, MaxTfByte})
    BY <1>4, <2>1 DEF Has
  <2>4. PICK n, o : n = Len(s) /\ o = m.tfData
    OBVIOUS
  <2>5. mt.df = n /\ mt.tfData = o
    BY <1>4, <1>7, <2>4
  <2>6. LoadTfs(f, mt) = [i \in 1 .. n |-> f.at[o + i - 1]]
    BY <2>2, <2>5, Zenon
  <2>7. \A i \in 1 .. n : f.at[o + i - 1] = Min({i, MaxTfByte})
    BY <2>3, <2>4
  <2>8. LoadTfs(f, mt) = [i \in 1 .. n |-> Min({i, MaxTfByte})]
    BY <2>6, <2>7
  <2> QED
    BY <1>10, <2>4, <2>8, Zenon
<1>16. d.entries = list
  <2>1. PICK p : Entries(files.pos, p, list) /\ p[1] = x
    BY <1>5 DEF PosAt
  <2>2. WholeList(list) /\ list = [n \in 1 .. Len(list) |-> list[n]]
    BY <1>4 DEF GoodList
  <2>3. mt.df = Len(list) /\ mt.pos = p[1]
    BY <1>7, <2>1
  <2>4. ReadPositions(files.pos, mt) = list
    BY <2>1, <2>2, <2>3, ReadPositionsBack
  <2> QED
    BY <1>10, <2>4
<1>17. \A k \in 1 .. BlockCount(s) :
          /\ d.meta.posting + d.level0[k].offset \in DOMAIN d.data
          /\ d.data[d.meta.posting + d.level0[k].offset] = Blocks(s)[k]
  BY <1>10, <1>11, <1>12, <1>14 DEF Has
<1>18. d.meta.df = Len(s) /\ d.meta.posting \in Nat
  BY <1>4, <1>7, <1>10, <1>14
<1>19. d.level0 = SkipNodes(Blocks(s)) /\ d.level1 = BuildLevel1(d.level0)
  BY <1>10, <1>11, <1>12, Zenon
<1>20. d.entries = Term(s).list
  BY <1>1, <1>16
<1> QED
  BY <1>15, <1>17, <1>18, <1>19, <1>20 DEF OnDisk

-----------------------------------------------------------------------------
(* The skip list: find, and the documents before a block *)

(* The skip list *)

LEMMA FirstReachingFacts ==
  ASSUME NEW level, Len(level) \in Nat, NEW a \in Nat \ {0}, NEW t \in Nat,
         \A i \in 1 .. Len(level) : level[i].maxDoc \in Nat,
         NEW r, r = FirstReaching(level, a, t), r # NotFound
  PROVE  r \in a .. Len(level) /\ \A i \in a .. r - 1 : level[i].maxDoc < t
<1> DEFINE reach == {i \in a .. Len(level) : level[i].maxDoc >= t}
<1>1. r = IF reach = {} THEN NotFound ELSE CHOOSE i \in reach : \A j \in reach : i <= j
  BY Zenon DEF FirstReaching
<1>2. reach # {} /\ r = CHOOSE i \in reach : \A j \in reach : i <= j
  BY <1>1
<1>3. \E i \in reach : \A j \in reach : i <= j
  <2>1. reach \in SUBSET Nat
    OBVIOUS
  <2> HIDE DEF reach
  <2> QED
    BY <1>2, <2>1, LeastElement
<1>4. r \in reach /\ \A j \in reach : r <= j
  <2> HIDE DEF reach
  <2> QED
    BY <1>2, <1>3
<1>5. r \in a .. Len(level)
  BY <1>4
<1>6. ASSUME NEW i \in a .. r - 1 PROVE level[i].maxDoc < t
  <2>1. i \in a .. Len(level) /\ i \in 1 .. Len(level) /\ ~ (r <= i)
    BY <1>5
  <2>2. i \notin reach
    BY <1>4, <2>1
  <2> QED
    BY <2>1, <2>2
<1> QED
  BY <1>5, <1>6

\* find never passes over a block that reaches the target.
LEMMA FindFacts ==
  ASSUME NEW nodes, NEW N \in Nat \ {0}, DOMAIN nodes = 1 .. N, Len(nodes) = N,
         \A i \in 1 .. N : nodes[i].maxDoc \in Nat,
         NEW top, top = BuildLevel1(nodes), NEW t \in Nat,
         NEW k, k = Find(nodes, top, t), k # NotFound
  PROVE  k \in 1 .. N /\ (k > 1 => nodes[k - 1].maxDoc < t)
<1>1. PICK P \in Nat \ {0} : P = SkipInterval
  BY SkipAssumption
<1>2. CASE top = <<>>
  <2>1. k = FirstReaching(nodes, 1, t)
    BY <1>2, Zenon DEF Find
  <2>2. k \in 1 .. N /\ \A i \in 1 .. k - 1 : nodes[i].maxDoc < t
    BY <2>1, FirstReachingFacts
  <2> QED
    BY <2>2
<1>3. CASE top # <<>>
  <2>1. PICK g : g = FirstReaching(top, 1, t)
    OBVIOUS
  <2>2. k = IF g = NotFound THEN NotFound ELSE FirstReaching(nodes, (g - 1) * P + 1, t)
    BY <1>1, <1>3, <2>1, Zenon DEF Find
  <2>3. g # NotFound /\ k = FirstReaching(nodes, (g - 1) * P + 1, t)
    BY <2>2
  <2>4. PICK G : G = (N + P - 1) \div P
    OBVIOUS
  <2>5. G \in Nat
    BY <1>1, <2>4, PagesOfChain
  <2>6. top = [i \in 1 .. G |-> [maxDoc |-> nodes[GroupEnd(nodes, i)].maxDoc]]
    <3>1. top = IF N <= P THEN <<>>
                ELSE [i \in 1 .. (N + P - 1) \div P |-> [maxDoc |-> nodes[GroupEnd(nodes, i)].maxDoc]]
      BY <1>1, Zenon DEF BuildLevel1
    <3> QED
      BY <1>3, <2>4, <3>1
  <2>7. Len(top) = G /\ \A i \in 1 .. G : top[i].maxDoc = nodes[GroupEnd(nodes, i)].maxDoc
    BY <2>5, <2>6
  <2>8. \A i \in 1 .. G : GroupEnd(nodes, i) \in 1 .. N
    <3> SUFFICES ASSUME NEW i \in 1 .. G PROVE GroupEnd(nodes, i) \in 1 .. N
      OBVIOUS
    <3>1. i * P \in Nat \ {0}
      BY <1>1, <2>5
    <3>2. GroupEnd(nodes, i) = IF i * P <= N THEN i * P ELSE N
      BY <1>1, Zenon DEF GroupEnd
    <3> DEFINE p == i * P
    <3>3. p \in Nat \ {0} /\ GroupEnd(nodes, i) = IF p <= N THEN p ELSE N
      BY <3>1, <3>2
    <3> HIDE DEF p
    <3> QED
      BY <3>3
  <2>9. \A i \in 1 .. G : top[i].maxDoc \in Nat
    BY <2>7, <2>8
  <2>10. g \in 1 .. G /\ \A i \in 1 .. g - 1 : top[i].maxDoc < t
    BY <2>1, <2>3, <2>5, <2>7, <2>9, FirstReachingFacts
  <2>11. PICK p \in Nat : p = (g - 1) * P
    <3>1. g - 1 \in Nat
      BY <2>5, <2>10
    <3> QED
      BY <1>1, <3>1
  <2>12. k \in p + 1 .. N /\ \A i \in p + 1 .. k - 1 : nodes[i].maxDoc < t
    <3>1. k = FirstReaching(nodes, p + 1, t) /\ p + 1 \in Nat \ {0}
      BY <2>3, <2>11
    <3> QED
      BY <3>1, FirstReachingFacts
  <2>13. ASSUME k > 1 PROVE nodes[k - 1].maxDoc < t
    <3>1. CASE k - 1 >= p + 1
      <4>1. k - 1 \in p + 1 .. k - 1
        BY <2>12, <3>1
      <4> QED
        BY <2>12, <4>1
    <3>2. CASE ~ (k - 1 >= p + 1)
      <4>1. k = p + 1 /\ p # 0 /\ p <= N
        BY <2>12, <2>13, <3>2
      <4>2. g - 1 \in Nat \ {0}
        <5>1. g - 1 # 0
          BY <1>1, <2>11, <4>1
        <5> QED
          BY <2>5, <2>10, <5>1
      <4>3. PICK h \in Nat \ {0} : h = g - 1
        BY <4>2
      <4>4. h \in 1 .. g - 1 /\ h \in 1 .. G
        BY <2>5, <2>10, <4>3
      <4>5. GroupEnd(nodes, h) = p
        <5>1. h * P = p
          BY <2>11, <4>3
        <5>2. GroupEnd(nodes, h) = IF h * P <= N THEN h * P ELSE N
          BY <1>1, Zenon DEF GroupEnd
        <5> QED
          BY <4>1, <5>1, <5>2
      <4>6. top[h].maxDoc = nodes[p].maxDoc /\ top[h].maxDoc < t
        BY <2>7, <2>10, <4>4, <4>5
      <4> QED
        BY <4>1, <4>6
    <3> QED
      BY <3>1, <3>2
  <2>14. k \in 1 .. N
    BY <2>12
  <2> QED
    BY <2>13, <2>14
<1> QED
  BY <1>2, <1>3

-----------------------------------------------------------------------------
(* The documents before a block *)

\* The sum of the counts, one node after another.
Counted(nodes, S, h) ==
  h = [s \in SUBSET S |-> IF s = {} THEN 0 ELSE nodes[Pick(s)].count + h[s \ {Pick(s)}]]

LEMMA SameSummands ==
  ASSUME NEW n \in Nat, NEW B \in Nat, NEW f, \A i \in 1 .. n : f[i] = B
  PROVE  Total(f, 1 .. n) = n * B
<1> DEFINE S == {m \in 0 .. n : Total(f, 1 .. m) = m * B}
<1>1. 0 \in S
  <2>1. 1 .. 0 = {} /\ IsFiniteSet(1 .. 0) /\ \A x \in 1 .. 0 : f[x] \in Nat
    BY FS_EmptySet
  <2>2. Total(f, 1 .. 0) = 0
    BY <2>1, SumType
  <2>3. 0 * B = 0 /\ 0 \in 0 .. n
    OBVIOUS
  <2> QED
    BY <2>2, <2>3
<1>2. ASSUME NEW m \in 0 .. n, m < n, m \in S PROVE m + 1 \in S
  <2>1. PICK k \in Nat : k = m + 1
    OBVIOUS
  <2>2. k \in 1 .. k /\ (1 .. k) \ {k} = 1 .. m /\ IsFiniteSet(1 .. k) /\ k \in 0 .. n
    <3>1. IsFiniteSet(1 .. k)
      BY FS_Interval
    <3> QED
      BY <1>2, <2>1, <3>1
  <2>3. \A x \in 1 .. k : f[x] = B /\ f[x] \in Nat
    BY <1>2, <2>1
  <2>4. Total(f, 1 .. k) = f[k] + Total(f, (1 .. k) \ {k})
    BY <2>2, <2>3, SumRemove
  <2>5. Total(f, 1 .. k) = B + m * B
    BY <1>2, <2>2, <2>3, <2>4
  <2>6. B + m * B = k * B
    BY <2>1
  <2> QED
    BY <2>1, <2>2, <2>5, <2>6
<1> HIDE DEF S
<1>3. \A m \in 0 .. n : m \in S
  BY <1>1, <1>2, AllUpTo
<1> QED
  BY <1>3 DEF S

CountOf(nodes, n) == (CHOOSE x : Counted(nodes, 1 .. n, x))[1 .. n]

LEMMA CountedSame ==
  ASSUME NEW nodes, NEW n \in Nat, NEW B \in Nat, \A i \in 1 .. n : nodes[i].count = B
  PROVE  CountOf(nodes, n) = n * B
<1> DEFINE S == 1 .. n
           f == [i \in S |-> nodes[i].count]
<1>13. PICK h : h = (CHOOSE x : Counted(nodes, 1 .. n, x))
  OBVIOUS
<1>1. \A i \in S : f[i] = B /\ f[i] = nodes[i].count
  OBVIOUS
<1>2. IsFiniteSet(S)
  BY FS_Interval
<1>3. \A s \in SUBSET S : s # {} => Pick(s) \in S
  BY DEF Pick
<1> HIDE DEF f, S
<1>4. \A g : Counted(nodes, S, g) <=> Sums(f, S, g)
  <2> SUFFICES ASSUME NEW g PROVE Counted(nodes, S, g) <=> Sums(f, S, g)
    OBVIOUS
  <2>1. \A s \in SUBSET S : s # {} => f[Pick(s)] = nodes[Pick(s)].count
    BY <1>1, <1>3
  <2> QED
    BY <2>1 DEF Counted, Sums
<1>5. PICK g \in [SUBSET S -> Nat] : Sums(f, S, g) /\ \A U \in SUBSET S : Total(f, U) = g[U]
  <2>1. \A x \in S : f[x] \in Nat
    BY <1>1
  <2> QED
    BY <1>2, <2>1, TotalOf
<1>6. Counted(nodes, S, g)
  BY <1>4, <1>5
<1>7. Counted(nodes, S, h)
  BY <1>6, <1>13 DEF S
<1>8. Sums(f, S, h)
  BY <1>4, <1>7
<1>9. S \in SUBSET (S \cap S)
  OBVIOUS
<1>10. h[S] = g[S]
  BY <1>2, <1>5, <1>8, <1>9, SumsAgree
<1>11. g[S] = Total(f, S)
  BY <1>5
<1>12. Total(f, S) = n * B
  BY <1>1, SameSummands DEF S
<1>14. CountOf(nodes, n) = h[S]
  BY <1>13, Zenon DEF CountOf, S
<1> QED
  BY <1>10, <1>11, <1>12, <1>14

LEMMA DocsBeforeIs ==
  ASSUME NEW s, AscendingDocs(s), level0 = SkipNodes(Blocks(s)), NEW k \in 1 .. BlockCount(s)
  PROVE  DocsBefore(k) = From(k)
<1>1. PICK nodes, blocks : nodes = level0 /\ blocks = Blocks(s) /\ nodes = SkipNodes(blocks)
  OBVIOUS
<1>2. Ascending(s) /\ s # <<>> /\ s \in Seq(Nat)
  BY DEF AscendingDocs, Ascending
<1>3. PICK N \in Nat \ {0} : N = BlockCount(s) /\ DOMAIN blocks = 1 .. N
  BY <1>1, <1>2, BlocksFacts
<1>4. PICK n \in Nat : n = k - 1
  BY <1>3
<1>5. DocsBefore(k) = (CHOOSE x : Counted(nodes, 1 .. n, x))[1 .. n]
  <2>1. DocsBefore(k) = (CHOOSE x : Counted(level0, 1 .. k - 1, x))[1 .. k - 1]
    BY Zenon DEF DocsBefore, MapThenSumSet, MapThenFoldSet, Counted, Pick
  <2> QED
    BY <1>1, <1>4, <2>1, Zenon
<1>6. ASSUME NEW i \in 1 .. n PROVE nodes[i].count = BlockSize
  <2>1. i \in 1 .. N /\ i < N
    BY <1>3, <1>4
  <2>2. nodes[i].count = blocks[i].size
    BY <1>1, <1>3, <2>1, SkipNodesFacts
  <2>3. blocks[i].size = Len(BlockDocs(s, i))
    BY <1>1, <1>2, <1>3, <2>1, BlocksFacts
  <2>4. Len(BlockDocs(s, i)) = Upto(Len(s), i) - From(i)
    BY <1>2, <1>3, <2>1, BlockIs
  <2>5. Upto(Len(s), i) = From(i) + BlockSize /\ From(i) \in Nat
    BY <1>2, <1>3, <2>1, BlockBounds
  <2> QED
    BY <2>2, <2>3, <2>4, <2>5, CodecAssumption
<1>7. DocsBefore(k) = n * BlockSize
  <2>2. BlockSize \in Nat
    BY CodecAssumption
  <2>3. CountOf(nodes, n) = n * BlockSize
    BY <1>6, <2>2, CountedSame
  <2> QED
    BY <1>5, <2>3, Zenon DEF CountOf
<1> QED
  BY <1>4, <1>7 DEF From

-----------------------------------------------------------------------------
(* The blocks on disk, and the tf bytes of each *)

\* Where the k-th block of a list lies.
PlaceOf(d, k) == d.meta.posting + d.level0[k].offset

LEMMA DiskFacts ==
  ASSUME NEW s, AscendingDocs(s), NEW d, OnDisk(s, d)
  PROVE  /\ Len(s) \in Nat \ {0} /\ BlockCount(s) \in Nat \ {0} /\ Len(d.level0) = BlockCount(s)
         /\ \A k \in 1 .. BlockCount(s) :
              /\ PlaceOf(d, k) \in DOMAIN d.data
              /\ Decode(d.data[PlaceOf(d, k)]) = BlockDocs(s, k)
              /\ d.data[PlaceOf(d, k)].size = Len(BlockDocs(s, k))
              /\ d.level0[k].score = k /\ d.level0[k].maxDoc = BlockDocs(s, k)[Len(BlockDocs(s, k))]
              /\ k < BlockCount(s) => PlaceOf(d, k + 1) = PlaceOf(d, k) + BlockBytes(d.data[PlaceOf(d, k)])
<1>1. Ascending(s) /\ s # <<>> /\ s \in Seq(Nat) /\ Len(s) \in Nat \ {0}
  BY DEF AscendingDocs, Ascending
<1>2. PICK blocks, nodes, p : blocks = Blocks(s) /\ nodes = SkipNodes(blocks) /\ p = d.meta.posting
  OBVIOUS
<1>3. PICK N \in Nat \ {0} : N = BlockCount(s) /\ DOMAIN blocks = 1 .. N
  BY <1>1, <1>2, BlocksFacts
<1>4. /\ d.level0 = nodes /\ p \in Nat
      /\ \A k \in 1 .. N : PlaceOf(d, k) \in DOMAIN d.data /\ d.data[PlaceOf(d, k)] = blocks[k]
  BY <1>2, <1>3 DEF OnDisk, PlaceOf
<1>5. /\ Len(nodes) = N
      /\ \A k \in 1 .. N : nodes[k].maxDoc = blocks[k].maxDoc /\ nodes[k].score = k
      /\ nodes[1].offset = 0
      /\ \A k \in 1 .. N : k # 1 => nodes[k].offset = nodes[k - 1].offset + BlockBytes(blocks[k - 1])
  BY <1>2, <1>3, SkipNodesFacts
<1>6. \A k \in 1 .. N : /\ BlockBytes(blocks[k]) \in Nat \ {0}
                        /\ Decode(blocks[k]) = BlockDocs(s, k)
                        /\ blocks[k].size = Len(BlockDocs(s, k))
                        /\ blocks[k].maxDoc = BlockDocs(s, k)[Len(BlockDocs(s, k))]
  BY <1>1, <1>2, <1>3, BlocksFacts
<1> DEFINE S == {n \in 0 .. N - 1 : nodes[n + 1].offset \in Nat}
<1>7. \A n \in 0 .. N - 1 : n \in S
  <2>1. 0 \in S
    <3>1. 0 \in 0 .. N - 1 /\ 0 + 1 = 1
      BY <1>3
    <3> QED
      BY <1>5, <3>1
  <2>2. ASSUME NEW n \in 0 .. N - 1, n < N - 1, n \in S PROVE n + 1 \in S
    <3>1. PICK k \in Nat : k = n + 1
      OBVIOUS
    <3>2. k \in 1 .. N /\ k + 1 \in 1 .. N /\ (k + 1) - 1 = k /\ k + 1 # 1 /\ k \in 0 .. N - 1
      BY <1>3, <2>2, <3>1
    <3>3. nodes[k].offset \in Nat
      BY <2>2, <3>1
    <3>4. nodes[k + 1].offset = nodes[k].offset + BlockBytes(blocks[k])
      BY <1>5, <3>2
    <3>5. BlockBytes(blocks[k]) \in Nat
      BY <1>6, <3>2
    <3> QED
      BY <3>1, <3>2, <3>3, <3>4, <3>5
  <2> HIDE DEF S
  <2>3. N - 1 \in Nat
    BY <1>3
  <2> QED
    BY <2>1, <2>2, <2>3, AllUpTo
<1>8. ASSUME NEW k \in 1 .. N, k < N PROVE PlaceOf(d, k + 1) = PlaceOf(d, k) + BlockBytes(blocks[k])
  <2>1. k + 1 \in 1 .. N /\ k + 1 # 1 /\ (k + 1) - 1 = k /\ k - 1 \in 0 .. N - 1 /\ (k - 1) + 1 = k
    BY <1>3, <1>8
  <2>2. nodes[k + 1].offset = nodes[k].offset + BlockBytes(blocks[k])
    BY <1>5, <2>1
  <2>3. nodes[k].offset \in Nat
    BY <1>7, <2>1
  <2>4. BlockBytes(blocks[k]) \in Nat
    BY <1>6
  <2>5. p + (nodes[k].offset + BlockBytes(blocks[k])) = (p + nodes[k].offset) + BlockBytes(blocks[k])
    BY <1>4, <2>3, <2>4
  <2> QED
    BY <1>2, <1>4, <2>2, <2>5 DEF PlaceOf
<1>9. ASSUME NEW k \in 1 .. N
      PROVE  /\ PlaceOf(d, k) \in DOMAIN d.data
             /\ Decode(d.data[PlaceOf(d, k)]) = BlockDocs(s, k)
             /\ d.data[PlaceOf(d, k)].size = Len(BlockDocs(s, k))
             /\ d.level0[k].score = k /\ d.level0[k].maxDoc = BlockDocs(s, k)[Len(BlockDocs(s, k))]
             /\ k < N => PlaceOf(d, k + 1) = PlaceOf(d, k) + BlockBytes(d.data[PlaceOf(d, k)])
  <2>1. PlaceOf(d, k) \in DOMAIN d.data /\ d.data[PlaceOf(d, k)] = blocks[k]
    BY <1>4
  <2>2. Decode(blocks[k]) = BlockDocs(s, k) /\ blocks[k].size = Len(BlockDocs(s, k))
    BY <1>6
  <2>3. d.level0[k].score = k /\ d.level0[k].maxDoc = BlockDocs(s, k)[Len(BlockDocs(s, k))]
    BY <1>4, <1>5, <1>6
  <2>4. k < N => PlaceOf(d, k + 1) = PlaceOf(d, k) + BlockBytes(blocks[k])
    BY <1>8
  <2> QED
    BY <2>1, <2>2, <2>3, <2>4
<1> QED
  BY <1>1, <1>3, <1>4, <1>5, <1>9

\* How far the blocks up to the k-th reach.
LEMMA UptoFacts ==
  ASSUME NEW s, AscendingDocs(s), NEW k \in 0 .. BlockCount(s)
  PROVE  /\ Upto(Len(s), k) \in Nat /\ Upto(Len(s), k) <= Len(s)
         /\ k < BlockCount(s) => Upto(Len(s), k) = From(k + 1) /\ From(k + 1) = k * BlockSize
                                 /\ Upto(Len(s), k) < Len(s)
         /\ k = BlockCount(s) => Upto(Len(s), k) = Len(s)
<1>1. s # <<>> /\ s \in Seq(Nat) /\ Len(s) \in Nat \ {0}
  BY DEF AscendingDocs, Ascending
<1>2. PICK N \in Nat \ {0}, L \in Nat \ {0} : N = BlockCount(s) /\ L = Len(s)
  BY <1>1, BlockBounds
<1>3. BlockSize \in Nat \ {0}
  BY CodecAssumption
<1>4. From(k + 1) = k * BlockSize
  <2>1. (k + 1) - 1 = k
    BY <1>2
  <2> QED
    BY <2>1 DEF From
<1>5. CASE k = 0
  <2>1. k * BlockSize = 0
    BY <1>3, <1>5
  <2>2. Upto(L, k) = Min({0, L})
    BY <1>5, <2>1 DEF Upto
  <2>3. Min({0, L}) = 0
    BY <1>2, LesserOf
  <2> QED
    BY <1>2, <1>4, <1>5, <2>1, <2>2, <2>3
<1>6. CASE k # 0
  <2>1. k \in 1 .. N
    BY <1>2, <1>6
  <2>2. /\ Upto(L, k) \in Nat /\ Upto(L, k) <= L
        /\ k < N => Upto(L, k) = From(k + 1)
        /\ k = N => Upto(L, k) = L
    BY <1>1, <1>2, <2>1, BlockBounds
  <2>3. ASSUME k < N PROVE From(k + 1) < L
    <3>1. k + 1 \in 1 .. N
      BY <1>2, <2>1, <2>3
    <3>2. /\ From(k + 1) \in Nat /\ Upto(L, k + 1) \in Nat
          /\ From(k + 1) < Upto(L, k + 1) /\ Upto(L, k + 1) <= L
      BY <1>1, <1>2, <3>1, BlockBounds
    <3> QED
      BY <1>2, <3>2
  <2> QED
    BY <1>2, <1>4, <2>2, <2>3
<1> QED
  BY <1>5, <1>6

\* The tf bytes of a block.
TfsOf(s, t, k) ==
  /\ DOMAIN t = 1 .. Len(BlockDocs(s, k))
  /\ \A i \in 1 .. Len(BlockDocs(s, k)) : t[i] = Min({From(k) + i, MaxTfByte})

AllTfsOf(s, a) == DOMAIN a = 1 .. Len(s) /\ \A i \in 1 .. Len(s) : a[i] = Min({i, MaxTfByte})

\* A slice from the entry after the f-th to the u-th.
LEMMA SliceFacts ==
  ASSUME NEW a, NEW f \in Nat, NEW u \in Nat, f < u, \A n \in f + 1 .. u : a[n] \in Nat,
         NEW t, t = SubSeq(a, f + 1, u)
  PROVE  /\ DOMAIN t = 1 .. u - f
         /\ \A n \in 1 .. u - f : f + n \in f + 1 .. u /\ t[n] = a[f + n]
<1>1. PICK h \in Nat : h = f + 1
  OBVIOUS
<1>2. t = SubSeq(a, h, u)
  BY <1>1
<1>3. h \in Int /\ u \in Int /\ h <= u /\ \A x \in h .. u : a[x] \in Nat
  BY <1>1
<1>4. /\ t \in Seq(Nat) /\ Len(t) = u - h + 1
      /\ \A x \in 1 .. u - h + 1 : t[x] = a[h + x - 1]
  BY <1>2, <1>3, SubSeqProperties
<1>5. u - h + 1 = u - f
  BY <1>1
<1>6. PICK m \in Nat : m = u - f
  OBVIOUS
<1>7. Len(t) = m /\ \A x \in 1 .. m : t[x] = a[h + x - 1]
  BY <1>4, <1>5, <1>6
<1>8. \A x \in 1 .. m : h + x - 1 = f + x /\ f + x \in f + 1 .. u
  BY <1>1, <1>6
<1>9. DOMAIN t = 1 .. m
  BY <1>4, <1>7
<1>10. \A x \in 1 .. m : f + x \in f + 1 .. u /\ t[x] = a[f + x]
  BY <1>7, <1>8
<1> QED
  BY <1>1, <1>2, <1>6, <1>9, <1>10

LEMMA TfSlice ==
  ASSUME NEW s, AscendingDocs(s), NEW k \in 1 .. BlockCount(s), NEW a, AllTfsOf(s, a)
  PROVE  TfsOf(s, SubSeq(a, From(k) + 1, Upto(Len(s), k)), k)
<1>1. s # <<>> /\ s \in Seq(Nat) /\ Len(s) \in Nat \ {0}
  BY DEF AscendingDocs, Ascending
<1>2. PICK L \in Nat \ {0}, f \in Nat, u \in Nat :
        L = Len(s) /\ f = From(k) /\ u = Upto(Len(s), k) /\ f < u /\ u <= L
  BY <1>1, BlockBounds
<1>3. Len(BlockDocs(s, k)) = u - f
  BY <1>1, <1>2, BlockIs
<1>4. \A i \in 1 .. L : a[i] = Min({i, MaxTfByte})
  BY <1>2 DEF AllTfsOf
<1>5. \A i \in 1 .. L : Min({i, MaxTfByte}) \in Nat
  <2>1. MaxTfByte \in Nat
    BY DEF MaxTfByte
  <2>2. \A i \in 1 .. L : i \in Nat
    OBVIOUS
  <2> QED
    BY <2>1, <2>2, LesserOf
<1>6. \A n \in f + 1 .. u : n \in 1 .. L
  BY <1>2
<1>7. \A n \in f + 1 .. u : a[n] \in Nat
  BY <1>4, <1>5, <1>6
<1>8. PICK t : t = SubSeq(a, f + 1, u)
  OBVIOUS
<1>9. /\ DOMAIN t = 1 .. u - f
      /\ \A n \in 1 .. u - f : f + n \in f + 1 .. u /\ t[n] = a[f + n]
  <2>1. f < u
    BY <1>2
  <2> QED
    BY <1>7, <1>8, <2>1, SliceFacts
<1>10. \A n \in 1 .. u - f : t[n] = Min({f + n, MaxTfByte})
  BY <1>4, <1>6, <1>9
<1>11. TfsOf(s, t, k)
  BY <1>2, <1>3, <1>9, <1>10 DEF TfsOf
<1> QED
  BY <1>2, <1>8, <1>11

\* After b blocks, with r documents to come from the place p on.
After(s, d, b, r, p) ==
  /\ b \in 0 .. BlockCount(s)
  /\ r = Len(s) - Upto(Len(s), b)
  /\ b < BlockCount(s) => p = PlaceOf(d, b + 1)

LEMMA NothingLeft ==
  ASSUME NEW s, AscendingDocs(s), NEW d, OnDisk(s, d), NEW b, NEW r, NEW p, After(s, d, b, r, p)
  PROVE  b < BlockCount(s) => r > 0 /\ p \in DOMAIN d.data
<1>1. PICK N \in Nat \ {0} : N = BlockCount(s)
  BY DiskFacts
<1>2. b \in 0 .. N /\ r = Len(s) - Upto(Len(s), b) /\ (b < N => p = PlaceOf(d, b + 1))
  BY <1>1 DEF After
<1>3. ASSUME b < N PROVE b + 1 \in 1 .. N /\ PlaceOf(d, b + 1) \in DOMAIN d.data
  <2>1. b + 1 \in 1 .. N
    BY <1>2, <1>3
  <2>2. \A k \in 1 .. N : PlaceOf(d, k) \in DOMAIN d.data
    BY <1>1, DiskFacts
  <2> QED
    BY <2>1, <2>2
<1>4. ASSUME b < N PROVE Upto(Len(s), b) < Len(s)
  BY <1>1, <1>2, <1>4, UptoFacts
<1>5. Upto(Len(s), b) \in Nat /\ Len(s) \in Nat
  BY <1>1, <1>2, UptoFacts, DiskFacts
<1> QED
  BY <1>1, <1>2, <1>3, <1>4, <1>5

Found(s, d, k, x) ==
  Decode(x) = BlockDocs(s, k) /\ k <= Len(d.level0) /\ d.level0[k].score = k

\* What loadNextBlock finds at the place it has come to.
LEMMA LoadsBlock ==
  ASSUME NEW s, AscendingDocs(s), NEW d, OnDisk(s, d), NEW b, NEW r, NEW p, After(s, d, b, r, p),
         r > 0, NEW x, x = d.data[p]
  PROVE  /\ b < BlockCount(s) /\ b + 1 \in 1 .. BlockCount(s)
         /\ Found(s, d, b + 1, x)
         /\ After(s, d, b + 1, r - Min({r, x.size}), p + BlockBytes(x))
         /\ r - Min({r, x.size}) = r - x.size
<1>1. PICK N \in Nat \ {0}, L \in Nat \ {0} : N = BlockCount(s) /\ L = Len(s)
  BY DiskFacts
<1>2. b \in 0 .. N /\ r = L - Upto(L, b) /\ (b < N => p = PlaceOf(d, b + 1))
  BY <1>1 DEF After
<1>3. b < N
  <2>1. b = N => Upto(L, b) = L
    BY <1>1, <1>2, UptoFacts
  <2> QED
    BY <1>1, <1>2, <2>1
<1>4. PICK k \in 1 .. N : k = b + 1
  BY <1>2, <1>3
<1>5. /\ Decode(x) = BlockDocs(s, k) /\ x.size = Len(BlockDocs(s, k))
      /\ Len(d.level0) = N /\ d.level0[k].score = k
      /\ k < N => PlaceOf(d, k + 1) = p + BlockBytes(x)
  <2>1. p = PlaceOf(d, k)
    BY <1>2, <1>3, <1>4
  <2> QED
    BY <1>1, <2>1, DiskFacts
<1>6. PICK f \in Nat, u \in Nat : f = From(k) /\ u = Upto(L, k) /\ f < u /\ u <= L
  <2>1. s # <<>> /\ s \in Seq(Nat)
    BY DEF AscendingDocs, Ascending
  <2> QED
    BY <1>1, <2>1, BlockBounds
<1>7. Len(BlockDocs(s, k)) = u - f
  <2>1. s # <<>> /\ s \in Seq(Nat)
    BY DEF AscendingDocs, Ascending
  <2> QED
    BY <1>1, <1>6, <2>1, BlockIs
<1>8. Upto(L, b) = f
  BY <1>1, <1>2, <1>3, <1>4, <1>6, UptoFacts
<1>9. r - Min({r, x.size}) = L - u /\ r - x.size = L - u
  <2>1. PICK y \in Nat, z \in Nat : y = L - f /\ z = u - f
    BY <1>6
  <2>2. r = y /\ x.size = z /\ z <= y
    BY <1>2, <1>5, <1>6, <1>7, <1>8, <2>1
  <2>3. Min({y, z}) = z
    <3>1. Min({y, z}) = IF y <= z THEN y ELSE z
      BY LesserOf
    <3> QED
      BY <2>2, <3>1
  <2>4. y - z = L - u
    BY <1>6, <2>1
  <2> QED
    BY <2>2, <2>3, <2>4
<1>10. After(s, d, k, r - Min({r, x.size}), p + BlockBytes(x))
  BY <1>1, <1>5, <1>6, <1>9 DEF After
<1>11. Found(s, d, k, x)
  <2>1. k <= Len(d.level0)
    BY <1>1, <1>4, <1>5
  <2> QED
    BY <1>5, <2>1 DEF Found
<1> QED
  BY <1>1, <1>3, <1>4, <1>9, <1>10, <1>11

\* And the tf bytes it takes for it.
LEMMA LoadsTfs ==
  ASSUME NEW s, AscendingDocs(s), NEW d, OnDisk(s, d), NEW b \in Nat, b + 1 \in 1 .. BlockCount(s),
         NEW n, n = Len(BlockDocs(s, b + 1)),
         NEW t, t = SubSeq(d.allTfs, b * BlockSize + 1, Min({b * BlockSize + n, Len(d.allTfs)}))
  PROVE  TfsOf(s, t, b + 1)
<1>1. PICK N \in Nat \ {0}, L \in Nat \ {0} : N = BlockCount(s) /\ L = Len(s)
  BY DiskFacts
<1>2. PICK k \in 1 .. N : k = b + 1
  BY <1>1
<1>3. s # <<>> /\ s \in Seq(Nat)
  BY DEF AscendingDocs, Ascending
<1>4. PICK f \in Nat, u \in Nat : f = From(k) /\ u = Upto(L, k) /\ f < u /\ u <= L
  BY <1>1, <1>3, BlockBounds
<1>5. n = u - f
  BY <1>1, <1>2, <1>3, <1>4, BlockIs
<1>6. b * BlockSize = f
  <2>1. k - 1 = b
    BY <1>2
  <2> QED
    BY <1>4, <2>1 DEF From
<1>7. PICK a : a = d.allTfs
  OBVIOUS
<1>8. AllTfsOf(s, a) /\ Len(a) = L
  <2>1. d.allTfs = [i \in 1 .. Len(s) |-> Min({i, MaxTfByte})]
    BY DEF OnDisk
  <2>2. DOMAIN a = 1 .. L
    BY <1>1, <1>7, <2>1
  <2>3. Len(a) = L
    BY <1>1, <1>7, <2>1
  <2>4. \A i \in 1 .. L : a[i] = Min({i, MaxTfByte})
    BY <1>1, <1>7, <2>1, Zenon
  <2> QED
    BY <1>1, <2>2, <2>3, <2>4 DEF AllTfsOf
<1>9. Min({f + n, L}) = u
  <2>1. f + n = u /\ u \in Nat
    BY <1>4, <1>5
  <2>2. Min({u, L}) = IF u <= L THEN u ELSE L
    BY LesserOf
  <2> QED
    BY <1>4, <2>1, <2>2
<1>10. t = SubSeq(a, From(k) + 1, Upto(Len(s), k))
  BY <1>1, <1>4, <1>6, <1>7, <1>8, <1>9
<1>11. TfsOf(s, SubSeq(a, From(k) + 1, Upto(Len(s), k)), k)
  BY <1>1, <1>8, TfSlice
<1> QED
  BY <1>2, <1>10, <1>11

\* All up to the end of a block are below a target when its last document is.
LEMMA LastOfBlock ==
  ASSUME NEW s, AscendingDocs(s), NEW k \in 1 .. BlockCount(s), NEW b, b = BlockDocs(s, k)
  PROVE  /\ b[Len(b)] = s[Upto(Len(s), k)]
         /\ \A n \in 1 .. Upto(Len(s), k) : s[n] <= b[Len(b)]
<1>1. s # <<>> /\ s \in Seq(Nat) /\ \A i, j \in 1 .. Len(s) : i < j => s[i] < s[j]
  BY DEF AscendingDocs, Ascending
<1>2. PICK L \in Nat, f \in Nat, u \in Nat :
        L = Len(s) /\ f = From(k) /\ u = Upto(L, k) /\ f < u /\ u <= L
  BY <1>1, BlockBounds
<1>3. Len(b) = u - f /\ \A i \in 1 .. Len(b) : b[i] = s[f + i]
  BY <1>1, <1>2, BlockIs
<1>4. PICK z \in Nat : z = u - f /\ z > 0 /\ f + z = u
  BY <1>2
<1>5. b[z] = s[u]
  BY <1>3, <1>4
<1>6. \A n \in 1 .. u : n \in 1 .. L /\ s[n] \in Nat
  BY <1>1, <1>2
<1>7. ASSUME NEW n \in 1 .. u PROVE s[n] <= s[u]
  <2>1. n \in 1 .. L /\ u \in 1 .. L /\ s[n] \in Nat /\ s[u] \in Nat
    BY <1>2, <1>6
  <2>2. CASE n = u
    BY <2>1, <2>2
  <2>3. CASE n < u
    <3>1. s[n] < s[u]
      BY <1>1, <1>2, <2>1, <2>3
    <3> QED
      BY <2>1, <3>1
  <2> QED
    BY <1>2, <2>2, <2>3
<1> QED
  BY <1>2, <1>3, <1>4, <1>5, <1>7

\* The block that the skip list names leaves out none that reaches the target.
LEMMA JumpLands ==
  ASSUME NEW s, AscendingDocs(s), NEW d, OnDisk(s, d), NEW t \in Nat,
         NEW k, k = Find(d.level0, d.level1, t), k # NotFound
  PROVE  /\ k \in 1 .. BlockCount(s)
         /\ After(s, d, k - 1, Len(s) - From(k), PlaceOf(d, k))
         /\ Len(s) > From(k)
         /\ \A n \in 1 .. Upto(Len(s), k - 1) : s[n] < t
<1>1. PICK N \in Nat \ {0}, L \in Nat \ {0} : N = BlockCount(s) /\ L = Len(s)
  BY DiskFacts
<1>2. PICK nodes : nodes = d.level0 /\ nodes = SkipNodes(Blocks(s))
  BY DEF OnDisk
<1>3. s # <<>> /\ s \in Seq(Nat)
  BY DEF AscendingDocs, Ascending
<1>4. Len(nodes) = N /\ DOMAIN nodes = 1 .. N
  <2>1. Ascending(s)
    BY DEF AscendingDocs
  <2>2. PICK blocks : blocks = Blocks(s) /\ DOMAIN blocks = 1 .. N
    BY <1>1, <1>3, <2>1, BlocksFacts
  <2> QED
    BY <1>2, <2>2, SkipNodesFacts
<1>5. ASSUME NEW i \in 1 .. N
      PROVE  nodes[i].maxDoc \in Nat /\ nodes[i].maxDoc = BlockDocs(s, i)[Len(BlockDocs(s, i))]
  <2>1. nodes[i].maxDoc = BlockDocs(s, i)[Len(BlockDocs(s, i))]
    <3>1. Ascending(s)
      BY DEF AscendingDocs
    <3>2. PICK blocks : blocks = Blocks(s) /\ DOMAIN blocks = 1 .. N
      BY <1>1, <1>3, <3>1, BlocksFacts
    <3>3. blocks[i].maxDoc = BlockDocs(s, i)[Len(BlockDocs(s, i))]
      BY <1>1, <1>3, <3>1, <3>2, BlocksFacts
    <3>4. nodes[i].maxDoc = blocks[i].maxDoc
      <4>1. nodes = SkipNodes(blocks) /\ DOMAIN blocks = 1 .. N
        BY <1>2, <3>2
      <4>2. \A h \in 1 .. N : /\ nodes[h].maxDoc = blocks[h].maxDoc
                            /\ nodes[h].score = h /\ nodes[h].count = blocks[h].size
        BY <4>1, SkipNodesFacts
      <4> QED
        BY <4>2
    <3> QED
      BY <3>3, <3>4
  <2>2. BlockDocs(s, i) \in Seq(Nat) /\ BlockDocs(s, i) # <<>>
    BY <1>1, <1>3, BlockIs
  <2>3. BlockDocs(s, i)[Len(BlockDocs(s, i))] \in Nat
    <3>1. PICK b : b = BlockDocs(s, i)
      OBVIOUS
    <3>2. b \in Seq(Nat) /\ b # <<>>
      BY <2>2, <3>1
    <3>3. b[Len(b)] \in Nat
      BY <3>2
    <3> QED
      BY <3>1, <3>3
  <2> QED
    BY <2>1, <2>3
<1>6. k \in 1 .. N /\ (k > 1 => nodes[k - 1].maxDoc < t)
  <2>1. d.level1 = BuildLevel1(nodes)
    BY <1>2 DEF OnDisk
  <2>2. PICK top : top = d.level1 /\ top = BuildLevel1(nodes)
    BY <2>1
  <2>3. k = Find(nodes, top, t)
    BY <1>2, <2>2
  <2>4. \A i \in 1 .. N : nodes[i].maxDoc \in Nat
    BY <1>5
  <2> QED
    BY <1>4, <2>2, <2>3, <2>4, FindFacts
<1>7. PICK j \in 0 .. N - 1 : j = k - 1 /\ k = j + 1
  BY <1>1, <1>6
<1>8. j \in 0 .. N /\ j < N
  BY <1>1, <1>7
<1>9. Upto(L, j) = From(k) /\ Upto(L, j) \in Nat /\ Upto(L, j) < L
  BY <1>1, <1>7, <1>8, UptoFacts
<1>10. After(s, d, j, Len(s) - From(k), PlaceOf(d, k))
  BY <1>1, <1>7, <1>8, <1>9 DEF After
<1>11. ASSUME NEW n \in 1 .. Upto(L, j) PROVE s[n] < t
  <2>1. CASE j = 0
    <3>1. From(k) = 0
      <4>1. k - 1 = 0 /\ BlockSize \in Nat
        BY <1>7, <2>1, CodecAssumption
      <4>2. From(k) = 0 * BlockSize
        BY <4>1 DEF From
      <4> QED
        BY <4>1, <4>2
    <3> QED
      BY <1>9, <1>11, <3>1
  <2>2. CASE j # 0
    <3>1. j \in 1 .. N /\ k > 1
      BY <1>7, <1>8, <2>2
    <3>2. PICK b : b = BlockDocs(s, j)
      OBVIOUS
    <3>3. s[n] <= b[Len(b)]
      BY <1>1, <1>11, <3>1, <3>2, LastOfBlock
    <3>4. b[Len(b)] = nodes[j].maxDoc /\ nodes[j].maxDoc \in Nat
      BY <1>5, <3>1, <3>2
    <3>5. nodes[j].maxDoc < t
      BY <1>6, <1>7, <3>1
    <3>6. s[n] \in Nat
      <4>1. n \in 1 .. L
        BY <1>1, <1>9, <1>11
      <4> QED
        BY <1>1, <1>3, <4>1
    <3> QED
      BY <3>3, <3>4, <3>5, <3>6
  <2> QED
    BY <2>1, <2>2
<1> QED
  BY <1>1, <1>6, <1>7, <1>9, <1>10, <1>11

-----------------------------------------------------------------------------
(* The inductive invariant *)

\* A decoded block and what belongs to it are those of the k-th block.
Holds(s, b, t, c, k) ==
  k \in 1 .. BlockCount(s) /\ b = BlockDocs(s, k) /\ c = k /\ TfsOf(s, t, k)

AtBlock == After(ids, disk, blockIdx, remaining, filePos)

InBlock ==
  /\ pos \in 0 .. Len(block)
  /\ block # <<>> => Holds(ids, block, tfs, score, blockIdx)

OnEntry == block # <<>> /\ pos \in 1 .. Len(block) /\ doc = block[pos] /\ tf = tfs[pos]

AtEnd == block # <<>> /\ pos = Len(block) /\ doc = End /\ blockIdx = BlockCount(ids)

\* While an advance() seeks, nothing behind it reaches the target, and it has
\* either a block or one to load.
Calls ==
  \/ pc = "idle" /\ goal = 0 /\ (OnEntry \/ AtEnd)
  \/ pc = "scan" /\ goal \in Docs \cup {End} /\ OnEntry /\ doc < goal
  \/ /\ pc = "seek" /\ goal \in Docs \cup {End} /\ pos = Len(block)
     /\ block = <<>> => blockIdx < BlockCount(ids)
     /\ \A n \in 1 .. Upto(Len(ids), blockIdx) : ids[n] < goal

IInv == AscendingDocs(ids) /\ OnDisk(ids, disk) /\ AtBlock /\ InBlock /\ Calls

\* Its entries are those of the list from the one after the f-th on.
Entered(s, b, t, f) ==
  \A i \in 1 .. Len(b) : f + i \in 1 .. Len(s) /\ b[i] = s[f + i] /\ t[i] = Min({f + i, MaxTfByte})

LEMMA HeldBlock ==
  ASSUME NEW s, AscendingDocs(s), NEW b, NEW t, NEW c, NEW k, Holds(s, b, t, c, k)
  PROVE  /\ k \in 1 .. BlockCount(s) /\ b \in Seq(Nat) /\ b # <<>>
         /\ Len(b) \in Nat \ {0} /\ From(k) \in Nat /\ Upto(Len(s), k) \in Nat
         /\ Len(b) = Upto(Len(s), k) - From(k)
         /\ DOMAIN t = 1 .. Len(b)
         /\ Entered(s, b, t, From(k))
<1>1. s # <<>> /\ s \in Seq(Nat)
  BY DEF AscendingDocs, Ascending
<1>2. k \in 1 .. BlockCount(s) /\ b = BlockDocs(s, k) /\ TfsOf(s, t, k)
  BY DEF Holds
<1>3. PICK L \in Nat, f \in Nat, u \in Nat :
        L = Len(s) /\ f = From(k) /\ u = Upto(Len(s), k) /\ f < u /\ u <= L
  BY <1>1, <1>2, BlockBounds
<1>4. /\ b \in Seq(Nat) /\ b # <<>> /\ Len(b) = u - f
      /\ \A i \in 1 .. Len(b) : b[i] = s[f + i]
  BY <1>1, <1>2, <1>3, BlockIs
<1>5. DOMAIN t = 1 .. Len(b) /\ \A i \in 1 .. Len(b) : t[i] = Min({f + i, MaxTfByte})
  BY <1>2, <1>3 DEF TfsOf
<1>6. PICK z \in Nat \ {0} : z = Len(b)
  BY <1>3, <1>4
<1>7. \A i \in 1 .. z : f + i \in 1 .. L
  BY <1>3, <1>4, <1>6
<1> QED
  BY <1>2, <1>3, <1>4, <1>5, <1>6, <1>7 DEF Entered

LEMMA Loaded ==
  ASSUME AscendingDocs(ids), OnDisk(ids, disk), AtBlock, LoadNextBlock, UNCHANGED onDisk
  PROVE  /\ AtBlock' /\ blockIdx' = blockIdx + 1 /\ blockIdx \in Nat
         /\ blockIdx < BlockCount(ids) /\ Holds(ids, block', tfs', score', blockIdx')
<1>1. PICK s, d, b, r, p : s = ids /\ d = disk /\ b = blockIdx /\ r = remaining /\ p = filePos
  OBVIOUS
<1>2. AscendingDocs(s) /\ OnDisk(s, d) /\ After(s, d, b, r, p)
  BY <1>1 DEF AtBlock
<1>3. PICK x : x = d.data[p]
  OBVIOUS
<1>4. b \in Nat
  BY <1>2, DiskFacts DEF After
<1>5. /\ r > 0 /\ block' = Decode(x) /\ remaining' = r - Min({r, x.size})
      /\ filePos' = p + BlockBytes(x) /\ blockIdx' = b + 1
      /\ score' = IF b < Len(d.level0) THEN d.level0[b + 1].score ELSE 0
      /\ ids' = s /\ disk' = d
  BY <1>1, <1>3 DEF LoadNextBlock, data, level0, onDisk
<1>6. /\ b < BlockCount(s) /\ b + 1 \in 1 .. BlockCount(s)
      /\ Found(s, d, b + 1, x)
      /\ After(s, d, b + 1, r - Min({r, x.size}), p + BlockBytes(x))
  BY <1>2, <1>3, <1>5, LoadsBlock
<1>10. /\ Decode(x) = BlockDocs(s, b + 1) /\ b + 1 <= Len(d.level0)
       /\ d.level0[b + 1].score = b + 1 /\ Len(d.level0) \in Nat
  BY <1>2, <1>6, DiskFacts DEF Found
<1>11. score' = b + 1
  BY <1>4, <1>5, <1>10
<1>7. TfsOf(s, tfs', b + 1)
  <2>1. PICK n, t : n = Len(BlockDocs(s, b + 1)) /\ t = tfs'
    OBVIOUS
  <2>2. t = SubSeq(d.allTfs, b * BlockSize + 1, Min({b * BlockSize + Len(block'), Len(d.allTfs)}))
    BY <1>1, <2>1 DEF LoadNextBlock, allTfs
  <2>3. t = SubSeq(d.allTfs, b * BlockSize + 1, Min({b * BlockSize + n, Len(d.allTfs)}))
    BY <1>5, <1>10, <2>1, <2>2
  <2>4. TfsOf(s, t, b + 1)
    BY <1>2, <1>4, <1>6, <2>1, <2>3, LoadsTfs
  <2> QED
    BY <2>1, <2>4
<1>8. AtBlock'
  BY <1>5, <1>6 DEF AtBlock
<1>9. Holds(s, block', tfs', score', b + 1)
  BY <1>5, <1>6, <1>7, <1>10, <1>11 DEF Holds
<1> QED
  BY <1>1, <1>4, <1>5, <1>6, <1>8, <1>9

LEMMA NoneLeft ==
  ASSUME AscendingDocs(ids), OnDisk(ids, disk), AtBlock, NoBlockLeft
  PROVE  blockIdx = BlockCount(ids)
<1>1. PICK s, d, b, r, p : s = ids /\ d = disk /\ b = blockIdx /\ r = remaining /\ p = filePos
  OBVIOUS
<1>2. AscendingDocs(s) /\ OnDisk(s, d) /\ After(s, d, b, r, p)
  BY <1>1 DEF AtBlock
<1>3. b < BlockCount(s) => r > 0 /\ p \in DOMAIN d.data
  BY <1>2, NothingLeft
<1>4. r = 0 \/ p \notin DOMAIN d.data
  BY <1>1 DEF NoBlockLeft, data
<1>5. BlockCount(s) \in Nat /\ b \in 0 .. BlockCount(s)
  BY <1>2, DiskFacts DEF After
<1> QED
  BY <1>1, <1>3, <1>4, <1>5

-----------------------------------------------------------------------------
(* It holds at first *)

\* The constructor's first block.
LEMMA FirstBlock ==
  ASSUME NEW s, AscendingDocs(s), NEW d, OnDisk(s, d), NEW x, x = d.data[d.meta.posting]
  PROVE  /\ 1 \in 1 .. BlockCount(s) /\ Decode(x) = BlockDocs(s, 1)
         /\ After(s, d, 1, d.meta.df - x.size, d.meta.posting + BlockBytes(x))
         /\ d.level0[1].score = 1
         /\ \A t : t = SubSeq(d.allTfs, 1, Min({Len(BlockDocs(s, 1)), Len(d.allTfs)})) => TfsOf(s, t, 1)
<1>1. PICK N \in Nat \ {0}, L \in Nat \ {0} : N = BlockCount(s) /\ L = Len(s)
  BY DiskFacts
<1>2. PICK p \in Nat : p = d.meta.posting /\ d.meta.df = L
  BY <1>1 DEF OnDisk
<1>3. PlaceOf(d, 1) = p
  <2>1. PICK nodes : nodes = d.level0 /\ nodes = SkipNodes(Blocks(s))
    BY DEF OnDisk
  <2>2. Ascending(s) /\ s # <<>>
    BY DEF AscendingDocs
  <2>3. PICK blocks : blocks = Blocks(s) /\ DOMAIN blocks = 1 .. N
    BY <1>1, <2>2, BlocksFacts
  <2>4. nodes[1].offset = 0
    BY <2>1, <2>3, SkipNodesFacts
  <2> QED
    BY <1>2, <2>1, <2>4 DEF PlaceOf
<1>4. After(s, d, 0, L, p)
  <2>1. 0 \in 0 .. N /\ 0 < N /\ 0 + 1 = 1
    BY <1>1
  <2>2. Upto(L, 0) = 0
    <3>1. BlockSize \in Nat
      BY CodecAssumption
    <3>2. Upto(L, 0) = From(0 + 1) /\ From(0 + 1) = 0 * BlockSize
      BY <1>1, <2>1, UptoFacts
    <3>3. 0 * BlockSize = 0
      BY <3>1
    <3> QED
      BY <3>2, <3>3
  <2> QED
    BY <1>1, <1>3, <2>1, <2>2 DEF After
<1>5. L > 0 /\ x = d.data[p] /\ 0 + 1 = 1 /\ 0 \in Nat
  BY <1>1, <1>2
<1>6. /\ 0 + 1 \in 1 .. BlockCount(s) /\ Decode(x) = BlockDocs(s, 0 + 1)
      /\ After(s, d, 0 + 1, L - Min({L, x.size}), p + BlockBytes(x))
      /\ d.level0[0 + 1].score = 0 + 1
      /\ L - Min({L, x.size}) = L - x.size
  <2>1. PICK b, r, q : b = 0 /\ r = L /\ q = p
    BY <1>1
  <2>2. After(s, d, b, r, q) /\ r > 0 /\ x = d.data[q]
    BY <1>4, <1>5, <2>1
  <2>3. AscendingDocs(s) /\ OnDisk(s, d) /\ After(s, d, b, r, q)
    BY <2>2
  <2>4. x = d.data[q] /\ r > 0
    BY <2>2
  <2>5. /\ b + 1 \in 1 .. BlockCount(s) /\ Found(s, d, b + 1, x)
        /\ After(s, d, b + 1, r - Min({r, x.size}), q + BlockBytes(x))
    BY <2>3, <2>4, LoadsBlock
  <2>6. r - Min({r, x.size}) = r - x.size
    BY <2>3, <2>4, LoadsBlock
  <2>7. Decode(x) = BlockDocs(s, b + 1) /\ d.level0[b + 1].score = b + 1
    BY <2>5 DEF Found
  <2> QED
    BY <2>1, <2>5, <2>6, <2>7
<1>7. /\ 1 \in 1 .. BlockCount(s) /\ Decode(x) = BlockDocs(s, 1)
      /\ After(s, d, 1, L - x.size, p + BlockBytes(x)) /\ d.level0[1].score = 1
  BY <1>5, <1>6
<1>8. ASSUME NEW t, t = SubSeq(d.allTfs, 1, Min({Len(BlockDocs(s, 1)), Len(d.allTfs)}))
      PROVE  TfsOf(s, t, 1)
  <2>1. PICK n : n = Len(BlockDocs(s, 1))
    OBVIOUS
  <2>2. n \in Nat
    <3>1. BlockDocs(s, 1) \in Seq(Nat)
      <4>1. s \in Seq(Nat) /\ s # <<>>
        BY DEF AscendingDocs, Ascending
      <4> QED
        BY <1>7, <4>1, BlockIs
    <3> QED
      BY <2>1, <3>1
  <2>3. BlockSize \in Nat
    BY CodecAssumption
  <2>4. 0 * BlockSize + 1 = 1 /\ 0 * BlockSize + n = n
    BY <2>2, <2>3
  <2>5. t = SubSeq(d.allTfs, 0 * BlockSize + 1, Min({0 * BlockSize + n, Len(d.allTfs)}))
    BY <1>8, <2>1, <2>4
  <2>6. n = Len(BlockDocs(s, 0 + 1)) /\ 0 + 1 \in 1 .. BlockCount(s)
    BY <1>5, <1>7, <2>1
  <2>7. TfsOf(s, t, 0 + 1)
    BY <1>5, <2>5, <2>6, LoadsTfs
  <2> QED
    BY <1>5, <2>7
<1> QED
  BY <1>2, <1>7, <1>8

LEMMA InitOnDisk == Init => AscendingDocs(ids) /\ OnDisk(ids, disk)
<1> SUFFICES ASSUME Init PROVE AscendingDocs(ids) /\ OnDisk(ids, disk)
  OBVIOUS
<1>1. PICK s, d : s = ids /\ d = disk
  OBVIOUS
<1>2. AscendingDocs(s)
  <2>1. ids \in Lists
    BY DEF Init
  <2> QED
    BY <1>1, <2>1, ListsFacts
<1>3. PICK terms : terms = Terms(s)
  OBVIOUS
<1>4. Named(terms) /\ ThreeTerms(terms)
  BY <1>2, <1>3, TermsFacts
<1>5. \/ d = Opened(s, MergedFiles(terms))
      \/ d = Opened(s, FlushedFiles(terms))
  <2>1. disk = Opened(ids, IF merged THEN MergedFiles(Terms(ids)) ELSE FlushedFiles(Terms(ids)))
    BY DEF Init
  <2> QED
    BY <1>1, <1>3, <2>1
<1>6. ASSUME NEW files, d = Opened(s, files), \E m, x : FilesHold(files, terms, m, x)
      PROVE  OnDisk(s, d)
  BY <1>2, <1>3, <1>6, OpenedOnDisk
<1>7. OnDisk(s, d)
  BY <1>4, <1>5, <1>6, FlushedHold, MergedHold
<1> QED
  BY <1>1, <1>2, <1>7

LEMMA InitIInv == Init => IInv
<1> SUFFICES ASSUME Init PROVE IInv
  OBVIOUS
<1>1. PICK s, d, x : s = ids /\ d = disk /\ x = d.data[d.meta.posting]
  OBVIOUS
<1>2. AscendingDocs(s) /\ OnDisk(s, d)
  BY <1>1, InitOnDisk
<1>3. /\ 1 \in 1 .. BlockCount(s) /\ Decode(x) = BlockDocs(s, 1)
      /\ After(s, d, 1, d.meta.df - x.size, d.meta.posting + BlockBytes(x))
      /\ d.level0[1].score = 1
  BY <1>1, <1>2, FirstBlock
<1>4. /\ block = Decode(x) /\ remaining = d.meta.df - x.size
      /\ filePos = d.meta.posting + BlockBytes(x)
  BY <1>1 DEF Init, data, meta, DocFreq
<1>5. blockIdx = 1 /\ pos = 1 /\ doc = block[1] /\ goal = 0 /\ pc = "idle"
  BY DEF Init
<1>6. score = 1
  BY <1>1, <1>3 DEF Init, level0
<1>7. TfsOf(s, tfs, 1)
  <2>1. tfs = SubSeq(allTfs, 1, Min({Len(block), Len(allTfs)}))
    BY DEF Init
  <2>2. PICK t : t = tfs
    OBVIOUS
  <2>3. t = SubSeq(d.allTfs, 1, Min({Len(BlockDocs(s, 1)), Len(d.allTfs)}))
    BY <1>1, <1>3, <1>4, <2>1, <2>2 DEF allTfs
  <2>4. TfsOf(s, t, 1)
    BY <1>1, <1>2, <2>3, FirstBlock
  <2> QED
    BY <2>2, <2>4
<1>8. Holds(ids, block, tfs, score, blockIdx)
  BY <1>1, <1>3, <1>4, <1>5, <1>6, <1>7 DEF Holds
<1>9. AtBlock
  BY <1>1, <1>3, <1>4, <1>5 DEF AtBlock
<1>10. block # <<>> /\ Len(block) \in Nat \ {0} /\ DOMAIN tfs = 1 .. Len(block)
  BY <1>1, <1>2, <1>8, HeldBlock
<1>11. pos \in 1 .. Len(block) /\ pos \in 0 .. Len(block)
  BY <1>5, <1>10
<1>12. tf = tfs[1]
  <2>1. tf = IF tfs = <<>> THEN 1 ELSE tfs[1]
    BY DEF Init
  <2>2. tfs # <<>>
    BY <1>10
  <2> QED
    BY <2>1, <2>2
<1>13. OnEntry
  BY <1>5, <1>10, <1>11, <1>12 DEF OnEntry
<1> QED
  BY <1>1, <1>2, <1>5, <1>8, <1>9, <1>11, <1>13 DEF IInv, InBlock, Calls

-----------------------------------------------------------------------------
(* Every action keeps it *)

LEMMA Stood ==
  ASSUME NEW b, b = block', NEW t, t = tfs', b # <<>>, Len(b) \in Nat, DOMAIN t = 1 .. Len(b),
         NEW i \in 1 .. Len(b), StandOn(b, t, i)
  PROVE  OnEntry' /\ pos' \in 0 .. Len(block') /\ pos' = i /\ doc' = b[i]
<1>1. doc' = b[i] /\ pos' = i /\ tf' = t[i]
  BY DEF StandOn
<1>2. i \in 0 .. Len(b)
  OBVIOUS
<1> QED
  BY <1>1, <1>2 DEF OnEntry

LEMMA LeastReaching ==
  ASSUME NEW b \in Seq(Nat), NEW from \in Nat \ {0}, NEW t \in Nat, Reaching(b, from, t) # {},
         NEW i, i = Min(Reaching(b, from, t))
  PROVE  /\ i \in from .. Len(b) /\ i \in 1 .. Len(b) /\ b[i] >= t
         /\ \A j \in from .. i - 1 : b[j] < t
<1> DEFINE R == Reaching(b, from, t)
<1>1. \A j : j \in R <=> j \in from .. Len(b) /\ b[j] >= t
  BY DEF Reaching
<1>2. R \in SUBSET Nat /\ R # {}
  BY <1>1
<1>3. i = Min(R)
  OBVIOUS
<1> HIDE DEF R
<1>4. i \in R /\ \A j \in R : i <= j
  BY <1>2, <1>3, LeastOf
<1>5. i \in from .. Len(b) /\ b[i] >= t
  BY <1>1, <1>4
<1>6. i \in 1 .. Len(b)
  BY <1>5
<1>7. ASSUME NEW j \in from .. i - 1 PROVE b[j] < t
  <2>1. j \in from .. Len(b) /\ j < i
    BY <1>5
  <2>2. ~ (b[j] >= t)
    <3> SUFFICES ASSUME b[j] >= t PROVE FALSE
      OBVIOUS
    <3>1. j \in R
      BY <1>1, <2>1
    <3>2. i <= j
      BY <1>4, <3>1
    <3> QED
      BY <1>5, <2>1, <3>2
  <2>3. b[j] \in Nat
    BY <2>1
  <2> QED
    BY <2>2, <2>3
<1> QED
  BY <1>5, <1>6, <1>7

\* When the last document of a block does not reach the target, none up to it does.
LEMMA PassedBlock ==
  ASSUME NEW s, AscendingDocs(s), NEW b, NEW t, NEW c, NEW k, Holds(s, b, t, c, k),
         NEW g \in Nat, b[Len(b)] < g
  PROVE  \A n \in 1 .. Upto(Len(s), k) : s[n] < g
<1>1. k \in 1 .. BlockCount(s) /\ b = BlockDocs(s, k)
  BY DEF Holds
<1>2. \A n \in 1 .. Upto(Len(s), k) : s[n] <= b[Len(b)]
  BY <1>1, LastOfBlock
<1>3. PICK u \in Nat, L \in Nat : u = Upto(Len(s), k) /\ L = Len(s) /\ u <= L
  <2>1. s \in Seq(Nat) /\ s # <<>>
    BY DEF AscendingDocs, Ascending
  <2> QED
    BY <1>1, <2>1, BlockBounds
<1>4. s \in Seq(Nat)
  BY DEF AscendingDocs, Ascending
<1>5. \A n \in 1 .. u : s[n] \in Nat
  BY <1>3, <1>4
<1>6. b[Len(b)] \in Nat
  <2>1. b \in Seq(Nat) /\ Len(b) \in Nat \ {0}
    BY HeldBlock
  <2> QED
    BY <2>1
<1> QED
  BY <1>2, <1>3, <1>5, <1>6

\* Entries from `from` on that do not reach the target: the last does not.
LEMMA NotReached ==
  ASSUME NEW b \in Seq(Nat), NEW from \in 1 .. Len(b), NEW t \in Nat, Reaching(b, from, t) = {}
  PROVE  b[Len(b)] < t
<1>1. Len(b) \in from .. Len(b) /\ b[Len(b)] \in Nat
  OBVIOUS
<1>2. ~ (b[Len(b)] >= t)
  BY <1>1 DEF Reaching
<1> QED
  BY <1>1, <1>2

LEMMA GoalType == \A g \in Docs \cup {End} : g \in Nat /\ g # 0
  BY IteratorAssumption DEF Docs, End

\* What stays when an action leaves the block and the list alone.
LEMMA HeldSame ==
  ASSUME IInv, UNCHANGED <<onDisk, remaining, blockIdx, filePos>>
  PROVE  AscendingDocs(ids)' /\ OnDisk(ids, disk)' /\ AtBlock'
BY DEF IInv, AtBlock, onDisk

LEMMA EntryIs ==
  ASSUME AscendingDocs(ids), InBlock, OnEntry
  PROVE  /\ Holds(ids, block, tfs, score, blockIdx) /\ block \in Seq(Nat)
         /\ Len(block) \in Nat \ {0} /\ DOMAIN tfs = 1 .. Len(block)
         /\ pos \in 1 .. Len(block) /\ doc = block[pos] /\ doc \in Nat
         /\ \A n \in 1 .. From(blockIdx) + pos : n \in 1 .. Len(ids) /\ ids[n] <= doc
<1>1. PICK s, b, t, c, k, p : s = ids /\ b = block /\ t = tfs /\ c = score /\ k = blockIdx /\ p = pos
  OBVIOUS
<1>2. AscendingDocs(s) /\ Holds(s, b, t, c, k) /\ b # <<>> /\ p \in 1 .. Len(b) /\ doc = b[p]
  BY <1>1 DEF InBlock, OnEntry
<1>3. PICK f, z : f = From(k) /\ z = Len(b)
  OBVIOUS
<1>7. /\ f \in Nat /\ z \in Nat \ {0} /\ b \in Seq(Nat) /\ DOMAIN t = 1 .. z
      /\ \A i \in 1 .. z : f + i \in 1 .. Len(s) /\ b[i] = s[f + i]
  <2>1. AscendingDocs(s) /\ Holds(s, b, t, c, k)
    BY <1>2
  <2>2. /\ b \in Seq(Nat) /\ Len(b) \in Nat \ {0} /\ From(k) \in Nat /\ DOMAIN t = 1 .. Len(b)
        /\ Entered(s, b, t, From(k))
    BY <2>1, HeldBlock
  <2> QED
    BY <1>3, <2>2 DEF Entered
<1>4. s \in Seq(Nat) /\ \A i, j \in 1 .. Len(s) : i < j => s[i] < s[j]
  BY <1>2 DEF AscendingDocs, Ascending
<1>5. p \in 1 .. z /\ b[p] \in Nat
  BY <1>2, <1>3, <1>7
<1>6. ASSUME NEW n \in 1 .. f + p PROVE n \in 1 .. Len(s) /\ s[n] <= b[p]
  <2>1. PICK q \in 1 .. Len(s) : q = f + p /\ b[p] = s[q]
    BY <1>5, <1>7
  <2>2. n \in 1 .. Len(s) /\ Len(s) \in Nat
    BY <1>4, <1>6, <2>1
  <2>3. s[n] \in Nat /\ s[q] \in Nat
    BY <1>4, <2>1, <2>2
  <2>4. CASE n = q
    BY <2>1, <2>2, <2>3, <2>4
  <2>5. CASE n < q
    <3>1. s[n] < s[q]
      BY <1>4, <2>1, <2>2, <2>5
    <3> QED
      BY <2>1, <2>2, <2>3, <3>1
  <2> QED
    BY <1>6, <2>1, <2>2, <2>4, <2>5
<1> QED
  BY <1>1, <1>2, <1>3, <1>5, <1>6, <1>7

\* next() inside the block, with the entry it comes to.
LEMMA NextInBlockStep ==
  ASSUME IInv, NextInBlock
  PROVE  IInv' /\ OnEntry /\ pos + 1 \in 1 .. Len(block) /\ doc' = block[pos + 1]
<1>1. /\ pc = "idle" /\ pos < Len(block) /\ StandOn(block, tfs, pos + 1)
      /\ UNCHANGED <<onDisk, remaining, blockIdx, filePos, block, tfs, score, goal, pc>>
  BY DEF NextInBlock
<1>2. OnEntry
  <2>1. goal = 0 /\ (OnEntry \/ AtEnd)
    BY <1>1 DEF IInv, Calls
  <2>2. pos \in 0 .. Len(block) /\ (AtEnd => pos = Len(block))
    BY DEF IInv, InBlock, AtEnd
  <2> QED
    BY <1>1, <2>1, <2>2
<1>3. /\ Holds(ids, block, tfs, score, blockIdx)
      /\ Len(block) \in Nat \ {0} /\ DOMAIN tfs = 1 .. Len(block) /\ pos \in 1 .. Len(block)
  BY <1>2, EntryIs DEF IInv
<1>4. pos + 1 \in 1 .. Len(block)
  BY <1>1, <1>3
<1>5. PICK b, t, i : b = block /\ t = tfs /\ i = pos + 1
  OBVIOUS
<1>6. /\ b = block' /\ t = tfs' /\ b # <<>> /\ Len(b) \in Nat /\ DOMAIN t = 1 .. Len(b)
      /\ i \in 1 .. Len(b) /\ StandOn(b, t, i)
  BY <1>1, <1>2, <1>3, <1>4, <1>5 DEF OnEntry
<1>7. OnEntry' /\ pos' \in 0 .. Len(block') /\ doc' = b[i]
  BY <1>6, Stood
<1>8. AscendingDocs(ids)' /\ OnDisk(ids, disk)' /\ AtBlock'
  BY <1>1, HeldSame
<1>9. InBlock'
  <2>1. Holds(ids, block, tfs, score, blockIdx)'
    BY <1>1, <1>3 DEF onDisk
  <2> QED
    BY <1>7, <2>1 DEF InBlock
<1>10. Calls'
  <2>1. pc' = "idle" /\ goal' = 0
    BY <1>1 DEF IInv, Calls
  <2> QED
    BY <1>7, <2>1 DEF Calls
<1> QED
  BY <1>2, <1>4, <1>5, <1>7, <1>8, <1>9, <1>10 DEF IInv

\* A block just loaded, and an entry of it.
LEMMA StoodInNew ==
  ASSUME AscendingDocs(ids), UNCHANGED onDisk, Holds(ids, block', tfs', score', blockIdx'), NEW i,
         NEW b, b = block', i \in 1 .. Len(b), StandOn(block', tfs', i)
  PROVE  OnEntry' /\ InBlock' /\ doc' = b[i]
<1>1. PICK s, t, c, k : s = ids /\ t = tfs' /\ c = score' /\ k = blockIdx'
  OBVIOUS
<1>2. b # <<>> /\ Len(b) \in Nat /\ DOMAIN t = 1 .. Len(b)
  <2>1. AscendingDocs(s) /\ Holds(s, b, t, c, k)
    BY <1>1
  <2> QED
    BY <2>1, HeldBlock
<1>3. StandOn(b, t, i)
  BY <1>1
<1>4. OnEntry' /\ pos' \in 0 .. Len(block') /\ doc' = b[i]
  BY <1>1, <1>2, <1>3, Stood
<1>5. Holds(ids, block, tfs, score, blockIdx)'
  BY DEF onDisk
<1> QED
  BY <1>4, <1>5 DEF InBlock

\* next() at the end of a block: the next block, or the end.
LEMMA NextBlockStep ==
  ASSUME IInv, NextBlock
  PROVE  /\ IInv'
         /\ \/ /\ OnEntry /\ pos = Len(block) /\ blockIdx < BlockCount(ids) /\ blockIdx' = blockIdx + 1
               /\ Holds(ids, block', tfs', score', blockIdx') /\ doc' = block'[1]
            \/ (OnEntry \/ doc = End) /\ pos = Len(block) /\ blockIdx = BlockCount(ids) /\ doc' = End
<1>1. pc = "idle" /\ pos = Len(block) /\ UNCHANGED <<onDisk, goal, pc>>
  BY DEF NextBlock
<1>2. goal = 0 /\ (OnEntry \/ AtEnd)
  BY <1>1 DEF IInv, Calls
<1>3. goal' = 0 /\ pc' = "idle" /\ UNCHANGED onDisk
  BY <1>1, <1>2
<1>4. AscendingDocs(ids)' /\ OnDisk(ids, disk)'
  BY <1>3 DEF IInv, onDisk
<1>5. CASE LoadNextBlock /\ StandOn(block', tfs', 1)
  <2>1. /\ AtBlock' /\ blockIdx' = blockIdx + 1 /\ blockIdx \in Nat /\ blockIdx < BlockCount(ids)
        /\ Holds(ids, block', tfs', score', blockIdx')
    BY <1>3, <1>5, Loaded DEF IInv
  <2>2. OnEntry
    <3>1. BlockCount(ids) \in Nat
      BY DiskFacts DEF IInv
    <3> QED
      BY <1>2, <2>1, <3>1 DEF AtEnd
  <2>3. PICK b : b = block'
    OBVIOUS
  <2>4. 1 \in 1 .. Len(b)
    <3>1. PICK s, t, c, k : s = ids /\ t = tfs' /\ c = score' /\ k = blockIdx'
      OBVIOUS
    <3>2. AscendingDocs(s) /\ Holds(s, b, t, c, k)
      BY <2>1, <2>3, <3>1 DEF IInv
    <3>3. Len(b) \in Nat \ {0}
      BY <3>2, HeldBlock
    <3> QED
      BY <3>3
  <2>5. OnEntry' /\ InBlock' /\ doc' = b[1]
    BY <1>3, <1>5, <2>1, <2>3, <2>4, StoodInNew DEF IInv
  <2> QED
    BY <1>1, <1>3, <1>4, <2>1, <2>2, <2>3, <2>5 DEF IInv, Calls
<1>6. CASE /\ NoBlockLeft /\ doc' = End
           /\ UNCHANGED <<remaining, blockIdx, filePos, block, tfs, pos, tf, score>>
  <2>1. blockIdx = BlockCount(ids)
    BY <1>6, NoneLeft DEF IInv
  <2>2. AtBlock'
    BY <1>3, <1>6, HeldSame
  <2>3. InBlock'
    BY <1>3, <1>6 DEF IInv, InBlock, onDisk
  <2>4. AtEnd'
    BY <1>1, <1>2, <1>3, <1>6, <2>1 DEF AtEnd, OnEntry, onDisk
  <2>5. OnEntry \/ doc = End
    BY <1>2 DEF AtEnd
  <2> QED
    BY <1>1, <1>3, <1>4, <1>6, <2>1, <2>2, <2>3, <2>4, <2>5 DEF IInv, Calls
<1> QED
  BY <1>5, <1>6 DEF NextBlock

LEMMA AdvanceStep ==
  ASSUME IInv, NEW t \in Docs \cup {End}, Advance(t)
  PROVE  IInv' /\ goal = 0
<1>1. /\ pc = "idle" /\ doc < t /\ doc # End /\ goal' = t /\ pc' = "scan"
      /\ UNCHANGED <<onDisk, remaining, blockIdx, filePos, block, tfs, pos, doc, tf, score>>
  BY DEF Advance
<1>2. goal = 0 /\ OnEntry
  BY <1>1 DEF IInv, Calls, AtEnd
<1>3. AscendingDocs(ids)' /\ OnDisk(ids, disk)' /\ AtBlock'
  BY <1>1, HeldSame
<1>4. InBlock'
  BY <1>1 DEF IInv, InBlock, onDisk
<1>5. OnEntry'
  BY <1>1, <1>2 DEF OnEntry
<1> QED
  BY <1>1, <1>2, <1>3, <1>4, <1>5 DEF IInv, Calls

LEMMA ScanBlockStep ==
  ASSUME IInv, ScanBlock
  PROVE  /\ IInv' /\ goal # 0 /\ goal' = 0 /\ OnEntry /\ doc < goal
         /\ \E i \in pos + 1 .. Len(block) :
              /\ doc' = block[i] /\ block[i] >= goal
              /\ \A j \in pos + 1 .. i - 1 : block[j] < goal
<1>1. /\ pc = "scan" /\ Reaching(block, pos + 1, goal) # {}
      /\ StandOn(block, tfs, Min(Reaching(block, pos + 1, goal)))
      /\ goal' = 0 /\ pc' = "idle"
      /\ UNCHANGED <<onDisk, remaining, blockIdx, filePos, block, tfs, score>>
  BY DEF ScanBlock
<1>2. goal \in Docs \cup {End} /\ OnEntry /\ doc < goal
  BY <1>1 DEF IInv, Calls
<1>3. goal \in Nat /\ goal # 0
  BY <1>2, GoalType
<1>4. /\ Holds(ids, block, tfs, score, blockIdx) /\ block \in Seq(Nat)
      /\ Len(block) \in Nat \ {0} /\ DOMAIN tfs = 1 .. Len(block) /\ pos \in 1 .. Len(block)
  BY <1>2, EntryIs DEF IInv
<1>5. PICK b, t, g, q, i :
        b = block /\ t = tfs /\ g = goal /\ q = pos + 1 /\ i = Min(Reaching(block, pos + 1, goal))
  OBVIOUS
<1>6. b \in Seq(Nat) /\ q \in Nat \ {0} /\ g \in Nat /\ Reaching(b, q, g) # {} /\ i = Min(Reaching(b, q, g))
  BY <1>1, <1>3, <1>4, <1>5
<1>7. /\ i \in q .. Len(b) /\ i \in 1 .. Len(b) /\ b[i] >= g
      /\ \A j \in q .. i - 1 : b[j] < g
  BY <1>6, LeastReaching
<1>8. /\ b = block' /\ t = tfs' /\ b # <<>> /\ Len(b) \in Nat /\ DOMAIN t = 1 .. Len(b)
      /\ StandOn(b, t, i)
  BY <1>1, <1>2, <1>4, <1>5 DEF OnEntry
<1>9. OnEntry' /\ pos' \in 0 .. Len(block') /\ doc' = b[i]
  BY <1>7, <1>8, Stood
<1>10. AscendingDocs(ids)' /\ OnDisk(ids, disk)' /\ AtBlock'
  BY <1>1, HeldSame
<1>11. InBlock'
  <2>1. Holds(ids, block, tfs, score, blockIdx)'
    BY <1>1, <1>4 DEF onDisk
  <2> QED
    BY <1>9, <2>1 DEF InBlock
<1>12. IInv'
  BY <1>1, <1>9, <1>10, <1>11 DEF IInv, Calls
<1> QED
  BY <1>1, <1>2, <1>3, <1>5, <1>7, <1>9, <1>12

\* The jump of seekToBlock.
LEMMA JumpStep ==
  ASSUME IInv, goal \in Nat, UNCHANGED onDisk,
         NEW k, k = Find(level0, level1, goal), k # NotFound, Jump(k)
  PROVE  /\ AtBlock' /\ InBlock' /\ pos' = Len(block') /\ blockIdx' < BlockCount(ids)
         /\ \A n \in 1 .. Upto(Len(ids), blockIdx') : ids[n] < goal
<1>1. PICK s, d, g : s = ids /\ d = disk /\ g = goal
  OBVIOUS
<1>2. AscendingDocs(s) /\ OnDisk(s, d) /\ g \in Nat /\ k = Find(d.level0, d.level1, g)
  BY <1>1 DEF IInv, level0, level1
<1>3. /\ k \in 1 .. BlockCount(s)
      /\ After(s, d, k - 1, Len(s) - From(k), PlaceOf(d, k))
      /\ Len(s) > From(k)
      /\ \A n \in 1 .. Upto(Len(s), k - 1) : s[n] < g
  BY <1>2, JumpLands
<1>4. DocsBefore(k) = From(k)
  <2>1. level0 = SkipNodes(Blocks(s))
    BY <1>1, <1>2 DEF OnDisk, level0
  <2> QED
    BY <1>2, <1>3, <2>1, DocsBeforeIs
<1>5. DocFreq = Len(s)
  BY <1>1, <1>2 DEF OnDisk, DocFreq, meta
<1>6. /\ blockIdx' = k - 1 /\ filePos' = PlaceOf(d, k) /\ remaining' = Len(s) - From(k)
      /\ block' = <<>> /\ pos' = 0
  BY <1>1, <1>3, <1>4, <1>5 DEF Jump, PlaceOf, meta, level0
<1>7. ids' = s /\ disk' = d
  BY <1>1 DEF onDisk
<1>8. AtBlock'
  BY <1>3, <1>6, <1>7 DEF AtBlock
<1>9. InBlock' /\ pos' = Len(block')
  BY <1>6 DEF InBlock
<1>10. k - 1 < BlockCount(s)
  BY <1>2, <1>3, DiskFacts
<1> QED
  BY <1>1, <1>3, <1>6, <1>8, <1>9, <1>10

LEMMA SeekToBlockStep ==
  ASSUME IInv, SeekToBlock
  PROVE  IInv' /\ UNCHANGED <<ids, doc, goal>>
<1>1. /\ pc = "scan" /\ Reaching(block, pos + 1, goal) = {}
      /\ pc' = "seek" /\ UNCHANGED <<onDisk, tfs, doc, tf, score, goal>>
  BY DEF SeekToBlock
<1>2. goal \in Docs \cup {End} /\ OnEntry /\ doc < goal
  BY <1>1 DEF IInv, Calls
<1>3. goal \in Nat /\ goal # 0
  BY <1>2, GoalType
<1>4. AscendingDocs(ids)' /\ OnDisk(ids, disk)' /\ UNCHANGED <<onDisk, ids, doc, goal>>
  BY <1>1 DEF IInv, onDisk
<1>5. PICK k : k = Find(level0, level1, goal)
  OBVIOUS
<1>6. \/ k # NotFound /\ Jump(k)
      \/ pos' = Len(block) /\ UNCHANGED <<remaining, blockIdx, filePos, block>>
  BY <1>5 DEF SeekToBlock
<1>7. CASE k # NotFound /\ Jump(k)
  <2>1. /\ AtBlock' /\ InBlock' /\ pos' = Len(block') /\ blockIdx' < BlockCount(ids)
        /\ \A n \in 1 .. Upto(Len(ids), blockIdx') : ids[n] < goal
    BY <1>3, <1>4, <1>5, <1>7, JumpStep
  <2>2. Calls'
    BY <1>1, <1>2, <1>4, <2>1 DEF Calls
  <2> QED
    BY <1>4, <2>1, <2>2 DEF IInv
<1>8. CASE pos' = Len(block) /\ UNCHANGED <<remaining, blockIdx, filePos, block>>
  <2>1. /\ Holds(ids, block, tfs, score, blockIdx) /\ block \in Seq(Nat)
        /\ Len(block) \in Nat \ {0} /\ pos \in 1 .. Len(block) /\ doc = block[pos]
    BY <1>2, EntryIs DEF IInv
  <2>2. PICK s, b, t, c, h, g, q :
          s = ids /\ b = block /\ t = tfs /\ c = score /\ h = blockIdx /\ g = goal /\ q = pos
    OBVIOUS
  <2>3. b[Len(b)] < g
    <3>1. CASE q = Len(b)
      BY <1>2, <2>1, <2>2, <3>1
    <3>2. CASE q # Len(b)
      <4>1. q + 1 \in 1 .. Len(b)
        BY <2>1, <2>2, <3>2
      <4>2. Reaching(b, q + 1, g) = {} /\ g \in Nat /\ b \in Seq(Nat)
        BY <1>1, <1>3, <2>1, <2>2
      <4> QED
        BY <4>1, <4>2, NotReached
    <3> QED
      BY <3>1, <3>2
  <2>4. \A n \in 1 .. Upto(Len(s), h) : s[n] < g
    <3>1. AscendingDocs(s) /\ Holds(s, b, t, c, h) /\ g \in Nat
      BY <1>3, <2>1, <2>2 DEF IInv
    <3> QED
      BY <2>3, <3>1, PassedBlock
  <2>5. AtBlock'
    BY <1>4, <1>8, HeldSame
  <2>6. InBlock'
    <3>1. Holds(ids, block, tfs, score, blockIdx)'
      BY <1>1, <1>4, <1>8, <2>1
    <3>2. pos' \in 0 .. Len(block')
      BY <1>8, <2>1
    <3> QED
      BY <3>1, <3>2 DEF InBlock
  <2>7. Calls'
    <3>1. pc' = "seek" /\ goal' \in Docs \cup {End} /\ pos' = Len(block') /\ block' # <<>>
      BY <1>1, <1>2, <1>4, <1>8 DEF OnEntry
    <3>2. \A n \in 1 .. Upto(Len(ids'), blockIdx') : ids'[n] < goal'
      BY <1>4, <1>8, <2>2, <2>4
    <3> QED
      BY <3>1, <3>2 DEF Calls
  <2> QED
    BY <1>4, <2>5, <2>6, <2>7 DEF IInv
<1> QED
  BY <1>6, <1>7, <1>8

\* A round of seekToBlock reads on, finds the target or the end.
LEMMA SeekRoundStep ==
  ASSUME IInv, SeekRound
  PROVE  /\ IInv' /\ UNCHANGED ids /\ goal # 0
         /\ \/ UNCHANGED <<doc, goal>>
            \/ /\ goal' = 0 /\ doc' = End
               /\ \A n \in 1 .. Upto(Len(ids), BlockCount(ids)) : ids[n] < goal
            \/ /\ goal' = 0 /\ blockIdx' = blockIdx + 1 /\ blockIdx < BlockCount(ids)
               /\ Holds(ids, block', tfs', score', blockIdx')
               /\ \A n \in 1 .. Upto(Len(ids), blockIdx) : ids[n] < goal
               /\ \E i \in 1 .. Len(block') :
                    /\ doc' = block'[i] /\ block'[i] >= goal
                    /\ \A j \in 1 .. i - 1 : block'[j] < goal
<1>1. pc = "seek" /\ UNCHANGED onDisk
  BY DEF SeekRound
<1>2. /\ goal \in Docs \cup {End} /\ pos = Len(block)
      /\ block = <<>> => blockIdx < BlockCount(ids)
      /\ \A n \in 1 .. Upto(Len(ids), blockIdx) : ids[n] < goal
  BY <1>1 DEF IInv, Calls
<1>3. goal \in Nat /\ goal # 0
  BY <1>2, GoalType
<1>4. AscendingDocs(ids)' /\ OnDisk(ids, disk)' /\ ids' = ids
  BY <1>1 DEF IInv, onDisk
<1>5. ASSUME LoadNextBlock
      PROVE  /\ AtBlock' /\ blockIdx' = blockIdx + 1 /\ blockIdx < BlockCount(ids)
             /\ Holds(ids, block', tfs', score', blockIdx')
             /\ block' \in Seq(Nat) /\ Len(block') \in Nat \ {0} /\ block' # <<>>
  <2>1. /\ AtBlock' /\ blockIdx' = blockIdx + 1 /\ blockIdx < BlockCount(ids)
        /\ Holds(ids, block', tfs', score', blockIdx')
    BY <1>1, <1>5, Loaded DEF IInv
  <2>2. PICK s, b, t, c, k : s = ids /\ b = block' /\ t = tfs' /\ c = score' /\ k = blockIdx'
    OBVIOUS
  <2>3. AscendingDocs(s) /\ Holds(s, b, t, c, k)
    BY <2>1, <2>2 DEF IInv
  <2>4. b \in Seq(Nat) /\ Len(b) \in Nat \ {0} /\ b # <<>>
    BY <2>3, HeldBlock
  <2> QED
    BY <2>1, <2>2, <2>4
<1>6. CASE /\ LoadNextBlock /\ Reaching(block', 1, goal) # {}
           /\ StandOn(block', tfs', Min(Reaching(block', 1, goal)))
           /\ goal' = 0 /\ pc' = "idle"
  <2>1. PICK b, g, i : b = block' /\ g = goal /\ i = Min(Reaching(block', 1, goal))
    OBVIOUS
  <2>2. b \in Seq(Nat) /\ g \in Nat /\ 1 \in Nat \ {0} /\ Reaching(b, 1, g) # {} /\ i = Min(Reaching(b, 1, g))
    BY <1>3, <1>5, <1>6, <2>1
  <2>3. i \in 1 .. Len(b) /\ b[i] >= g /\ \A j \in 1 .. i - 1 : b[j] < g
    BY <2>2, LeastReaching
  <2>4. OnEntry' /\ InBlock' /\ doc' = b[i]
    BY <1>1, <1>5, <1>6, <2>1, <2>3, StoodInNew DEF IInv
  <2>5. IInv'
    BY <1>4, <1>5, <1>6, <2>4 DEF IInv, Calls
  <2> QED
    BY <1>2, <1>3, <1>4, <1>5, <1>6, <2>1, <2>3, <2>4, <2>5
<1>7. CASE /\ LoadNextBlock /\ Reaching(block', 1, goal) = {}
           /\ pos' = Len(block') /\ UNCHANGED <<doc, tf, goal, pc>>
  <2>1. PICK s, b, t, c, k, g :
          s = ids /\ b = block' /\ t = tfs' /\ c = score' /\ k = blockIdx' /\ g = goal
    OBVIOUS
  <2>2. AscendingDocs(s) /\ Holds(s, b, t, c, k) /\ g \in Nat
    BY <1>3, <1>5, <1>7, <2>1 DEF IInv
  <2>3. b[Len(b)] < g
    <3>1. b \in Seq(Nat) /\ 1 \in 1 .. Len(b) /\ Reaching(b, 1, g) = {}
      BY <1>5, <1>7, <2>1
    <3> QED
      BY <2>2, <3>1, NotReached
  <2>4. \A n \in 1 .. Upto(Len(s), k) : s[n] < g
    BY <2>2, <2>3, PassedBlock
  <2>5. InBlock'
    <3>1. Holds(ids, block, tfs, score, blockIdx)'
      BY <1>4, <1>5, <1>7
    <3>2. pos' \in 0 .. Len(block')
      BY <1>5, <1>7
    <3> QED
      BY <3>1, <3>2 DEF InBlock
  <2>6. Calls'
    <3>1. pc' = "seek" /\ goal' \in Docs \cup {End} /\ pos' = Len(block') /\ block' # <<>>
      BY <1>1, <1>2, <1>5, <1>7
    <3>2. \A n \in 1 .. Upto(Len(ids'), blockIdx') : ids'[n] < goal'
      BY <1>4, <1>7, <2>1, <2>4
    <3> QED
      BY <3>1, <3>2 DEF Calls
  <2> QED
    BY <1>3, <1>4, <1>5, <1>7, <2>5, <2>6 DEF IInv
<1>8. CASE /\ NoBlockLeft /\ doc' = End /\ goal' = 0 /\ pc' = "idle"
           /\ UNCHANGED <<remaining, blockIdx, filePos, block, tfs, pos, tf, score>>
  <2>1. blockIdx = BlockCount(ids)
    BY <1>8, NoneLeft DEF IInv
  <2>2. AtBlock'
    BY <1>1, <1>8, HeldSame
  <2>3. InBlock'
    BY <1>4, <1>8 DEF IInv, InBlock
  <2>4. block # <<>>
    <3>1. BlockCount(ids) \in Nat
      BY DiskFacts DEF IInv
    <3> QED
      BY <1>2, <2>1, <3>1
  <2>5. AtEnd'
    BY <1>2, <1>4, <1>8, <2>1, <2>4 DEF AtEnd
  <2> QED
    BY <1>2, <1>3, <1>4, <1>8, <2>1, <2>2, <2>3, <2>5 DEF IInv, Calls
<1> QED
  BY <1>6, <1>7, <1>8 DEF SeekRound

LEMMA InvNext == IInv /\ [Next]_vars => IInv'
<1> SUFFICES ASSUME IInv, [Next]_vars PROVE IInv'
  OBVIOUS
<1>1. CASE UNCHANGED vars
  <2>1. UNCHANGED <<onDisk, remaining, blockIdx, filePos, block, tfs, pos, doc, tf, score, goal, pc>>
    BY <1>1 DEF vars
  <2>2. UNCHANGED <<ids, disk>>
    BY <2>1 DEF onDisk
  <2>3. AtBlock' /\ InBlock'
    BY <2>1, <2>2 DEF IInv, AtBlock, InBlock
  <2>4. OnEntry' = OnEntry /\ AtEnd' = AtEnd
    BY <2>1, <2>2 DEF OnEntry, AtEnd
  <2>5. Calls'
    BY <2>1, <2>2, <2>4 DEF IInv, Calls
  <2> QED
    BY <2>2, <2>3, <2>5 DEF IInv
<1> QED
  BY <1>1, NextInBlockStep, NextBlockStep, AdvanceStep, ScanBlockStep, SeekToBlockStep, SeekRoundStep
  DEF Next

-----------------------------------------------------------------------------
(* Between calls *)

\* remaining_, the block index and the file position agree on the next block
\* after every load and jump; the block in memory, its bound and its tf slice are
\* of one index; and nothing that seekToBlock has left behind reaches the target.
THEOREM IteratorInvariant == Spec => []IInv
<1>1. Init => IInv
  BY InitIInv
<1>2. IInv /\ [Next]_vars => IInv'
  BY InvNext
<1> QED
  BY <1>1, <1>2, PTL DEF Spec

\* The entry the iterator stands on, by its place in the list.
LEMMA EntryPlace ==
  ASSUME IInv, OnEntry
  PROVE  \E n \in 1 .. Len(ids) :
           /\ ids[n] = doc /\ tf = Min({n, MaxTfByte})
           /\ score = (n - 1) \div BlockSize + 1 /\ block = BlockDocs(ids, score)
<1>1. PICK s, b, t, c, k, p : s = ids /\ b = block /\ t = tfs /\ c = score /\ k = blockIdx /\ p = pos
  OBVIOUS
<1>2. AscendingDocs(s) /\ Holds(s, b, t, c, k) /\ p \in 1 .. Len(b) /\ doc = b[p] /\ tf = t[p]
  <2>1. Holds(ids, block, tfs, score, blockIdx)
    BY EntryIs DEF IInv
  <2> QED
    BY <1>1, <2>1 DEF IInv, OnEntry
<1>3. /\ k \in 1 .. BlockCount(s) /\ Len(b) \in Nat \ {0} /\ From(k) \in Nat
      /\ Len(b) = Upto(Len(s), k) - From(k) /\ Entered(s, b, t, From(k))
  BY <1>2, HeldBlock
<1>4. PICK f, n : f = From(k) /\ n = f + p
  OBVIOUS
<1>5. /\ n \in 1 .. Len(s) /\ b[p] = s[n] /\ t[p] = Min({n, MaxTfByte})
  BY <1>2, <1>3, <1>4 DEF Entered
<1>6. PICK u : u = Upto(Len(s), k)
  OBVIOUS
<1>7. u \in Nat /\ u <= f + BlockSize
  <2>1. s \in Seq(Nat) /\ s # <<>>
    BY <1>2 DEF AscendingDocs, Ascending
  <2> QED
    BY <1>3, <1>4, <1>6, <2>1, BlockBounds
<1>8. (n - 1) \div BlockSize = k - 1
  <2>1. BlockSize \in Nat \ {0}
    BY CodecAssumption
  <2>2. k - 1 \in Nat
    <3>1. BlockCount(s) \in Nat
      BY <1>2, DiskFacts, <1>1 DEF IInv
    <3> QED
      BY <1>3, <3>1
  <2>3. PICK a \in Nat, j \in Nat : j = k - 1 /\ a = n - 1
    <3>1. n - 1 \in Nat
      BY <1>2, <1>3, <1>4
    <3> QED
      BY <2>2, <3>1
  <2>4. f = j * BlockSize
    BY <1>4, <2>3 DEF From
  <2>5. j * BlockSize <= a /\ a < j * BlockSize + BlockSize
    <3>1. f \in Nat /\ p \in Nat \ {0} /\ f + p <= u
      BY <1>2, <1>3, <1>4, <1>6, <1>7
    <3>2. a = f + (p - 1)
      BY <1>4, <2>3, <3>1
    <3>3. f <= a /\ a < f + BlockSize
      BY <1>7, <2>1, <3>1, <3>2
    <3> QED
      BY <2>4, <3>3
  <2>6. PICK q \in Nat : q = a \div BlockSize /\ BlockSize * q <= a /\ a < BlockSize * q + BlockSize
    BY <2>1, <2>3, DivFacts
  <2>7. BlockSize * q = q * BlockSize /\ q * BlockSize \in Nat /\ j * BlockSize \in Nat
    BY <2>1, <2>3, <2>6
  <2>8. (q + 1) * BlockSize = q * BlockSize + BlockSize /\ (j + 1) * BlockSize = j * BlockSize + BlockSize
    BY <2>1, <2>3, <2>6
  <2>9. ~ (q + 1 <= j)
    <3> SUFFICES ASSUME q + 1 <= j PROVE FALSE
      OBVIOUS
    <3>1. (q + 1) * BlockSize <= j * BlockSize
      BY <2>1, <2>3, <2>6, Product
    <3> QED
      BY <2>1, <2>3, <2>5, <2>6, <2>7, <2>8, <3>1
  <2>10. ~ (j + 1 <= q)
    <3> SUFFICES ASSUME j + 1 <= q PROVE FALSE
      OBVIOUS
    <3>1. (j + 1) * BlockSize <= q * BlockSize
      BY <2>1, <2>3, <2>6, Product
    <3> QED
      BY <2>1, <2>3, <2>5, <2>6, <2>7, <2>8, <3>1
  <2>11. q = j
    BY <2>3, <2>6, <2>9, <2>10
  <2> QED
    BY <2>3, <2>6, <2>11
<1>9. c = (n - 1) \div BlockSize + 1 /\ b = BlockDocs(s, c)
  <2>1. c = k /\ b = BlockDocs(s, k)
    BY <1>2 DEF Holds
  <2>2. BlockCount(s) \in Nat
    BY <1>2, DiskFacts, <1>1 DEF IInv
  <2>3. k - 1 + 1 = k
    BY <1>3, <2>2
  <2> QED
    BY <1>8, <2>1, <2>3
<1> QED
  BY <1>1, <1>2, <1>5, <1>9

\* Between two calls blockMaxScore(), the block and tf() are those of docId(),
\* whether next(), scanBlock or a jump of seekToBlock brought the iterator there.
THEOREM BoundsOfDocHolds == Spec => []BoundsOfDoc
<1>1. IInv => BoundsOfDoc
  <2> SUFFICES ASSUME IInv, pc = "idle", doc # End
               PROVE  \E n \in DOMAIN ids :
                        /\ ids[n] = doc /\ tf = Min({n, MaxTfByte})
                        /\ score = (n - 1) \div BlockSize + 1
                        /\ block = BlockDocs(ids, score)
    BY DEF BoundsOfDoc
  <2>1. OnEntry
    BY DEF IInv, Calls, AtEnd
  <2>2. DOMAIN ids = 1 .. Len(ids)
    BY DEF IInv, AscendingDocs, Ascending
  <2> QED
    BY <2>1, <2>2, EntryPlace
<1> QED
  BY <1>1, IteratorInvariant, PTL

\* PosIterator reads from .pos the list that was written, in the files of a
\* flush and of a merge, and docId() and tf() tell of one of its entries.
THEOREM PositionsOfDocHolds == Spec => []PositionsOfDoc
<1>1. IInv => PositionsOfDoc
  <2> SUFFICES ASSUME IInv, pc = "idle", doc # End
               PROVE  /\ disk.entries = Term(ids).list
                      /\ \E e \in ToSet(disk.entries) : e.id = doc /\ tf = Min({e.tf, MaxTfByte})
    BY DEF PositionsOfDoc
  <2>1. OnEntry
    BY DEF IInv, Calls, AtEnd
  <2>2. PICK n \in 1 .. Len(ids) : ids[n] = doc /\ tf = Min({n, MaxTfByte})
    BY <2>1, EntryPlace
  <2>3. disk.entries = Term(ids).list
    BY DEF IInv, OnDisk
  <2>4. PICK s, list : s = ids /\ list = Term(s).list
    OBVIOUS
  <2>5. /\ GoodList(list) /\ Len(list) = Len(s)
        /\ \A i \in 1 .. Len(s) : list[i].id = s[i] /\ list[i].tf = i
    BY <2>4, TermFacts DEF IInv
  <2>6. list[n] \in ToSet(list)
    <3>1. n \in DOMAIN list
      BY <2>4, <2>5, GoodListFacts
    <3> QED
      BY <3>1 DEF ToSet
  <2>7. list[n].id = doc /\ tf = Min({list[n].tf, MaxTfByte})
    BY <2>2, <2>4, <2>5
  <2> QED
    BY <2>3, <2>4, <2>6, <2>7
<1> QED
  BY <1>1, IteratorInvariant, PTL

-----------------------------------------------------------------------------
(* The refinement *)

First(S, t) == Cursor!FirstFrom(S, t)

LEMMA FirstIs ==
  ASSUME NEW s, Ascending(s), NEW t \in Nat, NEW n \in 1 .. Len(s), s[n] >= t,
         \A m \in 1 .. n - 1 : s[m] < t
  PROVE  First(ToSet(s), t) = s[n]
<1> DEFINE S == ToSet(s)
<1>1. s \in Seq(Nat) /\ \A i, j \in 1 .. Len(s) : i < j => s[i] < s[j]
  BY DEF Ascending
<1>2. \A x : x \in S <=> \E i \in 1 .. Len(s) : x = s[i]
  BY <1>1 DEF ToSet
<1>3. First(S, t) = IF \A x \in S : x < t THEN End
                    ELSE CHOOSE x \in S : x >= t /\ \A e \in S : e >= t => x <= e
  BY DEF First, Cursor!FirstFrom
<1> HIDE DEF S
<1>4. s[n] \in S /\ s[n] \in Nat
  BY <1>1, <1>2
<1>5. ~ \A x \in S : x < t
  BY <1>4
<1>6. ASSUME NEW e \in S, e >= t PROVE s[n] <= e
  <2>1. PICK m \in 1 .. Len(s) : e = s[m]
    BY <1>2
  <2>2. m \in Nat /\ n \in Nat /\ s[m] \in Nat
    BY <1>1
  <2>3. ~ (m < n)
    <3> SUFFICES ASSUME m < n PROVE FALSE
      OBVIOUS
    <3>1. m \in 1 .. n - 1
      BY <2>2
    <3>2. s[m] < t
      BY <3>1
    <3> QED
      BY <1>6, <2>1, <2>2, <3>2
  <2>4. CASE m = n
    BY <1>4, <2>1, <2>4
  <2>5. CASE n < m
    <3>1. s[n] < s[m]
      BY <1>1, <2>5
    <3> QED
      BY <1>4, <2>1, <2>2, <3>1
  <2> QED
    BY <2>2, <2>3, <2>4, <2>5
<1>7. PICK x \in S : x = First(S, t) /\ x >= t /\ \A e \in S : e >= t => x <= e
  <2>1. \E x \in S : x >= t /\ \A e \in S : e >= t => x <= e
    BY <1>4, <1>6
  <2> QED
    BY <1>3, <1>5, <2>1
<1>8. x <= s[n] /\ s[n] <= x /\ x \in Nat
  <2>1. x \in Nat
    BY <1>1, <1>2
  <2> QED
    BY <1>4, <1>6, <1>7, <2>1
<1>9. First(S, t) = s[n]
  BY <1>4, <1>7, <1>8
<1> QED
  BY <1>9 DEF S

LEMMA FirstIsEnd ==
  ASSUME NEW s, Ascending(s), NEW t \in Nat, \A n \in 1 .. Len(s) : s[n] < t
  PROVE  First(ToSet(s), t) = End
<1>1. \A x \in ToSet(s) : x < t
  BY DEF Ascending, ToSet
<1> QED
  BY <1>1 DEF First, Cursor!FirstFrom

\* The first entry of a block that reaches the target is the first of the list
\* when no block before it has one.
LEMMA FirstInBlock ==
  ASSUME NEW s, AscendingDocs(s), NEW b, NEW t, NEW c, NEW k, Holds(s, b, t, c, k),
         NEW g \in Nat, NEW i \in 1 .. Len(b), b[i] >= g,
         \A j \in 1 .. i - 1 : b[j] < g, \A n \in 1 .. From(k) : s[n] < g
  PROVE  First(ToSet(s), g) = b[i]
<1>1. PICK f : f = From(k)
  OBVIOUS
<1>2. f \in Nat /\ Len(b) \in Nat \ {0} /\ Entered(s, b, t, f)
  BY <1>1, HeldBlock
<1>3. \A j \in 1 .. Len(b) : f + j \in 1 .. Len(s) /\ b[j] = s[f + j]
  BY <1>2 DEF Entered
<1>4. PICK n \in 1 .. Len(s) : n = f + i
  BY <1>3
<1>5. s[n] = b[i]
  BY <1>3, <1>4
<1>6. ASSUME NEW m \in 1 .. n - 1 PROVE s[m] < g
  <2>1. m \in Nat \ {0} /\ m < f + i
    BY <1>2, <1>4
  <2>2. CASE m <= f
    BY <1>1, <1>2, <2>1, <2>2
  <2>3. CASE f < m
    <3>1. PICK j \in 1 .. i - 1 : f + j = m
      <4>1. m - f \in 1 .. i - 1 /\ f + (m - f) = m
        BY <1>2, <2>1, <2>3
      <4> QED
        BY <4>1
    <3>2. j \in 1 .. Len(b) /\ b[j] < g
      BY <1>2, <3>1
    <3> QED
      BY <1>3, <3>1, <3>2
  <2> QED
    BY <1>2, <2>1, <2>2, <2>3
<1>7. Ascending(s)
  BY DEF AscendingDocs
<1> QED
  BY <1>4, <1>5, <1>6, <1>7, FirstIs

\* The constructor leaves the iterator on the first document.
LEMMA CursorInitially == Init => Cursor!CursorInit
<1> SUFFICES ASSUME Init PROVE Cursor!CursorInit
  OBVIOUS
<1>1. IInv
  BY InitIInv
<1>2. goal = 0 /\ pc = "idle" /\ pos = 1 /\ blockIdx = 1 /\ doc = block[1]
  BY DEF Init
<1>3. InBlock /\ AscendingDocs(ids)
  BY <1>1 DEF IInv
<1>4. PICK s, b, t, c, k : s = ids /\ b = block /\ t = tfs /\ c = score /\ k = blockIdx
  OBVIOUS
<1>5. b # <<>>
  BY <1>1, <1>2, <1>4 DEF IInv, Calls, OnEntry, AtEnd
<1>6. AscendingDocs(s) /\ Holds(s, b, t, c, k) /\ k = 1
  BY <1>2, <1>3, <1>4, <1>5 DEF InBlock
<1>7. b \in Seq(Nat) /\ Len(b) \in Nat \ {0}
  BY <1>6, HeldBlock
<1>8. From(k) = 0
  <2>1. k - 1 = 0 /\ BlockSize \in Nat
    BY <1>6, CodecAssumption
  <2>2. From(k) = 0 * BlockSize
    BY <2>1 DEF From
  <2> QED
    BY <2>1, <2>2
<1>9. PICK i, g \in Nat : i = 1 /\ g = 0
  OBVIOUS
<1>10. i \in 1 .. Len(b) /\ b[i] >= g
  BY <1>7, <1>9
<1>11. \A j \in 1 .. i - 1 : b[j] < g
  BY <1>9
<1>12. \A n \in 1 .. From(k) : s[n] < g
  BY <1>8
<1>13. First(ToSet(s), g) = b[i]
  BY <1>6, <1>10, <1>11, <1>12, FirstInBlock
<1>14. doc = First(ToSet(ids), 0)
  BY <1>2, <1>4, <1>9, <1>13
<1> QED
  BY <1>2, <1>14 DEF Cursor!CursorInit, Cursor!NoGoal, First

\* The next document of the list, in the same block or in the next.
LEMMA NextIsFirst ==
  ASSUME NEW s, AscendingDocs(s), NEW b, NEW t, NEW c, NEW k, Holds(s, b, t, c, k),
         NEW x \in Nat, NEW i \in 1 .. Len(b), x < b[i],
         \A j \in 1 .. i - 1 : b[j] <= x, \A n \in 1 .. From(k) : s[n] <= x,
         NEW g, g = x + 1
  PROVE  First(ToSet(s), g) = b[i]
<1>1. g = x + 1 /\ g \in Nat
  OBVIOUS
<1>2. b \in Seq(Nat) /\ Len(b) \in Nat /\ From(k) \in Nat /\ Entered(s, b, t, From(k))
  BY HeldBlock
<1>3. b[i] >= g
  BY <1>1, <1>2
<1>4. \A j \in 1 .. i - 1 : b[j] < g
  <2>1. \A j \in 1 .. i - 1 : j \in 1 .. Len(b) /\ b[j] \in Nat
    BY <1>2
  <2> QED
    BY <1>1, <2>1
<1>5. \A n \in 1 .. From(k) : s[n] < g
  <2>1. s \in Seq(Nat)
    BY DEF AscendingDocs, Ascending
  <2>2. PICK f \in Nat : f = From(k)
    BY <1>2
  <2>3. f + i \in 1 .. Len(s) /\ Len(s) \in Nat
    <3>1. Entered(s, b, t, f)
      BY <1>2, <2>2
    <3>2. \A j \in 1 .. Len(b) : f + j \in 1 .. Len(s)
      BY <3>1 DEF Entered
    <3> QED
      BY <2>1, <3>2
  <2>4. \A n \in 1 .. f : n \in 1 .. Len(s)
    BY <2>2, <2>3
  <2>5. \A n \in 1 .. From(k) : s[n] \in Nat
    BY <2>1, <2>2, <2>4
  <2> QED
    BY <1>1, <2>5
<1> QED
  BY <1>1, <1>3, <1>4, <1>5, FirstInBlock

LEMMA CursorNextInBlock ==
  ASSUME IInv, NextInBlock
  PROVE  Cursor!CursorNext
<1>1. OnEntry /\ pos + 1 \in 1 .. Len(block) /\ doc' = block[pos + 1]
  BY NextInBlockStep
<1>2. goal = 0 /\ UNCHANGED <<ids, goal>>
  BY DEF NextInBlock, IInv, Calls, onDisk
<1>3. PICK s, b, t, c, k, p, x :
        s = ids /\ b = block /\ t = tfs /\ c = score /\ k = blockIdx /\ p = pos /\ x = doc
  OBVIOUS
<1>4. /\ Holds(s, b, t, c, k) /\ b \in Seq(Nat) /\ Len(b) \in Nat \ {0}
      /\ p \in 1 .. Len(b) /\ x = b[p] /\ x \in Nat
      /\ \A n \in 1 .. From(k) + p : n \in 1 .. Len(s) /\ s[n] <= x
  BY <1>1, <1>3, EntryIs DEF IInv
<1>5. AscendingDocs(s) /\ From(k) \in Nat /\ Entered(s, b, t, From(k))
  BY <1>3, <1>4, HeldBlock DEF IInv
<1>6. PICK f : f = From(k)
  OBVIOUS
<1>7. f \in Nat /\ \A j \in 1 .. Len(b) : f + j \in 1 .. Len(s) /\ b[j] = s[f + j]
  BY <1>5, <1>6 DEF Entered
<1>8. PICK i \in 1 .. Len(b) : i = p + 1
  BY <1>1, <1>3
<1>9. x < b[i]
  <2>1. f + p \in 1 .. Len(s) /\ f + i \in 1 .. Len(s) /\ f + p < f + i
    BY <1>4, <1>7, <1>8
  <2>2. s[f + p] < s[f + i]
    BY <1>5, <2>1 DEF AscendingDocs, Ascending
  <2> QED
    BY <1>4, <1>7, <2>2
<1>10. \A j \in 1 .. i - 1 : b[j] <= x
  <2>1. ASSUME NEW j \in 1 .. i - 1 PROVE b[j] <= x
    <3>1. j \in 1 .. Len(b) /\ f + j \in 1 .. f + p
      BY <1>4, <1>7, <1>8
    <3>2. s[f + j] <= x
      BY <1>4, <1>6, <3>1
    <3> QED
      BY <1>7, <3>1, <3>2
  <2> QED
    BY <2>1
<1>11. \A n \in 1 .. From(k) : s[n] <= x
  <2>1. \A n \in 1 .. f : n \in 1 .. f + p
    BY <1>4, <1>7
  <2> QED
    BY <1>4, <1>6, <2>1
<1>12. First(ToSet(s), x + 1) = b[i]
  <2>1. PICK g : g = x + 1
    OBVIOUS
  <2>2. First(ToSet(s), g) = b[i]
    <3>1. AscendingDocs(s) /\ Holds(s, b, t, c, k) /\ x \in Nat
      BY <1>4, <1>5
    <3> QED
      BY <1>9, <1>10, <1>11, <2>1, <3>1, NextIsFirst
  <2> QED
    BY <2>1, <2>2
<1>13. doc' = First(ToSet(ids), doc + 1)
  BY <1>1, <1>3, <1>8, <1>12
<1>14. doc # End
  <2>1. x \in Docs
    <3>1. \A n \in 1 .. Len(s) : s[n] \in Docs
      BY <1>5 DEF AscendingDocs
    <3>2. f + p \in 1 .. Len(s) /\ x = s[f + p]
      BY <1>4, <1>7
    <3> QED
      BY <3>1, <3>2
  <2> QED
    BY <1>3, <2>1, IteratorAssumption DEF Docs, End
<1> QED
  BY <1>2, <1>13, <1>14 DEF Cursor!CursorNext, Cursor!NoGoal, First

\* The documents up to the k-th block and those from its successor on.
LEMMA BlockEnds ==
  ASSUME NEW s, AscendingDocs(s), NEW k \in 0 .. BlockCount(s)
  PROVE  /\ k < BlockCount(s) => From(k + 1) = Upto(Len(s), k)
         /\ k = BlockCount(s) => Upto(Len(s), k) = Len(s)
BY UptoFacts

LEMMA CursorNextBlock ==
  ASSUME IInv, NextBlock
  PROVE  Cursor!CursorNext
<1>1. goal = 0 /\ UNCHANGED <<ids, goal>>
  BY DEF NextBlock, IInv, Calls, onDisk
<1>2. AscendingDocs(ids) /\ InBlock
  BY DEF IInv
<1>3. ASSUME OnEntry, pos = Len(block)
      PROVE  /\ doc \in Nat /\ doc # End /\ blockIdx \in 1 .. BlockCount(ids)
             /\ \A n \in 1 .. Upto(Len(ids), blockIdx) : ids[n] <= doc
             /\ Upto(Len(ids), blockIdx) \in 1 .. Len(ids) /\ doc = ids[Upto(Len(ids), blockIdx)]
  <2>1. PICK s, b, t, c, k, x : s = ids /\ b = block /\ t = tfs /\ c = score /\ k = blockIdx /\ x = doc
    OBVIOUS
  <2>2. AscendingDocs(s) /\ Holds(s, b, t, c, k) /\ x \in Nat /\ b # <<>> /\ x = b[Len(b)]
    BY <1>2, <1>3, <2>1, EntryIs DEF OnEntry
  <2>3. k \in 1 .. BlockCount(s) /\ b = BlockDocs(s, k)
    BY <2>2 DEF Holds
  <2>4. b[Len(b)] = s[Upto(Len(s), k)] /\ \A n \in 1 .. Upto(Len(s), k) : s[n] <= b[Len(b)]
    BY <2>2, <2>3, LastOfBlock
  <2>5. PICK u : u = Upto(Len(s), k)
    OBVIOUS
  <2>6. u \in 1 .. Len(s)
    <3>1. s \in Seq(Nat) /\ s # <<>>
      BY <2>2 DEF AscendingDocs, Ascending
    <3>2. u \in Nat /\ From(k) \in Nat /\ From(k) < u /\ u <= Len(s)
      BY <2>3, <2>5, <3>1, BlockBounds
    <3> QED
      BY <3>1, <3>2
  <2>7. s[u] \in Docs
    BY <2>2, <2>6 DEF AscendingDocs
  <2>8. x # End
    BY <2>2, <2>4, <2>5, <2>7, IteratorAssumption DEF Docs, End
  <2> QED
    BY <2>1, <2>2, <2>3, <2>4, <2>5, <2>6, <2>8
<1>4. CASE /\ OnEntry /\ pos = Len(block) /\ blockIdx < BlockCount(ids) /\ blockIdx' = blockIdx + 1
           /\ Holds(ids, block', tfs', score', blockIdx') /\ doc' = block'[1]
  <2>1. PICK s, b, t, c, k, h, x :
          s = ids /\ b = block' /\ t = tfs' /\ c = score' /\ k = blockIdx' /\ h = blockIdx /\ x = doc
    OBVIOUS
  <2>2. AscendingDocs(s) /\ Holds(s, b, t, c, k) /\ k = h + 1 /\ h < BlockCount(s)
    BY <1>2, <1>4, <2>1
  <2>3. /\ x \in Nat /\ x # End /\ h \in 1 .. BlockCount(s)
        /\ \A n \in 1 .. Upto(Len(s), h) : s[n] <= x
        /\ Upto(Len(s), h) \in 1 .. Len(s) /\ x = s[Upto(Len(s), h)]
    BY <1>3, <1>4, <2>1
  <2>4. From(k) = Upto(Len(s), h)
    <3>1. h \in 0 .. BlockCount(s)
      <4>1. BlockCount(s) \in Nat
        BY <2>1, DiskFacts DEF IInv
      <4> QED
        BY <2>3, <4>1
    <3> QED
      BY <2>2, <3>1, BlockEnds
  <2>5. PICK f : f = From(k)
    OBVIOUS
  <2>6. Len(b) \in Nat \ {0} /\ f \in Nat /\ \A j \in 1 .. Len(b) : f + j \in 1 .. Len(s) /\ b[j] = s[f + j]
    <3>1. Len(b) \in Nat \ {0} /\ f \in Nat /\ Entered(s, b, t, f)
      BY <2>2, <2>5, HeldBlock
    <3> QED
      BY <3>1 DEF Entered
  <2>7. PICK i \in 1 .. Len(b) : i = 1
    BY <2>6
  <2>8. x < b[i]
    <3>1. f + i \in 1 .. Len(s) /\ f \in 1 .. Len(s) /\ f < f + i
      BY <2>3, <2>4, <2>5, <2>6, <2>7
    <3>2. s[f] < s[f + i]
      BY <2>2, <3>1 DEF AscendingDocs, Ascending
    <3> QED
      BY <2>3, <2>4, <2>5, <2>6, <3>2
  <2>9. \A j \in 1 .. i - 1 : b[j] <= x
    BY <2>7
  <2>10. \A n \in 1 .. From(k) : s[n] <= x
    BY <2>3, <2>4
  <2>11. PICK g : g = x + 1
    OBVIOUS
  <2>12. First(ToSet(s), g) = b[i]
    <3>1. AscendingDocs(s) /\ Holds(s, b, t, c, k) /\ x \in Nat
      BY <2>2, <2>3
    <3> QED
      BY <2>8, <2>9, <2>10, <2>11, <3>1, NextIsFirst
  <2>13. doc # End /\ doc' = First(ToSet(ids), doc + 1)
    BY <1>4, <2>1, <2>3, <2>7, <2>11, <2>12
  <2> QED
    BY <1>1, <2>13 DEF Cursor!CursorNext, Cursor!NoGoal, First
<1>5. CASE doc = End /\ doc' = End
  BY <1>1, <1>5 DEF Cursor!CursorNext, Cursor!NoGoal
<1>6. CASE OnEntry /\ pos = Len(block) /\ blockIdx = BlockCount(ids) /\ doc' = End
  <2>1. PICK s, h, x, g : s = ids /\ h = blockIdx /\ x = doc /\ g = x + 1
    OBVIOUS
  <2>2. /\ x \in Nat /\ x # End /\ h \in 1 .. BlockCount(s) /\ h = BlockCount(s)
        /\ \A n \in 1 .. Upto(Len(s), h) : s[n] <= x
    BY <1>3, <1>6, <2>1
  <2>3. Upto(Len(s), h) = Len(s)
    <3>1. h \in 0 .. BlockCount(s)
      <4>1. BlockCount(s) \in Nat
        BY <2>1, DiskFacts DEF IInv
      <4> QED
        BY <2>2, <4>1
    <3> QED
      BY <1>2, <2>1, <2>2, <3>1, BlockEnds
  <2>4. Ascending(s)
    BY <1>2, <2>1 DEF AscendingDocs
  <2>5. g \in Nat /\ \A n \in 1 .. Len(s) : s[n] < g
    <3>1. \A n \in 1 .. Len(s) : s[n] \in Nat /\ s[n] <= x
      BY <2>2, <2>3, <2>4 DEF Ascending
    <3> QED
      BY <2>1, <2>2, <3>1
  <2>6. First(ToSet(s), g) = End
    BY <2>4, <2>5, FirstIsEnd
  <2>7. doc # End /\ doc' = First(ToSet(ids), doc + 1)
    BY <1>6, <2>1, <2>2, <2>6
  <2> QED
    BY <1>1, <2>7 DEF Cursor!CursorNext, Cursor!NoGoal, First
<1> QED
  BY <1>4, <1>5, <1>6, NextBlockStep

LEMMA CursorAdvance ==
  ASSUME IInv, NEW t \in Docs \cup {End}, Advance(t)
  PROVE  Cursor!CallAdvance
<1>1. goal = 0 /\ goal' = t /\ doc < t /\ UNCHANGED <<ids, doc>>
  BY AdvanceStep DEF Advance, onDisk
<1>2. t \in Nat
  BY GoalType
<1> QED
  BY <1>1, <1>2 DEF Cursor!CallAdvance, Cursor!NoGoal

LEMMA CursorScan ==
  ASSUME IInv, ScanBlock
  PROVE  Cursor!Return
<1>1. goal # 0 /\ goal' = 0 /\ OnEntry /\ doc < goal
  BY ScanBlockStep
<1>2. PICK i \in pos + 1 .. Len(block) :
        /\ doc' = block[i] /\ block[i] >= goal
        /\ \A j \in pos + 1 .. i - 1 : block[j] < goal
  BY ScanBlockStep
<1>3. UNCHANGED ids /\ goal \in Nat
  <2>1. goal \in Docs \cup {End}
    BY DEF ScanBlock, IInv, Calls
  <2> QED
    BY <2>1, GoalType DEF ScanBlock, onDisk
<1>4. PICK s, b, t, c, k, p, x, g :
        /\ s = ids /\ b = block /\ t = tfs /\ c = score /\ k = blockIdx /\ p = pos /\ x = doc
        /\ g = goal
  OBVIOUS
<1>5. /\ Holds(s, b, t, c, k) /\ b \in Seq(Nat) /\ Len(b) \in Nat \ {0}
      /\ p \in 1 .. Len(b) /\ x = b[p] /\ x \in Nat
      /\ \A n \in 1 .. From(k) + p : n \in 1 .. Len(s) /\ s[n] <= x
  BY <1>1, <1>4, EntryIs DEF IInv
<1>6. PICK f : f = From(k)
  OBVIOUS
<1>7. AscendingDocs(s) /\ f \in Nat /\ Entered(s, b, t, f)
  BY <1>4, <1>5, <1>6, HeldBlock DEF IInv
<1>8. \A j \in 1 .. Len(b) : f + j \in 1 .. Len(s) /\ b[j] = s[f + j]
  BY <1>7 DEF Entered
<1>9. \A n \in 1 .. f + p : s[n] < g
  <2>1. ASSUME NEW n \in 1 .. f + p PROVE s[n] < g
    <3>1. n \in 1 .. Len(s) /\ s[n] <= x
      BY <1>5, <1>6, <2>1
    <3>2. s[n] \in Nat
      BY <1>7, <3>1 DEF AscendingDocs, Ascending
    <3> QED
      BY <1>1, <1>3, <1>4, <1>5, <3>1, <3>2
  <2> QED
    BY <2>1
<1>10. i \in 1 .. Len(b) /\ b[i] >= g
  BY <1>2, <1>4, <1>5
<1>11. \A j \in 1 .. i - 1 : b[j] < g
  <2>1. ASSUME NEW j \in 1 .. i - 1 PROVE b[j] < g
    <3>1. CASE j <= p
      <4>1. j \in 1 .. Len(b) /\ f + j \in 1 .. f + p
        BY <1>5, <1>7, <2>1, <3>1
      <4> QED
        BY <1>8, <1>9, <4>1
    <3>2. CASE j > p
      <4>1. j \in p + 1 .. i - 1
        BY <1>5, <2>1, <3>2
      <4> QED
        BY <1>2, <1>4, <4>1
    <3> QED
      BY <1>5, <2>1, <3>1, <3>2
  <2> QED
    BY <2>1
<1>12. \A n \in 1 .. From(k) : s[n] < g
  <2>1. \A n \in 1 .. f : n \in 1 .. f + p
    BY <1>5, <1>7
  <2> QED
    BY <1>6, <1>9, <2>1
<1>13. First(ToSet(s), g) = b[i]
  <2>1. AscendingDocs(s) /\ Holds(s, b, t, c, k) /\ g \in Nat
    BY <1>3, <1>4, <1>5, <1>7
  <2> QED
    BY <1>10, <1>11, <1>12, <2>1, FirstInBlock
<1>14. doc' = First(ToSet(ids), goal)
  BY <1>2, <1>4, <1>13
<1> QED
  BY <1>1, <1>3, <1>14 DEF Cursor!Return, Cursor!NoGoal, First

LEMMA CursorRound ==
  ASSUME IInv, SeekRound
  PROVE  Cursor!Return \/ UNCHANGED <<ids, doc, goal>>
<1>1. UNCHANGED ids /\ goal # 0 /\ goal \in Nat
  <2>1. goal \in Docs \cup {End}
    BY DEF SeekRound, IInv, Calls
  <2> QED
    BY <2>1, GoalType, SeekRoundStep
<1>2. AscendingDocs(ids)
  BY DEF IInv
<1>3. CASE /\ goal' = 0 /\ doc' = End
           /\ \A n \in 1 .. Upto(Len(ids), BlockCount(ids)) : ids[n] < goal
  <2>1. PICK s, g, h : s = ids /\ g = goal /\ h = BlockCount(s)
    OBVIOUS
  <2>2. Upto(Len(s), h) = Len(s)
    <3>1. h \in 0 .. BlockCount(s)
      <4>1. BlockCount(s) \in Nat
        BY <2>1, DiskFacts DEF IInv
      <4> QED
        BY <2>1, <4>1
    <3> QED
      BY <1>2, <2>1, <3>1, BlockEnds
  <2>3. Ascending(s) /\ g \in Nat /\ \A n \in 1 .. Len(s) : s[n] < g
    BY <1>1, <1>2, <1>3, <2>1, <2>2 DEF AscendingDocs
  <2>4. First(ToSet(s), g) = End
    BY <2>3, FirstIsEnd
  <2> QED
    BY <1>1, <1>3, <2>1, <2>4 DEF Cursor!Return, Cursor!NoGoal, First
<1>4. CASE /\ goal' = 0 /\ blockIdx' = blockIdx + 1 /\ blockIdx < BlockCount(ids)
           /\ Holds(ids, block', tfs', score', blockIdx')
           /\ \A n \in 1 .. Upto(Len(ids), blockIdx) : ids[n] < goal
           /\ \E i \in 1 .. Len(block') :
                /\ doc' = block'[i] /\ block'[i] >= goal
                /\ \A j \in 1 .. i - 1 : block'[j] < goal
  <2>1. PICK s, b, t, c, k, h, g :
          s = ids /\ b = block' /\ t = tfs' /\ c = score' /\ k = blockIdx' /\ h = blockIdx /\ g = goal
    OBVIOUS
  <2>2. /\ AscendingDocs(s) /\ Holds(s, b, t, c, k) /\ k = h + 1 /\ h < BlockCount(s)
        /\ g \in Nat /\ \A n \in 1 .. Upto(Len(s), h) : s[n] < g
    BY <1>1, <1>2, <1>4, <2>1
  <2>3. PICK i \in 1 .. Len(b) : doc' = b[i] /\ b[i] >= g /\ \A j \in 1 .. i - 1 : b[j] < g
    BY <1>4, <2>1
  <2>4. From(k) = Upto(Len(s), h)
    <3>1. h \in 0 .. BlockCount(s)
      BY <2>1 DEF IInv, AtBlock, After
    <3> QED
      BY <2>2, <3>1, BlockEnds
  <2>5. \A n \in 1 .. From(k) : s[n] < g
    BY <2>2, <2>4
  <2>6. First(ToSet(s), g) = b[i]
    BY <2>2, <2>3, <2>5, FirstInBlock
  <2> QED
    BY <1>1, <1>4, <2>1, <2>3, <2>6 DEF Cursor!Return, Cursor!NoGoal, First
<1> QED
  BY <1>1, <1>3, <1>4, SeekRoundStep

\* Whatever the calls, in blocks of any size and under a skip list of any
\* interval: the lazy iterator over the files is a cursor on the sorted list.
THEOREM IsCursorHolds == Spec => IsCursor
<1>1. Init => Cursor!CursorInit
  BY CursorInitially
<1>2. IInv /\ [Next]_vars => [Cursor!Next]_(Cursor!cursorVars)
  <2> SUFFICES ASSUME IInv, [Next]_vars
               PROVE  Cursor!Next \/ UNCHANGED <<ids, doc, goal>>
    BY DEF Cursor!cursorVars
  <2>1. CASE UNCHANGED vars
    BY <2>1 DEF vars, onDisk
  <2>2. CASE NextInBlock
    BY <2>2, CursorNextInBlock DEF Cursor!Next
  <2>3. CASE NextBlock
    BY <2>3, CursorNextBlock DEF Cursor!Next
  <2>4. ASSUME NEW t \in Docs \cup {End}, Advance(t) PROVE Cursor!Next
    BY <2>4, CursorAdvance DEF Cursor!Next
  <2>5. CASE ScanBlock
    BY <2>5, CursorScan DEF Cursor!Next
  <2>6. CASE SeekToBlock
    BY <2>6, SeekToBlockStep
  <2>7. CASE SeekRound
    BY <2>7, CursorRound DEF Cursor!Next
  <2> QED
    BY <2>1, <2>2, <2>3, <2>4, <2>5, <2>6, <2>7 DEF Next
<1> QED
  BY <1>1, <1>2, IteratorInvariant, PTL DEF Spec, IsCursor, Cursor!Spec
=============================================================================
