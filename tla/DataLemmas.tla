------------------------------ MODULE DataLemmas ------------------------------
(***************************************************************************)
(* Facts about natural numbers and finite sets that the proofs of several  *)
(* modules need.  Where an induction is needed it is by least              *)
(* counterexample: LeastElement takes a set, not an operator.              *)
(***************************************************************************)
EXTENDS Integers, Sequences, FiniteSets, FiniteSetTheorems, WellFoundedInduction,
        Ordered, TLAPS

\* A nonempty set of natural numbers has a least element.
LEMMA LeastElement ==
  ASSUME NEW S \in SUBSET Nat, S # {}
  PROVE  \E p \in S : \A q \in S : p <= q
<1>1. PICK p \in S : \A q \in S : ~ (<<q, p>> \in OpToRel(<, Nat))
  BY NatLessThanWellFounded, WFMin, Zenon
<1>2. \A q \in S : <<q, p>> \in Nat \X Nat /\ <<q, p>>[1] = q /\ <<q, p>>[2] = p
  OBVIOUS
<1>3. \A q \in S : ~ (q < p)
  BY <1>1, <1>2 DEF OpToRel
<1> QED
  BY <1>3

\* A nonempty set of natural numbers with a bound has a greatest element.
LEMMA GreatestElement ==
  ASSUME NEW S \in SUBSET Nat, S # {}, NEW n \in Nat, \A q \in S : q <= n
  PROVE  \E p \in S : \A q \in S : q <= p
<1> DEFINE U == {m \in Nat : \A q \in S : q <= m}
<1>1. PICK m \in U : \A k \in U : m <= k
  <2>1. n \in U /\ U \in SUBSET Nat
    OBVIOUS
  <2> QED
    BY <2>1, LeastElement
<1>2. m \in S
  <2> SUFFICES ASSUME m \notin S PROVE FALSE
    OBVIOUS
  <2>1. \A q \in S : q <= m - 1 /\ q \in Nat
    OBVIOUS
  <2>2. m - 1 \in Nat
    <3>1. PICK q \in S : TRUE
      OBVIOUS
    <3>2. m \in Nat /\ q \in Nat /\ q <= m - 1
      BY <2>1
    <3> QED
      BY <3>2
  <2>3. m - 1 \in U
    BY <2>1, <2>2
  <2> QED
    BY <1>1, <2>3
<1> QED
  BY <1>1, <1>2

\* What holds of 0, and of n + 1 when it holds of n, holds of all up to N.
LEMMA AllUpTo ==
  ASSUME NEW N \in Nat, NEW S, 0 \in S, \A n \in 0 .. N : n < N /\ n \in S => n + 1 \in S
  PROVE  \A n \in 0 .. N : n \in S
<1> DEFINE Bad == {n \in 0 .. N : n \notin S}
<1> SUFFICES ASSUME Bad # {} PROVE FALSE
  OBVIOUS
<1>1. PICK n \in Bad : \A m \in Bad : n <= m
  <2>1. Bad \in SUBSET Nat
    OBVIOUS
  <2> QED
    BY <2>1, LeastElement
<1>2. n \in 0 .. N /\ n # 0 /\ n \notin S
  OBVIOUS
<1>3. n - 1 \in 0 .. N /\ n - 1 < N /\ ~ (n <= n - 1) /\ (n - 1) + 1 = n
  BY <1>2
<1>4. n - 1 \in S
  BY <1>1, <1>3
<1> QED
  BY <1>2, <1>3, <1>4

\* A nonempty collection of subsets of a finite set has a minimal one.
LEMMA MinimalSubset ==
  ASSUME NEW S, IsFiniteSet(S), NEW B \in SUBSET (SUBSET S), B # {}
  PROVE  \E T \in B : \A U \in SUBSET T : U # T => U \notin B
<1>1. \A T \in SUBSET S : IsFiniteSet(T) /\ Cardinality(T) \in Nat
  BY FS_Subset, FS_CardinalityType
<1> DEFINE N == {n \in Nat : \E T \in B : Cardinality(T) = n}
<1>2. PICK n \in N : \A m \in N : n <= m
  <2>1. N \in SUBSET Nat /\ N # {}
    BY <1>1
  <2> QED
    BY <2>1, LeastElement
<1>3. PICK T \in B : Cardinality(T) = n
  OBVIOUS
<1>4. ASSUME NEW U \in SUBSET T, U # T, U \in B PROVE FALSE
  <2>1. IsFiniteSet(T) /\ Cardinality(U) \in Nat /\ Cardinality(T) \in Nat
    BY <1>1
  <2>2. Cardinality(U) <= Cardinality(T) /\ Cardinality(U) # Cardinality(T)
    BY <1>4, <2>1, FS_Subset
  <2>3. Cardinality(U) \in N
    BY <1>4, <2>1
  <2> QED
    BY <1>2, <1>3, <2>1, <2>2, <2>3
<1> QED
  BY <1>3, <1>4

\* A quotient and its remainder.
LEMMA DivFacts ==
  ASSUME NEW a \in Nat, NEW n \in Nat \ {0}
  PROVE  /\ a \div n \in Nat /\ a % n \in 0 .. n - 1
         /\ n * (a \div n) + (a % n) = a
         /\ n * (a \div n) <= a /\ a < n * (a \div n) + n
<1>1. a \div n \in Nat
  BY Z3T(20)
<1>2. a % n \in 0 .. n - 1
  OBVIOUS
<1>3. a = n * (a \div n) + (a % n)
  OBVIOUS
<1>4. n * (a \div n) <= a /\ a < n * (a \div n) + n
  BY SMTT(20)
<1> QED
  BY <1>1, <1>2, <1>3, <1>4

\* How many pages a sequence of length m takes, per elements each.
LEMMA PagesOfChain ==
  ASSUME NEW m \in Nat, NEW per \in Nat \ {0}
  PROVE  LET n == (m + per - 1) \div per
         IN  /\ n \in Nat /\ m <= n * per
             /\ n = 0 <=> m = 0
             /\ \A k \in 1 .. n : (k - 1) * per \in Nat /\ (k - 1) * per < m
<1> DEFINE q == m + per - 1
           n == q \div per
<1>1. q \in Nat /\ per \in Nat \ {0}
  OBVIOUS
<1>2. n \in Nat /\ per * n <= q /\ q < per * n + per
  BY <1>1, DivFacts
<1>3. q = m + per - 1
  OBVIOUS
<1> HIDE DEF n, q
<1>4. m <= n * per
  <2>1. per * n = n * per /\ per * n \in Nat
    BY <1>2
  <2> QED
    BY <1>2, <1>3, <2>1
<1>5. ASSUME NEW k \in 1 .. n PROVE (k - 1) * per \in Nat /\ (k - 1) * per < m
  <2>1. k - 1 \in Nat /\ n - k \in Nat
    BY <1>2
  <2>2. (k - 1) * per \in Nat /\ (n - k) * per \in Nat
    BY <2>1
  <2>3. per * n = (k - 1) * per + (n - k) * per + per
    BY <1>2
  <2> HIDE DEF q
  <2>4. per * n + 1 <= m + per
    BY <1>2, <1>3
  <2> QED
    BY <2>2, <2>3, <2>4
<1>6. n = 0 <=> m = 0
  <2>1. CASE n = 0
    BY <1>4, <2>1
  <2>2. CASE n # 0
    <3>1. 1 \in 1 .. n
      BY <1>2, <2>2
    <3>2. (1 - 1) * per < m
      BY <1>5, <3>1
    <3> QED
      BY <2>2, <3>2
  <2> QED
    BY <2>1, <2>2
<1> QED
  BY <1>2, <1>4, <1>5, <1>6 DEF n, q

-----------------------------------------------------------------------------
(* Sorted numbers *)

\* A set of numbers is sorted in one way: by rank.
LEMMA InOrderUnique ==
  ASSUME NEW S \in SUBSET Nat, IsFiniteSet(S), NEW t \in [1 .. Cardinality(S) -> S],
         \A i, j \in 1 .. Cardinality(S) : i < j => t[i] < t[j]
  PROVE  InOrder(S) = t
<1> DEFINE n == Cardinality(S)
<1>8. n \in Nat /\ t \in [1 .. n -> S] /\ \A i, j \in 1 .. n : i < j => t[i] < t[j]
  BY FS_CardinalityType
<1> HIDE DEF n
<1>9. \A i, j \in 1 .. n : (t[i] = t[j] => i = j) /\ (t[i] < t[j] => i < j)
  <2> TAKE i, j \in 1 .. n
  <2>1. i < j \/ j < i \/ i = j
    BY <1>8
  <2>2. t[i] \in Nat /\ t[j] \in Nat
    BY <1>8
  <2> QED
    BY <1>8, <2>1, <2>2
<1>10. \A x \in S : \E i \in 1 .. n : t[i] = x
  <2>1. t \in Injection(1 .. n, S)
    BY <1>8, <1>9 DEF Injection, IsInjective
  <2>2. Cardinality(1 .. n) = n
    BY <1>8, FS_Interval
  <2>3. t \in Surjection(1 .. n, S)
    BY <2>1, <2>2, FS_Injection DEF n
  <2> QED
    BY <2>3 DEF Surjection
<1> DEFINE Below(x) == {m \in S : m < x}
<1>11. \A i \in 1 .. n : Cardinality(Below(t[i])) = i - 1
  <2> TAKE i \in 1 .. n
  <2> DEFINE f == [j \in 1 .. i - 1 |-> t[j]]
  <2>1. \A j \in 1 .. i - 1 : j \in 1 .. n /\ t[j] \in Below(t[i])
    <3> TAKE j \in 1 .. i - 1
    <3>1. j \in 1 .. n /\ j < i
      BY <1>8
    <3> QED
      BY <1>8, <3>1
  <2>2. f \in Injection(1 .. i - 1, Below(t[i]))
    BY <1>9, <2>1 DEF Injection, IsInjective
  <2>3. \A x \in Below(t[i]) : \E j \in 1 .. i - 1 : f[j] = x
    <3> TAKE x \in Below(t[i])
    <3>1. PICK j \in 1 .. n : t[j] = x
      BY <1>10
    <3>2. j < i
      BY <1>9, <3>1
    <3>3. j \in 1 .. i - 1
      BY <1>8, <3>2
    <3> QED
      BY <3>1, <3>3
  <2> HIDE DEF f, Below
  <2>4. f \in Bijection(1 .. i - 1, Below(t[i]))
    BY <2>2, <2>3 DEF Bijection, Surjection, Injection
  <2>5. ExistsBijection(1 .. i - 1, Below(t[i]))
    BY <2>4 DEF ExistsBijection
  <2>6. IsFiniteSet(1 .. i - 1) /\ Cardinality(1 .. i - 1) = i - 1
    BY <1>8, FS_Interval
  <2> QED
    BY <2>5, <2>6, FS_Bijection
<1>12. \A i \in 1 .. n : InOrder(S)[i] = t[i]
  <2> TAKE i \in 1 .. n
  <2>1. t[i] \in S /\ Cardinality(Below(t[i])) = i - 1
    BY <1>8, <1>11
  <2>2. ASSUME NEW x \in S, Cardinality(Below(x)) = i - 1 PROVE x = t[i]
    <3>1. PICK j \in 1 .. n : t[j] = x
      BY <1>10
    <3>2. Cardinality(Below(t[j])) = j - 1
      BY <1>11
    <3> QED
      BY <1>8, <2>2, <3>1, <3>2
  <2>3. InOrder(S)[i] = CHOOSE x \in S : Cardinality(Below(x)) = i - 1
    BY Zenon DEF InOrder, n
  <2> HIDE DEF Below
  <2> QED
    BY <2>1, <2>2, <2>3
<1>13. InOrder(S) = t
  <2> DEFINE c == [i \in 1 .. n |-> CHOOSE x \in S : Cardinality(Below(x)) = i - 1]
  <2>1. InOrder(S) = c
    BY Zenon DEF InOrder, n
  <2> HIDE DEF Below
  <2>2. c = [i \in 1 .. n |-> c[i]]
    OBVIOUS
  <2> HIDE DEF c
  <2>3. \A i \in 1 .. n : c[i] = t[i]
    BY <1>12, <2>1
  <2>4. c = t
    BY <1>8, <2>2, <2>3
  <2> QED
    BY <2>1, <2>4
<1> QED
  BY <1>13

\* Every finite set of numbers can be sorted.
LEMMA InOrderSorts ==
  ASSUME NEW S \in SUBSET Nat, IsFiniteSet(S)
  PROVE  /\ InOrder(S) \in [1 .. Cardinality(S) -> S]
         /\ \A i, j \in 1 .. Cardinality(S) : i < j => InOrder(S)[i] < InOrder(S)[j]
<1> DEFINE Sorted(T, s) == /\ s \in [1 .. Cardinality(T) -> T]
                           /\ \A i, j \in DOMAIN s : i < j => s[i] < s[j]
           B == {T \in SUBSET S : ~ \E s : Sorted(T, s)}
<1>1. \A T \in SUBSET S : IsFiniteSet(T) /\ Cardinality(T) \in Nat
  BY FS_Subset, FS_CardinalityType
<1>2. \A T \in SUBSET S : T \in B <=> ~ \E s : Sorted(T, s)
  <2> HIDE DEF Sorted
  <2> QED
    OBVIOUS
<1>3. ASSUME NEW T \in SUBSET S, T # {}, \A U \in SUBSET T : U # T => U \notin B
      PROVE  \E s : Sorted(T, s)
  <2>1. PICK p \in T : \A q \in T : p <= q
    <3>1. T \in SUBSET Nat
      OBVIOUS
    <3> QED
      BY <1>3, <3>1, LeastElement
  <2> DEFINE U == T \ {p}
             n == Cardinality(U)
  <2>2. Cardinality(T) = n + 1 /\ n \in Nat
    BY <1>1, FS_RemoveElement
  <2>3. PICK s : Sorted(U, s)
    <3>1. U \in SUBSET S /\ U \in SUBSET T /\ U # T
      OBVIOUS
    <3> HIDE DEF Sorted, B
    <3> QED
      BY <1>2, <1>3, <3>1
  <2> HIDE DEF n
  <2>4. s \in [1 .. n -> U] /\ \A i, j \in 1 .. n : i < j => s[i] < s[j]
    BY <2>3 DEF n
  <2> DEFINE t == [i \in 1 .. n + 1 |-> IF i = 1 THEN p ELSE s[i - 1]]
  <2>5. \A i \in 1 .. n + 1 : i = 1 \/ (i - 1 \in 1 .. n /\ t[i] = s[i - 1])
    BY <2>2
  <2>6. t \in [1 .. n + 1 -> T] /\ t[1] = p
    BY <2>2, <2>4, <2>5
  <2>7. \A q \in U : p < q
    BY <2>1
  <2> HIDE DEF t, U
  <2>8. \A i, j \in 1 .. n + 1 : i < j => t[i] < t[j]
    <3> TAKE i, j \in 1 .. n + 1
    <3> HAVE i < j
    <3>1. j - 1 \in 1 .. n /\ t[j] = s[j - 1]
      BY <2>2, <2>5
    <3>2. CASE i = 1
      BY <2>4, <2>6, <2>7, <3>1, <3>2
    <3>3. CASE i # 1
      BY <2>2, <2>4, <2>5, <3>1, <3>3
    <3> QED
      BY <3>2, <3>3
  <2>9. Sorted(T, t)
    BY <2>2, <2>6, <2>8
  <2> QED
    BY <2>9
<1>4. \E s : Sorted({}, s)
  <2>1. Sorted({}, [i \in 1 .. 0 |-> 0])
    BY FS_EmptySet
  <2> QED
    BY <2>1
<1>5. B = {}
  <2> SUFFICES ASSUME B # {} PROVE FALSE
    OBVIOUS
  <2> HIDE DEF Sorted
  <2>1. PICK T \in B : \A U \in SUBSET T : U # T => U \notin B
    <3>1. B \in SUBSET (SUBSET S)
      OBVIOUS
    <3> HIDE DEF B
    <3> QED
      BY <3>1, MinimalSubset
  <2>2. T \in SUBSET S /\ T # {}
    BY <1>2, <1>4
  <2> HIDE DEF B
  <2> QED
    BY <1>2, <1>3, <2>1, <2>2
<1>6. S \in SUBSET S /\ \E s : Sorted(S, s)
  <2> HIDE DEF Sorted, B
  <2> QED
    BY <1>2, <1>5
<1>7. PICK t : Sorted(S, t)
  <2> HIDE DEF Sorted
  <2> QED
    BY <1>6
<1>8. InOrder(S) = t
  BY <1>7, InOrderUnique
<1> QED
  BY <1>7, <1>8

\* std::sort puts any finite set of numbers in order, each once.
LEMMA InOrderFacts ==
  ASSUME NEW S \in SUBSET Nat, IsFiniteSet(S)
  PROVE  /\ InOrder(S) \in Seq(Nat) /\ Len(InOrder(S)) = Cardinality(S)
         /\ {InOrder(S)[i] : i \in DOMAIN InOrder(S)} = S
         /\ \A i, j \in DOMAIN InOrder(S) : InOrder(S)[i] = InOrder(S)[j] => i = j
<1> DEFINE n == Cardinality(S)
           t == InOrder(S)
<1>8. n \in Nat /\ t \in [1 .. n -> S] /\ \A i, j \in 1 .. n : i < j => t[i] < t[j]
  BY InOrderSorts, FS_CardinalityType
<1> HIDE DEF t, n
<1>9. \A i, j \in 1 .. n : t[i] = t[j] => i = j
  <2> TAKE i, j \in 1 .. n
  <2>1. i < j \/ j < i \/ i = j
    BY <1>8
  <2>2. t[i] \in Nat /\ t[j] \in Nat
    BY <1>8
  <2> QED
    BY <1>8, <2>1, <2>2
<1>10. \A x \in S : \E i \in 1 .. n : t[i] = x
  <2>1. t \in Injection(1 .. n, S)
    BY <1>8, <1>9 DEF Injection, IsInjective
  <2>2. Cardinality(1 .. n) = n
    BY <1>8, FS_Interval
  <2>3. t \in Surjection(1 .. n, S)
    BY <2>1, <2>2, FS_Injection DEF n
  <2> QED
    BY <2>3 DEF Surjection
<1>11. t \in Seq(Nat) /\ Len(t) = n /\ DOMAIN t = 1 .. n
  <2>1. t \in [1 .. n -> Nat]
    BY <1>8
  <2> QED
    BY <1>8, <2>1
<1>12. {t[i] : i \in DOMAIN t} = S
  BY <1>8, <1>10, <1>11
<1> QED
  BY <1>9, <1>11, <1>12 DEF t, n

\* A product grows with its factors.
LEMMA Product ==
  ASSUME NEW x \in Nat, NEW y \in Nat, x <= y, NEW z \in Nat, NEW w \in Nat, z <= w
  PROVE  x * z \in Nat /\ y * w \in Nat /\ x * z <= y * w
<1>1. x * z \in Nat /\ y * z \in Nat /\ y * w \in Nat
  OBVIOUS
<1>2. x * z <= y * z
  <2>1. PICK d \in Nat : y = x + d
    <3>1. y - x \in Nat /\ y = x + (y - x)
      OBVIOUS
    <3> QED
      BY <3>1
  <2>2. y * z = x * z + d * z /\ d * z \in Nat
    BY <2>1
  <2> QED
    BY <1>1, <2>2
<1>3. y * z <= y * w
  <2>1. PICK d \in Nat : w = z + d
    <3>1. w - z \in Nat /\ w = z + (w - z)
      OBVIOUS
    <3> QED
      BY <3>1
  <2>2. y * w = y * z + y * d /\ y * d \in Nat
    BY <2>1
  <2> QED
    BY <1>1, <2>2
<1> QED
  BY <1>1, <1>2, <1>3

\* Of two products with the same positive factor, the smaller has the smaller other one.
LEMMA Cancel ==
  ASSUME NEW x \in Nat, NEW y \in Nat, NEW z \in Nat \ {0}, x * z <= y * z
  PROVE  x <= y
<1> SUFFICES ASSUME y + 1 <= x PROVE FALSE
  OBVIOUS
<1>1. (y + 1) * z <= x * z
  BY Product
<1>2. (y + 1) * z = y * z + z /\ x * z \in Nat /\ y * z \in Nat
  OBVIOUS
<1> QED
  BY <1>1, <1>2

\* A function from a finite set takes finitely many values.
LEMMA RangeFinite ==
  ASSUME NEW S, IsFiniteSet(S), NEW X, NEW f \in [S -> X]
  PROVE  IsFiniteSet({f[i] : i \in S})
<1> DEFINE T == {f[i] : i \in S}
<1>1. f \in [S -> T] /\ \A t \in T : \E i \in S : f[i] = t
  OBVIOUS
<1> HIDE DEF T
<1>2. f \in Surjection(S, T)
  BY <1>1 DEF Surjection
<1>3. IsFiniteSet(T)
  BY <1>2, FS_Surjection
<1> QED
  BY <1>3 DEF T

-----------------------------------------------------------------------------
(* Sums over finite sets *)

\* The sum of f over S, one element after another.
Total(f, S) ==
  LET iter[s \in SUBSET S] ==
        IF s = {} THEN 0
        ELSE LET x == CHOOSE x \in s : TRUE
             IN  f[x] + iter[s \ {x}]
  IN  iter[S]

Pick(s) == CHOOSE x \in s : TRUE

Sums(f, S, g) ==
  g = [s \in SUBSET S |-> IF s = {} THEN 0 ELSE f[Pick(s)] + g[s \ {Pick(s)}]]

\* The recursion has a solution: one cardinality after another.
LEMMA SumsExist ==
  ASSUME NEW f, NEW S, IsFiniteSet(S), \A x \in S : f[x] \in Nat
  PROVE  \E g \in [SUBSET S -> Nat] : Sums(f, S, g)
<1> DEFINE Upto(n) == {s \in SUBSET S : Cardinality(s) <= n}
           Good(n, g) == \A s \in Upto(n) :
                           g[s] = IF s = {} THEN 0 ELSE f[Pick(s)] + g[s \ {Pick(s)}]
           Bad == {n \in Nat : ~ \E g \in [Upto(n) -> Nat] : Good(n, g)}
<1>1. \A s \in SUBSET S : IsFiniteSet(s) /\ Cardinality(s) \in Nat
  BY FS_Subset, FS_CardinalityType
<1>2. \A s \in SUBSET S : s # {} => Pick(s) \in s
  BY DEF Pick
<1>3. \A s \in SUBSET S : s # {} =>
        /\ s \ {Pick(s)} \in SUBSET S
        /\ Cardinality(s \ {Pick(s)}) = Cardinality(s) - 1
  BY <1>1, <1>2, FS_RemoveElement
<1>4. 0 \notin Bad
  <2>1. Upto(0) = {{}}
    <3>1. \A s \in SUBSET S : Cardinality(s) <= 0 <=> s = {}
      BY <1>1, FS_EmptySet
    <3> QED
      BY <3>1
  <2>2. Good(0, [s \in Upto(0) |-> 0]) /\ [s \in Upto(0) |-> 0] \in [Upto(0) -> Nat]
    BY <2>1
  <2> QED
    BY <2>2
<1>5. ASSUME NEW n \in Nat, n \notin Bad PROVE n + 1 \notin Bad
  <2>1. PICK g \in [Upto(n) -> Nat] : Good(n, g)
    BY <1>5
  <2> DEFINE h == [s \in Upto(n + 1) |->
                     IF s = {} THEN 0 ELSE f[Pick(s)] + g[s \ {Pick(s)}]]
  <2>2. \A s \in Upto(n + 1) : s # {} => s \ {Pick(s)} \in Upto(n)
    BY <1>1, <1>3
  <2>3. h \in [Upto(n + 1) -> Nat]
    <3> SUFFICES ASSUME NEW s \in Upto(n + 1), s # {}
                 PROVE  f[Pick(s)] + g[s \ {Pick(s)}] \in Nat
      OBVIOUS
    <3>1. Pick(s) \in S /\ s \ {Pick(s)} \in Upto(n)
      BY <1>2, <2>2
    <3> HIDE DEF Upto
    <3> QED
      BY <3>1
  <2>4. \A s \in Upto(n) : s \in Upto(n + 1) /\ h[s] = g[s]
    <3>1. Upto(n) \subseteq Upto(n + 1)
      BY <1>1
    <3> HIDE DEF Upto
    <3> QED
      BY <2>1, <3>1
  <2>5. Good(n + 1, h)
    <3> SUFFICES ASSUME NEW s \in Upto(n + 1)
                 PROVE  h[s] = IF s = {} THEN 0 ELSE f[Pick(s)] + h[s \ {Pick(s)}]
      OBVIOUS
    <3>1. CASE s = {}
      BY <3>1
    <3>2. CASE s # {}
      <4>1. s \ {Pick(s)} \in Upto(n)
        BY <2>2, <3>2
      <4>2. h[s \ {Pick(s)}] = g[s \ {Pick(s)}]
        BY <2>4, <4>1
      <4>3. h[s] = f[Pick(s)] + g[s \ {Pick(s)}]
        BY <3>2
      <4> HIDE DEF h
      <4> QED
        BY <3>2, <4>2, <4>3
    <3> QED
      BY <3>1, <3>2
  <2> HIDE DEF h, Good
  <2> QED
    BY <2>3, <2>5
<1>6. Bad = {}
  <2> HIDE DEF Upto, Good
  <2> SUFFICES ASSUME Bad # {} PROVE FALSE
    OBVIOUS
  <2>1. Bad \in SUBSET Nat
    OBVIOUS
  <2>2. PICK n \in Bad : \A m \in Bad : n <= m
    BY <2>1, LeastElement
  <2> HIDE DEF Bad
  <2>3. n \in Nat /\ n # 0
    BY <1>4, <2>1, <2>2
  <2>4. n - 1 \in Nat /\ n - 1 \notin Bad /\ (n - 1) + 1 = n
    BY <2>2, <2>3
  <2> QED
    BY <1>5, <2>2, <2>4
<1> DEFINE n == Cardinality(S)
<1>7. n \in Nat /\ Upto(n) = SUBSET S
  BY <1>1, FS_Subset
<1>8. PICK g \in [Upto(n) -> Nat] : Good(n, g)
  <2> HIDE DEF Upto, Good
  <2> QED
    BY <1>6, <1>7
<1>9. g \in [SUBSET S -> Nat]
  BY <1>7, <1>8
<1>10. \A s \in SUBSET S : g[s] = IF s = {} THEN 0 ELSE f[Pick(s)] + g[s \ {Pick(s)}]
  <2> HIDE DEF n
  <2> QED
  BY <1>7, <1>8
<1> QED
  BY <1>9, <1>10 DEF Sums

\* Two solutions, over whatever sets, agree where both are defined.
LEMMA SumsAgree ==
  ASSUME NEW f, NEW S, NEW T, NEW g, NEW h, Sums(f, S, g), Sums(f, T, h),
         NEW U \in SUBSET (S \cap T), IsFiniteSet(U)
  PROVE  g[U] = h[U]
<1> DEFINE B == {V \in SUBSET U : g[V] # h[V]}
<1>1. \A V \in SUBSET U : V # {} => /\ V \ {Pick(V)} \in SUBSET V
                                    /\ V \ {Pick(V)} # V
  BY DEF Pick
<1>2. \A V \in SUBSET U :
        /\ g[V] = IF V = {} THEN 0 ELSE f[Pick(V)] + g[V \ {Pick(V)}]
        /\ h[V] = IF V = {} THEN 0 ELSE f[Pick(V)] + h[V \ {Pick(V)}]
  BY DEF Sums
<1> SUFFICES ASSUME B # {} PROVE FALSE
  OBVIOUS
<1>3. PICK V \in B : \A W \in SUBSET V : W # V => W \notin B
  <2>1. B \in SUBSET (SUBSET U)
    OBVIOUS
  <2> HIDE DEF B
  <2> QED
    BY <2>1, MinimalSubset
<1>4. V # {} /\ V \ {Pick(V)} \notin B
  BY <1>1, <1>2, <1>3
<1>5. g[V \ {Pick(V)}] = h[V \ {Pick(V)}]
  BY <1>1, <1>4
<1> QED
  BY <1>2, <1>4, <1>5

\* The sum over S is a solution's value at S.
LEMMA TotalOf ==
  ASSUME NEW f, NEW S, IsFiniteSet(S), \A x \in S : f[x] \in Nat
  PROVE  \E g \in [SUBSET S -> Nat] : Sums(f, S, g) /\ \A U \in SUBSET S : Total(f, U) = g[U]
<1>1. PICK g \in [SUBSET S -> Nat] : Sums(f, S, g)
  BY SumsExist
<1>2. ASSUME NEW U \in SUBSET S PROVE Total(f, U) = g[U]
  <2>1. IsFiniteSet(U)
    BY FS_Subset
  <2>2. \E h : Sums(f, U, h)
    BY <2>1, SumsExist
  <2> DEFINE c == CHOOSE h : Sums(f, U, h)
  <2>3. Sums(f, U, c)
    BY <2>2
  <2>4. Total(f, U) = c[U]
    BY Zenon DEF Total, Sums, Pick
  <2> HIDE DEF c
  <2>5. U \in SUBSET (U \cap S)
    OBVIOUS
  <2>6. c[U] = g[U]
    BY <1>1, <2>1, <2>3, <2>5, SumsAgree
  <2> QED
    BY <2>4, <2>6
<1> QED
  BY <1>1, <1>2

\* A sum of natural numbers is one; without elements it is 0.
LEMMA SumType ==
  ASSUME NEW f, NEW S, IsFiniteSet(S), \A x \in S : f[x] \in Nat
  PROVE  Total(f, S) \in Nat /\ (S = {} => Total(f, S) = 0)
<1>1. PICK g \in [SUBSET S -> Nat] : Sums(f, S, g) /\ \A U \in SUBSET S : Total(f, U) = g[U]
  BY TotalOf
<1> QED
  BY <1>1 DEF Sums

\* Any element may be taken off first.
LEMMA SumRemove ==
  ASSUME NEW f, NEW S, IsFiniteSet(S), \A x \in S : f[x] \in Nat, NEW y \in S
  PROVE  Total(f, S) = f[y] + Total(f, S \ {y})
<1>1. PICK g \in [SUBSET S -> Nat] : Sums(f, S, g) /\ \A U \in SUBSET S : Total(f, U) = g[U]
  BY TotalOf
<1> DEFINE B == {V \in SUBSET S : \E x \in V : g[V] # f[x] + g[V \ {x}]}
<1> SUFFICES ASSUME B # {} PROVE FALSE
  <2>1. Total(f, S) = g[S] /\ Total(f, S \ {y}) = g[S \ {y}]
    BY <1>1
  <2> QED
    BY <2>1
<1>2. PICK V \in B : \A W \in SUBSET V : W # V => W \notin B
  <2>1. B \in SUBSET (SUBSET S)
    OBVIOUS
  <2> HIDE DEF B
  <2> QED
    BY <2>1, MinimalSubset
<1>3. PICK x \in V : g[V] # f[x] + g[V \ {x}]
  OBVIOUS
<1> DEFINE p == Pick(V)
<1>4. p \in V
  BY <1>3 DEF Pick
<1>5. g[V] = f[p] + g[V \ {p}]
  BY <1>1, <1>4 DEF Sums
<1> HIDE DEF p
<1>6. p # x
  BY <1>3, <1>5
<1>7. g[V \ {p}] = f[x] + g[(V \ {p}) \ {x}]
  <2>1. V \ {p} \in SUBSET V /\ V \ {p} # V /\ V \ {p} \in SUBSET S /\ x \in V \ {p}
    BY <1>3, <1>4, <1>6
  <2> QED
    BY <1>2, <2>1
<1>8. g[V \ {x}] = f[p] + g[(V \ {x}) \ {p}]
  <2>1. V \ {x} \in SUBSET V /\ V \ {x} # V /\ V \ {x} \in SUBSET S /\ p \in V \ {x}
    BY <1>3, <1>4, <1>6
  <2> QED
    BY <1>2, <2>1
<1>9. (V \ {p}) \ {x} = (V \ {x}) \ {p} /\ (V \ {p}) \ {x} \in SUBSET S
  OBVIOUS
<1>10. f[p] \in Nat /\ f[x] \in Nat /\ g[(V \ {p}) \ {x}] \in Nat
  BY <1>1, <1>3, <1>4, <1>9
<1>11. g[V] = f[x] + g[V \ {x}]
  <2> DEFINE r == g[(V \ {p}) \ {x}]
  <2>1. /\ g[V] = f[p] + (f[x] + r) /\ g[V \ {x}] = f[p] + r
        /\ r \in Nat /\ f[p] \in Nat /\ f[x] \in Nat
    BY <1>5, <1>7, <1>8, <1>9, <1>10
  <2> HIDE DEF r
  <2> QED
    BY <2>1
<1> QED
  BY <1>3, <1>11

\* A sum with smaller terms, or without some of the terms, is no greater.
LEMMA SumLeq ==
  ASSUME NEW f, NEW g, NEW S, NEW T, IsFiniteSet(S), IsFiniteSet(T),
         \A x \in S : f[x] \in Nat, \A x \in T : g[x] \in Nat,
         \A x \in S : f[x] = 0 \/ (x \in T /\ f[x] <= g[x])
  PROVE  Total(f, S) <= Total(g, T)
<1> DEFINE Under(U, V) == \A x \in U : f[x] = 0 \/ (x \in V /\ f[x] <= g[x])
           B == {U \in SUBSET S : \E V \in SUBSET T :
                   Under(U, V) /\ ~ (Total(f, U) <= Total(g, V))}
<1> SUFFICES ASSUME B # {} PROVE FALSE
  <2>1. Under(S, T)
    OBVIOUS
  <2> QED
    BY <2>1
<1>1. PICK U \in B : \A W \in SUBSET U : W # U => W \notin B
  <2>1. B \in SUBSET (SUBSET S)
    OBVIOUS
  <2> HIDE DEF B
  <2> QED
    BY <2>1, MinimalSubset
<1>2. PICK V \in SUBSET T : Under(U, V) /\ ~ (Total(f, U) <= Total(g, V))
  OBVIOUS
<1>3. /\ IsFiniteSet(U) /\ IsFiniteSet(V)
      /\ (\A x \in U : f[x] \in Nat) /\ (\A x \in V : g[x] \in Nat)
  BY FS_Subset
<1>4. Total(f, U) \in Nat /\ Total(g, V) \in Nat /\ (U = {} => Total(f, U) = 0)
  BY <1>3, SumType
<1>5. PICK x \in U : TRUE
  BY <1>2, <1>4
<1>6. U \ {x} \in SUBSET U /\ U \ {x} # U /\ U \ {x} \in SUBSET S /\ U \ {x} \notin B
  BY <1>1, <1>5
<1>7. Total(f, U) = f[x] + Total(f, U \ {x}) /\ Total(f, U \ {x}) \in Nat
  <2>1. IsFiniteSet(U \ {x})
    BY <1>3, FS_Subset
  <2>2. Total(f, U \ {x}) \in Nat
    BY <1>3, <2>1, SumType
  <2> QED
    BY <1>3, <1>5, <2>2, SumRemove
<1>8. CASE f[x] = 0
  <2>1. Under(U \ {x}, V)
    BY <1>2
  <2>2. Total(f, U \ {x}) <= Total(g, V)
    BY <1>6, <2>1
  <2> QED
    BY <1>2, <1>7, <1>8, <2>2
<1>9. CASE f[x] # 0
  <2>1. x \in V /\ f[x] <= g[x]
    BY <1>2, <1>5, <1>9
  <2>2. Under(U \ {x}, V \ {x}) /\ V \ {x} \in SUBSET T
    BY <1>2
  <2>3. Total(f, U \ {x}) <= Total(g, V \ {x})
    BY <1>6, <2>2
  <2>4. IsFiniteSet(V \ {x}) /\ Total(g, V \ {x}) \in Nat
    <3>1. IsFiniteSet(V \ {x})
      BY <1>3, FS_Subset
    <3> QED
      BY <1>3, <3>1, SumType
  <2>5. Total(g, V) = g[x] + Total(g, V \ {x})
    BY <1>3, <2>1, SumRemove
  <2>6. f[x] \in Nat /\ g[x] \in Nat
    BY <1>3, <1>5, <2>1
  <2> HIDE DEF B, Under
  <2> QED
    BY <1>2, <1>7, <2>1, <2>3, <2>4, <2>5, <2>6
<1> QED
  BY <1>8, <1>9

\* If the terms are the same but for zeros, so is the sum.
LEMMA SumSame ==
  ASSUME NEW f, NEW g, NEW S, NEW T, IsFiniteSet(S), IsFiniteSet(T),
         \A x \in S : f[x] \in Nat, \A x \in T : g[x] \in Nat,
         \A x \in S : f[x] = 0 \/ (x \in T /\ f[x] = g[x]),
         \A x \in T : g[x] = 0 \/ (x \in S /\ f[x] = g[x])
  PROVE  Total(f, S) = Total(g, T)
<1>1. Total(f, S) <= Total(g, T)
  BY SumLeq
<1>2. Total(g, T) <= Total(f, S)
  BY SumLeq
<1>3. Total(f, S) \in Nat /\ Total(g, T) \in Nat
  BY SumType
<1> QED
  BY <1>1, <1>2, <1>3

\* One greater term makes the sum greater.
LEMMA SumGrows ==
  ASSUME NEW f, NEW g, NEW S, IsFiniteSet(S),
         \A x \in S : f[x] \in Nat /\ g[x] \in Nat /\ f[x] <= g[x],
         NEW y \in S, f[y] < g[y]
  PROVE  Total(f, S) + 1 <= Total(g, S)
<1>1. IsFiniteSet(S \ {y})
  BY FS_Subset
<1>2. Total(f, S \ {y}) <= Total(g, S \ {y})
  BY <1>1, SumLeq
<1>3. Total(f, S) = f[y] + Total(f, S \ {y}) /\ Total(g, S) = g[y] + Total(g, S \ {y})
  BY SumRemove
<1>4. Total(f, S \ {y}) \in Nat /\ Total(g, S \ {y}) \in Nat
  BY <1>1, SumType
<1> QED
  BY <1>2, <1>3, <1>4

\* The order of nothing, and of a set with a number beyond all others.
LEMMA InOrderAppend ==
  /\ InOrder({}) = <<>>
  /\ \A S \in SUBSET Nat : \A m \in Nat :
       IsFiniteSet(S) /\ (\A i \in S : i < m) => InOrder(S \cup {m}) = Append(InOrder(S), m)
<1>1. InOrder({}) = <<>>
  <2>1. IsFiniteSet({}) /\ Cardinality({}) = 0 /\ {} \in SUBSET Nat
    BY FS_EmptySet
  <2>2. InOrder({}) \in Seq(Nat) /\ Len(InOrder({})) = 0
    BY <2>1, InOrderFacts
  <2> QED
    BY <2>2
<1>2. ASSUME NEW S \in SUBSET Nat, NEW m \in Nat, IsFiniteSet(S), \A i \in S : i < m
      PROVE  InOrder(S \cup {m}) = Append(InOrder(S), m)
  <2> DEFINE n == Cardinality(S)
             s == InOrder(S)
             T == S \cup {m}
             t == Append(s, m)
  <2>1. n \in Nat /\ s \in [1 .. n -> S] /\ \A i, j \in 1 .. n : i < j => s[i] < s[j]
    BY <1>2, InOrderSorts, FS_CardinalityType
  <2>2. s \in Seq(Nat) /\ Len(s) = n
    BY <1>2, InOrderFacts
  <2>3. m \notin S
    BY <1>2
  <2>4. IsFiniteSet(T) /\ Cardinality(T) = n + 1 /\ T \in SUBSET Nat
    BY <1>2, <2>3, FS_AddElement
  <2> HIDE DEF s, n, T
  <2>5. t \in Seq(Nat) /\ Len(t) = n + 1 /\ t[n + 1] = m /\ \A i \in 1 .. n : t[i] = s[i]
    BY <2>1, <2>2
  <2> HIDE DEF t
  <2>6. t \in [1 .. n + 1 -> T]
    <3>1. DOMAIN t = 1 .. n + 1 /\ t \in [1 .. n + 1 -> Nat]
      BY <2>1, <2>5
    <3>2. \A i \in 1 .. n + 1 : t[i] \in T
      BY <2>1, <2>5 DEF T
    <3> QED
      BY <3>1, <3>2
  <2>7. \A i, j \in 1 .. n + 1 : i < j => t[i] < t[j]
    <3> TAKE i, j \in 1 .. n + 1
    <3> HAVE i < j
    <3>1. i \in 1 .. n /\ t[i] = s[i] /\ s[i] \in S
      BY <2>1, <2>5
    <3>2. CASE j = n + 1
      BY <1>2, <2>5, <3>1, <3>2
    <3>3. CASE j # n + 1
      <4>1. j \in 1 .. n
        BY <2>1, <3>3
      <4> QED
        BY <2>1, <2>5, <3>1, <4>1
    <3> QED
      BY <3>2, <3>3
  <2>8. InOrder(T) = t
    BY <2>4, <2>6, <2>7, InOrderUnique
  <2> QED
    BY <2>8 DEF T, t, s
<1> QED
  BY <1>1, <1>2

\* The elements of a sequence, and that none occurs twice.
InSeq(s, x) == \E i \in DOMAIN s : s[i] = x
Distinct(s) == \A i, j \in DOMAIN s : s[i] = s[j] => i = j

\* What is picked: each element once for its position, in the order of the positions.
LEMMA PickedFacts ==
  ASSUME NEW s, NEW S \in SUBSET Nat, IsFiniteSet(S)
  PROVE  /\ DOMAIN Picked(s, S) = 1 .. Cardinality(S) /\ Len(Picked(s, S)) = Cardinality(S)
         /\ Cardinality(S) \in Nat /\ DOMAIN InOrder(S) = DOMAIN Picked(s, S)
         /\ \A n \in DOMAIN Picked(s, S) : InOrder(S)[n] \in S /\ Picked(s, S)[n] = s[InOrder(S)[n]]
         /\ \A i \in S : InSeq(InOrder(S), i)
         /\ Distinct(InOrder(S))
         /\ \A X : (\A i \in S : s[i] \in X) => Picked(s, S) \in Seq(X)
<1> DEFINE p == Picked(s, S)
           o == InOrder(S)
<1>1. /\ o \in Seq(Nat) /\ Len(o) = Cardinality(S)
      /\ {o[i] : i \in DOMAIN o} = S
      /\ \A i, j \in DOMAIN o : o[i] = o[j] => i = j
  BY InOrderFacts
<1>2. Cardinality(S) \in Nat
  BY FS_CardinalityType
<1>3. p = [n \in DOMAIN o |-> s[o[n]]]
  BY Zenon DEF Picked
<1> HIDE DEF p, o
<1>4. DOMAIN o = 1 .. Cardinality(S)
  BY <1>1
<1>5. \A n \in DOMAIN o : o[n] \in S
  BY <1>1
<1>6. DOMAIN p = 1 .. Cardinality(S) /\ Len(p) = Cardinality(S)
  BY <1>2, <1>3, <1>4
<1>8. ASSUME NEW X, \A i \in S : s[i] \in X PROVE p \in Seq(X)
  <2>1. p \in [1 .. Cardinality(S) -> X]
    BY <1>3, <1>4, <1>5, <1>8
  <2> QED
    BY <1>2, <2>1
<1>7. \A i \in S : InSeq(o, i)
  BY <1>1 DEF InSeq
<1>9. Distinct(o)
  BY <1>1 DEF Distinct
<1> QED
  BY <1>1, <1>2, <1>3, <1>4, <1>5, <1>6, <1>7, <1>8, <1>9 DEF p, o

\* Picking nothing, and one position more.
LEMMA PickedAppend ==
  ASSUME NEW s
  PROVE  /\ Picked(s, {}) = <<>>
         /\ \A S \in SUBSET Nat : \A m \in Nat :
              IsFiniteSet(S) /\ (\A i \in S : i < m)
                => Picked(s, S \cup {m}) = Append(Picked(s, S), s[m])
<1>1. Picked(s, {}) = <<>>
  <2>1. IsFiniteSet({}) /\ Cardinality({}) = 0 /\ {} \in SUBSET Nat
    BY FS_EmptySet
  <2>2. \A i \in {} : s[i] \in {}
    OBVIOUS
  <2>3. Picked(s, {}) \in Seq({}) /\ Len(Picked(s, {})) = 0
    BY <2>1, <2>2, PickedFacts
  <2> QED
    BY <2>3
<1>2. ASSUME NEW S \in SUBSET Nat, NEW m \in Nat, IsFiniteSet(S), \A i \in S : i < m
      PROVE  Picked(s, S \cup {m}) = Append(Picked(s, S), s[m])
  <2> DEFINE o == InOrder(S)
             p == Picked(s, S)
  <2>1. o \in Seq(Nat) /\ p \in Seq({s[i] : i \in S}) /\ DOMAIN o = DOMAIN p /\ Len(p) = Len(o)
    <3>1. o \in Seq(Nat) /\ Len(o) = Cardinality(S)
      BY <1>2, InOrderFacts
    <3>2. PICK X : X = {s[i] : i \in S}
      OBVIOUS
    <3>3. \A i \in S : s[i] \in X
      BY <3>2
    <3>4. p \in Seq(X)
      BY <1>2, <3>3, PickedFacts
    <3>5. DOMAIN o = DOMAIN p /\ Len(p) = Cardinality(S)
      BY <1>2, PickedFacts
    <3> QED
      BY <3>1, <3>2, <3>4, <3>5
  <2>2. InOrder(S \cup {m}) = Append(o, m)
    BY <1>2, InOrderAppend
  <2>3. Picked(s, S \cup {m}) = [n \in DOMAIN Append(o, m) |-> s[Append(o, m)[n]]]
    BY <2>2, Zenon DEF Picked
  <2>4. p = [n \in DOMAIN o |-> s[o[n]]]
    BY Zenon DEF Picked
  <2> HIDE DEF o, p
  <2>5. PICK k \in Nat : k = Len(o)
    BY <2>1
  <2>6. DOMAIN Append(o, m) = 1 .. k + 1 /\ Append(o, m)[k + 1] = m
        /\ \A i \in 1 .. k : Append(o, m)[i] = o[i]
    BY <2>1, <2>5
  <2>7. DOMAIN Append(p, s[m]) = 1 .. k + 1 /\ Append(p, s[m])[k + 1] = s[m]
        /\ \A i \in 1 .. k : Append(p, s[m])[i] = s[o[i]]
    BY <2>1, <2>4, <2>5
  <2> DEFINE l == Append(o, m)
             r == Append(p, s[m])
  <2>8. r = [n \in 1 .. k + 1 |-> r[n]]
    <3>1. r \in Seq({s[i] : i \in S} \cup {s[m]}) /\ Len(r) = k + 1
      BY <2>1, <2>5
    <3> HIDE DEF r
    <3> QED
      BY <3>1
  <2>9. DOMAIN l = 1 .. k + 1 /\ \A n \in 1 .. k + 1 : s[l[n]] = r[n]
    <3> HIDE DEF l, r
    <3>1. DOMAIN l = 1 .. k + 1 /\ l[k + 1] = m /\ \A i \in 1 .. k : l[i] = o[i]
      BY <2>6 DEF l
    <3>2. r[k + 1] = s[m] /\ \A i \in 1 .. k : r[i] = s[o[i]]
      BY <2>7 DEF r
    <3> QED
      BY <2>5, <3>1, <3>2
  <2> HIDE DEF l, r
  <2>10. [n \in DOMAIN l |-> s[l[n]]] = r
    BY <2>8, <2>9
  <2> QED
    BY <2>3, <2>10 DEF l, r, p
<1> QED
  BY <1>1, <1>2
=============================================================================
