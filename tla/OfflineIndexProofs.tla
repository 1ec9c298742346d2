-------------------------- MODULE OfflineIndexProofs --------------------------
(***************************************************************************)
(* OfflineIndex for any documents, schemas, filters, queries and merge ids:*)
(* every document that was added and not deleted has one living row, and   *)
(* what a search for a term, a filtered search, a query over all segments  *)
(* or a ranking shows is what the living documents themselves say.         *)
(*                                                                         *)
(* The proof goes bottom up.  Each function of the model is first said in  *)
(* terms of the documents alone: what the fields of a document make of its *)
(* tokens (DocTokensFacts), what a flush makes of the tokens of its rows   *)
(* (IndexOfFacts, WriteListsFacts, FlushedLens), what the k-way merge does *)
(* with lists (MergedFacts), what a merge writes (MergedListsFacts,        *)
(* MergedColumnsGood, MergedLensGood).  GoodSeg is the conclusion: all in  *)
(* the files of a segment is a function of the rows of the segment, be it  *)
(* flushed or merged any number of times.  The invariant IInv says it of   *)
(* every directory, together with Placed, which says where the documents   *)
(* are; neither is inductive without the other, for a merge keeps the      *)
(* documents only because the segments it reads are good, and a segment is *)
(* good only because no document is twice in it.                           *)
(*                                                                         *)
(* On top of it stand what a query's clauses mean (ClausesFacts,           *)
(* SegmentAnswers) and what ranking, cutting and merging hits of several   *)
(* segments lists (RankedLists, DedupedIs, SameBeginning).                 *)
(***************************************************************************)
EXTENDS OfflineIndex, DataLemmas

-----------------------------------------------------------------------------
(* Folds *)

\* The equation of a fold over the positions 1 to N, which takes the last first.
FoldOf(op, base, N, g) ==
  g = [s \in SUBSET (1 .. N) |-> IF s = {} THEN base ELSE op[<<g[s \ {Max(s)}], Max(s)>>]]

\* The greatest of a finite set of numbers.
LEMMA MaxFacts ==
  /\ \A m \in Nat : \A s \in SUBSET (1 .. m) :
       s # {} => Max(s) \in s /\ s \ {Max(s)} \in SUBSET (1 .. m - 1) /\ \A i \in s : i <= Max(s)
  /\ \A k \in Nat : k # 0 => /\ Max(1 .. k) = k /\ (1 .. k) # {}
                             /\ (1 .. k) \ {k} = 1 .. k - 1
<1>1. ASSUME NEW m \in Nat, NEW s \in SUBSET (1 .. m), s # {}
      PROVE  Max(s) \in s /\ s \ {Max(s)} \in SUBSET (1 .. m - 1) /\ \A i \in s : i <= Max(s)
  <2>1. PICK p \in s : \A q \in s : q <= p
    <3>1. s \in SUBSET Nat /\ \A q \in s : q <= m
      OBVIOUS
    <3> QED
      BY <1>1, <3>1, GreatestElement
  <2>2. Max(s) \in s /\ \A q \in s : Max(s) >= q
    BY <2>1 DEF Max
  <2>3. PICK x \in 1 .. m : x = Max(s)
    BY <2>2
  <2>4. \A q \in s \ {x} : q \in 1 .. m - 1
    <3> TAKE q \in s \ {x}
    <3>1. q \in 1 .. m /\ q <= x /\ q # x
      BY <2>2, <2>3
    <3> QED
      BY <3>1
  <2> QED
    BY <2>2, <2>3, <2>4
<1>2. ASSUME NEW k \in Nat, k # 0
      PROVE  Max(1 .. k) = k /\ (1 .. k) # {} /\ (1 .. k) \ {k} = 1 .. k - 1
  <2>1. 1 .. k \in SUBSET (1 .. k) /\ 1 .. k # {}
    BY <1>2
  <2>2. Max(1 .. k) \in 1 .. k /\ \A i \in 1 .. k : i <= Max(1 .. k)
    BY <1>1, <2>1
  <2> QED
    BY <1>2, <2>1, <2>2
<1> QED
  BY <1>1, <1>2

\* There is a fold, and its values are where the values of its step are.
LEMMA FoldExists ==
  ASSUME NEW X, NEW base \in X, NEW N \in Nat, NEW op \in [X \X (1 .. N) -> X]
  PROVE  \E g \in [SUBSET (1 .. N) -> X] : FoldOf(op, base, N, g)
<1> DEFINE Val(g, s) == IF s = {} THEN base ELSE op[<<g[s \ {Max(s)}], Max(s)>>]
           Up(m, g) == \A s \in SUBSET (1 .. m) : g[s] = Val(g, s)
           S == {m \in Nat : \E g \in [SUBSET (1 .. m) -> X] : Up(m, g)}
<1>1. 0 \in S
  <2>1. SUBSET (1 .. 0) = {{}}
    OBVIOUS
  <2> DEFINE g == [s \in SUBSET (1 .. 0) |-> base]
  <2>2. g \in [SUBSET (1 .. 0) -> X] /\ Up(0, g)
    BY <2>1
  <2> QED
    BY <2>2
<1>2. ASSUME NEW n \in 0 .. N, n < N, n \in S PROVE n + 1 \in S
  <2>1. PICK g \in [SUBSET (1 .. n) -> X] : Up(n, g)
    BY <1>2
  <2> DEFINE h == [s \in SUBSET (1 .. n + 1) |-> Val(g, s)]
  <2>2. \A s \in SUBSET (1 .. n + 1) : s # {} =>
          s \ {Max(s)} \in SUBSET (1 .. n) /\ Max(s) \in 1 .. N
    <3> TAKE s \in SUBSET (1 .. n + 1)
    <3> HAVE s # {}
    <3>1. n + 1 \in Nat /\ (n + 1) - 1 = n
      OBVIOUS
    <3>2. Max(s) \in s /\ s \ {Max(s)} \in SUBSET (1 .. (n + 1) - 1)
      BY <3>1, MaxFacts
    <3>3. 1 .. n + 1 \subseteq 1 .. N
      BY <1>2
    <3> QED
      BY <3>1, <3>2, <3>3
  <2>3. \A s \in SUBSET (1 .. n + 1) : Val(g, s) \in X
    BY <2>1, <2>2
  <2>4. \A s \in SUBSET (1 .. n) : s \in SUBSET (1 .. n + 1) /\ h[s] = g[s]
    BY <2>1
  <2>5. \A s \in SUBSET (1 .. n + 1) : h[s] = Val(h, s)
    <3> TAKE s \in SUBSET (1 .. n + 1)
    <3>1. CASE s = {}
      BY <3>1
    <3>2. CASE s # {}
      <4>1. h[s \ {Max(s)}] = g[s \ {Max(s)}]
        BY <2>2, <2>4, <3>2
      <4>2. h[s] = op[<<g[s \ {Max(s)}], Max(s)>>]
        BY <3>2
      <4> HIDE DEF h
      <4> QED
        BY <3>2, <4>1, <4>2
    <3> QED
      BY <3>1, <3>2
  <2>6. h \in [SUBSET (1 .. n + 1) -> X]
    BY <2>3
  <2>7. Up(n + 1, h)
    BY <2>5
  <2>8. n + 1 \in Nat
    BY <1>2
  <2> HIDE DEF h, Up
  <2> QED
    BY <2>6, <2>7, <2>8
<1> HIDE DEF Up
<1>3. N \in S
  <2> HIDE DEF S
  <2>1. \A n \in 0 .. N : n < N /\ n \in S => n + 1 \in S
    BY <1>2
  <2>2. \A n \in 0 .. N : n \in S
    BY <1>1, <2>1, AllUpTo
  <2> QED
    BY <2>2
<1>4. PICK g \in [SUBSET (1 .. N) -> X] : Up(N, g)
  BY <1>3
<1>5. g = [s \in SUBSET (1 .. N) |-> Val(g, s)]
  <2>1. \A s \in SUBSET (1 .. N) : g[s] = Val(g, s)
    BY <1>4 DEF Up
  <2> HIDE DEF Val
  <2> QED
    BY <2>1
<1> QED
  BY <1>5 DEF FoldOf

\* The steps of a fold, one position after another.
StepsOf(op, base, N, g) ==
  g[1 .. 0] = base /\ \A k \in 1 .. N : g[1 .. k] = op[<<g[1 .. k - 1], k>>]

\* The steps of FoldLeft, whatever the operator is, once its results are
\* numbered.
LEMMA FoldSteps ==
  ASSUME NEW base, NEW N \in Nat, NEW op, NEW g, FoldOf(op, base, N, g)
  PROVE  StepsOf(op, base, N, g)
<1>1. ASSUME NEW s \in SUBSET (1 .. N)
      PROVE  g[s] = IF s = {} THEN base ELSE op[<<g[s \ {Max(s)}], Max(s)>>]
  BY DEF FoldOf
<1>2. g[1 .. 0] = base
  <2>1. 1 .. 0 = {}
    OBVIOUS
  <2> QED
    BY <1>1, <2>1
<1>3. ASSUME NEW k \in 1 .. N PROVE g[1 .. k] = op[<<g[1 .. k - 1], k>>]
  <2>1. Max(1 .. k) = k /\ (1 .. k) # {} /\ (1 .. k) \ {k} = 1 .. k - 1
    BY MaxFacts
  <2>2. 1 .. k \in SUBSET (1 .. N)
    OBVIOUS
  <2> QED
    BY <1>1, <2>1, <2>2
<1> QED
  BY <1>2, <1>3 DEF StepsOf

-----------------------------------------------------------------------------
(* Recursion over 0 to N *)

IterationOf(op, base, N, g) ==
  g[0] = base /\ \A k \in 1 .. N : g[k] = op[<<g[k - 1], k>>]

\* A function that iterates a step n times exists.
LEMMA IterationExists ==
  ASSUME NEW X, NEW base \in X, NEW N \in Nat, NEW op \in [X \X (1 .. N) -> X]
  PROVE  \E g \in [0 .. N -> X] : IterationOf(op, base, N, g)
<1>1. PICK g \in [SUBSET (1 .. N) -> X] : FoldOf(op, base, N, g)
  BY FoldExists
<1>2. g[1 .. 0] = base /\ \A k \in 1 .. N : g[1 .. k] = op[<<g[1 .. k - 1], k>>]
  <2>1. FoldOf(op, base, N, g)
    BY <1>1
  <2>2. StepsOf(op, base, N, g)
    BY <2>1, FoldSteps
  <2> QED
    BY <2>2 DEF StepsOf
<1> DEFINE h == [n \in 0 .. N |-> g[1 .. n]]
<1>3. \A n \in 0 .. N : 1 .. n \in SUBSET (1 .. N) /\ h[n] = g[1 .. n]
  OBVIOUS
<1>4. h \in [0 .. N -> X]
  BY <1>1, <1>3
<1>5. h[0] = base
  BY <1>2, <1>3
<1>6. ASSUME NEW n \in 1 .. N PROVE h[n] = op[<<h[n - 1], n>>]
  <2>1. n \in 0 .. N /\ n - 1 \in 0 .. N
    OBVIOUS
  <2>2. h[n - 1] = g[1 .. n - 1] /\ h[n] = g[1 .. n]
    BY <1>3, <2>1
  <2> HIDE DEF h
  <2> QED
    BY <1>2, <2>2
<1> HIDE DEF h
<1> QED
  BY <1>4, <1>5, <1>6 DEF IterationOf

\* Whatever obeys the equation where its step is defined takes these values.
FoldIn(X, op, base, N, c) ==
  \A s \in SUBSET (1 .. N) :
    /\ s = {} => c[s] = base
    /\ s # {} /\ c[s \ {Max(s)}] \in X => c[s] = op[<<c[s \ {Max(s)}], Max(s)>>]

FoldValueOf(op, base, N, c, p) == IterationOf(op, base, N, p) /\ p[N] = c[1 .. N]

\* The values a fold runs through stay in a set its step stays in.
LEMMA FoldValues ==
  ASSUME NEW X, NEW base \in X, NEW N \in Nat, NEW op \in [X \X (1 .. N) -> X], NEW c,
         FoldIn(X, op, base, N, c)
  PROVE  \E p \in [0 .. N -> X] : FoldValueOf(op, base, N, c, p)
<1> DEFINE p == [k \in 0 .. N |-> c[1 .. k]]
           S == {k \in 0 .. N : p[k] \in X}
<1>1. p[0] = base
  <2>1. 1 .. 0 = {} /\ {} \in SUBSET (1 .. N) /\ p[0] = c[1 .. 0]
    OBVIOUS
  <2> QED
    BY <2>1 DEF FoldIn
<1>2. ASSUME NEW k \in 1 .. N, p[k - 1] \in X PROVE p[k] = op[<<p[k - 1], k>>]
  <2>1. Max(1 .. k) = k /\ (1 .. k) # {} /\ (1 .. k) \ {k} = 1 .. k - 1
    BY MaxFacts
  <2>2. 1 .. k \in SUBSET (1 .. N) /\ p[k] = c[1 .. k] /\ p[k - 1] = c[1 .. k - 1]
    OBVIOUS
  <2> HIDE DEF p
  <2> QED
    BY <1>2, <2>1, <2>2 DEF FoldIn
<1>3. DOMAIN p = 0 .. N /\ p = [k \in 0 .. N |-> p[k]] /\ p[N] = c[1 .. N]
  OBVIOUS
<1> HIDE DEF p
<1>4. ASSUME NEW k \in 0 .. N, k < N, k \in S PROVE k + 1 \in S
  <2> PICK n \in 1 .. N : n = k + 1
    BY <1>4
  <2>1. n - 1 = k /\ n \in 0 .. N /\ p[k] \in X
    BY <1>4
  <2>2. p[n] = op[<<p[k], n>>]
    BY <1>2, <2>1
  <2> QED
    BY <2>1, <2>2
<1>5. \A k \in 0 .. N : p[k] \in X
  <2>1. 0 \in S
    BY <1>1
  <2>2. \A k \in 0 .. N : k \in S
    <3> HIDE DEF S
    <3> QED
      BY <1>4, <2>1, AllUpTo
  <2> QED
    BY <2>2
<1>6. p \in [0 .. N -> X]
  BY <1>3, <1>5
<1>7. \A k \in 1 .. N : k - 1 \in 0 .. N
  OBVIOUS
<1>8. IterationOf(op, base, N, p)
  BY <1>1, <1>2, <1>5, <1>7 DEF IterationOf
<1> QED
  BY <1>3, <1>6, <1>8 DEF FoldValueOf

-----------------------------------------------------------------------------
(* The schema and its file *)

\* The names of the enumerations are read back as they were written.
LEMMA FromStrFacts ==
  /\ \A t \in DOMAIN TypeStr : \A d : FromStr(TypeStr, TypeStr[t], d) = t
  /\ \A t \in DOMAIN IndexStr : \A d : FromStr(IndexStr, IndexStr[t], d) = t
<1>1. \A t, u \in DOMAIN TypeStr : TypeStr[t] = TypeStr[u] => t = u
  BY DEF TypeStr
<1>2. \A t, u \in DOMAIN IndexStr : IndexStr[t] = IndexStr[u] => t = u
  BY DEF IndexStr
<1>3. ASSUME NEW f, \A t, u \in DOMAIN f : f[t] = f[u] => t = u, NEW t \in DOMAIN f, NEW d
      PROVE  FromStr(f, f[t], d) = t
  BY <1>3 DEF FromStr
<1> QED
  BY <1>1, <1>2, <1>3

\* What a field's object has under its keys.
LEMMA JsonFacts ==
  ASSUME NEW f \in FieldSchemas
  PROVE  LET j == JsonOf(f)
         IN  /\ {"name", "type", "index", "stored", "fast"} \subseteq DOMAIN j
             /\ j["name"] = f.name /\ j["type"] = TypeStr[f.type] /\ j["index"] = IndexStr[f.index]
             /\ j["stored"] = f.stored /\ j["fast"] = f.fast
             /\ IF "multi" \in DOMAIN j THEN j["multi"] = f.multi ELSE f.multi = FALSE
             /\ IF "sources" \in DOMAIN j THEN j["sources"] = f.sources ELSE f.sources = <<>>
<1> DEFINE D == {"name", "type", "index", "stored", "fast"}
                \cup {m \in {"multi"} : f.multi} \cup {s \in {"sources"} : f.sources # <<>>}
<1>1. JsonOf(f) = [k \in D |-> CASE k = "type"  -> TypeStr[f.type]
                                 [] k = "index" -> IndexStr[f.index]
                                 [] OTHER       -> f[k]]
  BY DEF JsonOf
<1>2. /\ {"name", "type", "index", "stored", "fast"} \subseteq D
      /\ ("multi" \in D <=> f.multi) /\ ("sources" \in D <=> f.sources # <<>>)
  OBVIOUS
<1>3. f.multi \in BOOLEAN
  BY DEF FieldSchemas
<1> HIDE DEF D
<1>4. DOMAIN JsonOf(f) = D /\ \A k \in D : JsonOf(f)[k] = CASE k = "type"  -> TypeStr[f.type]
                                 [] k = "index" -> IndexStr[f.index]
                                 [] OTHER       -> f[k]
  BY <1>1
<1>5. /\ JsonOf(f)["name"] = f.name /\ JsonOf(f)["type"] = TypeStr[f.type]
      /\ JsonOf(f)["index"] = IndexStr[f.index]
      /\ JsonOf(f)["stored"] = f.stored /\ JsonOf(f)["fast"] = f.fast
  BY <1>2, <1>4
<1>6. /\ "multi" \in D => JsonOf(f)["multi"] = f.multi
      /\ "sources" \in D => JsonOf(f)["sources"] = f.sources
  BY <1>4
<1> QED
  BY <1>2, <1>3, <1>4, <1>5, <1>6

\* Schema::load gives back what Schema::save was given.
LEMMA SchemaRoundTrip ==
  ASSUME NEW s \in Seq(FieldSchemas)
  PROVE  FromJson(SaveSchema(s)) = s
<1> DEFINE json == SaveSchema(s)
           Get(i, k, default) == IF k \in DOMAIN json[i] THEN json[i][k] ELSE default
           r == [i \in DOMAIN json |->
                  [name    |-> Get(i, "name", ""),
                   type    |-> FromStr(TypeStr, Get(i, "type", ""), "Text"),
                   index   |-> FromStr(IndexStr, Get(i, "index", ""), "None"),
                   stored  |-> Get(i, "stored", FALSE),
                   fast    |-> Get(i, "fast", FALSE),
                   multi   |-> Get(i, "multi", FALSE),
                   sources |-> Get(i, "sources", <<>>)]]
<1>1. FromJson(json) = r
  BY Zenon DEF FromJson
<1>2. DOMAIN json = DOMAIN s /\ \A i \in DOMAIN s : json[i] = JsonOf(s[i])
  BY DEF SaveSchema
<1> HIDE DEF json
<1>3. ASSUME NEW i \in DOMAIN s PROVE r[i] = s[i]
  <2>1. s[i] \in FieldSchemas
    OBVIOUS
  <2>2. PICK f \in FieldSchemas : f = s[i]
    BY <2>1
  <2>3. json[i] = JsonOf(f)
    BY <1>2, <2>2
  <2> DEFINE j == JsonOf(f)
  <2>4. /\ {"name", "type", "index", "stored", "fast"} \subseteq DOMAIN j
        /\ j["name"] = f.name /\ j["type"] = TypeStr[f.type] /\ j["index"] = IndexStr[f.index]
        /\ j["stored"] = f.stored /\ j["fast"] = f.fast
        /\ IF "multi" \in DOMAIN j THEN j["multi"] = f.multi ELSE f.multi = FALSE
        /\ IF "sources" \in DOMAIN j THEN j["sources"] = f.sources ELSE f.sources = <<>>
    BY JsonFacts
  <2>5. f.type \in DOMAIN TypeStr /\ f.index \in DOMAIN IndexStr
    BY DEF FieldSchemas
  <2> HIDE DEF j
  <2>6. Get(i, "name", "") = f.name /\ Get(i, "stored", FALSE) = f.stored /\ Get(i, "fast", FALSE) = f.fast
    BY <2>3, <2>4 DEF j
  <2>7. Get(i, "multi", FALSE) = f.multi /\ Get(i, "sources", <<>>) = f.sources
    BY <2>3, <2>4 DEF j
  <2>8. Get(i, "type", "") = TypeStr[f.type] /\ Get(i, "index", "") = IndexStr[f.index]
    BY <2>3, <2>4 DEF j
  <2>9. /\ FromStr(TypeStr, Get(i, "type", ""), "Text") = f.type
        /\ FromStr(IndexStr, Get(i, "index", ""), "None") = f.index
    BY <2>5, <2>8, FromStrFacts
  <2>10. r[i] = [name |-> f.name, type |-> f.type, index |-> f.index, stored |-> f.stored,
                 fast |-> f.fast, multi |-> f.multi, sources |-> f.sources]
    <3> HIDE DEF Get
    <3> QED
      BY <1>2, <2>6, <2>7, <2>9
  <2>11. f = [name |-> f.name, type |-> f.type, index |-> f.index, stored |-> f.stored,
              fast |-> f.fast, multi |-> f.multi, sources |-> f.sources]
    BY DEF FieldSchemas
  <2> HIDE DEF r
  <2> QED
    BY <2>2, <2>10, <2>11
<1>4. DOMAIN r = DOMAIN s /\ r = [i \in DOMAIN r |-> r[i]]
  BY <1>2
<1> HIDE DEF r
<1>5. r = s
  BY <1>3, <1>4
<1> QED
  BY <1>1, <1>5 DEF json

-----------------------------------------------------------------------------
(* FlattenSeq *)

\* FlattenSeq puts one sequence after the other.
LEMMA FlattenSteps ==
  ASSUME NEW X, NEW seqs \in Seq(Seq(X))
  PROVE  \E p \in [0 .. Len(seqs) -> Seq(X)] :
           /\ p[0] = <<>> /\ \A k \in 1 .. Len(seqs) : p[k] = p[k - 1] \o seqs[k]
           /\ FlattenSeq(seqs) = p[Len(seqs)]
<1> DEFINE N == Len(seqs)
<1>1. N \in Nat
  OBVIOUS
<1> HIDE DEF N
<1> DEFINE op == [x \in Seq(X) \X (1 .. N) |-> x[1] \o seqs[x[2]]]
<1>2. \A k \in 1 .. N : seqs[k] \in Seq(X)
  BY DEF N
<1>3. op \in [Seq(X) \X (1 .. N) -> Seq(X)] /\ <<>> \in Seq(X)
  BY <1>2
<1>4. \A x \in Seq(X) : \A k \in 1 .. N : op[<<x, k>>] = x \o seqs[k]
  OBVIOUS
<1> HIDE DEF op
<1>5. PICK p \in [0 .. N -> Seq(X)] :
        IterationOf(op, <<>>, N, p)
  BY <1>1, <1>3, IterationExists
<1>6. p[0] = <<>> /\ \A k \in 1 .. N : p[k] = p[k - 1] \o seqs[k]
  <2>1. p[0] = <<>>
    BY <1>5 DEF IterationOf
  <2>2. ASSUME NEW k \in 1 .. N PROVE p[k] = p[k - 1] \o seqs[k]
    <3>1. k - 1 \in 0 .. N
      BY <1>1
    <3>2. p[k] = op[<<p[k - 1], k>>]
      BY <1>5 DEF IterationOf
    <3>3. p[k - 1] \in Seq(X)
      BY <3>1
    <3> QED
      BY <1>4, <3>2, <3>3
  <2> QED
    BY <2>1, <2>2
<1> DEFINE IsFlat(g) == g = [i \in 1 .. N |-> IF i = 1 THEN seqs[i] ELSE g[i - 1] \o seqs[i]]
<1>7. CASE N = 0
  <2>1. FlattenSeq(seqs) = seqs /\ seqs = <<>>
    BY <1>7 DEF FlattenSeq, N
  <2> QED
    BY <1>6, <1>7, <2>1 DEF N
<1>8. CASE N # 0
  <2>1. FlattenSeq(seqs) = (CHOOSE g : IsFlat(g))[N]
    BY <1>8, Zenon DEF FlattenSeq, N
  <2> DEFINE h == [i \in 1 .. N |-> p[i]]
  <2>2. IsFlat(h)
    <3>1. ASSUME NEW i \in 1 .. N PROVE h[i] = IF i = 1 THEN seqs[i] ELSE h[i - 1] \o seqs[i]
      <4>1. CASE i = 1
        <5>1. p[i] = p[i - 1] \o seqs[i] /\ p[0] = <<>>
          BY <1>6
        <5>2. i - 1 = 0
          BY <4>1
        <5>3. p[i] = <<>> \o seqs[i]
          BY <5>1, <5>2
        <5>4. seqs[i] \in Seq(X)
          BY <1>2
        <5> QED
          BY <4>1, <5>3, <5>4
      <4>2. CASE i # 1
        <5>1. i - 1 \in 1 .. N /\ h[i - 1] = p[i - 1] /\ h[i] = p[i]
          BY <1>1, <4>2
        <5> QED
          BY <1>6, <4>2, <5>1
      <4> QED
        BY <4>1, <4>2
    <3>2. h = [i \in 1 .. N |-> h[i]]
      OBVIOUS
    <3> HIDE DEF h
    <3> QED
      BY <3>1, <3>2
  <2> DEFINE c == CHOOSE g : IsFlat(g)
  <2>3. IsFlat(c)
    <3> HIDE DEF IsFlat
    <3> QED
      BY <2>2
  <2> HIDE DEF c
  <2>4. \A i \in 1 .. N : c[i] = IF i = 1 THEN seqs[i] ELSE c[i - 1] \o seqs[i]
    BY <2>3
  <2> DEFINE S == {i \in 0 .. N : i = 0 \/ c[i] = p[i]}
  <2>5. ASSUME NEW i \in 0 .. N, i < N, i \in S PROVE i + 1 \in S
    <3>1. i + 1 \in 1 .. N /\ (i + 1) - 1 = i
      BY <1>1, <2>5
    <3>2. CASE i = 0
      <4>1. 1 \in 1 .. N
        BY <3>1, <3>2
      <4>2. PICK k \in 1 .. N : k = 1
        BY <4>1
      <4>4. p[k] = p[k - 1] \o seqs[k] /\ p[0] = <<>>
        BY <1>6
      <4>5. k - 1 = 0
        BY <4>2
      <4>6. p[k] = <<>> \o seqs[k]
        BY <4>4, <4>5
      <4>7. seqs[k] \in Seq(X) /\ c[k] = seqs[k]
        BY <1>2, <2>4, <4>2
      <4>3. c[1] = p[1]
        BY <4>2, <4>6, <4>7
      <4> QED
        BY <3>1, <3>2, <4>3
    <3>3. CASE i # 0
      <4>1. c[i] = p[i]
        BY <2>5, <3>3
      <4>2. p[i + 1] = p[(i + 1) - 1] \o seqs[i + 1]
        BY <1>6, <3>1
      <4>3. c[i + 1] = c[(i + 1) - 1] \o seqs[i + 1]
        <5>1. i + 1 # 1
          BY <3>1, <3>3
        <5> QED
          BY <2>4, <3>1, <5>1
      <4>4. c[i + 1] = p[i + 1]
        BY <3>1, <4>1, <4>2, <4>3
      <4>5. i + 1 \in 0 .. N
        BY <3>1
      <4> QED
        BY <4>4, <4>5
    <3> QED
      BY <3>2, <3>3
  <2>6. \A i \in 0 .. N : i \in S
    <3>1. 0 \in S
      BY <1>1
    <3> HIDE DEF S
    <3> QED
      BY <1>1, <2>5, <3>1, AllUpTo
  <2>7. c[N] = p[N]
    BY <1>1, <1>8, <2>6
  <2> QED
    BY <1>6, <2>1, <2>7 DEF N, c
<1> QED
  BY <1>7, <1>8

\* The elements of s \o t, by position.
LEMMA ConcatFacts ==
  ASSUME NEW X, NEW a \in Seq(X), NEW b \in Seq(X)
  PROVE  /\ a \o b \in Seq(X) /\ Len(a \o b) = Len(a) + Len(b)
         /\ \A x : InSeq(a \o b, x) <=> InSeq(a, x) \/ InSeq(b, x)
         /\ Distinct(a) /\ Distinct(b) /\ (\A x : ~ (InSeq(a, x) /\ InSeq(b, x))) => Distinct(a \o b)
<1> PICK c : c = a \o b
  OBVIOUS
<1> PICK m, n : m = Len(a) /\ n = Len(b)
  OBVIOUS
<1>1. m \in Nat /\ n \in Nat /\ c \in Seq(X) /\ Len(c) = m + n
      /\ DOMAIN a = 1 .. m /\ DOMAIN b = 1 .. n /\ DOMAIN c = 1 .. m + n
  OBVIOUS
<1>2. \A i \in 1 .. m + n : c[i] = IF i <= m THEN a[i] ELSE b[i - m]
  OBVIOUS
<1>3. (\A i \in 1 .. m : i \in 1 .. m + n /\ c[i] = a[i])
      /\ (\A i \in 1 .. n : m + i \in 1 .. m + n /\ c[m + i] = b[i])
  <2>1. ASSUME NEW i \in 1 .. m PROVE i \in 1 .. m + n /\ c[i] = a[i]
    BY <1>1, <1>2
  <2>2. ASSUME NEW i \in 1 .. n PROVE m + i \in 1 .. m + n /\ c[m + i] = b[i]
    <3>1. m + i \in 1 .. m + n /\ ~ (m + i <= m) /\ (m + i) - m = i
      BY <1>1
    <3> QED
      BY <1>2, <3>1
  <2> QED
    BY <2>1, <2>2
<1>4. \A x : InSeq(c, x) <=> InSeq(a, x) \/ InSeq(b, x)
  <2> TAKE x
  <2>1. ASSUME NEW i \in 1 .. m + n, c[i] = x PROVE InSeq(a, x) \/ InSeq(b, x)
    <3>1. CASE i <= m
      <4>1. i \in 1 .. m /\ c[i] = a[i]
        BY <1>1, <1>2, <3>1
      <4> QED
        BY <1>1, <2>1, <4>1 DEF InSeq
    <3>2. CASE ~ (i <= m)
      <4>1. i - m \in 1 .. n
        BY <1>1, <3>2
      <4> QED
        BY <1>1, <1>2, <2>1, <3>2, <4>1 DEF InSeq
    <3> QED
      BY <3>1, <3>2
  <2>2. InSeq(a, x) => InSeq(c, x)
    BY <1>1, <1>3 DEF InSeq
  <2>3. InSeq(b, x) => InSeq(c, x)
    BY <1>1, <1>3 DEF InSeq
  <2>4. InSeq(c, x) => InSeq(a, x) \/ InSeq(b, x)
    BY <1>1, <2>1 DEF InSeq
  <2> QED
    BY <2>2, <2>3, <2>4
<1>5. ASSUME Distinct(a), Distinct(b), \A x : ~ (InSeq(a, x) /\ InSeq(b, x)),
             NEW i \in 1 .. m + n, NEW j \in 1 .. m + n, c[i] = c[j]
      PROVE  i = j
  <2>1. CASE i <= m /\ j <= m
    <3>1. i \in 1 .. m /\ j \in 1 .. m
      BY <2>1
    <3> QED
      BY <1>1, <1>2, <1>5, <2>1, <3>1 DEF Distinct
  <2>2. CASE ~ (i <= m) /\ ~ (j <= m)
    <3>1. i - m \in 1 .. n /\ j - m \in 1 .. n /\ c[i] = b[i - m] /\ c[j] = b[j - m]
      BY <1>1, <1>2, <2>2
    <3>2. i - m = j - m
      BY <1>1, <1>5, <3>1 DEF Distinct
    <3> QED
      BY <1>1, <3>2
  <2>3. CASE i <= m /\ ~ (j <= m)
    <3>1. i \in 1 .. m /\ j - m \in 1 .. n /\ c[i] = a[i] /\ c[j] = b[j - m]
      BY <1>1, <1>2, <2>3
    <3>2. InSeq(a, c[i]) /\ InSeq(b, c[i])
      BY <1>1, <1>5, <3>1 DEF InSeq
    <3> QED
      BY <1>5, <3>2
  <2>4. CASE ~ (i <= m) /\ j <= m
    <3>1. j \in 1 .. m /\ i - m \in 1 .. n /\ c[j] = a[j] /\ c[i] = b[i - m]
      BY <1>1, <1>2, <2>4
    <3>2. InSeq(a, c[j]) /\ InSeq(b, c[j])
      BY <1>1, <1>5, <3>1 DEF InSeq
    <3> QED
      BY <1>5, <3>2
  <2> QED
    BY <2>1, <2>2, <2>3, <2>4
<1>6. Distinct(a) /\ Distinct(b) /\ (\A x : ~ (InSeq(a, x) /\ InSeq(b, x))) => Distinct(c)
  BY <1>1, <1>5 DEF Distinct
<1> QED
  BY <1>1, <1>4, <1>6

\* What is in a flattened sequence is in one of the sequences, and it has
\* nothing twice when no two of their places hold the same.
LEMMA FlattenFacts ==
  ASSUME NEW X, NEW seqs \in Seq(Seq(X))
  PROVE  /\ FlattenSeq(seqs) \in Seq(X)
         /\ \A x : InSeq(FlattenSeq(seqs), x) <=> \E k \in DOMAIN seqs : InSeq(seqs[k], x)
         /\ (/\ \A k \in DOMAIN seqs : Distinct(seqs[k])
             /\ \A k, l \in DOMAIN seqs : \A x : InSeq(seqs[k], x) /\ InSeq(seqs[l], x) => k = l)
              => Distinct(FlattenSeq(seqs))
<1>1. PICK p \in [0 .. Len(seqs) -> Seq(X)] :
           /\ p[0] = <<>> /\ \A k \in 1 .. Len(seqs) : p[k] = p[k - 1] \o seqs[k]
           /\ FlattenSeq(seqs) = p[Len(seqs)]
  BY FlattenSteps
<1> PICK N \in Nat : N = Len(seqs)
  OBVIOUS
<1>2. \A k \in 1 .. N : seqs[k] \in Seq(X)
  OBVIOUS
<1> DEFINE In(k) == \A x : InSeq(p[k], x) <=> \E m \in 1 .. k : InSeq(seqs[m], x)
           Apart == /\ \A k \in 1 .. N : Distinct(seqs[k])
                    /\ \A k, l \in 1 .. N : \A x : InSeq(seqs[k], x) /\ InSeq(seqs[l], x) => k = l
           S == {k \in 0 .. N : In(k) /\ (Apart => Distinct(p[k]))}
<1>3. 0 \in S
  BY <1>1 DEF InSeq, Distinct
<1>4. ASSUME NEW k \in 0 .. N, k < N, k \in S PROVE k + 1 \in S
  <2> PICK n \in 1 .. N : n = k + 1
    BY <1>4
  <2>1. n - 1 = k /\ k \in 0 .. N
    OBVIOUS
  <2>2. p[n] = p[k] \o seqs[n] /\ p[k] \in Seq(X) /\ seqs[n] \in Seq(X)
    BY <1>1, <1>2, <2>1
  <2>3. /\ \A x : InSeq(p[n], x) <=> InSeq(p[k], x) \/ InSeq(seqs[n], x)
        /\ Distinct(p[k]) /\ Distinct(seqs[n]) /\ (\A x : ~ (InSeq(p[k], x) /\ InSeq(seqs[n], x)))
             => Distinct(p[n])
    <3>1. PICK a \in Seq(X), b \in Seq(X) : a = p[k] /\ b = seqs[n]
      BY <2>2
    <3>2. p[n] = a \o b
      BY <2>2, <3>1
    <3> QED
      BY <3>1, <3>2, ConcatFacts
  <2>4. In(k) /\ (Apart => Distinct(p[k]))
    BY <1>4
  <2>5. \A m : m \in 1 .. n <=> m \in 1 .. k \/ m = n
    BY <2>1
  <2>6. In(n)
    BY <2>3, <2>4, <2>5
  <2>7. ASSUME Apart PROVE Distinct(p[n])
    <3>1. ASSUME NEW x, InSeq(p[k], x), InSeq(seqs[n], x) PROVE FALSE
      <4>1. PICK m \in 1 .. k : InSeq(seqs[m], x)
        BY <2>4, <3>1
      <4>2. m \in 1 .. N /\ m # n
        BY <2>1
      <4> QED
        BY <2>7, <3>1, <4>1, <4>2
    <3>2. Distinct(seqs[n]) /\ Distinct(p[k])
      BY <2>4, <2>7
    <3> QED
      BY <2>3, <3>1, <3>2
  <2> HIDE DEF In, Apart
  <2> QED
    BY <2>1, <2>6, <2>7
<1>5. N \in S
  <2> HIDE DEF S
  <2>1. \A k \in 0 .. N : k \in S
    BY <1>3, <1>4, AllUpTo
  <2> QED
    BY <2>1
<1>6. DOMAIN seqs = 1 .. N /\ N \in 0 .. N
  OBVIOUS
<1> QED
  BY <1>1, <1>5, <1>6

-----------------------------------------------------------------------------
(* The tokens of a document *)

Words == DOMAIN Stem
Terms == Seq(Words \cup {Stem[w] : w \in Words})
Toks  == [term : Terms, pos : Nat]

\* A word that is kept.
Kept(w) == w \notin StopWords /\ Stem[w] # ""

\* The analyzer numbers what it keeps from 0 on.
LEMMA AnalyzeFacts ==
  ASSUME NEW text \in Seq(Words)
  PROVE  /\ Analyze(text) \in Seq(Toks)
         /\ \A i \in DOMAIN Analyze(text) : Analyze(text)[i].pos = i - 1
         /\ \A x : (\E i \in DOMAIN Analyze(text) : Analyze(text)[i].term = x)
                     <=> \E i \in DOMAIN text : Kept(text[i]) /\ x = <<Stem[text[i]]>>
<1> DEFINE S == {i \in DOMAIN text : Kept(text[i])}
           p == Picked(text, S)
           o == InOrder(S)
           a == [i \in DOMAIN p |-> [term |-> <<Stem[p[i]]>>, pos |-> i - 1]]
<1>1. Analyze(text) = a
  BY Zenon DEF Analyze, Kept
<1>2. S \in SUBSET Nat /\ IsFiniteSet(S) /\ \A i \in S : text[i] \in Words
  <2>1. IsFiniteSet(1 .. Len(text)) /\ S \in SUBSET (1 .. Len(text))
    BY FS_Interval
  <2>2. IsFiniteSet(S)
    BY <2>1, FS_Subset
  <2> QED
    BY <2>1, <2>2
<1> HIDE DEF S
<1>3. /\ DOMAIN p = 1 .. Cardinality(S) /\ Cardinality(S) \in Nat
      /\ \A n \in DOMAIN p : o[n] \in S /\ p[n] = text[o[n]]
      /\ DOMAIN o = DOMAIN p /\ \A i \in S : InSeq(o, i)
  BY <1>2, PickedFacts
<1> HIDE DEF o, p
<1>4. PICK n \in Nat : n = Cardinality(S)
  BY <1>3
<1>5. \A i \in 1 .. n : p[i] \in Words /\ <<Stem[p[i]]>> \in Terms /\ i - 1 \in Nat
  <2> TAKE i \in 1 .. n
  <2>1. p[i] \in Words
    BY <1>2, <1>3, <1>4
  <2> QED
    BY <2>1 DEF Terms
<1>6. DOMAIN a = 1 .. n /\ \A i \in 1 .. n : a[i] = [term |-> <<Stem[p[i]]>>, pos |-> i - 1]
  BY <1>3, <1>4
<1> HIDE DEF a
<1>7. \A i \in 1 .. n : a[i] \in Toks /\ a[i].pos = i - 1 /\ a[i].term = <<Stem[p[i]]>>
  BY <1>5, <1>6 DEF Toks
<1>8. a \in Seq(Toks)
  <2>1. a = [i \in 1 .. n |-> a[i]]
    BY <1>1, <1>3, <1>4 DEF a
  <2>2. a \in [1 .. n -> Toks]
    BY <1>7, <2>1
  <2> QED
    BY <2>2
<1>9. ASSUME NEW x
      PROVE  (\E i \in DOMAIN a : a[i].term = x)
               <=> \E i \in DOMAIN text : Kept(text[i]) /\ x = <<Stem[text[i]]>>
  <2>1. ASSUME NEW i \in 1 .. n, a[i].term = x
        PROVE  \E j \in DOMAIN text : Kept(text[j]) /\ x = <<Stem[text[j]]>>
    <3>1. o[i] \in S /\ p[i] = text[o[i]]
      BY <1>3, <1>4
    <3>2. o[i] \in DOMAIN text /\ Kept(text[o[i]])
      BY <3>1 DEF S
    <3> QED
      BY <1>7, <2>1, <3>1, <3>2
  <2>2. ASSUME NEW j \in DOMAIN text, Kept(text[j]), x = <<Stem[text[j]]>>
        PROVE  \E i \in 1 .. n : a[i].term = x
    <3>1. j \in S
      BY <2>2 DEF S
    <3>2. PICK i \in 1 .. n : o[i] = j
      BY <1>3, <1>4, <3>1 DEF InSeq
    <3> QED
      BY <1>3, <1>4, <1>7, <2>2, <3>2
  <2> QED
    BY <1>6, <2>1, <2>2
<1> QED
  BY <1>1, <1>6, <1>7, <1>8, <1>9

\* The tokens of a field from base on: what the positions do.
Built(r, base) ==
  /\ r \in [tokens : Seq(Toks), next : Nat] /\ base <= r.next
  /\ \A i \in DOMAIN r.tokens : base <= r.tokens[i].pos /\ r.tokens[i].pos < r.next
  /\ \A i, j \in DOMAIN r.tokens : r.tokens[i].pos = r.tokens[j].pos => i = j

\* The one token of a keyword.
LEMMA KeywordBuilt ==
  ASSUME NEW base \in Nat
  PROVE  /\ Built(Nothing(base), base)
         /\ \A text \in Seq(Words) : Built(Keyword(text, base), base)
<1>1. Built(Nothing(base), base)
  BY DEF Built, Nothing
<1>2. ASSUME NEW text \in Seq(Words) PROVE Built(Keyword(text, base), base)
  <2>1. [term |-> text, pos |-> base] \in Toks
    BY DEF Toks, Terms
  <2>2. PICK t \in Toks : t = [term |-> text, pos |-> base]
    BY <2>1
  <2>3. Keyword(text, base) = [tokens |-> <<t>>, next |-> base + 1]
    BY <2>2 DEF Keyword
  <2>4. <<t>> \in Seq(Toks) /\ DOMAIN <<t>> = {1} /\ <<t>>[1] = t /\ t.pos = base
    BY <2>2
  <2> QED
    BY <2>3, <2>4 DEF Built
<1> QED
  BY <1>1, <1>2

\* VarSingleField::buildTokens: its tokens lie between the base and the next
\* base.
LEMMA SingleBuilt ==
  ASSUME NEW f, NEW base \in Nat, NEW text \in Seq(Words)
  PROVE  Built(SingleTokens(f, text, base), base)
<1>1. CASE f.type = "Keyword"
  BY <1>1, KeywordBuilt DEF SingleTokens
<1>2. CASE f.type # "Keyword"
  <2> DEFINE a == Analyze(text)
             b == [i \in DOMAIN a |-> [a[i] EXCEPT !.pos = @ + base]]
             m == base + (IF a = <<>> THEN 1 ELSE Len(a))
  <2>1. SingleTokens(f, text, base) = [tokens |-> b, next |-> m]
    BY <1>2, Zenon DEF SingleTokens
  <2>2. a \in Seq(Toks) /\ \A i \in DOMAIN a : a[i].pos = i - 1
    BY AnalyzeFacts
  <2> HIDE DEF a
  <2>3. PICK n \in Nat : n = Len(a)
    BY <2>2
  <2>4. m \in Nat /\ base <= m /\ base + n <= m
    BY <2>2, <2>3
  <2>5. \A i \in 1 .. n : b[i] \in Toks /\ b[i].pos = base + i - 1
    <3> TAKE i \in 1 .. n
    <3>1. a[i] \in Toks /\ a[i].pos = i - 1 /\ b[i] = [a[i] EXCEPT !.pos = @ + base]
      BY <2>2, <2>3
    <3> QED
      BY <3>1 DEF Toks
  <2>6. DOMAIN b = 1 .. n /\ b = [i \in 1 .. n |-> b[i]]
    BY <2>2, <2>3
  <2> HIDE DEF b, m
  <2>7. b \in Seq(Toks)
    <3>1. b \in [1 .. n -> Toks]
      BY <2>5, <2>6
    <3> QED
      BY <3>1
  <2>8. \A i \in 1 .. n : base <= b[i].pos /\ b[i].pos < m
    BY <2>4, <2>5
  <2>9. \A i, j \in 1 .. n : b[i].pos = b[j].pos => i = j
    BY <2>5
  <2> QED
    BY <2>1, <2>4, <2>6, <2>7, <2>8, <2>9 DEF Built
<1> QED
  BY <1>1, <1>2

\* VarMultiField::buildTokens, likewise.
LEMMA MultiBuilt ==
  ASSUME NEW f, NEW base \in Nat, NEW texts \in Seq(Seq(Words))
  PROVE  Built(MultiTokens(f, texts, base), base)
<1> DEFINE S == {i \in DOMAIN texts : texts[i] # <<>>}
           full == Picked(texts, S)
           term(text) == IF f.type = "Keyword" THEN <<text>>
                         ELSE [i \in DOMAIN Analyze(text) |-> Analyze(text)[i].term]
           seqs == [i \in DOMAIN full |-> term(full[i])]
           all == FlattenSeq(seqs)
           b == [i \in DOMAIN all |-> [term |-> all[i], pos |-> base + i - 1]]
<1>1. MultiTokens(f, texts, base) = [tokens |-> b, next |-> base + Len(all)]
  BY Zenon DEF MultiTokens
<1>2. S \in SUBSET Nat /\ IsFiniteSet(S) /\ \A i \in S : texts[i] \in Seq(Words)
  <2>1. IsFiniteSet(1 .. Len(texts)) /\ S \in SUBSET (1 .. Len(texts))
    BY FS_Interval
  <2>2. IsFiniteSet(S)
    BY <2>1, FS_Subset
  <2> QED
    BY <2>1, <2>2
<1>3. full \in Seq(Seq(Words))
  <2> HIDE DEF S
  <2> QED
    BY <1>2, PickedFacts
<1> HIDE DEF full
<1>4. \A text \in Seq(Words) : term(text) \in Seq(Terms)
  <2> TAKE text \in Seq(Words)
  <2>1. <<text>> \in Seq(Terms)
    BY DEF Terms
  <2>2. [i \in DOMAIN Analyze(text) |-> Analyze(text)[i].term] \in Seq(Terms)
    <3>1. Analyze(text) \in Seq(Toks)
      BY AnalyzeFacts
    <3>2. PICK a \in Seq(Toks) : a = Analyze(text)
      BY <3>1
    <3>3. \A i \in DOMAIN a : a[i].term \in Terms
      <4>1. \A i \in DOMAIN a : a[i] \in Toks
        OBVIOUS
      <4> QED
        BY <4>1 DEF Toks
    <3>4. [i \in DOMAIN a |-> a[i].term] \in Seq(Terms)
      BY <3>3
    <3> QED
      BY <3>2, <3>4
  <2> QED
    BY <2>1, <2>2
<1> HIDE DEF term
<1>5. seqs \in Seq(Seq(Terms))
  <2>1. PICK n \in Nat : DOMAIN full = 1 .. n /\ \A i \in 1 .. n : full[i] \in Seq(Words)
    BY <1>3
  <2>2. \A i \in 1 .. n : seqs[i] \in Seq(Terms)
    BY <1>4, <2>1
  <2>3. seqs \in [1 .. n -> Seq(Terms)]
    BY <2>1, <2>2
  <2> QED
    BY <2>3
<1> HIDE DEF seqs
<1>6. all \in Seq(Terms)
  BY <1>5, FlattenFacts
<1> HIDE DEF all
<1>7. PICK n \in Nat : n = Len(all)
  BY <1>6
<1>8. \A i \in 1 .. n : b[i] \in Toks /\ b[i].pos = base + i - 1
  <2> TAKE i \in 1 .. n
  <2>1. all[i] \in Terms /\ base + i - 1 \in Nat
    BY <1>6, <1>7
  <2>2. b[i] = [term |-> all[i], pos |-> base + i - 1]
    BY <1>6, <1>7
  <2> QED
    BY <2>1, <2>2 DEF Toks
<1>9. DOMAIN b = 1 .. n /\ b = [i \in 1 .. n |-> b[i]]
  BY <1>6, <1>7
<1> HIDE DEF b
<1>10. b \in Seq(Toks)
  <2>1. b \in [1 .. n -> Toks]
    BY <1>8, <1>9
  <2> QED
    BY <2>1
<1>11. \A i \in 1 .. n : base <= b[i].pos /\ b[i].pos < base + n
  BY <1>8
<1>12. \A i, j \in 1 .. n : b[i].pos = b[j].pos => i = j
  BY <1>8
<1>13. base + n \in Nat /\ base <= base + n
  OBVIOUS
<1> QED
  BY <1>1, <1>7, <1>9, <1>10, <1>11, <1>12, <1>13 DEF Built

Builds == [tokens : Seq(Toks), next : Nat]

\* The fold of a combined field, one token after another.
LEMMA PutTokenSteps ==
  ASSUME NEW base \in Nat, NEW toks \in Seq(Toks)
  PROVE  \E p \in [0 .. Len(toks) -> Builds] :
           /\ p[0] = Nothing(base) /\ \A k \in 1 .. Len(toks) : p[k] = PutToken(p[k - 1], toks[k])
           /\ FoldLeft(PutToken, Nothing(base), toks) = p[Len(toks)]
<1> DEFINE D == DOMAIN toks
           IsFold(g) == g = [s \in SUBSET D |-> IF s = {} THEN Nothing(base)
                                                ELSE PutToken(g[s \ {Max(s)}], toks[Max(s)])]
           c == CHOOSE g : IsFold(g)
<1>1. FoldLeft(PutToken, Nothing(base), toks) = c[D]
  BY Zenon DEF FoldLeft, MapThenFoldSet
<1>2. PICK N \in Nat : N = Len(toks) /\ D = 1 .. N
  OBVIOUS
<1> HIDE DEF D
<1>3. \A k \in 1 .. N : toks[k] \in Toks
  BY <1>2
<1>4. Nothing(base) \in Builds
  BY DEF Nothing, Builds
<1>5. \A x \in Builds : \A k \in 1 .. N : PutToken(x, toks[k]) \in Builds
  <2> TAKE x \in Builds
  <2> TAKE k \in 1 .. N
  <2>1. toks[k] \in Toks /\ x.next \in Nat
    BY <1>3 DEF Builds
  <2>2. [toks[k] EXCEPT !.pos = @ + x.next] \in Toks /\ x.next + toks[k].pos + 1 \in Nat
    <3>1. PICK t \in Toks, m \in Nat : t = toks[k] /\ m = x.next
      BY <2>1
    <3>2. t.term \in Terms /\ t.pos \in Nat /\ DOMAIN t = {"term", "pos"}
      BY DEF Toks
    <3>3. [t EXCEPT !.pos = @ + m] = [term |-> t.term, pos |-> t.pos + m]
      BY DEF Toks
    <3>4. [t EXCEPT !.pos = @ + m] \in Toks /\ m + t.pos + 1 \in Nat
      BY <3>2, <3>3 DEF Toks
    <3> QED
      BY <3>1, <3>4
  <2>3. x.tokens \in Seq(Toks)
    BY DEF Builds
  <2>4. Append(x.tokens, [toks[k] EXCEPT !.pos = @ + x.next]) \in Seq(Toks)
    BY <2>2, <2>3
  <2> QED
    BY <2>2, <2>4 DEF PutToken, Builds
<1> DEFINE op == [y \in Builds \X (1 .. N) |-> PutToken(y[1], toks[y[2]])]
<1>6. op \in [Builds \X (1 .. N) -> Builds]
      /\ \A x \in Builds : \A k \in 1 .. N : op[<<x, k>>] = PutToken(x, toks[k])
  BY <1>5
<1> HIDE DEF op
<1>7. PICK g \in [SUBSET (1 .. N) -> Builds] : FoldOf(op, Nothing(base), N, g)
  BY <1>4, <1>6, FoldExists
<1>8. \A s \in SUBSET (1 .. N) : s # {} => Max(s) \in 1 .. N /\ s \ {Max(s)} \in SUBSET (1 .. N)
  <2> TAKE s \in SUBSET (1 .. N)
  <2> HAVE s # {}
  <2>1. Max(s) \in s
    BY MaxFacts
  <2> QED
    BY <2>1
<1>9. IsFold(g)
  <2>1. \A s \in SUBSET (1 .. N) :
          g[s] = IF s = {} THEN Nothing(base) ELSE op[<<g[s \ {Max(s)}], Max(s)>>]
    BY <1>7 DEF FoldOf
  <2>2. \A s \in SUBSET (1 .. N) :
          g[s] = IF s = {} THEN Nothing(base) ELSE PutToken(g[s \ {Max(s)}], toks[Max(s)])
    <3> TAKE s \in SUBSET (1 .. N)
    <3>1. CASE s = {}
      BY <2>1, <3>1
    <3>2. CASE s # {}
      <4>1. Max(s) \in 1 .. N /\ g[s \ {Max(s)}] \in Builds
        BY <1>8, <3>2
      <4> QED
        BY <1>6, <2>1, <3>2, <4>1
    <3> QED
      BY <3>1, <3>2
  <2> QED
    BY <1>2, <2>2
<1>10. IsFold(c)
  <2> HIDE DEF IsFold
  <2> QED
    BY <1>9
<1> HIDE DEF c
<1>11. FoldIn(Builds, op, Nothing(base), N, c)
  <2>1. \A s \in SUBSET (1 .. N) :
         c[s] = IF s = {} THEN Nothing(base) ELSE PutToken(c[s \ {Max(s)}], toks[Max(s)])
    BY <1>2, <1>10
  <2> HIDE DEF IsFold
  <2> QED
    BY <1>6, <1>8, <2>1 DEF FoldIn
<1> HIDE DEF IsFold
<1>12. PICK p \in [0 .. N -> Builds] : FoldValueOf(op, Nothing(base), N, c, p)
  BY <1>4, <1>6, <1>11, FoldValues
<1>13. p[0] = Nothing(base) /\ \A k \in 1 .. N : p[k] = PutToken(p[k - 1], toks[k])
  <2>1. p[0] = Nothing(base) /\ \A k \in 1 .. N : p[k] = op[<<p[k - 1], k>>]
    BY <1>12 DEF FoldValueOf, IterationOf
  <2>2. \A k \in 1 .. N : p[k - 1] \in Builds
    OBVIOUS
  <2> QED
    BY <1>6, <2>1, <2>2
<1> QED
  BY <1>1, <1>2, <1>12, <1>13 DEF FoldValueOf

\* A token of a combined field, and the base behind it.
LEMMA PutTokenBuilt ==
  ASSUME NEW base \in Nat, NEW b, Built(b, base), NEW t \in Toks
  PROVE  Built(PutToken(b, t), base)
<1>1. /\ b.tokens \in Seq(Toks) /\ b.next \in Nat /\ base <= b.next
      /\ \A i \in DOMAIN b.tokens : base <= b.tokens[i].pos /\ b.tokens[i].pos < b.next
      /\ \A i, j \in DOMAIN b.tokens : b.tokens[i].pos = b.tokens[j].pos => i = j
  BY DEF Built
<1>2. PICK s \in Seq(Toks), m \in Nat : s = b.tokens /\ m = b.next
  BY <1>1
<1>3. t.term \in Terms /\ t.pos \in Nat /\ DOMAIN t = {"term", "pos"}
  BY DEF Toks
<1> DEFINE u == [t EXCEPT !.pos = @ + m]
<1>4. u = [term |-> t.term, pos |-> t.pos + m]
  BY DEF Toks
<1>5. u \in Toks /\ u.pos = t.pos + m
  BY <1>3, <1>4 DEF Toks
<1> HIDE DEF u
<1>6. PICK n \in Nat : n = Len(s)
  OBVIOUS
<1> DEFINE a == Append(s, u)
<1>7. /\ a \in Seq(Toks) /\ DOMAIN a = 1 .. n + 1 /\ a[n + 1] = u /\ DOMAIN s = 1 .. n
      /\ \A i \in 1 .. n : a[i] = s[i]
  BY <1>5, <1>6
<1> HIDE DEF a
<1>8. PutToken(b, t) = [tokens |-> a, next |-> m + t.pos + 1]
  BY <1>2 DEF PutToken, a, u
<1>9. m + t.pos + 1 \in Nat /\ base <= m + t.pos + 1 /\ m <= m + t.pos + 1
  BY <1>1, <1>2, <1>3
<1>10. \A i \in 1 .. n : base <= a[i].pos /\ a[i].pos < m
  BY <1>1, <1>2, <1>7
<1>11. \A i \in 1 .. n + 1 : i \in 1 .. n \/ (i = n + 1 /\ a[i].pos = t.pos + m)
  BY <1>5, <1>6, <1>7
<1>12. \A i \in 1 .. n : a[i].pos \in Nat
  <2>1. \A i \in 1 .. n : s[i] \in Toks
    BY <1>7
  <2> QED
    BY <1>7, <2>1 DEF Toks
<1>13. \A i \in 1 .. n + 1 : base <= a[i].pos /\ a[i].pos < m + t.pos + 1
  <2> TAKE i \in 1 .. n + 1
  <2>1. CASE i \in 1 .. n
    BY <1>3, <1>10, <1>12, <2>1
  <2>2. CASE i = n + 1 /\ a[i].pos = t.pos + m
    BY <1>1, <1>2, <1>3, <2>2
  <2> QED
    BY <1>11, <2>1, <2>2
<1>14. \A i, j \in 1 .. n + 1 : a[i].pos = a[j].pos => i = j
  <2> TAKE i, j \in 1 .. n + 1
  <2> HAVE a[i].pos = a[j].pos
  <2>1. CASE i \in 1 .. n /\ j \in 1 .. n
    BY <1>1, <1>2, <1>7, <2>1
  <2>2. CASE i = n + 1 /\ j = n + 1
    BY <2>2
  <2>3. CASE i \in 1 .. n /\ j = n + 1 /\ a[j].pos = t.pos + m
    BY <1>3, <1>10, <1>12, <2>3
  <2>4. CASE j \in 1 .. n /\ i = n + 1 /\ a[i].pos = t.pos + m
    BY <1>3, <1>10, <1>12, <2>4
  <2> QED
    BY <1>11, <2>1, <2>2, <2>3, <2>4
<1> QED
  BY <1>7, <1>8, <1>9, <1>13, <1>14 DEF Built

\* The fields of a document hold what a FieldVal may hold.
FieldsOK(fields) == \A name \in DOMAIN fields : IsFieldVal(fields[name])

\* CombinedField::buildTokensDoc, likewise.
LEMMA CombinedBuilt ==
  ASSUME NEW f \in FieldSchemas, NEW fields, FieldsOK(fields), NEW base \in Nat
  PROVE  Built(CombinedTokens(f, fields, base), base)
<1> DEFINE S == {i \in DOMAIN f.sources : /\ f.sources[i] \in DOMAIN fields
                                          /\ fields[f.sources[i]].kind = "str"}
           single == Picked(f.sources, S)
           seqs == [i \in DOMAIN single |-> Analyze(fields[single[i]].val)]
           toks == FlattenSeq(seqs)
<1>1. CombinedTokens(f, fields, base) = FoldLeft(PutToken, Nothing(base), toks)
  BY Zenon DEF CombinedTokens
<1> DEFINE Y == {name \in DOMAIN fields : fields[name].kind = "str"}
<1>2. S \in SUBSET Nat /\ IsFiniteSet(S) /\ \A i \in S : f.sources[i] \in Y
  <2>1. f.sources \in Seq(STRING)
    BY DEF FieldSchemas
  <2>2. IsFiniteSet(1 .. Len(f.sources)) /\ S \in SUBSET (1 .. Len(f.sources))
    BY <2>1, FS_Interval
  <2>3. IsFiniteSet(S)
    BY <2>2, FS_Subset
  <2> QED
    BY <2>2, <2>3
<1>3. single \in Seq(Y)
  <2> HIDE DEF S, Y
  <2> QED
    BY <1>2, PickedFacts
<1> HIDE DEF single
<1>4. PICK n \in Nat : DOMAIN single = 1 .. n /\ \A i \in 1 .. n : single[i] \in Y
  BY <1>3
<1>5. \A i \in 1 .. n : seqs[i] \in Seq(Toks)
  <2> TAKE i \in 1 .. n
  <2>1. fields[single[i]].val \in Seq(Words)
    BY <1>4 DEF FieldsOK, IsFieldVal, Words
  <2>2. Analyze(fields[single[i]].val) \in Seq(Toks)
    BY <2>1, AnalyzeFacts
  <2> QED
    BY <1>4, <2>2
<1>6. seqs \in Seq(Seq(Toks))
  <2>1. seqs \in [1 .. n -> Seq(Toks)]
    BY <1>4, <1>5
  <2> QED
    BY <2>1
<1> HIDE DEF seqs
<1>7. toks \in Seq(Toks)
  BY <1>6, FlattenFacts
<1> HIDE DEF toks
<1>8. PICK p \in [0 .. Len(toks) -> Builds] :
           /\ p[0] = Nothing(base) /\ \A k \in 1 .. Len(toks) : p[k] = PutToken(p[k - 1], toks[k])
           /\ FoldLeft(PutToken, Nothing(base), toks) = p[Len(toks)]
  BY <1>7, PutTokenSteps
<1>9. PICK N \in Nat : N = Len(toks) /\ DOMAIN toks = 1 .. N /\ \A k \in 1 .. N : toks[k] \in Toks
  BY <1>7
<1> DEFINE B == {k \in 0 .. N : Built(p[k], base)}
<1>10. ASSUME NEW k \in 0 .. N, k < N, k \in B PROVE k + 1 \in B
  <2> PICK m \in 1 .. N : m = k + 1
    BY <1>10
  <2>1. m - 1 = k /\ m \in 0 .. N /\ Built(p[k], base)
    BY <1>10
  <2>2. p[m] = PutToken(p[k], toks[m]) /\ toks[m] \in Toks
    BY <1>8, <1>9, <2>1
  <2>3. Built(p[m], base)
    BY <2>1, <2>2, PutTokenBuilt
  <2> QED
    BY <2>1, <2>3
<1>11. 0 \in B
  BY <1>8, KeywordBuilt
<1>12. N \in B
  <2> HIDE DEF B
  <2>1. \A k \in 0 .. N : k \in B
    BY <1>10, <1>11, AllUpTo
  <2> QED
    BY <2>1
<1> QED
  BY <1>1, <1>8, <1>9, <1>12

\* The tokens of any field lie between its base and the next.
LEMMA BuildTokensBuilt ==
  ASSUME NEW f \in FieldSchemas, NEW fields, FieldsOK(fields), NEW base \in Nat
  PROVE  Built(BuildTokens(f, fields, base), base)
<1> DEFINE HasKind(kind) == f.name \in DOMAIN fields /\ fields[f.name].kind = kind
                            /\ fields[f.name].val # <<>>
           textual == f.type \in {"Text", "Keyword"}
<1>1. BuildTokens(f, fields, base) =
        IF f.index = "None" THEN Nothing(base)
     ELSE CASE f.type = "Combined" -> CombinedTokens(f, fields, base)
            [] f.type \in {"Text", "Keyword"} /\ f.multi /\ HasKind("strs") ->
                 MultiTokens(f, fields[f.name].val, base)
            [] f.type \in {"Text", "Keyword"} /\ ~f.multi /\ HasKind("str") ->
                 SingleTokens(f, fields[f.name].val, base)
            [] OTHER -> Nothing(base)
  BY Zenon DEF BuildTokens
<1>2. Built(Nothing(base), base) /\ Built(CombinedTokens(f, fields, base), base)
  BY KeywordBuilt, CombinedBuilt
<1>3. HasKind("strs") => Built(MultiTokens(f, fields[f.name].val, base), base)
  <2> HAVE HasKind("strs")
  <2>1. fields[f.name].val \in Seq(Seq(Words))
    BY DEF FieldsOK, IsFieldVal, Words
  <2> QED
    BY <2>1, MultiBuilt
<1>4. HasKind("str") => Built(SingleTokens(f, fields[f.name].val, base), base)
  <2> HAVE HasKind("str")
  <2>1. fields[f.name].val \in Seq(Words)
    BY DEF FieldsOK, IsFieldVal, Words
  <2> QED
    BY <2>1, SingleBuilt
<1> HIDE DEF HasKind
<1>5. CASE f.index = "None"
  <2>1. BuildTokens(f, fields, base) = Nothing(base)
    BY <1>1, <1>5
  <2> QED
    BY <1>2, <2>1
<1>6. CASE f.index # "None" /\ f.type = "Combined"
  <2>1. BuildTokens(f, fields, base) = CombinedTokens(f, fields, base)
    BY <1>1, <1>6
  <2> QED
    BY <1>2, <2>1
<1>7. CASE f.index # "None" /\ textual /\ f.multi /\ HasKind("strs")
  <2>1. BuildTokens(f, fields, base) = MultiTokens(f, fields[f.name].val, base)
    BY <1>1, <1>7
  <2> QED
    BY <1>3, <1>7, <2>1
<1>8. CASE f.index # "None" /\ textual /\ ~f.multi /\ HasKind("str")
  <2>1. BuildTokens(f, fields, base) = SingleTokens(f, fields[f.name].val, base)
    BY <1>1, <1>8
  <2> QED
    BY <1>4, <1>8, <2>1
<1>9. CASE /\ f.index # "None" /\ f.type # "Combined"
           /\ ~(textual /\ f.multi /\ HasKind("strs")) /\ ~(textual /\ ~f.multi /\ HasKind("str"))
  <2>1. BuildTokens(f, fields, base) = Nothing(base)
    BY <1>1, <1>9
  <2> QED
    BY <1>2, <2>1
<1> QED
  BY <1>5, <1>6, <1>7, <1>8, <1>9

\* A token with the key of its posting list, and what one document's tokens are.
Keyed == [key : STRING \X Terms, pos : Nat]
DocBuilds == [tokens : Seq(Keyed), next : Nat]

DocBuilt(b) ==
  /\ b \in DocBuilds
  /\ \A i \in DOMAIN b.tokens : b.tokens[i].pos < b.next
  /\ \A i, j \in DOMAIN b.tokens : b.tokens[i].pos = b.tokens[j].pos => i = j

\* One more field of a document: its positions are beyond all before.
LEMMA AddFieldBuilt ==
  ASSUME NEW b, DocBuilt(b), NEW f \in FieldSchemas, NEW fields, FieldsOK(fields)
  PROVE  DocBuilt(AddField(b, f, fields))
<1>1. PICK base \in Nat, s \in Seq(Keyed) : base = b.next /\ s = b.tokens
  BY DEF DocBuilt, DocBuilds
<1>2. /\ \A i \in DOMAIN s : s[i].pos < base
      /\ \A i, j \in DOMAIN s : s[i].pos = s[j].pos => i = j
  BY <1>1 DEF DocBuilt
<1>3. PICK t : t = BuildTokens(f, fields, base)
  OBVIOUS
<1>4. Built(t, base)
  BY <1>3, BuildTokensBuilt
<1>5. PICK r \in Seq(Toks), next \in Nat : r = t.tokens /\ next = t.next
  BY <1>4 DEF Built
<1>6. /\ base <= next /\ \A i \in DOMAIN r : base <= r[i].pos /\ r[i].pos < next
      /\ \A i, j \in DOMAIN r : r[i].pos = r[j].pos => i = j
  BY <1>4, <1>5 DEF Built
<1>7. PICK m \in Nat, n \in Nat : DOMAIN s = 1 .. m /\ Len(s) = m /\ DOMAIN r = 1 .. n
  OBVIOUS
<1> DEFINE u == [i \in DOMAIN r |-> [key |-> <<f.name, r[i].term>>, pos |-> r[i].pos]]
           c == s \o u
<1>8. AddField(b, f, fields) = [tokens |-> c, next |-> next]
  BY <1>1, <1>3, <1>5, Zenon DEF AddField
<1>9. \A i \in 1 .. n : r[i].term \in Terms /\ r[i].pos \in Nat
  <2>1. \A i \in 1 .. n : r[i] \in Toks
    BY <1>7
  <2> QED
    BY <2>1 DEF Toks
<1>10. f.name \in STRING
  BY DEF FieldSchemas
<1>11. \A i \in 1 .. n : u[i] \in Keyed /\ u[i].pos = r[i].pos
  BY <1>7, <1>9, <1>10 DEF Keyed
<1>12. u \in Seq(Keyed) /\ Len(u) = n
  <2>1. DOMAIN u = 1 .. n /\ u = [i \in 1 .. n |-> u[i]]
    BY <1>7
  <2> HIDE DEF u
  <2>2. u \in [1 .. n -> Keyed]
    BY <1>11, <2>1
  <2> QED
    BY <2>2
<1> HIDE DEF u
<1>13. /\ c \in Seq(Keyed) /\ DOMAIN c = 1 .. m + n
       /\ \A i \in 1 .. m + n : c[i] = IF i <= m THEN s[i] ELSE u[i - m]
  BY <1>7, <1>12
<1> HIDE DEF c
<1>14. \A i \in 1 .. m : s[i].pos \in Nat
  <2>1. \A i \in 1 .. m : s[i] \in Keyed
    BY <1>7
  <2> QED
    BY <2>1 DEF Keyed
<1>15. \A i \in 1 .. m + n :
         \/ i \in 1 .. m /\ c[i].pos = s[i].pos
         \/ i - m \in 1 .. n /\ c[i].pos = r[i - m].pos
  <2> TAKE i \in 1 .. m + n
  <2>1. CASE i <= m
    BY <1>13, <2>1
  <2>2. CASE ~ (i <= m)
    <3>1. i - m \in 1 .. n
      BY <2>2
    <3> QED
      BY <1>11, <1>13, <2>2, <3>1
  <2> QED
    BY <2>1, <2>2
<1>16. \A i \in 1 .. m : s[i].pos < base /\ s[i].pos < next
  BY <1>2, <1>6, <1>7, <1>14
<1>17. \A i \in 1 .. n : base <= r[i].pos /\ r[i].pos < next
  BY <1>6, <1>7
<1>18. \A i \in 1 .. m + n : c[i].pos < next
  BY <1>15, <1>16, <1>17
<1>19. \A i, j \in 1 .. m + n : c[i].pos = c[j].pos => i = j
  <2> TAKE i, j \in 1 .. m + n
  <2> HAVE c[i].pos = c[j].pos
  <2>1. CASE i \in 1 .. m /\ c[i].pos = s[i].pos /\ j \in 1 .. m /\ c[j].pos = s[j].pos
    BY <1>2, <1>7, <2>1
  <2>2. CASE i - m \in 1 .. n /\ c[i].pos = r[i - m].pos /\ j - m \in 1 .. n /\ c[j].pos = r[j - m].pos
    <3>1. i - m = j - m
      BY <1>6, <1>7, <2>2
    <3> QED
      BY <3>1
  <2>3. CASE i \in 1 .. m /\ c[i].pos = s[i].pos /\ j - m \in 1 .. n /\ c[j].pos = r[j - m].pos
    <3>1. PICK x, y \in Nat : x = s[i].pos /\ y = r[j - m].pos
      BY <1>9, <1>14, <2>3
    <3>2. x < base /\ base <= y
      BY <1>16, <1>17, <2>3, <3>1
    <3>3. x # y
      BY <3>2
    <3> QED
      BY <2>3, <3>1, <3>3
  <2>4. CASE j \in 1 .. m /\ c[j].pos = s[j].pos /\ i - m \in 1 .. n /\ c[i].pos = r[i - m].pos
    <3>1. PICK x, y \in Nat : x = s[j].pos /\ y = r[i - m].pos
      BY <1>9, <1>14, <2>4
    <3>2. x < base /\ base <= y
      BY <1>16, <1>17, <2>4, <3>1
    <3>3. x # y
      BY <3>2
    <3> QED
      BY <2>4, <3>1, <3>3
  <2> QED
    BY <1>15, <2>1, <2>2, <2>3, <2>4
<1> QED
  BY <1>8, <1>13, <1>18, <1>19 DEF DocBuilt, DocBuilds

\* The tokens of a document have keys and positions, no position twice.
LEMMA DocTokensFacts ==
  ASSUME NEW sch \in Seq(FieldSchemas), NEW fields, FieldsOK(fields)
  PROVE  /\ DocTokens(sch, fields) \in Seq(Keyed)
         /\ \A i, j \in DOMAIN DocTokens(sch, fields) :
              DocTokens(sch, fields)[i].pos = DocTokens(sch, fields)[j].pos => i = j
<1> DEFINE D == DOMAIN sch
           IsFold(g) == g = [s \in SUBSET D |-> IF s = {} THEN Nothing(0)
                                                ELSE AddField(g[s \ {Max(s)}], sch[Max(s)], fields)]
           c == CHOOSE g : IsFold(g)
           X == {b \in DocBuilds : DocBuilt(b)}
<1>1. DocTokens(sch, fields) = c[D].tokens
  BY Zenon DEF DocTokens, FoldLeft, MapThenFoldSet
<1>2. PICK N \in Nat : N = Len(sch) /\ D = 1 .. N
  OBVIOUS
<1> HIDE DEF D
<1>3. \A k \in 1 .. N : sch[k] \in FieldSchemas
  BY <1>2
<1>4. Nothing(0) \in X
  <2>1. PICK e \in Seq(Keyed) : e = <<>> /\ DOMAIN e = {}
    <3>1. <<>> \in Seq(Keyed) /\ DOMAIN <<>> = {}
      OBVIOUS
    <3> QED
      BY <3>1, Zenon
  <2>2. Nothing(0) = [tokens |-> e, next |-> 0]
    BY <2>1 DEF Nothing
  <2>5. [tokens |-> e, next |-> 0] \in DocBuilds
    BY DEF DocBuilds
  <2>3. PICK b \in DocBuilds : b = Nothing(0) /\ b.tokens = e
    BY <2>2, <2>5
  <2>4. DocBuilt(b)
    BY <2>1, <2>3 DEF DocBuilt
  <2> QED
    BY <2>3, <2>4
<1>5. \A x \in X : \A k \in 1 .. N : AddField(x, sch[k], fields) \in X
  BY <1>3, AddFieldBuilt DEF DocBuilt
<1> DEFINE op == [y \in X \X (1 .. N) |-> AddField(y[1], sch[y[2]], fields)]
<1>6. op \in [X \X (1 .. N) -> X]
      /\ \A x \in X : \A k \in 1 .. N : op[<<x, k>>] = AddField(x, sch[k], fields)
  <2> HIDE DEF X
  <2> QED
    BY <1>5
<1> HIDE DEF op, X
<1>7. PICK g \in [SUBSET (1 .. N) -> X] : FoldOf(op, Nothing(0), N, g)
  BY <1>4, <1>6, FoldExists
<1>8. \A s \in SUBSET (1 .. N) : s # {} => Max(s) \in 1 .. N /\ s \ {Max(s)} \in SUBSET (1 .. N)
  <2> TAKE s \in SUBSET (1 .. N)
  <2> HAVE s # {}
  <2>1. Max(s) \in s
    BY MaxFacts
  <2> QED
    BY <2>1
<1>9. IsFold(g)
  <2>1. \A s \in SUBSET (1 .. N) :
          g[s] = IF s = {} THEN Nothing(0) ELSE op[<<g[s \ {Max(s)}], Max(s)>>]
    BY <1>7 DEF FoldOf
  <2>2. \A s \in SUBSET (1 .. N) :
          g[s] = IF s = {} THEN Nothing(0) ELSE AddField(g[s \ {Max(s)}], sch[Max(s)], fields)
    <3> TAKE s \in SUBSET (1 .. N)
    <3>1. CASE s = {}
      BY <2>1, <3>1
    <3>2. CASE s # {}
      <4>1. Max(s) \in 1 .. N /\ g[s \ {Max(s)}] \in X
        BY <1>8, <3>2
      <4> QED
        BY <1>6, <2>1, <3>2, <4>1
    <3> QED
      BY <3>1, <3>2
  <2> QED
    BY <1>2, <2>2
<1>10. IsFold(c)
  <2> HIDE DEF IsFold
  <2> QED
    BY <1>9
<1> HIDE DEF c
<1>11. FoldIn(X, op, Nothing(0), N, c)
  <2>1. \A s \in SUBSET (1 .. N) :
         c[s] = IF s = {} THEN Nothing(0) ELSE AddField(c[s \ {Max(s)}], sch[Max(s)], fields)
    BY <1>2, <1>10
  <2> HIDE DEF IsFold
  <2> QED
    BY <1>6, <1>8, <2>1 DEF FoldIn
<1> HIDE DEF IsFold
<1>12. PICK p \in [0 .. N -> X] : FoldValueOf(op, Nothing(0), N, c, p)
  BY <1>4, <1>6, <1>11, FoldValues
<1>13. c[D] \in X
  <2>1. p[N] \in X
    OBVIOUS
  <2> QED
    BY <1>2, <1>12, <2>1 DEF FoldValueOf
<1> QED
  BY <1>1, <1>13 DEF X, DocBuilt, DocBuilds

-----------------------------------------------------------------------------
(* The posting lists in memory *)

KeyT    == STRING \X Terms
EntryT  == [id : Nat, tf : Nat, pos : Seq(Nat)]
Indexes == UNION {[K -> Seq(EntryT)] : K \in SUBSET KeyT}

\* The keys of a document's tokens, and where the tokens with a key are.
KeysIn(toks) == {toks[n].key : n \in DOMAIN toks}
Places(toks, key) == {n \in DOMAIN toks : toks[n].key = key}
Positions(toks, S) == [n \in DOMAIN Picked(toks, S) |-> Picked(toks, S)[n].pos]

\* The entry that the tokens at the places S make.
EntryOf(id, toks, S) == [id |-> id, tf |-> Cardinality(S), pos |-> Positions(toks, S)]

\* The positions of the tokens at a set of places.
LEMMA PositionsFacts ==
  ASSUME NEW toks \in Seq(Keyed)
  PROVE  /\ Positions(toks, {}) = <<>>
         /\ \A S \in SUBSET DOMAIN toks :
              /\ IsFiniteSet(S) /\ S \in SUBSET Nat /\ Cardinality(S) \in Nat
              /\ Positions(toks, S) \in Seq(Nat) /\ Len(Positions(toks, S)) = Cardinality(S)
         /\ \A S \in SUBSET DOMAIN toks : \A m \in DOMAIN toks :
              (\A i \in S : i < m) => Positions(toks, S \cup {m}) = Append(Positions(toks, S), toks[m].pos)
<1>1. PICK N \in Nat : DOMAIN toks = 1 .. N /\ IsFiniteSet(1 .. N)
  BY FS_Interval
<1>2. \A m \in 1 .. N : toks[m] \in Keyed
  BY <1>1
<1>3. Positions(toks, {}) = <<>>
  <2>1. Picked(toks, {}) = <<>>
    BY PickedAppend
  <2>2. DOMAIN Picked(toks, {}) = {} /\ DOMAIN <<>> = {}
    BY <2>1
  <2>3. Positions(toks, {}) = [n \in {} |-> Picked(toks, {})[n].pos]
    BY <2>2, Zenon DEF Positions
  <2> QED
    BY <2>3
<1>4. ASSUME NEW S \in SUBSET DOMAIN toks
      PROVE  /\ IsFiniteSet(S) /\ S \in SUBSET Nat /\ Cardinality(S) \in Nat
             /\ Picked(toks, S) \in Seq(Keyed) /\ DOMAIN Picked(toks, S) = 1 .. Cardinality(S)
             /\ Len(Picked(toks, S)) = Cardinality(S)
             /\ Positions(toks, S) \in Seq(Nat) /\ Len(Positions(toks, S)) = Cardinality(S)
  <2>1. IsFiniteSet(S) /\ S \in SUBSET Nat
    BY <1>1, <1>4, FS_Subset
  <2>2. \A i \in S : toks[i] \in Keyed
    BY <1>1, <1>2, <1>4
  <2>3. /\ Picked(toks, S) \in Seq(Keyed) /\ DOMAIN Picked(toks, S) = 1 .. Cardinality(S)
        /\ Len(Picked(toks, S)) = Cardinality(S) /\ Cardinality(S) \in Nat
    BY <2>1, <2>2, PickedFacts
  <2>4. PICK k \in Nat, p \in Seq(Keyed) : k = Cardinality(S) /\ p = Picked(toks, S) /\ DOMAIN p = 1 .. k
    BY <2>3
  <2>5. Positions(toks, S) = [n \in 1 .. k |-> p[n].pos]
    BY <2>4 DEF Positions
  <2>6. \A n \in 1 .. k : p[n].pos \in Nat
    <3>1. \A n \in 1 .. k : p[n] \in Keyed
      BY <2>4
    <3> QED
      BY <3>1 DEF Keyed
  <2>7. Positions(toks, S) \in [1 .. k -> Nat]
    BY <2>5, <2>6
  <2>8. Positions(toks, S) \in Seq(Nat) /\ Len(Positions(toks, S)) = k
    BY <2>7
  <2> QED
    BY <2>1, <2>3, <2>4, <2>8
<1>5. ASSUME NEW S \in SUBSET DOMAIN toks, NEW m \in DOMAIN toks, \A i \in S : i < m
      PROVE  Positions(toks, S \cup {m}) = Append(Positions(toks, S), toks[m].pos)
  <2>1. Picked(toks, S \cup {m}) = Append(Picked(toks, S), toks[m])
    <3>1. IsFiniteSet(S) /\ S \in SUBSET Nat /\ m \in Nat
      BY <1>1, <1>4
    <3> QED
      BY <1>5, <3>1, PickedAppend
  <2>2. PICK k \in Nat, p \in Seq(Keyed) : p = Picked(toks, S) /\ DOMAIN p = 1 .. k /\ Len(p) = k
    BY <1>4
  <2>3. toks[m] \in Keyed
    BY <1>1, <1>2
  <2>4. PICK q : q = Append(p, toks[m])
    OBVIOUS
  <2>5. /\ DOMAIN q = 1 .. k + 1 /\ q[k + 1] = toks[m] /\ \A n \in 1 .. k : q[n] = p[n]
    BY <2>2, <2>3, <2>4
  <2>6. Positions(toks, S \cup {m}) = [n \in 1 .. k + 1 |-> q[n].pos]
    BY <2>1, <2>2, <2>4, <2>5 DEF Positions
  <2>7. Positions(toks, S) = [n \in 1 .. k |-> p[n].pos]
    BY <2>2 DEF Positions
  <2>8. PICK a \in Seq(Nat) : a = Positions(toks, S) /\ Len(a) = k /\ DOMAIN a = 1 .. k
                              /\ \A n \in 1 .. k : a[n] = p[n].pos
    <3>1. Positions(toks, S) \in Seq(Nat)
      BY <1>4
    <3>2. DOMAIN Positions(toks, S) = 1 .. k /\ \A n \in 1 .. k : Positions(toks, S)[n] = p[n].pos
      BY <2>7
    <3>3. Len(Positions(toks, S)) = k
      BY <3>1, <3>2
    <3> QED
      BY <3>1, <3>2, <3>3
  <2>9. toks[m].pos \in Nat
    BY <2>3 DEF Keyed
  <2>10. PICK b : b = Append(a, toks[m].pos)
    OBVIOUS
  <2>11. DOMAIN b = 1 .. k + 1 /\ b[k + 1] = toks[m].pos /\ \A n \in 1 .. k : b[n] = a[n]
    BY <2>8, <2>9, <2>10
  <2>12. b = [n \in 1 .. k + 1 |-> b[n]]
    <3>1. b \in Seq(Nat)
      BY <2>8, <2>9, <2>10
    <3> QED
      BY <2>11, <3>1
  <2>13. \A n \in 1 .. k + 1 : b[n] = q[n].pos
    <3> TAKE n \in 1 .. k + 1
    <3>1. CASE n \in 1 .. k
      BY <2>5, <2>8, <2>11, <3>1
    <3>2. CASE n = k + 1
      BY <2>5, <2>11, <3>2
    <3> QED
      BY <3>1, <3>2
  <2> QED
    BY <2>6, <2>8, <2>10, <2>12, <2>13
<1> QED
  BY <1>3, <1>4, <1>5

\* field_indexes_ after one more token.
LEMMA AddTokenIn ==
  ASSUME NEW x \in Indexes, NEW id \in Nat, NEW tok \in Keyed
  PROVE  AddToken(x, id, tok) \in Indexes
<1>1. PICK K \in SUBSET KeyT : x \in [K -> Seq(EntryT)]
  BY DEF Indexes
<1>2. PICK k \in KeyT, pos \in Nat : k = tok.key /\ pos = tok.pos
  BY DEF Keyed, KeyT
<1>3. PICK list \in Seq(EntryT) : list = ListOf(x, k)
  <2>1. <<>> \in Seq(EntryT)
    OBVIOUS
  <2>2. ListOf(x, k) \in Seq(EntryT)
    BY <1>1, <2>1 DEF ListOf
  <2> QED
    BY <2>2
<1>4. PICK n \in Nat : DOMAIN list = 1 .. n /\ Len(list) = n
  OBVIOUS
<1>5. \A i \in 1 .. n : list[i].id \in Nat /\ list[i].tf \in Nat /\ list[i].pos \in Seq(Nat)
                        /\ list[i] = [id |-> list[i].id, tf |-> list[i].tf, pos |-> list[i].pos]
  <2>1. \A i \in 1 .. n : list[i] \in EntryT
    BY <1>4
  <2> QED
    BY <2>1 DEF EntryT
<1>6. AppendPosting(list, id, pos) \in Seq(EntryT)
  <2> DEFINE at == {i \in DOMAIN list : list[i].id = id}
  <2>1. CASE at = {}
    <3>1. [id |-> id, tf |-> 1, pos |-> <<pos>>] \in EntryT
      BY DEF EntryT
    <3>2. AppendPosting(list, id, pos) = Append(list, [id |-> id, tf |-> 1, pos |-> <<pos>>])
      BY <2>1, Zenon DEF AppendPosting
    <3> QED
      BY <3>1, <3>2
  <2>2. CASE at # {}
    <3> DEFINE r == [i \in DOMAIN list |->
                       IF i \in at
                       THEN [id |-> id, tf |-> list[i].tf + 1, pos |-> Append(list[i].pos, pos)]
                       ELSE list[i]]
    <3>1. AppendPosting(list, id, pos) = r
      BY <2>2, Zenon DEF AppendPosting
    <3>2. \A e \in EntryT : [id |-> id, tf |-> e.tf + 1, pos |-> Append(e.pos, pos)] \in EntryT
      <4> TAKE e \in EntryT
      <4>1. e.tf + 1 \in Nat /\ Append(e.pos, pos) \in Seq(Nat)
        BY DEF EntryT
      <4> QED
        BY <4>1 DEF EntryT
    <3>3. \A i \in 1 .. n : list[i] \in EntryT
      BY <1>4
    <3>4. r \in [1 .. n -> EntryT]
      <4>1. \A i \in 1 .. n : r[i] \in EntryT
        <5> HIDE DEF at
        <5> TAKE i \in 1 .. n
        <5>1. r[i] = IF i \in at THEN [id |-> id, tf |-> list[i].tf + 1, pos |-> Append(list[i].pos, pos)] ELSE list[i]
          BY <1>4
        <5>2. list[i] \in EntryT /\ [id |-> id, tf |-> list[i].tf + 1, pos |-> Append(list[i].pos, pos)] \in EntryT
          BY <3>2, <3>3
        <5> QED
          BY <5>1, <5>2
      <4>2. DOMAIN r = 1 .. n /\ r = [i \in 1 .. n |-> r[i]]
        BY <1>4
      <4> HIDE DEF r
      <4> QED
        BY <4>1, <4>2
    <3>5. r \in Seq(EntryT)
      <4> HIDE DEF r
      <4> QED
        BY <3>4
    <3> QED
      BY <3>1, <3>5
  <2> QED
    BY <2>1, <2>2
<1>7. AddToken(x, id, tok) = [key \in K \cup {k} |->
                               IF key = k THEN AppendPosting(ListOf(x, key), id, pos) ELSE x[key]]
  BY <1>1, <1>2 DEF AddToken
<1>8. AddToken(x, id, tok) \in [K \cup {k} -> Seq(EntryT)]
  BY <1>1, <1>3, <1>6, <1>7
<1>9. K \cup {k} \in SUBSET KeyT
  OBVIOUS
<1> QED
  BY <1>8, <1>9 DEF Indexes

\* Indexing a document is putting its tokens in one after another.
LEMMA IndexTokensSteps ==
  ASSUME NEW index \in Indexes, NEW id \in Nat, NEW toks \in Seq(Keyed)
  PROVE  \E p \in [0 .. Len(toks) -> Indexes] :
           /\ p[0] = index /\ \A k \in 1 .. Len(toks) : p[k] = AddToken(p[k - 1], id, toks[k])
           /\ IndexTokens(index, id, toks) = p[Len(toks)]
<1> DEFINE D == DOMAIN toks
           IsFold(g) == g = [s \in SUBSET D |-> IF s = {} THEN index
                                                ELSE AddToken(g[s \ {Max(s)}], id, toks[Max(s)])]
           c == CHOOSE g : IsFold(g)
<1>1. IndexTokens(index, id, toks) = c[D]
  BY Zenon DEF IndexTokens, FoldLeft, MapThenFoldSet
<1>2. PICK N \in Nat : N = Len(toks) /\ D = 1 .. N
  OBVIOUS
<1> HIDE DEF D
<1>3. \A k \in 1 .. N : toks[k] \in Keyed
  BY <1>2
<1>5. \A x \in Indexes : \A k \in 1 .. N : AddToken(x, id, toks[k]) \in Indexes
  BY <1>3, AddTokenIn
<1> DEFINE op == [y \in Indexes \X (1 .. N) |-> AddToken(y[1], id, toks[y[2]])]
<1>6. op \in [Indexes \X (1 .. N) -> Indexes]
      /\ \A x \in Indexes : \A k \in 1 .. N : op[<<x, k>>] = AddToken(x, id, toks[k])
  BY <1>5
<1> HIDE DEF op
<1>7. PICK g \in [SUBSET (1 .. N) -> Indexes] : FoldOf(op, index, N, g)
  BY <1>6, FoldExists
<1>8. \A s \in SUBSET (1 .. N) : s # {} => Max(s) \in 1 .. N /\ s \ {Max(s)} \in SUBSET (1 .. N)
  <2> TAKE s \in SUBSET (1 .. N)
  <2> HAVE s # {}
  <2>1. Max(s) \in s
    BY MaxFacts
  <2> QED
    BY <2>1
<1>9. IsFold(g)
  <2>1. \A s \in SUBSET (1 .. N) :
          g[s] = IF s = {} THEN index ELSE op[<<g[s \ {Max(s)}], Max(s)>>]
    BY <1>7 DEF FoldOf
  <2>2. \A s \in SUBSET (1 .. N) :
          g[s] = IF s = {} THEN index ELSE AddToken(g[s \ {Max(s)}], id, toks[Max(s)])
    <3> TAKE s \in SUBSET (1 .. N)
    <3>1. CASE s = {}
      BY <2>1, <3>1
    <3>2. CASE s # {}
      <4>1. Max(s) \in 1 .. N /\ g[s \ {Max(s)}] \in Indexes
        BY <1>8, <3>2
      <4> QED
        BY <1>6, <2>1, <3>2, <4>1
    <3> QED
      BY <3>1, <3>2
  <2> QED
    BY <1>2, <2>2
<1>10. IsFold(c)
  <2> HIDE DEF IsFold
  <2> QED
    BY <1>9
<1> HIDE DEF c
<1>11. FoldIn(Indexes, op, index, N, c)
  <2>1. \A s \in SUBSET (1 .. N) :
         c[s] = IF s = {} THEN index ELSE AddToken(c[s \ {Max(s)}], id, toks[Max(s)])
    BY <1>2, <1>10
  <2> HIDE DEF IsFold
  <2> QED
    BY <1>6, <1>8, <2>1 DEF FoldIn
<1> HIDE DEF IsFold
<1>12. PICK p \in [0 .. N -> Indexes] : FoldValueOf(op, index, N, c, p)
  BY <1>6, <1>11, FoldValues
<1>13. p[0] = index /\ \A k \in 1 .. N : p[k] = AddToken(p[k - 1], id, toks[k])
  <2>1. p[0] = index /\ \A k \in 1 .. N : p[k] = op[<<p[k - 1], k>>]
    BY <1>12 DEF FoldValueOf, IterationOf
  <2>2. \A k \in 1 .. N : p[k - 1] \in Indexes
    OBVIOUS
  <2> QED
    BY <1>6, <2>1, <2>2
<1> QED
  BY <1>1, <1>2, <1>12, <1>13 DEF FoldValueOf

\* AppendPosting makes or extends the entry of a document.
PostsAt(list, id, toks, S, m) ==
  /\ S = {} => AppendPosting(list, id, toks[m].pos) = Append(list, EntryOf(id, toks, S \cup {m}))
  /\ AppendPosting(Append(list, EntryOf(id, toks, S)), id, toks[m].pos)
       = Append(list, EntryOf(id, toks, S \cup {m}))

\* The list of a key after one more of its tokens.
LEMMA AppendPostingFacts ==
  ASSUME NEW list \in Seq(EntryT), NEW id \in Nat, \A i \in DOMAIN list : list[i].id # id,
         NEW toks \in Seq(Keyed), NEW S \in SUBSET DOMAIN toks, NEW m \in DOMAIN toks, \A i \in S : i < m
  PROVE  PostsAt(list, id, toks, S, m)
<1>1. PICK pos \in Nat : pos = toks[m].pos
  <2>1. toks[m] \in Keyed
    OBVIOUS
  <2> QED
    BY <2>1 DEF Keyed
<1>2. PICK k \in Nat, p \in Seq(Nat), q \in Seq(Nat) :
           /\ k = Cardinality(S) /\ p = Positions(toks, S)
           /\ q = Positions(toks, S \cup {m}) /\ q = Append(p, pos)
  <2>1. Cardinality(S) \in Nat /\ Positions(toks, S) \in Seq(Nat)
    BY PositionsFacts
  <2>2. Positions(toks, S \cup {m}) = Append(Positions(toks, S), pos)
    BY <1>1, PositionsFacts
  <2>3. PICK p \in Seq(Nat) : p = Positions(toks, S)
    BY <2>1
  <2>4. Append(p, pos) \in Seq(Nat)
    OBVIOUS
  <2> QED
    BY <2>1, <2>2, <2>3, <2>4
<1>3. Cardinality(S \cup {m}) = k + 1
  <2>1. IsFiniteSet(S) /\ m \notin S
    <3>1. m \in Nat
      OBVIOUS
    <3> QED
      BY <3>1, PositionsFacts
  <2> QED
    BY <1>2, <2>1, FS_AddElement
<1>4. EntryOf(id, toks, S) = [id |-> id, tf |-> k, pos |-> p]
  BY <1>2 DEF EntryOf
<1>5. EntryOf(id, toks, S \cup {m}) = [id |-> id, tf |-> k + 1, pos |-> Append(p, pos)]
  BY <1>2, <1>3 DEF EntryOf
<1>6. PICK n \in Nat : DOMAIN list = 1 .. n /\ Len(list) = n
  OBVIOUS
<1>7. ASSUME S = {}
      PROVE  AppendPosting(list, id, pos) = Append(list, EntryOf(id, toks, S \cup {m}))
  <2>1. p = <<>> /\ k = 0
    BY <1>2, <1>7, PositionsFacts, FS_EmptySet
  <2>2. EntryOf(id, toks, S \cup {m}) = [id |-> id, tf |-> 1, pos |-> <<pos>>]
    BY <1>5, <2>1
  <2>3. {i \in DOMAIN list : list[i].id = id} = {}
    OBVIOUS
  <2>4. AppendPosting(list, id, pos) = Append(list, [id |-> id, tf |-> 1, pos |-> <<pos>>])
    BY <2>3, Zenon DEF AppendPosting
  <2> QED
    BY <2>2, <2>4
<1>8. AppendPosting(Append(list, EntryOf(id, toks, S)), id, pos)
        = Append(list, EntryOf(id, toks, S \cup {m}))
  <2>1. PICK e, f : e = EntryOf(id, toks, S) /\ f = EntryOf(id, toks, S \cup {m})
    OBVIOUS
  <2>2. e.id = id /\ e.tf = k /\ e.pos = p /\ f = [id |-> id, tf |-> e.tf + 1, pos |-> Append(e.pos, pos)]
    BY <1>4, <1>5, <2>1
  <2>3. e \in EntryT /\ f \in EntryT
    <3>1. Append(p, pos) \in Seq(Nat) /\ k + 1 \in Nat
      BY <1>2
    <3>2. [id |-> id, tf |-> k, pos |-> p] \in EntryT
      BY DEF EntryT
    <3>3. [id |-> id, tf |-> k + 1, pos |-> Append(p, pos)] \in EntryT
      BY <3>1 DEF EntryT
    <3> QED
      BY <1>4, <1>5, <2>1, <3>2, <3>3
  <2>4. PICK a \in Seq(EntryT), b \in Seq(EntryT) : a = Append(list, e) /\ b = Append(list, f)
    <3>1. Append(list, e) \in Seq(EntryT) /\ Append(list, f) \in Seq(EntryT)
      BY <2>3
    <3> QED
      BY <3>1
  <2>5. /\ DOMAIN a = 1 .. n + 1 /\ a[n + 1] = e /\ \A i \in 1 .. n : a[i] = list[i]
        /\ DOMAIN b = 1 .. n + 1 /\ b[n + 1] = f /\ \A i \in 1 .. n : b[i] = list[i]
    BY <1>6, <2>4
  <2>6. PICK at : at = {i \in DOMAIN a : a[i].id = id}
    OBVIOUS
  <2>7. at = {n + 1}
    <3>1. \A i \in 1 .. n + 1 : a[i].id = id <=> i = n + 1
      <4> TAKE i \in 1 .. n + 1
      <4>1. CASE i \in 1 .. n
        <5>0. i # n + 1
          BY <4>1
        <5>1. list[i].id # id /\ a[i] = list[i]
          BY <1>6, <2>5, <4>1
        <5> QED
          BY <5>0, <5>1
      <4>2. CASE i = n + 1
        BY <2>2, <2>5, <4>2
      <4> QED
        BY <4>1, <4>2
    <3> QED
      BY <2>5, <2>6, <3>1
  <2>8. AppendPosting(a, id, pos)
          = [i \in DOMAIN a |-> IF i \in at
                                THEN [id |-> id, tf |-> a[i].tf + 1, pos |-> Append(a[i].pos, pos)]
                                ELSE a[i]]
    <3>1. at # {}
      BY <2>7
    <3> QED
      BY <2>6, <3>1, Zenon DEF AppendPosting
  <2>9. AppendPosting(a, id, pos) = [i \in 1 .. n + 1 |-> b[i]]
    <3>1. \A i \in 1 .. n + 1 :
            b[i] = IF i \in at
                   THEN [id |-> id, tf |-> a[i].tf + 1, pos |-> Append(a[i].pos, pos)] ELSE a[i]
      <4> TAKE i \in 1 .. n + 1
      <4>1. CASE i \in 1 .. n
        BY <2>5, <2>7, <4>1
      <4>2. CASE i = n + 1
        BY <2>2, <2>5, <2>7, <4>2
      <4> QED
        BY <4>1, <4>2
    <3> QED
      BY <2>5, <2>8, <3>1
  <2>10. b = [i \in 1 .. n + 1 |-> b[i]]
    <3>1. b \in Seq(EntryT)
      BY <2>4
    <3> QED
      BY <2>5, <3>1
  <2> QED
    BY <2>1, <2>4, <2>9, <2>10
<1> QED
  BY <1>1, <1>7, <1>8 DEF PostsAt

\* What a document adds to the lists: one entry to each of its keys' lists.
Indexed(index, id, toks, r) ==
  /\ r \in Indexes /\ DOMAIN r = DOMAIN index \cup KeysIn(toks)
  /\ \A key \in KeysIn(toks) : r[key] = Append(ListOf(index, key), EntryOf(id, toks, Places(toks, key)))
  /\ \A key \in DOMAIN index \ KeysIn(toks) : r[key] = index[key]

NoEntry(index, id) == \A key \in DOMAIN index : \A i \in DOMAIN index[key] : index[key][i].id # id

\* field_indexes_ after the tokens of a document whose doc_id is new.
LEMMA IndexTokensFacts ==
  ASSUME NEW index \in Indexes, NEW id \in Nat, NEW toks \in Seq(Keyed), NoEntry(index, id)
  PROVE  Indexed(index, id, toks, IndexTokens(index, id, toks))
<1>1. PICK p \in [0 .. Len(toks) -> Indexes] :
           /\ p[0] = index /\ \A k \in 1 .. Len(toks) : p[k] = AddToken(p[k - 1], id, toks[k])
           /\ IndexTokens(index, id, toks) = p[Len(toks)]
  BY IndexTokensSteps
<1>2. PICK N \in Nat : N = Len(toks) /\ DOMAIN toks = 1 .. N
  OBVIOUS
<1>3. \A m \in 1 .. N : toks[m] \in Keyed /\ toks[m].key \in KeyT
  <2>1. \A m \in 1 .. N : toks[m] \in Keyed
    BY <1>2
  <2> QED
    BY <2>1 DEF Keyed, KeyT
<1> DEFINE Upto(m, key) == {n \in 1 .. m : toks[n].key = key}
           Done(m) == /\ DOMAIN p[m] = DOMAIN index \cup {toks[n].key : n \in 1 .. m}
                      /\ \A key : Upto(m, key) # {} =>
                           p[m][key] = Append(ListOf(index, key), EntryOf(id, toks, Upto(m, key)))
                      /\ \A key \in DOMAIN index : Upto(m, key) = {} => p[m][key] = index[key]
           S == {m \in 0 .. N : Done(m)}
<1>4. \A key : ListOf(index, key) \in Seq(EntryT)
               /\ \A i \in DOMAIN ListOf(index, key) : ListOf(index, key)[i].id # id
  <2> TAKE key
  <2>1. <<>> \in Seq(EntryT) /\ DOMAIN <<>> = {}
    OBVIOUS
  <2>2. CASE key \in DOMAIN index
    <3>1. ListOf(index, key) = index[key]
      BY <2>2 DEF ListOf
    <3>2. index[key] \in Seq(EntryT)
      BY <2>2 DEF Indexes
    <3> QED
      BY <2>2, <3>1, <3>2 DEF NoEntry
  <2>3. CASE key \notin DOMAIN index
    <3>1. ListOf(index, key) = <<>>
      BY <2>3 DEF ListOf
    <3> QED
      BY <2>1, <3>1
  <2> QED
    BY <2>2, <2>3
<1>5. 0 \in S
  BY <1>1
<1>6. ASSUME NEW m \in 0 .. N, m < N, m \in S PROVE m + 1 \in S
  <2>1. PICK n \in 1 .. N : n = m + 1 /\ n - 1 = m /\ n \in 0 .. N
    BY <1>6
  <2>2. PICK k \in KeyT : k = toks[n].key
    BY <1>3
  <2>0. PICK pos : pos = toks[n].pos
    OBVIOUS
  <2>3. PICK x, y : x = p[m] /\ y = p[n]
    OBVIOUS
  <2>4. y = [key \in DOMAIN x \cup {k} |->
               IF key = k THEN AppendPosting(ListOf(x, key), id, pos) ELSE x[key]]
    <3>1. y = AddToken(x, id, toks[n])
      BY <1>1, <1>2, <2>1, <2>3
    <3> QED
      BY <2>0, <2>2, <3>1 DEF AddToken
  <2>5. Done(m)
    BY <1>6
  <2>6. \A i \in 1 .. n : i \in 1 .. m \/ i = n
    BY <2>1
  <2>7. 1 .. m \subseteq 1 .. n /\ n \in 1 .. n
    BY <2>1
  <2>8. {toks[i].key : i \in 1 .. n} = {toks[i].key : i \in 1 .. m} \cup {k}
    BY <2>2, <2>6, <2>7
  <2>9. DOMAIN y = DOMAIN index \cup {toks[i].key : i \in 1 .. n}
    BY <2>3, <2>4, <2>5, <2>8
  <2>10. \A key : Upto(n, key) = IF key = k THEN Upto(m, key) \cup {n} ELSE Upto(m, key)
    BY <2>2, <2>6, <2>7
  <2>11. Upto(m, k) \in SUBSET DOMAIN toks /\ n \in DOMAIN toks /\ \A i \in Upto(m, k) : i < n
    BY <1>2, <2>1
  <2>12. y[k] = Append(ListOf(index, k), EntryOf(id, toks, Upto(n, k)))
    <3>1. y[k] = AppendPosting(ListOf(x, k), id, pos)
      BY <2>4
    <3>2. Upto(n, k) = Upto(m, k) \cup {n}
      BY <2>10
    <3> HIDE DEF Upto
    <3>3. CASE Upto(m, k) = {}
      <4>1. ListOf(x, k) = ListOf(index, k)
        <5>1. k \in DOMAIN x <=> k \in DOMAIN index
          <6>1. \A i \in 1 .. m : toks[i].key # k
            BY <3>3 DEF Upto
          <6> QED
            BY <2>3, <2>5, <6>1
        <5>2. k \in DOMAIN index => x[k] = index[k]
          BY <2>3, <2>5, <3>3
        <5> QED
          BY <5>1, <5>2 DEF ListOf
      <4>2. AppendPosting(ListOf(index, k), id, toks[n].pos)
              = Append(ListOf(index, k), EntryOf(id, toks, Upto(m, k) \cup {n}))
        <5>1. PICK l \in Seq(EntryT) : l = ListOf(index, k) /\ \A i \in DOMAIN l : l[i].id # id
          BY <1>4
        <5>2. PICK U \in SUBSET DOMAIN toks : U = Upto(m, k) /\ U = {} /\ \A i \in U : i < n
          BY <2>11, <3>3
        <5>4. PostsAt(l, id, toks, U, n)
          BY <2>11, <5>1, <5>2, AppendPostingFacts
        <5>3. AppendPosting(l, id, toks[n].pos) = Append(l, EntryOf(id, toks, U \cup {n}))
          BY <5>2, <5>4 DEF PostsAt
        <5> QED
          BY <5>1, <5>2, <5>3
      <4> QED
        BY <2>0, <2>2, <3>1, <3>2, <4>1, <4>2
    <3>4. CASE Upto(m, k) # {}
      <4>1. ListOf(x, k) = Append(ListOf(index, k), EntryOf(id, toks, Upto(m, k)))
        <5>1. x[k] = Append(ListOf(index, k), EntryOf(id, toks, Upto(m, k)))
          BY <2>3, <2>5, <3>4
        <5>2. k \in DOMAIN x
          <6>1. PICK i \in 1 .. m : toks[i].key = k
            BY <3>4 DEF Upto
          <6> QED
            BY <2>3, <2>5, <6>1
        <5> QED
          BY <5>1, <5>2 DEF ListOf
      <4>2. AppendPosting(Append(ListOf(index, k), EntryOf(id, toks, Upto(m, k))), id, toks[n].pos)
              = Append(ListOf(index, k), EntryOf(id, toks, Upto(m, k) \cup {n}))
        <5>1. PICK l \in Seq(EntryT) : l = ListOf(index, k) /\ \A i \in DOMAIN l : l[i].id # id
          BY <1>4
        <5>2. PICK U \in SUBSET DOMAIN toks : U = Upto(m, k) /\ \A i \in U : i < n
          BY <2>11
        <5>3. AppendPosting(Append(l, EntryOf(id, toks, U)), id, toks[n].pos)
                = Append(l, EntryOf(id, toks, U \cup {n}))
          <6>1. PostsAt(l, id, toks, U, n)
            BY <2>11, <5>1, <5>2, AppendPostingFacts
          <6> QED
            BY <6>1 DEF PostsAt
        <5> QED
          BY <5>1, <5>2, <5>3
      <4> QED
        BY <2>0, <2>2, <3>1, <3>2, <4>1, <4>2
    <3> QED
      BY <3>3, <3>4
  <2>13. \A key : key # k /\ Upto(n, key) # {}
                    => y[key] = Append(ListOf(index, key), EntryOf(id, toks, Upto(n, key)))
    <3> TAKE key
    <3> HAVE key # k /\ Upto(n, key) # {}
    <3>1. Upto(n, key) = Upto(m, key)
      BY <2>10
    <3>2. key \in DOMAIN x
      <4>1. PICK i \in 1 .. m : toks[i].key = key
        BY <3>1
      <4> QED
        BY <2>3, <2>5, <4>1
    <3>3. y[key] = x[key]
      BY <2>4, <3>2
    <3> HIDE DEF Upto
    <3> QED
      BY <2>3, <2>5, <3>1, <3>3
  <2>14. \A key \in DOMAIN index : Upto(n, key) = {} => y[key] = index[key]
    <3> TAKE key \in DOMAIN index
    <3> HAVE Upto(n, key) = {}
    <3>1. key # k
      BY <2>2, <2>7
    <3>2. Upto(m, key) = {}
      BY <2>10, <3>1
    <3>3. y[key] = x[key]
      BY <2>3, <2>4, <2>5, <3>1
    <3> HIDE DEF Upto
    <3> QED
      BY <2>3, <2>5, <3>2, <3>3
  <2>15. Done(n)
    <3>1. \A key : Upto(n, key) # {} =>
            y[key] = Append(ListOf(index, key), EntryOf(id, toks, Upto(n, key)))
      <4> HIDE DEF Upto
      <4> QED
        BY <2>12, <2>13
    <3> HIDE DEF Upto
    <3> QED
      BY <2>3, <2>9, <2>14, <3>1
  <2> HIDE DEF Done
  <2> QED
    BY <2>1, <2>15
<1>7. N \in S
  <2>1. \A m \in 0 .. N : m \in S
    <3> HIDE DEF S
    <3> QED
      BY <1>5, <1>6, AllUpTo
  <2>2. N \in 0 .. N
    OBVIOUS
  <2> QED
    BY <2>1, <2>2
<1>8. \A key : Upto(N, key) = Places(toks, key)
  BY <1>2 DEF Places
<1>9. \A key : key \in KeysIn(toks) <=> Upto(N, key) # {}
  BY <1>2 DEF KeysIn
<1>10. KeysIn(toks) = {toks[n].key : n \in 1 .. N}
  BY <1>2 DEF KeysIn
<1>11. p[N] \in Indexes /\ Done(N)
  BY <1>2, <1>7
<1> HIDE DEF Upto
<1>12. Indexed(index, id, toks, p[N])
  BY <1>8, <1>9, <1>10, <1>11 DEF Indexed
<1> QED
  BY <1>1, <1>2, <1>12

\* No two entries of a list have the same doc_id.
OneEach(list) == \A i, j \in DOMAIN list : list[i].id = list[j].id => i = j

\* A list with an entry of a new doc_id has one entry each.
LEMMA AppendEntry ==
  ASSUME NEW X, NEW list \in Seq(X), NEW x
  PROVE  /\ \A e : InSeq(Append(list, x), e) <=> InSeq(list, e) \/ e = x
         /\ OneEach(list) /\ (\A i \in DOMAIN list : list[i].id # x.id) => OneEach(Append(list, x))
<1>1. PICK n \in Nat : DOMAIN list = 1 .. n /\ Len(list) = n
  OBVIOUS
<1>2. PICK a : a = Append(list, x)
  OBVIOUS
<1>3. DOMAIN a = 1 .. n + 1 /\ a[n + 1] = x /\ \A i \in 1 .. n : a[i] = list[i]
  BY <1>1, <1>2
<1>4. \A i \in 1 .. n + 1 : i \in 1 .. n \/ i = n + 1
  BY <1>1
<1>5. 1 .. n \subseteq 1 .. n + 1 /\ n + 1 \in 1 .. n + 1
  BY <1>1
<1>6. \A e : InSeq(a, e) <=> InSeq(list, e) \/ e = x
  BY <1>1, <1>3, <1>4, <1>5 DEF InSeq
<1>7. ASSUME OneEach(list), \A i \in DOMAIN list : list[i].id # x.id PROVE OneEach(a)
  <2> SUFFICES ASSUME NEW i \in 1 .. n + 1, NEW j \in 1 .. n + 1, a[i].id = a[j].id
               PROVE  i = j
    BY <1>3 DEF OneEach
  <2>1. CASE i \in 1 .. n /\ j \in 1 .. n
    BY <1>1, <1>3, <1>7, <2>1 DEF OneEach
  <2>2. CASE i = n + 1 /\ j \in 1 .. n
    BY <1>1, <1>3, <1>7, <2>2
  <2>3. CASE i \in 1 .. n /\ j = n + 1
    BY <1>1, <1>3, <1>7, <2>3
  <2> QED
    BY <1>4, <2>1, <2>2, <2>3
<1> QED
  BY <1>2, <1>6, <1>7

\* A row of the stored documents.
RowT(D) == [doc : D, id : Nat]

\* Indexing the documents of a buffer, one after another.
LEMMA IndexOfSteps ==
  ASSUME NEW D, NEW tokens \in [D -> Seq(Keyed)], NEW rows \in Seq(RowT(D))
  PROVE  \E p \in [0 .. Len(rows) -> Indexes] :
           /\ p[0] = [key \in {} |-> <<>>]
           /\ \A k \in 1 .. Len(rows) : p[k] = IndexTokens(p[k - 1], rows[k].id, tokens[rows[k].doc])
           /\ IndexOf(rows, tokens) = p[Len(rows)]
<1> DEFINE dom == DOMAIN rows
           base == [key \in {} |-> <<>>]
           Step(x, row) == IndexTokens(x, row.id, tokens[row.doc])
           IsFold(g) == g = [s \in SUBSET dom |-> IF s = {} THEN base
                                                  ELSE Step(g[s \ {Max(s)}], rows[Max(s)])]
           c == CHOOSE g : IsFold(g)
<1>1. IndexOf(rows, tokens) = c[dom]
  BY Zenon DEF IndexOf, FoldLeft, MapThenFoldSet
<1>2. PICK N \in Nat : N = Len(rows) /\ dom = 1 .. N
  OBVIOUS
<1> HIDE DEF dom
<1>3. \A k \in 1 .. N : rows[k].id \in Nat /\ tokens[rows[k].doc] \in Seq(Keyed)
  <2>1. \A k \in 1 .. N : rows[k] \in RowT(D)
    BY <1>2
  <2> QED
    BY <2>1 DEF RowT
<1>4. base \in Indexes
  <2>1. base \in [{} -> Seq(EntryT)] /\ {} \in SUBSET KeyT
    OBVIOUS
  <2> HIDE DEF base
  <2> QED
    BY <2>1 DEF Indexes
<1>5. \A x \in Indexes : \A k \in 1 .. N : Step(x, rows[k]) \in Indexes
  <2> TAKE x \in Indexes
  <2> TAKE k \in 1 .. N
  <2>1. PICK id \in Nat, toks \in Seq(Keyed) : id = rows[k].id /\ toks = tokens[rows[k].doc]
    BY <1>3
  <2>2. PICK p \in [0 .. Len(toks) -> Indexes] :
           /\ p[0] = x /\ \A m \in 1 .. Len(toks) : p[m] = AddToken(p[m - 1], id, toks[m])
           /\ IndexTokens(x, id, toks) = p[Len(toks)]
    BY IndexTokensSteps
  <2>3. Len(toks) \in 0 .. Len(toks)
    OBVIOUS
  <2> QED
    BY <2>1, <2>2, <2>3
<1> HIDE DEF Step, base
<1> DEFINE op == [y \in Indexes \X (1 .. N) |-> Step(y[1], rows[y[2]])]
<1>6. op \in [Indexes \X (1 .. N) -> Indexes]
      /\ \A x \in Indexes : \A k \in 1 .. N : op[<<x, k>>] = Step(x, rows[k])
  BY <1>5
<1> HIDE DEF op
<1>7. PICK g \in [SUBSET (1 .. N) -> Indexes] : FoldOf(op, base, N, g)
  BY <1>4, <1>6, FoldExists
<1>8. \A s \in SUBSET (1 .. N) : s # {} => Max(s) \in 1 .. N /\ s \ {Max(s)} \in SUBSET (1 .. N)
  <2> TAKE s \in SUBSET (1 .. N)
  <2> HAVE s # {}
  <2>1. Max(s) \in s
    BY MaxFacts
  <2> QED
    BY <2>1
<1>9. IsFold(g)
  <2>1. \A s \in SUBSET (1 .. N) :
          g[s] = IF s = {} THEN base ELSE op[<<g[s \ {Max(s)}], Max(s)>>]
    BY <1>7 DEF FoldOf
  <2>2. \A s \in SUBSET (1 .. N) :
          g[s] = IF s = {} THEN base ELSE Step(g[s \ {Max(s)}], rows[Max(s)])
    <3> TAKE s \in SUBSET (1 .. N)
    <3>1. CASE s = {}
      BY <2>1, <3>1
    <3>2. CASE s # {}
      <4>1. Max(s) \in 1 .. N /\ g[s \ {Max(s)}] \in Indexes
        BY <1>8, <3>2
      <4> QED
        BY <1>6, <2>1, <3>2, <4>1
    <3> QED
      BY <3>1, <3>2
  <2> QED
    BY <1>2, <2>2
<1>10. IsFold(c)
  <2> HIDE DEF IsFold
  <2> QED
    BY <1>9
<1> HIDE DEF c
<1>11. FoldIn(Indexes, op, base, N, c)
  <2>1. \A s \in SUBSET (1 .. N) :
         c[s] = IF s = {} THEN base ELSE Step(c[s \ {Max(s)}], rows[Max(s)])
    BY <1>2, <1>10
  <2> HIDE DEF IsFold
  <2> QED
    BY <1>6, <1>8, <2>1 DEF FoldIn
<1> HIDE DEF IsFold
<1>12. PICK p \in [0 .. N -> Indexes] : FoldValueOf(op, base, N, c, p)
  BY <1>4, <1>6, <1>11, FoldValues
<1>13. p[0] = base /\ \A k \in 1 .. N : p[k] = Step(p[k - 1], rows[k])
  <2>1. p[0] = base /\ \A k \in 1 .. N : p[k] = op[<<p[k - 1], k>>]
    BY <1>12 DEF FoldValueOf, IterationOf
  <2>2. \A k \in 1 .. N : p[k - 1] \in Indexes
    OBVIOUS
  <2> QED
    BY <1>6, <2>1, <2>2
<1> QED
  BY <1>1, <1>2, <1>12, <1>13 DEF FoldValueOf, Step, base

\* What a list holds that was made of the first m rows: one entry for each row
\* whose document has the key.
Posted(rows, tokens, m, key, e) ==
  \E i \in 1 .. m : /\ key \in KeysIn(tokens[rows[i].doc])
                    /\ e = EntryOf(rows[i].id, tokens[rows[i].doc], Places(tokens[rows[i].doc], key))

IndexHolds(rows, tokens, m, r) ==
  /\ r \in Indexes
  /\ \A key : key \in DOMAIN r <=> \E i \in 1 .. m : key \in KeysIn(tokens[rows[i].doc])
  /\ \A key \in DOMAIN r : OneEach(r[key]) /\ \A e : InSeq(r[key], e) <=> Posted(rows, tokens, m, key, e)

\* field_indexes_ says of each row of the buffer what its tokens say.
LEMMA IndexOfFacts ==
  ASSUME NEW D, NEW tokens \in [D -> Seq(Keyed)], NEW rows \in Seq(RowT(D)), OneEach(rows)
  PROVE  IndexHolds(rows, tokens, Len(rows), IndexOf(rows, tokens))
<1>1. PICK p \in [0 .. Len(rows) -> Indexes] :
        /\ p[0] = [key \in {} |-> <<>>]
        /\ \A k \in 1 .. Len(rows) : p[k] = IndexTokens(p[k - 1], rows[k].id, tokens[rows[k].doc])
        /\ IndexOf(rows, tokens) = p[Len(rows)]
  BY IndexOfSteps
<1>2. PICK N \in Nat : N = Len(rows) /\ DOMAIN rows = 1 .. N
  OBVIOUS
<1>3. \A k \in 1 .. N : rows[k].id \in Nat /\ tokens[rows[k].doc] \in Seq(Keyed)
  <2>1. \A k \in 1 .. N : rows[k] \in RowT(D)
    BY <1>2
  <2> QED
    BY <2>1 DEF RowT
<1> DEFINE S == {m \in 0 .. N : IndexHolds(rows, tokens, m, p[m])}
<1>4. 0 \in S
  <2>1. p[0] \in Indexes /\ DOMAIN p[0] = {} /\ 1 .. 0 = {}
    BY <1>1
  <2> QED
    BY <2>1 DEF IndexHolds
<1>5. ASSUME NEW m \in 0 .. N, m < N, m \in S PROVE m + 1 \in S
  <2>1. PICK n \in 1 .. N : n = m + 1 /\ n - 1 = m /\ n \in 0 .. N
    BY <1>5
  <2>2. PICK x \in Indexes : x = p[m] /\ IndexHolds(rows, tokens, m, x)
    BY <1>2, <1>5
  <2>3. PICK id \in Nat, toks \in Seq(Keyed) : id = rows[n].id /\ toks = tokens[rows[n].doc]
    BY <1>3
  <2>4. PICK y : y = IndexTokens(x, id, toks) /\ y = p[n]
    BY <1>1, <1>2, <2>1, <2>2, <2>3
  <2>5. \A i \in 1 .. m : i \in 1 .. N /\ i # n /\ rows[i].id # id
    BY <1>2, <2>1, <2>3 DEF OneEach
  <2>6. \A key : \A e : Posted(rows, tokens, m, key, e) => e.id # id
    BY <2>5 DEF Posted, EntryOf
  <2>7. \A key \in DOMAIN x : \A i \in DOMAIN x[key] : x[key][i].id # id
    <3> TAKE key \in DOMAIN x
    <3> TAKE i \in DOMAIN x[key]
    <3>1. InSeq(x[key], x[key][i])
      BY DEF InSeq
    <3>2. Posted(rows, tokens, m, key, x[key][i])
      BY <2>2, <3>1 DEF IndexHolds
    <3> QED
      BY <2>6, <3>2
  <2>8. Indexed(x, id, toks, y)
    BY <2>4, <2>7, IndexTokensFacts DEF NoEntry
  <2>9. \A i \in 1 .. n : i \in 1 .. m \/ i = n
    BY <2>1
  <2>10. 1 .. m \subseteq 1 .. n /\ n \in 1 .. n
    BY <2>1
  <2>11. \A key : \A e : Posted(rows, tokens, n, key, e)
           <=> \/ Posted(rows, tokens, m, key, e)
               \/ key \in KeysIn(toks) /\ e = EntryOf(id, toks, Places(toks, key))
    BY <2>3, <2>9, <2>10 DEF Posted
  <2>12. \A key : key \in DOMAIN y <=> \E i \in 1 .. n : key \in KeysIn(tokens[rows[i].doc])
    BY <2>2, <2>3, <2>8, <2>9, <2>10 DEF IndexHolds, Indexed
  <2>13. ASSUME NEW key \in DOMAIN y
         PROVE  OneEach(y[key]) /\ \A e : InSeq(y[key], e) <=> Posted(rows, tokens, n, key, e)
    <3>1. CASE key \in KeysIn(toks)
      <4>1. PICK list \in Seq(EntryT) :
                 /\ list = ListOf(x, key) /\ OneEach(list) /\ \A i \in DOMAIN list : list[i].id # id
                 /\ \A e : InSeq(list, e) <=> Posted(rows, tokens, m, key, e)
        <5>1. CASE key \in DOMAIN x
          <6>1. ListOf(x, key) = x[key] /\ x[key] \in Seq(EntryT)
            BY <5>1 DEF ListOf, Indexes
          <6>2. OneEach(x[key]) /\ \A e : InSeq(x[key], e) <=> Posted(rows, tokens, m, key, e)
            BY <2>2, <5>1 DEF IndexHolds
          <6> QED
            BY <2>7, <5>1, <6>1, <6>2
        <5>2. CASE key \notin DOMAIN x
          <6>1. ListOf(x, key) = <<>>
            BY <5>2 DEF ListOf
          <6>2. <<>> \in Seq(EntryT) /\ DOMAIN <<>> = {}
            OBVIOUS
          <6>3. OneEach(<<>>) /\ \A e : ~ InSeq(<<>>, e)
            BY <6>2 DEF OneEach, InSeq
          <6>4. \A e : ~ Posted(rows, tokens, m, key, e)
            BY <2>2, <5>2 DEF IndexHolds, Posted
          <6> QED
            BY <6>1, <6>2, <6>3, <6>4
        <5> QED
          BY <5>1, <5>2
      <4>2. PICK e1 : e1 = EntryOf(id, toks, Places(toks, key)) /\ e1.id = id
        <5>1. EntryOf(id, toks, Places(toks, key)).id = id
          BY DEF EntryOf
        <5> QED
          BY <5>1, Zenon
      <4>3. y[key] = Append(list, e1)
        BY <2>8, <3>1, <4>1, <4>2 DEF Indexed
      <4>4. /\ \A e : InSeq(Append(list, e1), e) <=> InSeq(list, e) \/ e = e1
            /\ OneEach(list) /\ (\A i \in DOMAIN list : list[i].id # e1.id) => OneEach(Append(list, e1))
        BY AppendEntry
      <4> QED
        BY <2>11, <3>1, <4>1, <4>2, <4>3, <4>4
    <3>2. CASE key \notin KeysIn(toks)
      <4>1. key \in DOMAIN x /\ y[key] = x[key]
        BY <2>8, <2>13, <3>2 DEF Indexed
      <4>2. OneEach(x[key]) /\ \A e : InSeq(x[key], e) <=> Posted(rows, tokens, m, key, e)
        BY <2>2, <4>1 DEF IndexHolds
      <4> QED
        BY <2>11, <3>2, <4>1, <4>2
    <3> QED
      BY <3>1, <3>2
  <2>14. y \in Indexes
    BY <2>8 DEF Indexed
  <2>15. IndexHolds(rows, tokens, n, y)
    BY <2>12, <2>13, <2>14 DEF IndexHolds
  <2> QED
    BY <2>1, <2>4, <2>15
<1>6. N \in S
  <2>1. \A m \in 0 .. N : m \in S
    <3> HIDE DEF S
    <3> QED
      BY <1>4, <1>5, AllUpTo
  <2>2. N \in 0 .. N
    OBVIOUS
  <2> QED
    BY <2>1, <2>2
<1> QED
  BY <1>1, <1>2, <1>6

-----------------------------------------------------------------------------
(* The lists of a segment *)

\* What a list of a segment says of a document, under the doc_id given.
Want(sch, id, toks, key) ==
  [id  |-> id,
   tf  |-> AtMost(Cardinality(Places(toks, key)), MaxTf),
   pos |-> IF HasPositions(sch, key[1]) THEN Positions(toks, Places(toks, key)) ELSE <<>>]

\* A row's document has the key, and this is what its list says of it.
Wanted(sch, rows, tokens, i, key, e) ==
  key \in KeysIn(tokens[rows[i].doc]) /\ e = Want(sch, rows[i].id, tokens[rows[i].doc], key)

HasKey(rows, tokens, key) == \E i \in DOMAIN rows : key \in KeysIn(tokens[rows[i].doc])

\* A list that says just what it should of the rows of its segment.
GoodList(sch, rows, tokens, key, list) ==
  /\ list \in Seq(EntryT) /\ OneEach(list)
  /\ \A e : InSeq(list, e) <=> \E i \in DOMAIN rows : Wanted(sch, rows, tokens, i, key, e)

GoodLists(sch, rows, tokens, lists) ==
  /\ \A key : key \in DOMAIN lists <=> HasKey(rows, tokens, key)
  /\ \A key \in DOMAIN lists : GoodList(sch, rows, tokens, key, lists[key])

\* Saturating twice is saturating once.
LEMMA AtMostFacts ==
  \A n \in Nat : \A cap \in Nat : AtMost(n, cap) \in Nat /\ AtMost(n, cap) <= cap
                                  /\ AtMost(AtMost(n, cap), cap) = AtMost(n, cap)
BY DEF AtMost

\* Mapping the entries of a list, each to one with the same doc_id.
LEMMA MapList ==
  ASSUME NEW list \in Seq(EntryT), NEW f, \A e \in EntryT : f[e] \in EntryT /\ f[e].id = e.id
  PROVE  /\ [i \in DOMAIN list |-> f[list[i]]] \in Seq(EntryT)
         /\ OneEach(list) => OneEach([i \in DOMAIN list |-> f[list[i]]])
         /\ \A e : InSeq([i \in DOMAIN list |-> f[list[i]]], e) <=> \E d : InSeq(list, d) /\ e = f[d]
<1>1. PICK n \in Nat : DOMAIN list = 1 .. n
  OBVIOUS
<1>2. \A i \in 1 .. n : list[i] \in EntryT
  BY <1>1
<1> DEFINE r == [i \in DOMAIN list |-> f[list[i]]]
<1>3. DOMAIN r = 1 .. n /\ r = [i \in 1 .. n |-> r[i]] /\ \A i \in 1 .. n : r[i] = f[list[i]]
  BY <1>1
<1> HIDE DEF r
<1>4. r \in [1 .. n -> EntryT]
  BY <1>2, <1>3
<1>5. r \in Seq(EntryT)
  BY <1>4
<1>6. OneEach(list) => OneEach(r)
  BY <1>1, <1>2, <1>3 DEF OneEach
<1>7. \A e : InSeq(r, e) <=> \E d : InSeq(list, d) /\ e = f[d]
  BY <1>1, <1>2, <1>3 DEF InSeq
<1> QED
  BY <1>5, <1>6, <1>7 DEF r

\* The lists of a flushed segment.
LEMMA WriteListsFacts ==
  ASSUME NEW D, NEW tokens \in [D -> Seq(Keyed)], NEW rows \in Seq(RowT(D)), NEW sch, NEW r,
         IndexHolds(rows, tokens, Len(rows), r)
  PROVE  GoodLists(sch, rows, tokens, WriteLists(sch, r))
<1>1. PICK N \in Nat : N = Len(rows) /\ DOMAIN rows = 1 .. N
  OBVIOUS
<1>2. /\ r \in Indexes
      /\ \A key : key \in DOMAIN r <=> \E i \in 1 .. N : key \in KeysIn(tokens[rows[i].doc])
      /\ \A key \in DOMAIN r : OneEach(r[key]) /\ \A e : InSeq(r[key], e) <=> Posted(rows, tokens, N, key, e)
  BY <1>1 DEF IndexHolds
<1>3. DOMAIN WriteLists(sch, r) = DOMAIN r
  BY DEF WriteLists
<1>4. ASSUME NEW key \in DOMAIN r
      PROVE  GoodList(sch, rows, tokens, key, WriteLists(sch, r)[key])
  <2>1. PICK list \in Seq(EntryT) : list = r[key]
    BY <1>2 DEF Indexes
  <2>2. OneEach(list) /\ \A e : InSeq(list, e) <=> Posted(rows, tokens, N, key, e)
    BY <1>2, <2>1
  <2> DEFINE out(e) == [id |-> e.id, tf |-> AtMost(e.tf, MaxTf),
                        pos |-> IF HasPositions(sch, key[1]) THEN e.pos ELSE <<>>]
             f == [e \in EntryT |-> out(e)]
  <2>3. \A e \in EntryT : f[e] = out(e) /\ out(e) \in EntryT /\ out(e).id = e.id
    <3> TAKE e \in EntryT
    <3>1. e.id \in Nat /\ e.tf \in Nat /\ e.pos \in Seq(Nat)
      BY DEF EntryT
    <3>2. AtMost(e.tf, MaxTf) \in Nat
      BY <3>1, AtMostFacts, ContentAssumption
    <3>3. (IF HasPositions(sch, key[1]) THEN e.pos ELSE <<>>) \in Seq(Nat)
      <4>1. <<>> \in Seq(Nat)
        OBVIOUS
      <4> QED
        BY <3>1, <4>1
    <3> QED
      BY <3>1, <3>2, <3>3 DEF EntryT
  <2>4. WriteLists(sch, r)[key] = [i \in DOMAIN list |-> out(list[i])]
    BY <2>1 DEF WriteLists
  <2>5. WriteLists(sch, r)[key] = [i \in DOMAIN list |-> f[list[i]]]
    <3>1. \A i \in DOMAIN list : list[i] \in EntryT
      OBVIOUS
    <3> HIDE DEF out, f
    <3>2. \A i \in DOMAIN list : f[list[i]] = out(list[i])
      BY <2>3, <3>1
    <3> QED
      BY <2>4, <3>2
  <2> HIDE DEF f
  <2>6. /\ [i \in DOMAIN list |-> f[list[i]]] \in Seq(EntryT)
        /\ OneEach(list) => OneEach([i \in DOMAIN list |-> f[list[i]]])
        /\ \A e : InSeq([i \in DOMAIN list |-> f[list[i]]], e) <=> \E d : InSeq(list, d) /\ e = f[d]
    <3>1. \A e \in EntryT : f[e] \in EntryT /\ f[e].id = e.id
      BY <2>3
    <3> HIDE DEF out
    <3> QED
      BY <3>1, MapList
  <2>7. PICK w : w = WriteLists(sch, r)[key]
    OBVIOUS
  <2>8. w \in Seq(EntryT) /\ OneEach(w) /\ \A e : InSeq(w, e) <=> \E d : InSeq(list, d) /\ e = f[d]
    BY <2>2, <2>5, <2>6, <2>7
  <2>9. \A d : InSeq(list, d) => d \in EntryT
    BY <2>1 DEF InSeq
  <2>10. \A i \in 1 .. N : out(EntryOf(rows[i].id, tokens[rows[i].doc], Places(tokens[rows[i].doc], key)))
                             = Want(sch, rows[i].id, tokens[rows[i].doc], key)
    BY DEF Want, EntryOf
  <2>11. \A e : InSeq(w, e) <=> \E i \in 1 .. N : Wanted(sch, rows, tokens, i, key, e)
    <3> TAKE e
    <3> HIDE DEF out
    <3>1. ASSUME InSeq(w, e) PROVE \E i \in 1 .. N : Wanted(sch, rows, tokens, i, key, e)
      <4>1. PICK d : InSeq(list, d) /\ e = f[d]
        BY <2>8, <3>1
      <4>2. e = out(d) /\ Posted(rows, tokens, N, key, d)
        BY <2>2, <2>3, <2>9, <4>1
      <4> QED
        BY <2>10, <4>2 DEF Posted, Wanted
    <3>2. ASSUME NEW i \in 1 .. N, Wanted(sch, rows, tokens, i, key, e) PROVE InSeq(w, e)
      <4>1. PICK d : d = EntryOf(rows[i].id, tokens[rows[i].doc], Places(tokens[rows[i].doc], key))
        OBVIOUS
      <4>2. Posted(rows, tokens, N, key, d) /\ e = out(d)
        BY <2>10, <3>2, <4>1 DEF Posted, Wanted
      <4>3. InSeq(list, d)
        BY <2>2, <4>2
      <4>4. e = f[d]
        BY <2>3, <2>9, <4>2, <4>3
      <4> QED
        BY <2>8, <4>3, <4>4
    <3> QED
      BY <3>1, <3>2
  <2> QED
    BY <1>1, <2>7, <2>8, <2>11 DEF GoodList
<1> QED
  BY <1>1, <1>2, <1>3, <1>4 DEF GoodLists, HasKey

-----------------------------------------------------------------------------
(* The k-way merge *)

Lengths(s) == [i \in DOMAIN s |-> Len(s[i])]

CountSums(s, S, g) == g = [t \in SUBSET S |-> IF t = {} THEN 0 ELSE Len(s[Pick(t)]) + g[t \ {Pick(t)}]]

\* How many entries the lists of a merge hold.
LEMMA ElementsIs ==
  ASSUME NEW s \in Seq(Seq(EntryT))
  PROVE  /\ Elements(s) = Total(Lengths(s), DOMAIN s) /\ Elements(s) \in Nat
         /\ IsFiniteSet(DOMAIN s) /\ \A i \in DOMAIN s : Lengths(s)[i] \in Nat
<1>1. PICK K \in Nat : DOMAIN s = 1 .. K /\ IsFiniteSet(1 .. K)
  BY FS_Interval
<1>2. PICK S : S = DOMAIN s /\ IsFiniteSet(S)
  BY <1>1
<1>3. PICK f : f = Lengths(s)
  OBVIOUS
<1>4. \A i \in S : f[i] = Len(s[i]) /\ f[i] \in Nat
  <2>1. \A i \in S : s[i] \in Seq(EntryT)
    BY <1>1, <1>2
  <2> QED
    BY <1>2, <1>3, <2>1 DEF Lengths
<1>5. PICK g \in [SUBSET S -> Nat] : Sums(f, S, g) /\ \A U \in SUBSET S : Total(f, U) = g[U]
  <2>1. IsFiniteSet(S) /\ \A i \in S : f[i] \in Nat
    BY <1>2, <1>4
  <2>2. \E g \in [SUBSET S -> Nat] : Sums(f, S, g) /\ \A U \in SUBSET S : Total(f, U) = g[U]
    BY <2>1, TotalOf
  <2> QED
    BY <2>2
<1>6. \A t \in SUBSET S : t # {} => Pick(t) \in S
  <2> TAKE t \in SUBSET S
  <2> HAVE t # {}
  <2>1. Pick(t) \in t
    BY DEF Pick
  <2> QED
    BY <2>1
<1>7. \A h : Sums(f, S, h) <=> CountSums(s, S, h)
  <2> TAKE h
  <2>1. \A t \in SUBSET S : (IF t = {} THEN 0 ELSE f[Pick(t)] + h[t \ {Pick(t)}])
                              = IF t = {} THEN 0 ELSE Len(s[Pick(t)]) + h[t \ {Pick(t)}]
    BY <1>4, <1>6
  <2>2. [t \in SUBSET S |-> IF t = {} THEN 0 ELSE f[Pick(t)] + h[t \ {Pick(t)}]]
          = [t \in SUBSET S |-> IF t = {} THEN 0 ELSE Len(s[Pick(t)]) + h[t \ {Pick(t)}]]
    BY <2>1
  <2> QED
    BY <2>2 DEF Sums, CountSums
<1>8. PICK h : h = CHOOSE x : CountSums(s, S, x)
  OBVIOUS
<1>9. CountSums(s, S, h)
  BY <1>5, <1>7, <1>8
<1>10. Sums(f, S, h)
  BY <1>7, <1>9
<1>11. h[S] = g[S]
  <2>1. S \in SUBSET (S \cap S)
    OBVIOUS
  <2> QED
    BY <1>2, <1>5, <1>10, <2>1, SumsAgree
<1>12. Elements(s) = h[S]
  <2>1. Elements(s) = (CHOOSE x : CountSums(s, DOMAIN s, x))[DOMAIN s]
    BY Zenon DEF Elements, MapThenSumSet, MapThenFoldSet, CountSums, Pick
  <2> QED
    BY <1>2, <1>8, <2>1
<1>13. g[S] = Total(f, S) /\ g[S] \in Nat
  BY <1>5
<1> QED
  BY <1>2, <1>3, <1>4, <1>11, <1>12, <1>13

\* The place of every entry is told by its doc_id.
Apart(s) ==
  \A k, l \in DOMAIN s : \A i \in DOMAIN s[k] : \A j \in DOMAIN s[l] :
    s[k][i].id = s[l][j].id => k = l /\ i = j

InSome(s, e) == \E k \in DOMAIN s : InSeq(s[k], e)

MergeStates == [rest : Seq(Seq(EntryT)), out : Seq(EntryT)]

\* What is taken from the sources after n steps, and what is left.
MergedTo(s, x, n) ==
  /\ x \in MergeStates
  /\ Total(Lengths(x.rest), DOMAIN x.rest) + n = Elements(s)
  /\ \A e : InSeq(x.out, e) \/ InSome(x.rest, e) <=> InSome(s, e)
  /\ Apart(s) => /\ OneEach(x.out) /\ Apart(x.rest)
                 /\ \A d, e : InSeq(x.out, d) /\ InSome(x.rest, e) => d.id # e.id

MergeStep(x) ==
  [rest |-> [x.rest EXCEPT ![Top(x.rest)] = Tail(@)], out |-> Append(x.out, x.rest[Top(x.rest)][1])]

\* The head with the smallest id is one of the heads.
LEMMA TopFacts ==
  ASSUME NEW s \in Seq(Seq(EntryT)), Heads(s) # {}
  PROVE  Top(s) \in Heads(s)
<1>1. PICK K \in Nat : DOMAIN s = 1 .. K
  OBVIOUS
<1>2. \A i \in 1 .. K : s[i] \in Seq(EntryT)
  BY <1>1
<1>3. Heads(s) \in SUBSET (1 .. K) /\ \A i \in Heads(s) : s[i] # <<>>
  BY <1>1 DEF Heads
<1>4. \A i \in Heads(s) : s[i][1].id \in Nat
  <2> TAKE i \in Heads(s)
  <2>1. s[i] \in Seq(EntryT) /\ s[i] # <<>>
    BY <1>2, <1>3
  <2>2. s[i][1] \in EntryT
    BY <2>1
  <2> QED
    BY <2>2 DEF EntryT
<1> DEFINE I == {s[i][1].id : i \in Heads(s)}
<1>5. PICK m \in I : \A q \in I : m <= q
  BY <1>4, LeastElement
<1> DEFINE J == {i \in Heads(s) : s[i][1].id = m}
<1>6. PICK i \in J : \A j \in J : i <= j
  <2>1. J \in SUBSET Nat /\ J # {}
    BY <1>3, <1>5
  <2> HIDE DEF J
  <2> QED
    BY <2>1, LeastElement
<1>7. i \in Heads(s) /\ \A j \in Heads(s) : \/ s[i][1].id < s[j][1].id
                                            \/ s[i][1].id = s[j][1].id /\ i <= j
  <2>1. i \in Heads(s) /\ s[i][1].id = m
    BY <1>6
  <2>2. \A j \in Heads(s) : m <= s[j][1].id
    BY <1>5
  <2>3. \A j \in Heads(s) : s[j][1].id = m => i <= j
    BY <1>6
  <2>4. m \in Nat
    BY <1>4
  <2> HIDE DEF I, J
  <2>5. ASSUME NEW j \in Heads(s)
        PROVE  s[i][1].id < s[j][1].id \/ (s[i][1].id = s[j][1].id /\ i <= j)
    <3>1. PICK q \in Nat : q = s[j][1].id
      BY <1>4
    <3>2. m <= q
      BY <2>2, <3>1
    <3>3. CASE m = q
      BY <2>1, <2>3, <3>1, <3>3
    <3>4. CASE m # q
      <4>1. m < q
        BY <2>4, <3>2, <3>4
      <4> QED
        BY <2>1, <3>1, <4>1
    <3> QED
      BY <3>3, <3>4
  <2> QED
    BY <2>1, <2>5
<1> QED
  BY <1>7 DEF Top

\* A step of the k-way merge keeps lists and output in type.
LEMMA MergeStepIn ==
  ASSUME NEW x \in MergeStates, Heads(x.rest) # {}
  PROVE  /\ Top(x.rest) \in DOMAIN x.rest /\ x.rest[Top(x.rest)] # <<>> /\ x.rest[Top(x.rest)][1] \in EntryT
         /\ MergeStep(x) \in MergeStates
<1>1. PICK rest \in Seq(Seq(EntryT)), out \in Seq(EntryT) : rest = x.rest /\ out = x.out
  BY DEF MergeStates
<1>2. PICK top \in DOMAIN rest : top = Top(rest) /\ rest[top] # <<>>
  <2>1. Top(rest) \in Heads(rest)
    BY <1>1, TopFacts
  <2> QED
    BY <2>1 DEF Heads
<1>3. PICK l \in Seq(EntryT) : l = rest[top] /\ l # <<>>
  BY <1>2
<1>4. l[1] \in EntryT /\ Tail(l) \in Seq(EntryT)
  BY <1>3
<1>5. [rest EXCEPT ![top] = Tail(@)] \in Seq(Seq(EntryT))
  <2>1. [rest EXCEPT ![top] = Tail(@)] = [rest EXCEPT ![top] = Tail(l)]
    BY <1>3
  <2>2. PICK K \in Nat : DOMAIN rest = 1 .. K /\ rest \in [1 .. K -> Seq(EntryT)]
    OBVIOUS
  <2>3. [rest EXCEPT ![top] = Tail(l)] \in [1 .. K -> Seq(EntryT)]
    BY <1>4, <2>2
  <2>4. \A f \in [1 .. K -> Seq(EntryT)] : f \in Seq(Seq(EntryT))
    OBVIOUS
  <2> QED
    BY <2>1, <2>3, <2>4
<1>6. Append(out, l[1]) \in Seq(EntryT)
  BY <1>4
<1>7. MergeStep(x) = [rest |-> [rest EXCEPT ![top] = Tail(@)], out |-> Append(out, l[1])]
  BY <1>1, <1>2, <1>3 DEF MergeStep
<1>8. MergeStep(x) \in MergeStates
  BY <1>5, <1>6, <1>7 DEF MergeStates
<1> QED
  BY <1>1, <1>2, <1>3, <1>4, <1>8

\* A step of the merge keeps what is taken and what is left together.
LEMMA MergeStepKeeps ==
  ASSUME NEW s \in Seq(Seq(EntryT)), NEW n \in Nat, n < Elements(s), NEW x, MergedTo(s, x, n)
  PROVE  Heads(x.rest) # {} /\ MergedTo(s, MergeStep(x), n + 1)
<1>1. PICK rest \in Seq(Seq(EntryT)), out \in Seq(EntryT) : rest = x.rest /\ out = x.out
  BY DEF MergedTo, MergeStates
<1>2. PICK K \in Nat : DOMAIN rest = 1 .. K /\ IsFiniteSet(1 .. K)
  BY FS_Interval
<1>3. \A k \in 1 .. K : rest[k] \in Seq(EntryT)
  BY <1>2
<1>4. PICK f : f = Lengths(rest)
  OBVIOUS
<1>5. \A k \in 1 .. K : f[k] = Len(rest[k]) /\ f[k] \in Nat
  BY <1>2, <1>3, <1>4 DEF Lengths
<1>6. Total(f, 1 .. K) + n = Elements(s) /\ Elements(s) \in Nat
  BY <1>1, <1>2, <1>4, ElementsIs DEF MergedTo
<1>7. Total(f, 1 .. K) \in Nat
  BY <1>2, <1>5, SumType
<1>8. Heads(x.rest) # {}
  <2> SUFFICES ASSUME Heads(rest) = {} PROVE FALSE
    BY <1>1
  <2>1. \A k \in 1 .. K : f[k] = 0
    BY <1>2, <1>5 DEF Heads
  <2>2. PICK none : none = {} /\ IsFiniteSet(none) /\ none \subseteq 1 .. K
    BY FS_EmptySet
  <2>3. Total(f, 1 .. K) = Total(f, none)
    <3>1. IsFiniteSet(1 .. K) /\ IsFiniteSet(none) /\ \A k \in 1 .. K : f[k] \in Nat
      BY <1>2, <1>5, <2>2
    <3>2. \A k \in none : f[k] \in Nat
      BY <2>2
    <3>3. \A k \in 1 .. K : f[k] = 0 \/ (k \in none /\ f[k] = f[k])
      BY <2>1
    <3>4. \A k \in none : f[k] = 0 \/ (k \in 1 .. K /\ f[k] = f[k])
      BY <2>2
    <3> QED
      BY <3>1, <3>2, <3>3, <3>4, SumSame
  <2>4. Total(f, none) = 0
    BY <2>2, SumType
  <2> QED
    BY <1>6, <2>3, <2>4
<1>9. PICK top \in 1 .. K : top = Top(rest) /\ rest[top] # <<>> /\ rest[top][1] \in EntryT
  <2>1. x \in MergeStates
    BY DEF MergedTo
  <2> QED
    BY <1>1, <1>2, <1>8, <2>1, MergeStepIn
<1>10. PICK l \in Seq(EntryT) : l = rest[top] /\ l # <<>>
  BY <1>3, <1>9
<1>11. PICK m \in Nat : Len(l) = m + 1 /\ DOMAIN l = 1 .. m + 1
  <2>1. PICK j \in Nat : Len(l) = j /\ DOMAIN l = 1 .. j
    OBVIOUS
  <2>2. j # 0
    BY <1>10, <2>1
  <2>3. PICK i \in Nat : j = i + 1
    <3>1. j - 1 \in Nat /\ (j - 1) + 1 = j
      BY <2>2
    <3> QED
      BY <3>1
  <2> QED
    BY <2>1, <2>3
<1>12. PICK e1 \in EntryT : e1 = l[1]
  BY <1>9, <1>10
<1>13. PICK t \in Seq(EntryT) : /\ t = Tail(l) /\ Len(t) = m /\ DOMAIN t = 1 .. m
                                /\ \A i \in 1 .. m : t[i] = l[i + 1]
  <2>1. Tail(l) \in Seq(EntryT) /\ Len(Tail(l)) = m /\ \A i \in 1 .. m : Tail(l)[i] = l[i + 1]
    BY <1>10, <1>11
  <2>2. DOMAIN Tail(l) = 1 .. m
    BY <2>1
  <2> QED
    BY <2>1, <2>2
<1>14. PICK r : r = [rest EXCEPT ![top] = t]
  OBVIOUS
<1>15. DOMAIN r = 1 .. K /\ r[top] = t /\ \A k \in 1 .. K : k # top => r[k] = rest[k]
  BY <1>2, <1>14
<1>16. PICK o : o = Append(out, e1)
  OBVIOUS
<1>17. PICK y \in MergeStates : y = MergeStep(x) /\ y.rest = r /\ y.out = o
  <2>1. x \in MergeStates
    BY DEF MergedTo
  <2>2. MergeStep(x) \in MergeStates
    BY <1>8, <2>1, MergeStepIn
  <2>3. MergeStep(x).rest = [rest EXCEPT ![top] = Tail(@)] /\ MergeStep(x).out = Append(out, rest[top][1])
    BY <1>1, <1>9 DEF MergeStep
  <2>4. [rest EXCEPT ![top] = Tail(@)] = r
    BY <1>10, <1>13, <1>14
  <2> QED
    BY <1>10, <1>12, <1>16, <2>2, <2>3, <2>4
<1>18. Total(Lengths(r), 1 .. K) + (n + 1) = Elements(s)
  <2>1. PICK g : g = Lengths(r)
    OBVIOUS
  <2>2. \A k \in 1 .. K : g[k] \in Nat /\ g[k] = IF k = top THEN m ELSE f[k]
    BY <1>3, <1>5, <1>13, <1>15, <2>1 DEF Lengths
  <2>3. f[top] = m + 1
    BY <1>5, <1>10, <1>11
  <2>4. PICK others : others = (1 .. K) \ {top} /\ IsFiniteSet(others)
    BY <1>2, FS_Difference
  <2>14. PICK U : U = 1 .. K
    OBVIOUS
  <2>12. IsFiniteSet(U) /\ top \in U /\ \A k \in U : f[k] \in Nat
    BY <1>2, <1>5, <2>14
  <2>13. \A k \in U : g[k] \in Nat
    BY <2>2, <2>14
  <2>5. Total(f, 1 .. K) = f[top] + Total(f, others)
    <3>0. \A z \in U : Total(f, U) = f[z] + Total(f, U \ {z})
      BY <2>12, SumRemove
    <3>1. Total(f, U) = f[top] + Total(f, U \ {top})
      BY <2>12, <3>0, Zenon
    <3> QED
      BY <2>4, <2>14, <3>1
  <2>6. Total(g, 1 .. K) = g[top] + Total(g, others)
    <3>0. \A z \in U : Total(g, U) = g[z] + Total(g, U \ {z})
      BY <2>12, <2>13, SumRemove
    <3>1. Total(g, U) = g[top] + Total(g, U \ {top})
      BY <2>12, <3>0, Zenon
    <3> QED
      BY <2>4, <2>14, <3>1
  <2>7. Total(f, others) = Total(g, others)
    <3>1. \A k \in others : f[k] \in Nat
      BY <2>4, <2>12, <2>14
    <3>2. \A k \in others : g[k] \in Nat
      BY <2>4, <2>13, <2>14
    <3>5. IsFiniteSet(others)
      BY <2>4
    <3>3. \A k \in others : f[k] = 0 \/ (k \in others /\ f[k] = g[k])
      BY <2>2, <2>4
    <3>4. \A k \in others : g[k] = 0 \/ (k \in others /\ f[k] = g[k])
      BY <2>2, <2>4
    <3> QED
      BY <3>1, <3>2, <3>3, <3>4, <3>5, SumSame
  <2>8. Total(f, others) \in Nat
    <3>1. IsFiniteSet(others) /\ \A k \in others : f[k] \in Nat
      BY <2>4, <2>12, <2>14
    <3> QED
      BY <3>1, SumType
  <2>9. PICK a \in Nat : a = Total(f, others) /\ Total(f, 1 .. K) = (m + 1) + a /\ Total(g, 1 .. K) = m + a
    BY <2>2, <2>3, <2>5, <2>6, <2>7, <2>8
  <2>10. Elements(s) \in Nat /\ ((m + 1) + a) + n = Elements(s)
    BY <1>6, <2>9
  <2>11. (m + a) + (n + 1) = Elements(s)
    BY <2>10
  <2> QED
    BY <2>1, <2>9, <2>11
<1>19. \A e : InSeq(l, e) <=> e = e1 \/ InSeq(t, e)
  <2> TAKE e
  <2>1. ASSUME InSeq(l, e) PROVE e = e1 \/ InSeq(t, e)
    <3>1. PICK i \in 1 .. m + 1 : l[i] = e
      BY <1>11, <2>1 DEF InSeq
    <3>2. CASE i = 1
      BY <1>12, <3>1, <3>2
    <3>3. CASE i # 1
      <4>1. PICK j \in 1 .. m : j + 1 = i
        <5>1. i - 1 \in 1 .. m /\ (i - 1) + 1 = i
          BY <3>3
        <5> QED
          BY <5>1
      <4>2. t[j] = e
        BY <1>13, <3>1, <4>1
      <4> QED
        BY <1>13, <4>2 DEF InSeq
    <3> QED
      BY <3>2, <3>3
  <2>2. InSeq(l, e1)
    <3>1. 1 \in DOMAIN l
      BY <1>11
    <3> QED
      BY <1>12, <3>1 DEF InSeq
  <2>3. ASSUME InSeq(t, e) PROVE InSeq(l, e)
    <3>1. PICK i \in 1 .. m : t[i] = e
      BY <1>13, <2>3 DEF InSeq
    <3>2. i + 1 \in DOMAIN l /\ l[i + 1] = e
      BY <1>11, <1>13, <3>1
    <3> QED
      BY <3>2 DEF InSeq
  <2> QED
    BY <2>1, <2>2, <2>3
<1>20. /\ \A e : InSome(rest, e) <=> InSome(r, e) \/ e = e1
       /\ InSome(rest, e1)
  <2>1. \A e : InSome(rest, e) <=> \E k \in 1 .. K : InSeq(rest[k], e)
    BY <1>2 DEF InSome
  <2>2. \A e : InSome(r, e) <=> \E k \in 1 .. K : InSeq(r[k], e)
    BY <1>15 DEF InSome
  <2>3. \A k \in 1 .. K : \A e : InSeq(rest[k], e) <=> InSeq(r[k], e) \/ (k = top /\ e = e1)
    BY <1>10, <1>15, <1>19
  <2> QED
    BY <2>1, <2>2, <2>3
<1>21. \A e : InSeq(o, e) <=> InSeq(out, e) \/ e = e1
  BY <1>16, AppendEntry
<1>22. \A e : InSeq(o, e) \/ InSome(r, e) <=> InSome(s, e)
  <2>1. \A e : InSeq(out, e) \/ InSome(rest, e) <=> InSome(s, e)
    BY <1>1 DEF MergedTo
  <2> QED
    BY <1>20, <1>21, <2>1
<1>23. ASSUME Apart(s)
       PROVE  /\ OneEach(o) /\ Apart(r)
              /\ \A d, e : InSeq(o, d) /\ InSome(r, e) => d.id # e.id
  <2>1. /\ OneEach(out) /\ Apart(rest)
        /\ \A d, e : InSeq(out, d) /\ InSome(rest, e) => d.id # e.id
    BY <1>1, <1>23 DEF MergedTo
  <2>2. OneEach(o)
    <3>1. \A i \in DOMAIN out : InSeq(out, out[i])
      BY DEF InSeq
    <3>2. \A i \in DOMAIN out : out[i].id # e1.id
      BY <1>20, <2>1, <3>1
    <3> QED
      BY <1>16, <2>1, <3>2, AppendEntry
  <2>3. \A k \in 1 .. K : \A i \in DOMAIN r[k] :
          /\ k # top => i \in DOMAIN rest[k] /\ r[k][i] = rest[k][i]
          /\ k = top => i \in 1 .. m /\ i + 1 \in DOMAIN rest[k] /\ r[k][i] = rest[k][i + 1]
    <3> TAKE k \in 1 .. K
    <3> TAKE i \in DOMAIN r[k]
    <3>1. CASE k # top
      BY <1>15, <3>1
    <3>2. CASE k = top
      <4>1. r[k] = t /\ rest[k] = l /\ i \in 1 .. m
        BY <1>10, <1>13, <1>15, <3>2
      <4>2. i + 1 \in 1 .. m + 1
        BY <4>1
      <4> QED
        BY <1>11, <1>13, <3>2, <4>1, <4>2
    <3> QED
      BY <3>1, <3>2
  <2>4. Apart(r)
    <3> SUFFICES ASSUME NEW k \in 1 .. K, NEW j \in 1 .. K, NEW a \in DOMAIN r[k], NEW b \in DOMAIN r[j],
                        r[k][a].id = r[j][b].id
                 PROVE  k = j /\ a = b
      BY <1>15 DEF Apart
    <3>1. \A u, v \in 1 .. K : \A c \in DOMAIN rest[u] : \A d \in DOMAIN rest[v] :
            rest[u][c].id = rest[v][d].id => u = v /\ c = d
      BY <1>2, <2>1 DEF Apart
    <3>2. CASE k = top /\ j = top
      <4>1. a \in 1 .. m /\ b \in 1 .. m /\ a + 1 = b + 1
        BY <2>3, <3>1, <3>2
      <4> QED
        BY <3>2, <4>1
    <3>3. CASE k = top /\ j # top
      <4>1. a + 1 \in DOMAIN rest[k] /\ r[k][a] = rest[k][a + 1] /\ b \in DOMAIN rest[j] /\ r[j][b] = rest[j][b]
        BY <2>3, <3>3
      <4>2. PICK c : c = a + 1
        OBVIOUS
      <4>3. c \in DOMAIN rest[k] /\ rest[k][c].id = rest[j][b].id
        BY <4>1, <4>2
      <4>4. k = j
        BY <3>1, <4>1, <4>3
      <4> QED
        BY <3>3, <4>4
    <3>4. CASE k # top /\ j = top
      <4>1. b + 1 \in DOMAIN rest[j] /\ r[j][b] = rest[j][b + 1] /\ a \in DOMAIN rest[k] /\ r[k][a] = rest[k][a]
        BY <2>3, <3>4
      <4>2. PICK c : c = b + 1
        OBVIOUS
      <4>3. c \in DOMAIN rest[j] /\ rest[k][a].id = rest[j][c].id
        BY <4>1, <4>2
      <4>4. k = j
        BY <3>1, <4>1, <4>3
      <4> QED
        BY <3>4, <4>4
    <3>5. CASE k # top /\ j # top
      <4>1. a \in DOMAIN rest[k] /\ r[k][a] = rest[k][a] /\ b \in DOMAIN rest[j] /\ r[j][b] = rest[j][b]
        BY <2>3, <3>5
      <4> QED
        BY <3>1, <4>1
    <3> QED
      BY <3>2, <3>3, <3>4, <3>5
  <2>5. ASSUME NEW e, InSome(r, e) PROVE e1.id # e.id
    <3>0. PICK k \in 1 .. K : InSeq(r[k], e)
      BY <1>15, <2>5 DEF InSome
    <3>1. PICK i \in DOMAIN r[k] : r[k][i] = e
      BY <3>0 DEF InSeq
    <3>2. \A u, v \in 1 .. K : \A c \in DOMAIN rest[u] : \A d \in DOMAIN rest[v] :
            rest[u][c].id = rest[v][d].id => u = v /\ c = d
      BY <1>2, <2>1 DEF Apart
    <3>3. 1 \in DOMAIN rest[top] /\ rest[top][1] = e1
      BY <1>10, <1>11, <1>12
    <3>4. CASE k = top
      <4>1. i \in 1 .. m /\ i + 1 \in DOMAIN rest[top] /\ rest[top][i + 1] = e /\ 1 # i + 1
        BY <2>3, <3>1, <3>4
      <4>2. PICK c : c = i + 1 /\ c # 1 /\ c \in DOMAIN rest[top] /\ rest[top][c] = e
        BY <4>1
      <4>3. PICK w : w = 1
        OBVIOUS
      <4>4. w \in DOMAIN rest[top] /\ rest[top][w] = e1 /\ c # w
        BY <3>3, <4>2, <4>3
      <4> QED
        BY <3>2, <4>2, <4>4
    <3>5. CASE k # top
      <4>1. i \in DOMAIN rest[k] /\ rest[k][i] = e
        BY <2>3, <3>1, <3>5
      <4>2. rest[top][1].id # rest[k][i].id
        BY <3>2, <3>3, <3>5, <4>1
      <4> QED
        BY <3>3, <4>1, <4>2
    <3> QED
      BY <3>4, <3>5
  <2> QED
    BY <1>20, <1>21, <2>1, <2>2, <2>4, <2>5
<1>24. MergedTo(s, y, n + 1)
  <2>1. DOMAIN y.rest = 1 .. K
    BY <1>15, <1>17
  <2>2. Total(Lengths(y.rest), DOMAIN y.rest) + (n + 1) = Elements(s)
    BY <1>17, <1>18, <2>1
  <2> QED
    BY <1>17, <1>22, <1>23, <2>2 DEF MergedTo
<1> QED
  BY <1>8, <1>17, <1>24

\* The k-way merge drops no entry and makes none up.
LEMMA MergedFacts ==
  ASSUME NEW s \in Seq(Seq(EntryT))
  PROVE  /\ Merged(s) \in Seq(EntryT) /\ \A e : InSeq(Merged(s), e) <=> InSome(s, e)
         /\ Apart(s) => OneEach(Merged(s))
<1>1. PICK N \in Nat : N = Elements(s)
  BY ElementsIs
<1> DEFINE base == [rest |-> s, out |-> <<>>]
           IsState(g) == g = [n \in 0 .. N |-> IF n = 0 THEN base ELSE MergeStep(g[n - 1])]
           c == CHOOSE g : IsState(g)
<1>2. Merged(s) = c[N].out
  <2>1. Merged(s) = (CHOOSE state :
           state = [n \in 0 .. Elements(s) |-> IF n = 0 THEN base
                      ELSE MergeStep(state[n - 1])])[Elements(s)].out
    BY Zenon DEF Merged, MergeStep
  <2> QED
    BY <1>1, <2>1, Zenon
<1>3. base \in MergeStates
  <2>1. PICK e \in Seq(EntryT) : e = <<>>
    <3>1. <<>> \in Seq(EntryT)
      OBVIOUS
    <3> QED
      BY <3>1, Zenon
  <2>2. [rest |-> s, out |-> e] \in MergeStates
    BY DEF MergeStates
  <2> QED
    BY <2>1, <2>2
<1>4. MergedTo(s, base, 0)
  <2>1. base.rest = s /\ base.out = <<>> /\ DOMAIN <<>> = {}
    OBVIOUS
  <2>2. Total(Lengths(s), DOMAIN s) + 0 = Elements(s)
    BY <1>1, ElementsIs
  <2>3. OneEach(<<>>) /\ \A e : ~ InSeq(<<>>, e)
    BY <2>1 DEF OneEach, InSeq
  <2> HIDE DEF base
  <2> QED
    BY <1>3, <2>1, <2>2, <2>3 DEF MergedTo
<1> HIDE DEF base
<1> DEFINE op == [y \in MergeStates \X (1 .. N) |->
                    IF Heads(y[1].rest) # {} THEN MergeStep(y[1]) ELSE y[1]]
<1>5. /\ op \in [MergeStates \X (1 .. N) -> MergeStates]
      /\ \A x \in MergeStates : \A k \in 1 .. N :
           op[<<x, k>>] = IF Heads(x.rest) # {} THEN MergeStep(x) ELSE x
  <2>1. \A x \in MergeStates : Heads(x.rest) # {} => MergeStep(x) \in MergeStates
    BY MergeStepIn
  <2> QED
    BY <2>1
<1> HIDE DEF op
<1>6. PICK g \in [0 .. N -> MergeStates] : IterationOf(op, base, N, g)
  BY <1>3, <1>5, IterationExists
<1>7. g[0] = base /\ \A k \in 1 .. N : g[k] = op[<<g[k - 1], k>>]
  BY <1>6 DEF IterationOf
<1> DEFINE G == {n \in 0 .. N : MergedTo(s, g[n], n)}
<1>8. ASSUME NEW n \in 0 .. N, n < N, n \in G
      PROVE  n + 1 \in G /\ g[n + 1] = MergeStep(g[n])
  <2>1. PICK k \in 1 .. N : k = n + 1 /\ k - 1 = n /\ k \in 0 .. N
    BY <1>8
  <2>2. g[n] \in MergeStates /\ MergedTo(s, g[n], n) /\ n < Elements(s) /\ n \in Nat
    BY <1>1, <1>8
  <2>3. Heads(g[n].rest) # {} /\ MergedTo(s, MergeStep(g[n]), n + 1)
    BY <2>2, MergeStepKeeps
  <2>4. g[k] = MergeStep(g[n])
    <3>1. g[k] = op[<<g[n], k>>]
      BY <1>7, <2>1
    <3>2. op[<<g[n], k>>] = MergeStep(g[n])
      BY <1>5, <2>2, <2>3
    <3> QED
      BY <3>1, <3>2
  <2> QED
    BY <2>1, <2>3, <2>4
<1>9. \A n \in 0 .. N : n \in G
  <2>1. 0 \in G
    BY <1>4, <1>7
  <2> HIDE DEF G
  <2> QED
    BY <1>8, <2>1, AllUpTo
<1>10. IsState(g)
  <2>1. \A n \in 0 .. N : g[n] = IF n = 0 THEN base ELSE MergeStep(g[n - 1])
    <3> TAKE n \in 0 .. N
    <3>1. CASE n = 0
      BY <1>7, <3>1
    <3>2. CASE n # 0
      <4>1. PICK m \in 0 .. N : m = n - 1 /\ m + 1 = n /\ m < N
        <5>1. n - 1 \in 0 .. N /\ (n - 1) + 1 = n /\ n - 1 < N
          BY <3>2
        <5> QED
          BY <5>1
      <4>2. g[m + 1] = MergeStep(g[m])
        <5> HIDE DEF G
        <5> QED
          BY <1>8, <1>9, <4>1
      <4> QED
        BY <3>2, <4>1, <4>2
    <3> QED
      BY <3>1, <3>2
  <2>2. g = [n \in 0 .. N |-> g[n]]
    OBVIOUS
  <2> QED
    BY <2>1, <2>2
<1>11. IsState(c)
  <2> HIDE DEF IsState
  <2> QED
    BY <1>10
<1> HIDE DEF c
<1>12. c[0] = base /\ \A n \in 0 .. N : n # 0 => c[n] = MergeStep(c[n - 1])
  <2>1. 0 \in 0 .. N
    OBVIOUS
  <2> QED
    BY <1>11, <2>1
<1> HIDE DEF IsState
<1> DEFINE S == {n \in 0 .. N : MergedTo(s, c[n], n)}
<1>13. ASSUME NEW n \in 0 .. N, n < N, n \in S PROVE n + 1 \in S
  <2>1. PICK k \in 0 .. N : k = n + 1 /\ k - 1 = n /\ k # 0
    BY <1>13
  <2>2. MergedTo(s, c[n], n) /\ n < Elements(s) /\ n \in Nat
    BY <1>1, <1>13
  <2>3. MergedTo(s, MergeStep(c[n]), n + 1)
    BY <2>2, MergeStepKeeps
  <2>4. c[k] = MergeStep(c[n])
    BY <1>12, <2>1
  <2> QED
    BY <2>1, <2>3, <2>4
<1>14. MergedTo(s, c[N], N)
  <2>1. 0 \in S
    BY <1>4, <1>12
  <2>2. \A n \in 0 .. N : n \in S
    <3> HIDE DEF S
    <3> QED
      BY <1>13, <2>1, AllUpTo
  <2>3. N \in 0 .. N
    OBVIOUS
  <2> QED
    BY <2>2, <2>3
<1>15. PICK rest \in Seq(Seq(EntryT)), out \in Seq(EntryT) : rest = c[N].rest /\ out = c[N].out
  BY <1>14 DEF MergedTo, MergeStates
<1>16. \A e : ~ InSome(rest, e)
  <2>1. PICK K \in Nat : DOMAIN rest = 1 .. K /\ IsFiniteSet(1 .. K)
    BY FS_Interval
  <2>2. PICK f : f = Lengths(rest) /\ \A k \in 1 .. K : f[k] = Len(rest[k]) /\ f[k] \in Nat
    <3>1. \A k \in 1 .. K : rest[k] \in Seq(EntryT)
      BY <2>1
    <3>2. \A k \in 1 .. K : Lengths(rest)[k] = Len(rest[k]) /\ Lengths(rest)[k] \in Nat
      BY <2>1, <3>1 DEF Lengths
    <3> QED
      BY <3>2
  <2>3. Total(f, 1 .. K) + N = N
    BY <1>1, <1>14, <1>15, <2>1, <2>2 DEF MergedTo
  <2>4. \A k \in 1 .. K : f[k] \in Nat
    BY <2>2
  <2>5. Total(f, 1 .. K) \in Nat
    BY <2>1, <2>4, SumType
  <2>6. Total(f, 1 .. K) = 0
    BY <2>3, <2>5
  <2>7. ASSUME NEW k \in 1 .. K PROVE Len(rest[k]) = 0
    <3>1. Total(f, 1 .. K) = f[k] + Total(f, (1 .. K) \ {k})
      <4>1. PICK U : U = 1 .. K
        OBVIOUS
      <4>2. IsFiniteSet(U) /\ k \in U /\ \A i \in U : f[i] \in Nat
        BY <2>1, <2>4, <4>1
      <4>3. \A z \in U : Total(f, U) = f[z] + Total(f, U \ {z})
        BY <4>2, SumRemove
      <4> QED
        BY <4>1, <4>2, <4>3, Zenon
    <3>2. Total(f, (1 .. K) \ {k}) \in Nat
      <4>1. IsFiniteSet((1 .. K) \ {k}) /\ \A i \in (1 .. K) \ {k} : f[i] \in Nat
        BY <2>1, <2>4, FS_Difference
      <4> QED
        BY <4>1, SumType
    <3> QED
      BY <2>2, <2>6, <3>1, <3>2
  <2>8. \A k \in 1 .. K : DOMAIN rest[k] = {}
    <3>1. \A k \in 1 .. K : rest[k] \in Seq(EntryT)
      BY <2>1
    <3> QED
      BY <2>7, <3>1
  <2> QED
    BY <2>1, <2>8 DEF InSome, InSeq
<1>17. /\ \A e : InSeq(out, e) \/ InSome(rest, e) <=> InSome(s, e)
       /\ Apart(s) => OneEach(out)
  BY <1>14, <1>15 DEF MergedTo
<1> QED
  BY <1>2, <1>15, <1>16, <1>17

-----------------------------------------------------------------------------
(* The survivors of a merge *)

AliveT(D) == [src : Nat, pos : Nat, doc : D, id : Nat]

\* The sources of a merge, and the bitmaps that go with them.
SourcesOK(D, srcs, lv, K) ==
  /\ DOMAIN srcs = 1 .. K
  /\ \A k \in 1 .. K : /\ srcs[k].stored \in Seq(RowT(D)) /\ OneEach(srcs[k].stored)
                       /\ lv[k] \subseteq DOMAIN srcs[k].stored

\* Row n of the survivors is the one at its position of its source.
RowOf(srcs, lv, a, K) ==
  /\ a.src \in 1 .. K /\ a.pos \in lv[a.src]
  /\ a.doc = srcs[a.src].stored[a.pos].doc /\ a.id = srcs[a.src].stored[a.pos].id

\* Every living row of a source once.
SurvivorsOK(D, srcs, lv, K, alive) ==
  /\ alive \in Seq(AliveT(D))
  /\ \A n \in DOMAIN alive : RowOf(srcs, lv, alive[n], K)
  /\ \A k \in 1 .. K : \A p \in lv[k] : \E n \in DOMAIN alive : alive[n].src = k /\ alive[n].pos = p
  /\ \A m, n \in DOMAIN alive : alive[m].src = alive[n].src /\ alive[m].pos = alive[n].pos => m = n

\* Step 1 of the merge lists every living row once.
LEMMA SurvivorsFacts ==
  ASSUME NEW D, NEW srcs, NEW lv, NEW K \in Nat, SourcesOK(D, srcs, lv, K)
  PROVE  SurvivorsOK(D, srcs, lv, K, Survivors(srcs, lv))
<1> DEFINE rows(k) == Picked(srcs[k].stored, lv[k])
           part(k) == [j \in DOMAIN rows(k) |->
                         [src |-> k, pos |-> InOrder(lv[k])[j], doc |-> rows(k)[j].doc, id |-> rows(k)[j].id]]
           seqs == [k \in DOMAIN srcs |-> part(k)]
<1>1. Survivors(srcs, lv) = FlattenSeq(seqs)
  BY Zenon DEF Survivors
<1>2. DOMAIN srcs = 1 .. K
  BY DEF SourcesOK
<1>3. ASSUME NEW k \in 1 .. K
      PROVE  /\ part(k) \in Seq(AliveT(D)) /\ Distinct(part(k))
             /\ \A x : InSeq(part(k), x) =>
                  /\ x.src = k /\ x.pos \in lv[k]
                  /\ x = [src |-> k, pos |-> x.pos, doc |-> srcs[k].stored[x.pos].doc,
                          id |-> srcs[k].stored[x.pos].id]
             /\ \A p \in lv[k] : \E x : InSeq(part(k), x) /\ x.pos = p
  <2>1. PICK s \in Seq(RowT(D)), S \in SUBSET DOMAIN srcs[k].stored :
           s = srcs[k].stored /\ S = lv[k] /\ S \subseteq DOMAIN s
    BY DEF SourcesOK
  <2>2. PICK N \in Nat : DOMAIN s = 1 .. N /\ IsFiniteSet(1 .. N)
    BY FS_Interval
  <2>3. S \in SUBSET Nat /\ IsFiniteSet(S) /\ \A i \in S : s[i] \in RowT(D)
    <3>1. IsFiniteSet(S)
      BY <2>1, <2>2, FS_Subset
    <3>2. \A i \in 1 .. N : s[i] \in RowT(D)
      BY <2>2
    <3> QED
      BY <2>1, <2>2, <3>1, <3>2
  <2>4. PICK r, o : r = Picked(s, S) /\ o = InOrder(S)
    OBVIOUS
  <2>5. PICK n \in Nat : n = Cardinality(S) /\ DOMAIN r = 1 .. n
    BY <2>3, <2>4, PickedFacts
  <2>6. /\ DOMAIN o = DOMAIN r /\ \A j \in DOMAIN r : o[j] \in S /\ r[j] = s[o[j]]
        /\ \A i \in S : InSeq(o, i)
        /\ Distinct(o)
    BY <2>3, <2>4, PickedFacts
  <2>7. PICK q : q = part(k)
    OBVIOUS
  <2>8. q = [j \in 1 .. n |-> [src |-> k, pos |-> o[j], doc |-> r[j].doc, id |-> r[j].id]]
    BY <2>1, <2>4, <2>5, <2>7
  <2>9. \A j \in 1 .. n : q[j] = [src |-> k, pos |-> o[j], doc |-> s[o[j]].doc, id |-> s[o[j]].id]
    BY <2>5, <2>6, <2>8
  <2>10. DOMAIN q = 1 .. n /\ q = [j \in 1 .. n |-> q[j]]
    BY <2>8
  <2>11. \A j \in 1 .. n : q[j] \in AliveT(D) /\ q[j].src = k /\ q[j].pos = o[j] /\ o[j] \in S
    <3> TAKE j \in 1 .. n
    <3>1. o[j] \in S /\ o[j] \in Nat /\ s[o[j]].doc \in D /\ s[o[j]].id \in Nat
      BY <2>3, <2>5, <2>6 DEF RowT
    <3>2. PICK d \in D, i \in Nat, p \in Nat : d = s[o[j]].doc /\ i = s[o[j]].id /\ p = o[j]
      BY <3>1
    <3>3. k \in Nat /\ q[j] = [src |-> k, pos |-> p, doc |-> d, id |-> i]
      BY <2>9, <3>2
    <3>4. [src |-> k, pos |-> p, doc |-> d, id |-> i] \in AliveT(D)
      BY <3>3 DEF AliveT
    <3> QED
      BY <3>1, <3>2, <3>3, <3>4
  <2>12. q \in Seq(AliveT(D))
    <3>1. q \in [1 .. n -> AliveT(D)]
      BY <2>10, <2>11
    <3> QED
      BY <3>1
  <2>13. Distinct(q)
    BY <2>5, <2>6, <2>10, <2>11 DEF Distinct
  <2>14. ASSUME NEW x, InSeq(q, x)
         PROVE  /\ x.src = k /\ x.pos \in S
                /\ x = [src |-> k, pos |-> x.pos, doc |-> s[x.pos].doc, id |-> s[x.pos].id]
    <3>1. PICK j \in 1 .. n : q[j] = x
      BY <2>10, <2>14 DEF InSeq
    <3> QED
      BY <2>9, <2>11, <3>1
  <2>15. ASSUME NEW p \in S PROVE \E x : InSeq(q, x) /\ x.pos = p
    <3>1. PICK j \in 1 .. n : o[j] = p
      BY <2>5, <2>6 DEF InSeq
    <3>2. InSeq(q, q[j]) /\ q[j].pos = p
      BY <2>10, <2>11, <3>1 DEF InSeq
    <3> QED
      BY <3>2
  <2> QED
    BY <2>1, <2>7, <2>12, <2>13, <2>14, <2>15
<1> HIDE DEF part
<1>4. seqs \in Seq(Seq(AliveT(D))) /\ DOMAIN seqs = 1 .. K /\ \A k \in 1 .. K : seqs[k] = part(k)
  <2>1. seqs \in [1 .. K -> Seq(AliveT(D))]
    BY <1>2, <1>3
  <2>2. DOMAIN seqs = 1 .. K /\ \A k \in 1 .. K : seqs[k] = part(k)
    BY <1>2
  <2> HIDE DEF seqs
  <2> QED
    BY <2>1, <2>2
<1> HIDE DEF seqs
<1>5. PICK alive : alive = FlattenSeq(seqs)
  OBVIOUS
<1>6. /\ alive \in Seq(AliveT(D))
      /\ \A x : InSeq(alive, x) <=> \E k \in DOMAIN seqs : InSeq(seqs[k], x)
      /\ (/\ \A k \in DOMAIN seqs : Distinct(seqs[k])
          /\ \A k, l \in DOMAIN seqs : \A x : InSeq(seqs[k], x) /\ InSeq(seqs[l], x) => k = l)
           => Distinct(alive)
  BY <1>4, <1>5, FlattenFacts
<1>7. Distinct(alive)
  <2>1. \A k \in DOMAIN seqs : Distinct(seqs[k])
    BY <1>3, <1>4
  <2>2. ASSUME NEW k \in DOMAIN seqs, NEW l \in DOMAIN seqs, NEW x, InSeq(seqs[k], x), InSeq(seqs[l], x)
        PROVE  k = l
    <3>1. x.src = k /\ x.src = l
      BY <1>3, <1>4, <2>2
    <3> QED
      BY <3>1
  <2> QED
    BY <1>6, <2>1, <2>2
<1>8. \A x : InSeq(alive, x) <=> \E k \in 1 .. K : InSeq(part(k), x)
  BY <1>4, <1>6
<1>9. ASSUME NEW n \in DOMAIN alive
      PROVE  RowOf(srcs, lv, alive[n], K) /\ alive[n].src \in 1 .. K
             /\ alive[n] = [src |-> alive[n].src, pos |-> alive[n].pos,
                            doc |-> srcs[alive[n].src].stored[alive[n].pos].doc,
                            id |-> srcs[alive[n].src].stored[alive[n].pos].id]
  <2>1. InSeq(alive, alive[n])
    BY DEF InSeq
  <2>2. PICK k \in 1 .. K : InSeq(part(k), alive[n])
    BY <1>8, <2>1
  <2>3. PICK x : x = alive[n]
    OBVIOUS
  <2>4. /\ x.src = k /\ x.pos \in lv[k]
        /\ x = [src |-> k, pos |-> x.pos, doc |-> srcs[k].stored[x.pos].doc,
                id |-> srcs[k].stored[x.pos].id]
    BY <1>3, <2>2, <2>3
  <2>5. x.doc = srcs[k].stored[x.pos].doc /\ x.id = srcs[k].stored[x.pos].id
    BY <2>4
  <2> QED
    BY <2>3, <2>4, <2>5 DEF RowOf
<1>10. ASSUME NEW k \in 1 .. K, NEW p \in lv[k]
       PROVE  \E n \in DOMAIN alive : alive[n].src = k /\ alive[n].pos = p
  <2>1. PICK x : InSeq(part(k), x) /\ x.pos = p /\ x.src = k
    BY <1>3
  <2>2. PICK n \in DOMAIN alive : alive[n] = x
    BY <1>8, <2>1 DEF InSeq
  <2> QED
    BY <2>1, <2>2
<1>11. ASSUME NEW m \in DOMAIN alive, NEW n \in DOMAIN alive,
              alive[m].src = alive[n].src, alive[m].pos = alive[n].pos
       PROVE  m = n
  <2>1. alive[m] = alive[n]
    BY <1>9, <1>11
  <2> QED
    BY <1>7, <2>1 DEF Distinct
<1> QED
  BY <1>1, <1>5, <1>6, <1>9, <1>10, <1>11 DEF SurvivorsOK

\* What a segment posted under a doc_id is under the new id of the row that
\* has the doc_id, if it survives.
LEMMA NewIdsFacts ==
  ASSUME NEW D, NEW srcs, NEW lv, NEW K \in Nat, SourcesOK(D, srcs, lv, K),
         NEW alive, SurvivorsOK(D, srcs, lv, K, alive)
  PROVE  /\ \A k \in 1 .. K : \A id : \A n \in NewIds(alive, k, id) :
              /\ n \in DOMAIN alive /\ n \in Nat /\ alive[n].src = k /\ alive[n].id = id
              /\ NewIds(alive, k, id) = {n} /\ Max(NewIds(alive, k, id)) = n
         /\ \A n \in DOMAIN alive : n \in NewIds(alive, alive[n].src, alive[n].id)
<1>1. ASSUME NEW k \in 1 .. K, NEW id, NEW n \in NewIds(alive, k, id)
      PROVE  /\ n \in DOMAIN alive /\ n \in Nat /\ alive[n].src = k /\ alive[n].id = id
             /\ NewIds(alive, k, id) = {n} /\ Max(NewIds(alive, k, id)) = n
  <2>1. n \in DOMAIN alive /\ alive[n].src = k /\ alive[n].id = id
    BY DEF NewIds
  <2>2. n \in Nat
    <3>1. alive \in Seq(AliveT(D))
      BY DEF SurvivorsOK
    <3> QED
      BY <2>1, <3>1
  <2>3. ASSUME NEW m \in NewIds(alive, k, id) PROVE m = n
    <3>1. m \in DOMAIN alive /\ alive[m].src = k /\ alive[m].id = id
      BY <2>3 DEF NewIds
    <3>2. RowOf(srcs, lv, alive[m], K) /\ RowOf(srcs, lv, alive[n], K)
      BY <2>1, <3>1 DEF SurvivorsOK
    <3>3. PICK s : s = srcs[k].stored /\ OneEach(s) /\ lv[k] \subseteq DOMAIN s
      BY DEF SourcesOK
    <3>4. /\ alive[m].pos \in DOMAIN s /\ s[alive[m].pos].id = id
          /\ alive[n].pos \in DOMAIN s /\ s[alive[n].pos].id = id
      BY <2>1, <3>1, <3>2, <3>3 DEF RowOf
    <3>5. alive[m].pos = alive[n].pos
      BY <3>3, <3>4 DEF OneEach
    <3> QED
      BY <2>1, <3>1, <3>5 DEF SurvivorsOK
  <2>4. NewIds(alive, k, id) = {n}
    BY <2>3
  <2>5. Max({n}) = n
    BY <2>2 DEF Max
  <2> QED
    BY <2>1, <2>2, <2>4, <2>5
<1>2. \A n \in DOMAIN alive : n \in NewIds(alive, alive[n].src, alive[n].id)
  BY DEF NewIds
<1> QED
  BY <1>1, <1>2

\* What the source of a term hands on for a survivor.
SrcWant(sch, n, toks, key) ==
  [id  |-> n,
   tf  |-> IF HasPositions(sch, key[1]) THEN Len(Positions(toks, Places(toks, key)))
           ELSE AtMost(Cardinality(Places(toks, key)), MaxTf),
   pos |-> IF HasPositions(sch, key[1]) THEN Positions(toks, Places(toks, key)) ELSE <<>>]

SrcWanted(sch, tokens, alive, n, key, e) ==
  key \in KeysIn(tokens[alive[n].doc]) /\ e = SrcWant(sch, n, tokens[alive[n].doc], key)

\* What a segment's list should say of a row is an entry.
LEMMA WantFacts ==
  ASSUME NEW sch, NEW toks \in Seq(Keyed), NEW key, NEW id \in Nat
  PROVE  /\ Want(sch, id, toks, key) \in EntryT /\ Want(sch, id, toks, key).id = id
         /\ SrcWant(sch, id, toks, key) \in EntryT /\ SrcWant(sch, id, toks, key).id = id
         /\ SrcWant(sch, id, toks, key).pos = Want(sch, id, toks, key).pos
         /\ AtMost(SrcWant(sch, id, toks, key).tf, MaxTf) = Want(sch, id, toks, key).tf
<1>1. Places(toks, key) \in SUBSET DOMAIN toks
  BY DEF Places
<1>2. PICK p \in Seq(Nat), c \in Nat :
           p = Positions(toks, Places(toks, key)) /\ c = Cardinality(Places(toks, key)) /\ Len(p) = c
  BY <1>1, PositionsFacts
<1>3. AtMost(c, MaxTf) \in Nat /\ AtMost(AtMost(c, MaxTf), MaxTf) = AtMost(c, MaxTf)
  BY AtMostFacts, ContentAssumption
<1>4. PICK none \in Seq(Nat) : none = <<>>
  <2>1. <<>> \in Seq(Nat)
    OBVIOUS
  <2> QED
    BY <2>1, Zenon
<1>5. PICK w, x : w = Want(sch, id, toks, key) /\ x = SrcWant(sch, id, toks, key)
  OBVIOUS
<1>6. CASE HasPositions(sch, key[1])
  <2>1. w = [id |-> id, tf |-> AtMost(c, MaxTf), pos |-> p] /\ x = [id |-> id, tf |-> c, pos |-> p]
    BY <1>2, <1>5, <1>6 DEF Want, SrcWant
  <2>2. w \in EntryT /\ x \in EntryT
    BY <1>3, <2>1 DEF EntryT
  <2> QED
    BY <1>5, <2>1, <2>2
<1>7. CASE ~ HasPositions(sch, key[1])
  <2>1. /\ w = [id |-> id, tf |-> AtMost(c, MaxTf), pos |-> none]
        /\ x = [id |-> id, tf |-> AtMost(c, MaxTf), pos |-> none]
    BY <1>2, <1>4, <1>5, <1>7 DEF Want, SrcWant
  <2>2. w \in EntryT /\ x \in EntryT
    BY <1>3, <2>1 DEF EntryT
  <2> QED
    BY <1>3, <1>5, <2>1, <2>2
<1> QED
  BY <1>6, <1>7

\* The list of a key in a segment, which may have none.
LEMMA ListOfGood ==
  ASSUME NEW sch, NEW rows, NEW tokens, NEW lists, GoodLists(sch, rows, tokens, lists), NEW key
  PROVE  GoodList(sch, rows, tokens, key, ListOf(lists, key))
<1>1. CASE key \in DOMAIN lists
  BY <1>1 DEF GoodLists, ListOf
<1>2. CASE key \notin DOMAIN lists
  <2>1. PICK none \in Seq(EntryT) : none = <<>> /\ DOMAIN none = {}
    <3>1. <<>> \in Seq(EntryT) /\ DOMAIN <<>> = {}
      OBVIOUS
    <3> QED
      BY <3>1, Zenon
  <2>2. ListOf(lists, key) = none
    BY <1>2, <2>1 DEF ListOf
  <2>3. OneEach(none) /\ \A e : ~ InSeq(none, e)
    BY <2>1 DEF OneEach, InSeq
  <2>4. \A e : \A i \in DOMAIN rows : ~ Wanted(sch, rows, tokens, i, key, e)
    BY <1>2 DEF GoodLists, HasKey, Wanted
  <2> QED
    BY <2>2, <2>3, <2>4 DEF GoodList
<1> QED
  BY <1>1, <1>2

\* A source that hands on just the survivors of its segment that have the key.
GoodSource(sch, tokens, alive, k, key, list) ==
  /\ list \in Seq(EntryT) /\ OneEach(list)
  /\ \A e : InSeq(list, e)
               <=> \E n \in DOMAIN alive : alive[n].src = k /\ SrcWanted(sch, tokens, alive, n, key, e)

\* What a source contributes to the list of a key: its living rows that have
\* it.
LEMMA SourceFacts ==
  ASSUME NEW D, NEW tokens \in [D -> Seq(Keyed)], NEW srcs, NEW lv, NEW K \in Nat,
         SourcesOK(D, srcs, lv, K), NEW alive, SurvivorsOK(D, srcs, lv, K, alive),
         NEW sch, NEW key, NEW k \in 1 .. K, GoodLists(sch, srcs[k].stored, tokens, srcs[k].lists)
  PROVE  GoodSource(sch, tokens, alive, k, key, Source(srcs, alive, key, k, HasPositions(sch, key[1])))
<1>1. PICK list \in Seq(EntryT) : list = ListOf(srcs[k].lists, key)
                                  /\ GoodList(sch, srcs[k].stored, tokens, key, list)
  <2>1. GoodList(sch, srcs[k].stored, tokens, key, ListOf(srcs[k].lists, key))
    BY ListOfGood
  <2>2. ListOf(srcs[k].lists, key) \in Seq(EntryT)
    BY <2>1 DEF GoodList
  <2> QED
    BY <2>1, <2>2
<1>2. PICK N \in Nat : DOMAIN list = 1 .. N /\ IsFiniteSet(1 .. N)
  BY FS_Interval
<1>3. \A i \in 1 .. N : list[i] \in EntryT
  BY <1>2
<1>4. PICK S : S = {i \in DOMAIN list : NewIds(alive, k, list[i].id) # {}}
  OBVIOUS
<1>5. S \in SUBSET (1 .. N) /\ S \in SUBSET Nat /\ IsFiniteSet(S)
  <2>1. S \in SUBSET (1 .. N) /\ S \in SUBSET Nat
    BY <1>2, <1>4
  <2> QED
    BY <1>2, <2>1, FS_Subset
<1>6. PICK p, o : p = Picked(list, S) /\ o = InOrder(S)
  OBVIOUS
<1>7. PICK m \in Nat : m = Cardinality(S) /\ DOMAIN p = 1 .. m
  BY <1>5, <1>6, PickedFacts
<1>8. /\ DOMAIN o = DOMAIN p /\ \A j \in DOMAIN p : o[j] \in S /\ p[j] = list[o[j]]
      /\ \A i \in S : InSeq(o, i)
      /\ Distinct(o)
  BY <1>5, <1>6, PickedFacts
<1>9. PICK positions : positions = HasPositions(sch, key[1])
  OBVIOUS
<1>10. PICK r : r = Source(srcs, alive, key, k, HasPositions(sch, key[1]))
  OBVIOUS
<1>11. r = [i \in 1 .. m |->
             [id  |-> Max(NewIds(alive, k, p[i].id)),
              tf  |-> IF HasPositions(sch, key[1]) THEN Len(p[i].pos) ELSE p[i].tf,
              pos |-> IF HasPositions(sch, key[1]) THEN p[i].pos ELSE <<>>]]
  <2>1. r = [i \in DOMAIN p |->
             [id  |-> Max(NewIds(alive, k, p[i].id)),
              tf  |-> IF HasPositions(sch, key[1]) THEN Len(p[i].pos) ELSE p[i].tf,
              pos |-> IF HasPositions(sch, key[1]) THEN p[i].pos ELSE <<>>]]
    BY <1>1, <1>4, <1>6, <1>10, Zenon DEF Source
  <2> QED
    BY <1>7, <2>1
<1>12. PICK s \in Seq(RowT(D)) : s = srcs[k].stored /\ OneEach(s)
  BY DEF SourcesOK
<1>13. \A n \in DOMAIN alive : alive[n].src = k =>
         alive[n].pos \in DOMAIN s /\ alive[n].doc = s[alive[n].pos].doc /\ alive[n].id = s[alive[n].pos].id
  <2> TAKE n \in DOMAIN alive
  <2> HAVE alive[n].src = k
  <2>1. RowOf(srcs, lv, alive[n], K)
    BY DEF SurvivorsOK
  <2>2. lv[k] \subseteq DOMAIN s
    BY <1>12 DEF SourcesOK
  <2> QED
    BY <1>12, <2>1, <2>2 DEF RowOf
<1>14. \A n \in DOMAIN alive : n \in Nat /\ tokens[alive[n].doc] \in Seq(Keyed)
  <2>1. alive \in Seq(AliveT(D))
    BY DEF SurvivorsOK
  <2>2. \A n \in DOMAIN alive : n \in Nat /\ alive[n] \in AliveT(D)
    BY <2>1
  <2> QED
    BY <2>2 DEF AliveT
<1>15. ASSUME NEW i \in S
       PROVE  \E n \in DOMAIN alive :
                /\ alive[n].src = k /\ alive[n].id = list[i].id /\ Max(NewIds(alive, k, list[i].id)) = n
                /\ key \in KeysIn(tokens[alive[n].doc])
                /\ list[i] = Want(sch, alive[n].id, tokens[alive[n].doc], key)
  <2>1. i \in DOMAIN list /\ NewIds(alive, k, list[i].id) # {}
    BY <1>4
  <2>2. PICK n : n \in NewIds(alive, k, list[i].id)
    BY <2>1
  <2>3. /\ n \in DOMAIN alive /\ alive[n].src = k /\ alive[n].id = list[i].id
        /\ Max(NewIds(alive, k, list[i].id)) = n
    BY <2>2, NewIdsFacts
  <2>4. InSeq(list, list[i])
    BY <2>1 DEF InSeq
  <2>5. PICK q \in DOMAIN s : Wanted(sch, s, tokens, q, key, list[i])
    BY <1>1, <1>12, <2>4 DEF GoodList
  <2>6. key \in KeysIn(tokens[s[q].doc]) /\ list[i] = Want(sch, s[q].id, tokens[s[q].doc], key)
    BY <2>5 DEF Wanted
  <2>7. list[i].id = s[q].id
    BY <2>6 DEF Want
  <2>8. alive[n].pos = q
    BY <1>12, <1>13, <2>3, <2>7 DEF OneEach
  <2>9. alive[n].doc = s[q].doc /\ alive[n].id = s[q].id
    BY <1>13, <2>3, <2>8
  <2> QED
    BY <2>3, <2>6, <2>9
<1>16. ASSUME NEW j \in 1 .. m
       PROVE  \E n \in DOMAIN alive : /\ alive[n].src = k /\ alive[n].id = list[o[j]].id
                                      /\ SrcWanted(sch, tokens, alive, n, key, r[j])
                                      /\ r[j] \in EntryT /\ r[j].id = n
  <2>1. o[j] \in S /\ p[j] = list[o[j]]
    BY <1>7, <1>8
  <2>2. PICK e : e = list[o[j]]
    OBVIOUS
  <2>3. PICK n \in DOMAIN alive :
                /\ alive[n].src = k /\ alive[n].id = e.id /\ Max(NewIds(alive, k, e.id)) = n
                /\ key \in KeysIn(tokens[alive[n].doc])
                /\ e = Want(sch, alive[n].id, tokens[alive[n].doc], key)
    BY <1>15, <2>1, <2>2
  <2>4. r[j] = [id  |-> n,
                tf  |-> IF HasPositions(sch, key[1]) THEN Len(e.pos) ELSE e.tf,
                pos |-> IF HasPositions(sch, key[1]) THEN e.pos ELSE <<>>]
    BY <1>11, <2>1, <2>2, <2>3
  <2>5. e.tf = AtMost(Cardinality(Places(tokens[alive[n].doc], key)), MaxTf)
        /\ e.pos = IF HasPositions(sch, key[1])
                   THEN Positions(tokens[alive[n].doc], Places(tokens[alive[n].doc], key)) ELSE <<>>
    BY <2>3 DEF Want
  <2>6. r[j] = SrcWant(sch, n, tokens[alive[n].doc], key)
    BY <2>4, <2>5 DEF SrcWant
  <2>7. r[j] \in EntryT /\ r[j].id = n
    BY <1>14, <2>6, WantFacts
  <2> QED
    BY <2>2, <2>3, <2>6, <2>7 DEF SrcWanted
<1>17. DOMAIN r = 1 .. m /\ r = [j \in 1 .. m |-> r[j]]
  BY <1>11
<1>18. r \in Seq(EntryT)
  <2>1. r \in [1 .. m -> EntryT]
    BY <1>16, <1>17
  <2> QED
    BY <2>1
<1>19. OneEach(r)
  <2> SUFFICES ASSUME NEW i \in 1 .. m, NEW j \in 1 .. m, r[i].id = r[j].id
               PROVE  i = j
    BY <1>17 DEF OneEach
  <2>1. list[o[i]].id = list[o[j]].id
    BY <1>16
  <2>2. o[i] \in DOMAIN list /\ o[j] \in DOMAIN list
    BY <1>4, <1>7, <1>8
  <2>3. o[i] = o[j]
    BY <1>1, <2>1, <2>2 DEF GoodList, OneEach
  <2> QED
    BY <1>7, <1>8, <2>3 DEF Distinct
<1>20. ASSUME NEW e, InSeq(r, e)
       PROVE  \E n \in DOMAIN alive : alive[n].src = k /\ SrcWanted(sch, tokens, alive, n, key, e)
  BY <1>16, <1>17, <1>20 DEF InSeq
<1>21. ASSUME NEW e, NEW n \in DOMAIN alive, alive[n].src = k, SrcWanted(sch, tokens, alive, n, key, e)
       PROVE  InSeq(r, e)
  <2>1. PICK q \in DOMAIN s : q = alive[n].pos /\ alive[n].doc = s[q].doc /\ alive[n].id = s[q].id
    BY <1>13, <1>21
  <2>2. PICK w : w = Want(sch, s[q].id, tokens[s[q].doc], key) /\ w.id = s[q].id
    <3>1. Want(sch, s[q].id, tokens[s[q].doc], key).id = s[q].id
      BY DEF Want
    <3> QED
      BY <3>1
  <2>3. Wanted(sch, s, tokens, q, key, w)
    BY <1>21, <2>1, <2>2 DEF Wanted, SrcWanted
  <2>4. PICK i \in DOMAIN list : list[i] = w
    <3>1. InSeq(list, w)
      BY <1>1, <1>12, <2>3 DEF GoodList
    <3> QED
      BY <3>1 DEF InSeq
  <2>5. n \in NewIds(alive, k, list[i].id)
    BY <1>21, <2>1, <2>2, <2>4 DEF NewIds
  <2>6. i \in S
    BY <1>4, <2>5
  <2>7. PICK j \in 1 .. m : o[j] = i
    BY <1>7, <1>8, <2>6 DEF InSeq
  <2>8. PICK n2 \in DOMAIN alive : alive[n2].src = k /\ alive[n2].id = list[i].id
                                   /\ SrcWanted(sch, tokens, alive, n2, key, r[j])
    BY <1>16, <2>7
  <2>9. n2 = n
    <3>1. n2 \in NewIds(alive, k, list[i].id)
      BY <2>8 DEF NewIds
    <3>2. NewIds(alive, k, list[i].id) = {n}
      BY <2>5, NewIdsFacts
    <3> QED
      BY <3>1, <3>2
  <2>10. r[j] = e
    BY <1>21, <2>8, <2>9 DEF SrcWanted
  <2> QED
    BY <1>17, <2>10 DEF InSeq
<1> QED
  BY <1>10, <1>18, <1>19, <1>20, <1>21 DEF GoodSource

\* All the sources are right about their rows.
SourcesGood(D, sch, tokens, srcs, lv, K) ==
  /\ SourcesOK(D, srcs, lv, K)
  /\ \A k \in 1 .. K : GoodLists(sch, srcs[k].stored, tokens, srcs[k].lists)

\* The merged list of one key.
LEMMA MergedListFacts ==
  ASSUME NEW D, NEW tokens \in [D -> Seq(Keyed)], NEW srcs, NEW lv, NEW K \in Nat, NEW sch, NEW key,
         SourcesGood(D, sch, tokens, srcs, lv, K), NEW alive, SurvivorsOK(D, srcs, lv, K, alive)
  PROVE  GoodList(sch, MergedStored(alive), tokens, key, MergedList(sch, srcs, alive, key))
<1> DEFINE src(k) == Source(srcs, alive, key, k, HasPositions(sch, key[1]))
           sources == [k \in DOMAIN srcs |-> src(k)]
<1>1. DOMAIN srcs = 1 .. K /\ SourcesOK(D, srcs, lv, K)
  BY DEF SourcesGood, SourcesOK
<1>2. ASSUME NEW k \in 1 .. K
      PROVE  /\ src(k) \in Seq(EntryT) /\ OneEach(src(k))
             /\ \A e : InSeq(src(k), e)
                  <=> \E n \in DOMAIN alive : alive[n].src = k /\ SrcWanted(sch, tokens, alive, n, key, e)
  <2>1. GoodLists(sch, srcs[k].stored, tokens, srcs[k].lists)
    BY DEF SourcesGood
  <2>2. k \in DOMAIN srcs
    BY <1>1
  <2> HIDE DEF src, sources
  <2>3. GoodSource(sch, tokens, alive, k, key, Source(srcs, alive, key, k, HasPositions(sch, key[1])))
    BY <1>1, <2>1, SourceFacts
  <2>4. src(k) = Source(srcs, alive, key, k, HasPositions(sch, key[1]))
    BY DEF src
  <2> QED
    BY <2>3, <2>4 DEF GoodSource
<1>3. PICK list : list = Merged(sources)
  OBVIOUS
<1>4. MergedList(sch, srcs, alive, key) = [i \in DOMAIN list |-> [list[i] EXCEPT !.tf = AtMost(@, MaxTf)]]
  BY <1>3, Zenon DEF MergedList
<1> HIDE DEF src
<1>5. DOMAIN sources = 1 .. K /\ \A k \in 1 .. K : sources[k] = src(k)
  BY <1>1
<1>6. sources \in Seq(Seq(EntryT))
  <2>1. sources \in [1 .. K -> Seq(EntryT)]
    BY <1>1, <1>2
  <2> HIDE DEF sources
  <2> QED
    BY <2>1
<1> HIDE DEF sources
<1>7. /\ \A n \in DOMAIN alive : n \in Nat /\ alive[n].src \in 1 .. K /\ tokens[alive[n].doc] \in Seq(Keyed)
      /\ alive \in Seq(AliveT(D))
  <2>1. alive \in Seq(AliveT(D))
    BY DEF SurvivorsOK
  <2>2. \A n \in DOMAIN alive : n \in Nat /\ alive[n] \in AliveT(D) /\ RowOf(srcs, lv, alive[n], K)
    BY <2>1 DEF SurvivorsOK
  <2> QED
    BY <2>1, <2>2 DEF AliveT, RowOf
<1>8. \A e : InSome(sources, e) <=> \E n \in DOMAIN alive : SrcWanted(sch, tokens, alive, n, key, e)
  <2>1. \A e : InSome(sources, e) <=> \E k \in 1 .. K : InSeq(src(k), e)
    BY <1>5 DEF InSome
  <2> QED
    BY <1>2, <1>7, <2>1
<1>9. Apart(sources)
  <2> SUFFICES ASSUME NEW k \in 1 .. K, NEW l \in 1 .. K, NEW i \in DOMAIN src(k), NEW j \in DOMAIN src(l),
                      src(k)[i].id = src(l)[j].id
               PROVE  k = l /\ i = j
    BY <1>5 DEF Apart
  <2>1. PICK n \in DOMAIN alive : alive[n].src = k /\ SrcWanted(sch, tokens, alive, n, key, src(k)[i])
    <3>1. InSeq(src(k), src(k)[i])
      BY DEF InSeq
    <3> QED
      BY <1>2, <3>1
  <2>2. PICK m \in DOMAIN alive : alive[m].src = l /\ SrcWanted(sch, tokens, alive, m, key, src(l)[j])
    <3>1. InSeq(src(l), src(l)[j])
      BY DEF InSeq
    <3> QED
      BY <1>2, <3>1
  <2>3. src(k)[i].id = n /\ src(l)[j].id = m
    BY <2>1, <2>2 DEF SrcWanted, SrcWant
  <2>4. k = l
    BY <2>1, <2>2, <2>3
  <2> QED
    BY <1>2, <2>4 DEF OneEach
<1>10. /\ list \in Seq(EntryT) /\ \A e : InSeq(list, e) <=> InSome(sources, e)
       /\ OneEach(list)
  BY <1>3, <1>6, <1>9, MergedFacts
<1> DEFINE out(e) == [e EXCEPT !.tf = AtMost(@, MaxTf)]
           f == [e \in EntryT |-> out(e)]
<1>11. \A e \in EntryT : /\ f[e] = out(e) /\ f[e] \in EntryT /\ f[e].id = e.id
                         /\ out(e) = [id |-> e.id, tf |-> AtMost(e.tf, MaxTf), pos |-> e.pos]
  <2> TAKE e \in EntryT
  <2>1. e.id \in Nat /\ e.tf \in Nat /\ e.pos \in Seq(Nat)
    BY DEF EntryT
  <2>2. out(e) = [id |-> e.id, tf |-> AtMost(e.tf, MaxTf), pos |-> e.pos]
    BY DEF EntryT
  <2>3. AtMost(e.tf, MaxTf) \in Nat
    BY <2>1, AtMostFacts, ContentAssumption
  <2>4. out(e) \in EntryT /\ out(e).id = e.id
    <3> HIDE DEF out
    <3> QED
      BY <2>1, <2>2, <2>3 DEF EntryT
  <2>5. f[e] = out(e)
    OBVIOUS
  <2> HIDE DEF f, out
  <2> QED
    BY <2>2, <2>4, <2>5
<1>12. MergedList(sch, srcs, alive, key) = [i \in DOMAIN list |-> f[list[i]]]
  <2>1. MergedList(sch, srcs, alive, key) = [i \in DOMAIN list |-> out(list[i])]
    BY <1>4
  <2>2. \A i \in DOMAIN list : list[i] \in EntryT
    BY <1>10
  <2> HIDE DEF f, out
  <2>3. \A i \in DOMAIN list : f[list[i]] = out(list[i])
    BY <1>11, <2>2
  <2> QED
    BY <2>1, <2>3
<1>13. PICK r : r = MergedList(sch, srcs, alive, key)
  OBVIOUS
<1> HIDE DEF f
<1>14. r \in Seq(EntryT) /\ OneEach(r) /\ \A e : InSeq(r, e) <=> \E d : InSeq(list, d) /\ e = f[d]
  <2>1. \A e \in EntryT : f[e] \in EntryT /\ f[e].id = e.id
    BY <1>11
  <2>2. list \in Seq(EntryT) /\ OneEach(list)
    BY <1>10
  <2> HIDE DEF out
  <2>3. /\ [i \in DOMAIN list |-> f[list[i]]] \in Seq(EntryT)
        /\ OneEach(list) => OneEach([i \in DOMAIN list |-> f[list[i]]])
        /\ \A e : InSeq([i \in DOMAIN list |-> f[list[i]]], e) <=> \E d : InSeq(list, d) /\ e = f[d]
    BY <2>1, <2>2, MapList
  <2> QED
    BY <1>12, <1>13, <2>2, <2>3
<1> HIDE DEF out
<1>15. \A n \in DOMAIN alive :
         f[SrcWant(sch, n, tokens[alive[n].doc], key)] = Want(sch, n, tokens[alive[n].doc], key)
  <2> TAKE n \in DOMAIN alive
  <2>1. PICK toks \in Seq(Keyed), id \in Nat : toks = tokens[alive[n].doc] /\ id = n
    BY <1>7
  <2>2. PICK w \in EntryT, x \in EntryT : w = Want(sch, id, toks, key) /\ x = SrcWant(sch, id, toks, key)
    BY WantFacts
  <2>3. w.id = id /\ x.id = id /\ x.pos = w.pos /\ AtMost(x.tf, MaxTf) = w.tf
    BY <2>2, WantFacts
  <2>4. f[x] = [id |-> x.id, tf |-> AtMost(x.tf, MaxTf), pos |-> x.pos]
    BY <1>11
  <2>5. w = [id |-> w.id, tf |-> w.tf, pos |-> w.pos]
    BY DEF EntryT
  <2> QED
    BY <2>1, <2>2, <2>3, <2>4, <2>5
<1>16. PICK rows : rows = MergedStored(alive)
  OBVIOUS
<1>17. DOMAIN rows = DOMAIN alive /\ \A n \in DOMAIN alive : rows[n].doc = alive[n].doc /\ rows[n].id = n
  BY <1>16 DEF MergedStored
<1>18. \A e : InSeq(r, e) <=> \E n \in DOMAIN rows : Wanted(sch, rows, tokens, n, key, e)
  <2> TAKE e
  <2>1. ASSUME InSeq(r, e) PROVE \E n \in DOMAIN rows : Wanted(sch, rows, tokens, n, key, e)
    <3>1. PICK d : InSeq(list, d) /\ e = f[d]
      BY <1>14, <2>1
    <3>2. PICK n \in DOMAIN alive : SrcWanted(sch, tokens, alive, n, key, d)
      BY <1>8, <1>10, <3>1
    <3> QED
      BY <1>15, <1>17, <3>1, <3>2 DEF SrcWanted, Wanted
  <2>2. ASSUME NEW n \in DOMAIN rows, Wanted(sch, rows, tokens, n, key, e) PROVE InSeq(r, e)
    <3>1. PICK d : d = SrcWant(sch, n, tokens[alive[n].doc], key)
      OBVIOUS
    <3>2. n \in DOMAIN alive /\ SrcWanted(sch, tokens, alive, n, key, d) /\ e = f[d]
      BY <1>15, <1>17, <2>2, <3>1 DEF SrcWanted, Wanted
    <3>3. InSeq(list, d)
      BY <1>8, <1>10, <3>2
    <3> QED
      BY <1>14, <3>2, <3>3
  <2> QED
    BY <2>1, <2>2
<1> QED
  BY <1>13, <1>14, <1>16, <1>18 DEF GoodList

\* The merged lists, and that no key of a survivor is lost.
LEMMA MergedListsFacts ==
  ASSUME NEW D, NEW tokens \in [D -> Seq(Keyed)], NEW srcs, NEW lv, NEW K \in Nat, NEW sch,
         SourcesGood(D, sch, tokens, srcs, lv, K), NEW alive, SurvivorsOK(D, srcs, lv, K, alive)
  PROVE  /\ GoodLists(sch, MergedStored(alive), tokens, MergedLists(sch, srcs, alive))
         /\ DOMAIN MergedLists(sch, srcs, alive) \subseteq UNION {DOMAIN srcs[k].lists : k \in DOMAIN srcs}
<1>1. PICK keys : keys = UNION {DOMAIN srcs[k].lists : k \in DOMAIN srcs}
  OBVIOUS
<1>2. PICK all : all = [key \in keys |-> MergedList(sch, srcs, alive, key)]
  OBVIOUS
<1>3. MergedLists(sch, srcs, alive) = [key \in {key \in keys : all[key] # <<>>} |-> all[key]]
  BY <1>1, <1>2, Zenon DEF MergedLists
<1>4. PICK r : r = MergedLists(sch, srcs, alive)
  OBVIOUS
<1>5. DOMAIN r = {key \in keys : all[key] # <<>>} /\ \A key \in DOMAIN r : r[key] = all[key]
  BY <1>3, <1>4
<1>6. PICK rows : rows = MergedStored(alive)
  OBVIOUS
<1>7. DOMAIN rows = DOMAIN alive /\ \A n \in DOMAIN alive : rows[n].doc = alive[n].doc
  BY <1>6 DEF MergedStored
<1>8. \A key \in keys : GoodList(sch, rows, tokens, key, all[key])
  BY <1>2, <1>6, MergedListFacts
<1>9. \A key \in keys : all[key] # <<>> <=> HasKey(rows, tokens, key)
  <2> TAKE key \in keys
  <2>1. PICK list : list = all[key]
    OBVIOUS
  <2>5. GoodList(sch, rows, tokens, key, list)
    BY <1>8, <2>1
  <2>6. /\ list \in Seq(EntryT)
        /\ \A e : InSeq(list, e) <=> \E i \in DOMAIN rows : Wanted(sch, rows, tokens, i, key, e)
    BY <2>5 DEF GoodList
  <2>2. list # <<>> <=> DOMAIN list # {}
    <3>1. PICK n \in Nat : DOMAIN list = 1 .. n /\ n = Len(list)
      BY <2>6
    <3>2. list = <<>> <=> Len(list) = 0
      BY <2>6
    <3>3. n = 0 => \A i : i \notin 1 .. n
      OBVIOUS
    <3>4. n # 0 => 1 \in 1 .. n
      OBVIOUS
    <3> QED
      BY <3>1, <3>2, <3>3, <3>4
  <2>3. DOMAIN list # {} <=> \E e : InSeq(list, e)
    BY DEF InSeq
  <2>4. (\E e : \E i \in DOMAIN rows : Wanted(sch, rows, tokens, i, key, e)) <=> HasKey(rows, tokens, key)
    BY DEF Wanted, HasKey
  <2> QED
    BY <2>1, <2>2, <2>3, <2>4, <2>6
<1>10. \A key : HasKey(rows, tokens, key) => key \in keys
  <2> TAKE key
  <2> HAVE HasKey(rows, tokens, key)
  <2>1. PICK n \in DOMAIN alive : key \in KeysIn(tokens[alive[n].doc])
    BY <1>7 DEF HasKey
  <2>2. PICK k \in 1 .. K : k = alive[n].src /\ alive[n].pos \in lv[k]
                            /\ alive[n].doc = srcs[k].stored[alive[n].pos].doc
    <3>1. RowOf(srcs, lv, alive[n], K)
      BY DEF SurvivorsOK
    <3> QED
      BY <3>1 DEF RowOf
  <2>3. alive[n].pos \in DOMAIN srcs[k].stored
    BY <2>2 DEF SourcesGood, SourcesOK
  <2>4. HasKey(srcs[k].stored, tokens, key)
    BY <2>1, <2>2, <2>3 DEF HasKey
  <2>5. key \in DOMAIN srcs[k].lists
    BY <2>4 DEF SourcesGood, GoodLists
  <2>6. k \in DOMAIN srcs
    BY DEF SourcesGood, SourcesOK
  <2> QED
    BY <1>1, <2>5, <2>6
<1>11. GoodLists(sch, rows, tokens, r)
  <2>1. \A key : key \in DOMAIN r <=> HasKey(rows, tokens, key)
    BY <1>5, <1>9, <1>10
  <2>2. \A key \in DOMAIN r : GoodList(sch, rows, tokens, key, r[key])
    BY <1>5, <1>8
  <2> QED
    BY <2>1, <2>2 DEF GoodLists
<1> QED
  BY <1>1, <1>4, <1>5, <1>6, <1>11

-----------------------------------------------------------------------------
(* Columns *)

FastNames(sch) == {f.name : f \in NumericFields(sch)}

NumberOf(sch, numbers, d, name) == IF name \in FastNames(sch) THEN numbers[d][name] ELSE 0

\* A column for every numeric field, with the number of each row's document.
GoodColumns(sch, rows, numbers, cols) ==
  /\ DOMAIN cols = FastNames(sch)
  /\ \A name \in FastNames(sch) : cols[name] = [p \in DOMAIN rows |-> numbers[rows[p].doc][name]]

\* What a column says at a position.
LEMMA ColumnValue ==
  ASSUME NEW D, NEW sch, NEW numbers, NEW rows \in Seq(RowT(D)), NEW cols,
         GoodColumns(sch, rows, numbers, cols)
  PROVE  \A name : \A p \in DOMAIN rows :
           Value(LoadColumns(cols, sch, Len(rows)), name, p) = NumberOf(sch, numbers, rows[p].doc, name)
<1> TAKE name
<1> TAKE p \in DOMAIN rows
<1>1. PICK n \in Nat : n = Len(rows) /\ DOMAIN rows = 1 .. n
  OBVIOUS
<1>2. PICK c : c = LoadColumns(cols, sch, n)
  OBVIOUS
<1>3. DOMAIN c = FastNames(sch) /\ \A x \in FastNames(sch) :
         c[x] = [q \in 1 .. n |-> IF q <= Len(cols[x]) THEN cols[x][q] ELSE 0]
  BY <1>2 DEF LoadColumns, FastNames, GoodColumns
<1>4. CASE name \in FastNames(sch)
  <2>1. PICK col : col = cols[name] /\ col = [q \in 1 .. n |-> numbers[rows[q].doc][name]]
    BY <1>1, <1>4 DEF GoodColumns
  <2>2. DOMAIN col = 1 .. n /\ Len(col) = n
    <3>1. PICK X : X = {numbers[rows[q].doc][name] : q \in 1 .. n}
      OBVIOUS
    <3>2. \A q \in 1 .. n : numbers[rows[q].doc][name] \in X
      BY <3>1
    <3>3. col \in [1 .. n -> X]
      BY <2>1, <3>2
    <3>4. col \in Seq(X)
      BY <3>3
    <3> QED
      BY <3>3, <3>4
  <2>3. c[name] = [q \in 1 .. n |-> IF q <= n THEN col[q] ELSE 0]
    <3>1. c[name] = [q \in 1 .. n |-> IF q <= Len(cols[name]) THEN cols[name][q] ELSE 0]
      BY <1>3, <1>4
    <3> QED
      BY <2>1, <2>2, <3>1, Zenon
  <2>4. c[name][p] = col[p] /\ p \in DOMAIN c[name]
    BY <1>1, <2>3
  <2>5. col[p] = numbers[rows[p].doc][name]
    BY <1>1, <2>1
  <2> QED
    BY <1>1, <1>2, <1>3, <1>4, <2>4, <2>5 DEF Value, NumberOf
<1>5. CASE name \notin FastNames(sch)
  BY <1>1, <1>2, <1>3, <1>5 DEF Value, NumberOf
<1> QED
  BY <1>4, <1>5

\* Columns written of the numbers of the rows.
LEMMA WriteColumnsGood ==
  ASSUME NEW sch, NEW rows, NEW numbers, NEW vals, DOMAIN vals = DOMAIN rows,
         \A p \in DOMAIN rows : \A name \in FastNames(sch) : vals[p][name] = numbers[rows[p].doc][name]
  PROVE  GoodColumns(sch, rows, numbers, WriteColumns(sch, vals))
<1>1. PICK c : c = WriteColumns(sch, vals)
  OBVIOUS
<1>2. c = [name \in FastNames(sch) |-> [p \in DOMAIN vals |-> vals[p][name]]]
  BY <1>1 DEF WriteColumns, FastNames
<1>3. \A name \in FastNames(sch) : c[name] = [p \in DOMAIN rows |-> numbers[rows[p].doc][name]]
  <2> TAKE name \in FastNames(sch)
  <2>1. c[name] = [p \in DOMAIN rows |-> vals[p][name]]
    BY <1>2
  <2> QED
    BY <2>1
<1> QED
  BY <1>1, <1>2, <1>3 DEF GoodColumns

\* A merge reads a column by position and writes it in the order of the survivors.
LEMMA MergedColumnsGood ==
  ASSUME NEW D, NEW srcs, NEW lv, NEW K \in Nat, SourcesOK(D, srcs, lv, K),
         NEW alive, SurvivorsOK(D, srcs, lv, K, alive), NEW sch, NEW numbers,
         \A k \in 1 .. K : GoodColumns(sch, srcs[k].stored, numbers, srcs[k].columns)
  PROVE  GoodColumns(sch, MergedStored(alive), numbers, MergedColumns(sch, srcs, alive))
<1>1. PICK rows : rows = MergedStored(alive)
  OBVIOUS
<1>2. DOMAIN rows = DOMAIN alive /\ \A n \in DOMAIN alive : rows[n].doc = alive[n].doc
  BY <1>1 DEF MergedStored
<1>3. PICK vals : vals = [n \in DOMAIN alive |->
    LET src == srcs[alive[n].src]
        columns == LoadColumns(src.columns, sch, Len(src.stored))
    IN [name \in {f.name : f \in NumericFields(sch)} |->
          Value(columns, name, alive[n].pos)]]
  OBVIOUS
<1>4. MergedColumns(sch, srcs, alive) = WriteColumns(sch, vals)
  BY <1>3, Zenon DEF MergedColumns
<1>5. DOMAIN vals = DOMAIN alive /\ \A n \in DOMAIN alive : \A name \in FastNames(sch) :
         vals[n][name] = Value(LoadColumns(srcs[alive[n].src].columns, sch, Len(srcs[alive[n].src].stored)),
                               name, alive[n].pos)
  BY <1>3 DEF FastNames
<1>6. \A n \in DOMAIN alive : \A name \in FastNames(sch) : vals[n][name] = numbers[rows[n].doc][name]
  <2> TAKE n \in DOMAIN alive
  <2> TAKE name \in FastNames(sch)
  <2>1. RowOf(srcs, lv, alive[n], K)
    BY DEF SurvivorsOK
  <2>2. PICK k \in 1 .. K : k = alive[n].src
    BY <2>1 DEF RowOf
  <2>7. PICK p : p = alive[n].pos
    OBVIOUS
  <2>3. p \in lv[k] /\ alive[n].doc = srcs[k].stored[p].doc
    BY <2>1, <2>2, <2>7 DEF RowOf
  <2>4. PICK s \in Seq(RowT(D)) : s = srcs[k].stored /\ p \in DOMAIN s
    BY <2>3 DEF SourcesOK
  <2>5. GoodColumns(sch, s, numbers, srcs[k].columns)
    BY <2>4
  <2>6. Value(LoadColumns(srcs[k].columns, sch, Len(s)), name, p) = NumberOf(sch, numbers, s[p].doc, name)
    BY <2>4, <2>5, ColumnValue
  <2> QED
    BY <1>2, <1>5, <2>2, <2>3, <2>4, <2>6, <2>7 DEF NumberOf
<1> QED
  BY <1>1, <1>2, <1>4, <1>5, <1>6, WriteColumnsGood

-----------------------------------------------------------------------------
(* Segments *)

\* The six parts of a segment.
IsSegment(seg) ==
  seg = [stored |-> seg.stored, live |-> seg.live, lists |-> seg.lists, lens |-> seg.lens,
         columns |-> seg.columns, merged |-> seg.merged]

\* Everything in the files of a segment but the lengths is what it should be.
GoodSeg(D, sch, tokens, numbers, seg) ==
  /\ IsSegment(seg)
  /\ seg.stored \in Seq(RowT(D)) /\ OneEach(seg.stored)
  /\ seg.live \subseteq DOMAIN seg.stored
  /\ GoodLists(sch, seg.stored, tokens, seg.lists)
  /\ FieldsOf(seg.lists) \subseteq DOMAIN seg.lens
  /\ GoodColumns(sch, seg.stored, numbers, seg.columns)
  /\ seg.merged \in BOOLEAN
  /\ seg.merged => \A p \in DOMAIN seg.stored : seg.stored[p].id = p

\* A flush writes a good segment.
LEMMA FlushedGood ==
  ASSUME NEW D, NEW tokens \in [D -> Seq(Keyed)], NEW rows \in Seq(RowT(D)), OneEach(rows),
         NEW sch, NEW numbers
  PROVE  /\ GoodSeg(D, sch, tokens, numbers, FlushedSegment(sch, rows, tokens, numbers))
         /\ FlushedSegment(sch, rows, tokens, numbers).stored = rows
         /\ FlushedSegment(sch, rows, tokens, numbers).live = DOMAIN rows
         /\ FlushedSegment(sch, rows, tokens, numbers).merged = FALSE
<1>1. PICK index : index = IndexOf(rows, tokens)
  OBVIOUS
<1>2. PICK lists : lists = WriteLists(sch, index)
  OBVIOUS
<1>3. PICK lens : lens = WriteLens(index, Len(rows))
  OBVIOUS
<1>4. PICK columns : columns = WriteColumns(sch, [p \in DOMAIN rows |-> numbers[rows[p].doc]])
  OBVIOUS
<1>5. PICK seg : seg = FlushedSegment(sch, rows, tokens, numbers)
  OBVIOUS
<1>6. seg = [stored |-> rows, live |-> DOMAIN rows, lists |-> lists, lens |-> lens,
             columns |-> columns, merged |-> FALSE]
  BY <1>1, <1>2, <1>3, <1>4, <1>5, Zenon DEF FlushedSegment
<1>7. /\ seg.stored = rows /\ seg.live = DOMAIN rows /\ seg.lists = lists /\ seg.lens = lens
      /\ seg.columns = columns /\ seg.merged = FALSE
  BY <1>6
<1>8. GoodLists(sch, rows, tokens, lists)
  <2>1. IndexHolds(rows, tokens, Len(rows), index)
    BY <1>1, IndexOfFacts
  <2> QED
    BY <1>2, <2>1, WriteListsFacts
<1>9. FieldsOf(lists) \subseteq DOMAIN lens
  <2>1. DOMAIN lists = DOMAIN index
    BY <1>2 DEF WriteLists
  <2>2. DOMAIN lens = FieldsOf(index)
    BY <1>3 DEF WriteLens
  <2> QED
    BY <2>1, <2>2 DEF FieldsOf
<1>10. GoodColumns(sch, rows, numbers, columns)
  <2>1. PICK vals : vals = [p \in DOMAIN rows |-> numbers[rows[p].doc]]
    OBVIOUS
  <2>2. DOMAIN vals = DOMAIN rows /\ \A p \in DOMAIN rows : \A name \in FastNames(sch) :
          vals[p][name] = numbers[rows[p].doc][name]
    BY <2>1
  <2>3. GoodColumns(sch, rows, numbers, WriteColumns(sch, vals))
    BY <2>2, WriteColumnsGood
  <2> QED
    BY <1>4, <2>1, <2>3
<1>11. IsSegment(seg)
  BY <1>6, <1>7 DEF IsSegment
<1> QED
  BY <1>5, <1>7, <1>8, <1>9, <1>10, <1>11 DEF GoodSeg

\* Step 5 numbers the survivors anew.
LEMMA MergedStoredFacts ==
  ASSUME NEW D, NEW srcs, NEW lv, NEW K, NEW alive, SurvivorsOK(D, srcs, lv, K, alive)
  PROVE  /\ MergedStored(alive) \in Seq(RowT(D)) /\ OneEach(MergedStored(alive))
         /\ DOMAIN MergedStored(alive) = DOMAIN alive
         /\ \A p \in DOMAIN alive : MergedStored(alive)[p].id = p /\ MergedStored(alive)[p].doc = alive[p].doc
<1>1. alive \in Seq(AliveT(D))
  BY DEF SurvivorsOK
<1>2. PICK n \in Nat : DOMAIN alive = 1 .. n
  BY <1>1
<1>3. PICK rows : rows = MergedStored(alive)
  OBVIOUS
<1>4. rows = [p \in 1 .. n |-> [doc |-> alive[p].doc, id |-> p]]
  BY <1>2, <1>3 DEF MergedStored
<1>5. \A p \in 1 .. n : /\ rows[p] = [doc |-> alive[p].doc, id |-> p]
                        /\ rows[p] \in RowT(D) /\ rows[p].id = p /\ rows[p].doc = alive[p].doc
  <2> TAKE p \in 1 .. n
  <2>1. PICK a \in AliveT(D) : a = alive[p]
    BY <1>1, <1>2
  <2>2. PICK d \in D : d = a.doc
    BY DEF AliveT
  <2>3. p \in Nat /\ rows[p] = [doc |-> d, id |-> p]
    BY <1>4, <2>1, <2>2
  <2>4. [doc |-> d, id |-> p] \in RowT(D)
    BY <2>3 DEF RowT
  <2> QED
    BY <2>1, <2>2, <2>3, <2>4
<1>6. DOMAIN rows = 1 .. n /\ rows = [p \in 1 .. n |-> rows[p]]
  BY <1>4
<1>7. rows \in Seq(RowT(D))
  <2>1. rows \in [1 .. n -> RowT(D)]
    BY <1>5, <1>6
  <2> QED
    BY <2>1
<1>8. OneEach(rows)
  BY <1>5, <1>6 DEF OneEach
<1> QED
  BY <1>2, <1>3, <1>5, <1>6, <1>7, <1>8

\* What a merge writes.
MergeMade(D, sch, tokens, numbers, srcs, lv, K, m) ==
  \E alive : /\ SurvivorsOK(D, srcs, lv, K, alive)
             /\ GoodSeg(D, sch, tokens, numbers, m)
             /\ m.stored = MergedStored(alive)
             /\ m.live = DOMAIN alive
             /\ m.merged = TRUE
             /\ m.lens = MergedLens(srcs, alive)
             /\ m.lists = MergedLists(sch, srcs, alive)

\* A merge of good segments writes a good segment.
LEMMA MergedGood ==
  ASSUME NEW D, NEW tokens \in [D -> Seq(Keyed)], NEW sch, NEW numbers, NEW srcs, NEW lv, NEW K \in Nat,
         DOMAIN srcs = 1 .. K,
         \A k \in 1 .. K : GoodSeg(D, sch, tokens, numbers, srcs[k]) /\ lv[k] \subseteq DOMAIN srcs[k].stored
  PROVE  MergeMade(D, sch, tokens, numbers, srcs, lv, K, MergedSegment(sch, srcs, lv))
<1>1. SourcesOK(D, srcs, lv, K) /\ SourcesGood(D, sch, tokens, srcs, lv, K)
  BY DEF SourcesOK, SourcesGood, GoodSeg
<1>2. PICK alive : alive = Survivors(srcs, lv)
  OBVIOUS
<1>3. SurvivorsOK(D, srcs, lv, K, alive)
  BY <1>1, <1>2, SurvivorsFacts
<1>4. PICK rows : rows = MergedStored(alive)
  OBVIOUS
<1>5. /\ rows \in Seq(RowT(D)) /\ OneEach(rows) /\ DOMAIN rows = DOMAIN alive
      /\ \A p \in DOMAIN alive : rows[p].id = p
  BY <1>3, <1>4, MergedStoredFacts
<1>6. PICK lists : lists = MergedLists(sch, srcs, alive)
  OBVIOUS
<1>7. GoodLists(sch, rows, tokens, lists) /\ DOMAIN lists \subseteq UNION {DOMAIN srcs[k].lists : k \in DOMAIN srcs}
  BY <1>1, <1>3, <1>4, <1>6, MergedListsFacts
<1>8. PICK lens : lens = MergedLens(srcs, alive)
  OBVIOUS
<1>9. FieldsOf(lists) \subseteq DOMAIN lens
  <2>1. DOMAIN lens = UNION {FieldsOf(srcs[k].lists) : k \in DOMAIN srcs}
    BY <1>8 DEF MergedLens
  <2> SUFFICES ASSUME NEW key \in DOMAIN lists PROVE key[1] \in DOMAIN lens
    BY DEF FieldsOf
  <2>2. PICK k \in DOMAIN srcs : key \in DOMAIN srcs[k].lists
    BY <1>7
  <2>3. key[1] \in FieldsOf(srcs[k].lists)
    BY <2>2 DEF FieldsOf
  <2> QED
    BY <2>1, <2>3
<1>10. PICK columns : columns = MergedColumns(sch, srcs, alive)
  OBVIOUS
<1>11. GoodColumns(sch, rows, numbers, columns)
  <2>1. \A k \in 1 .. K : GoodColumns(sch, srcs[k].stored, numbers, srcs[k].columns)
    BY DEF GoodSeg
  <2> QED
    BY <1>1, <1>3, <1>4, <1>10, <2>1, MergedColumnsGood
<1>12. PICK seg : seg = MergedSegment(sch, srcs, lv)
  OBVIOUS
<1>13. seg = [stored |-> rows, live |-> DOMAIN alive, lists |-> lists, lens |-> lens,
              columns |-> columns, merged |-> TRUE]
  BY <1>2, <1>4, <1>6, <1>8, <1>10, <1>12, Zenon DEF MergedSegment
<1>14. /\ seg.stored = rows /\ seg.live = DOMAIN alive /\ seg.lists = lists /\ seg.lens = lens
       /\ seg.columns = columns /\ seg.merged = TRUE
  BY <1>13
<1>17. IsSegment(seg)
  BY <1>13, <1>14 DEF IsSegment
<1>15. GoodSeg(D, sch, tokens, numbers, seg)
  BY <1>17, <1>5, <1>7, <1>9, <1>11, <1>14 DEF GoodSeg
<1>16. /\ seg.stored = MergedStored(alive) /\ seg.lens = MergedLens(srcs, alive)
       /\ seg.lists = MergedLists(sch, srcs, alive)
  BY <1>4, <1>6, <1>8, <1>14
<1> QED
  BY <1>3, <1>12, <1>14, <1>15, <1>16 DEF MergeMade

-----------------------------------------------------------------------------
(* A search of a segment that is numbered by position *)

ByPlace(seg) == \A p \in DOMAIN seg.stored : seg.stored[p].id = p

Passes(sch, numbers, d, filter) ==
  /\ filter.ranged => NumberOf(sch, numbers, d, "pubtime") \in filter.lo .. filter.hi
  /\ filter.uid >= 0 => NumberOf(sch, numbers, d, "uid") = filter.uid

\* The living rows that have a key and pass a filter.
Hit(sch, tokens, numbers, seg, key, filter, p) ==
  /\ p \in seg.live /\ p \in DOMAIN seg.stored
  /\ key \in KeysIn(tokens[seg.stored[p].doc])
  /\ Passes(sch, numbers, seg.stored[p].doc, filter)

\* Found, in terms of the rows.
LEMMA FoundFacts ==
  ASSUME NEW D, NEW sch, NEW tokens, NEW numbers, NEW seg, GoodSeg(D, sch, tokens, numbers, seg),
         ByPlace(seg), NEW key, NEW filter
  PROVE  \A p : p \in Found(sch, seg, key, filter) <=> Hit(sch, tokens, numbers, seg, key, filter, p)
<1>1. PICK list : list = ListOf(seg.lists, key)
  OBVIOUS
<1>2. GoodList(sch, seg.stored, tokens, key, list)
  BY <1>1, ListOfGood DEF GoodSeg
<1>3. PICK rows \in Seq(RowT(D)) : rows = seg.stored
  BY DEF GoodSeg
<1>4. \A e : InSeq(list, e) <=> \E i \in DOMAIN rows : Wanted(sch, rows, tokens, i, key, e)
  BY <1>2, <1>3 DEF GoodList
<1>5. PICK columns : columns = LoadColumns(seg.columns, sch, Len(rows))
  OBVIOUS
<1>6. \A p : p \in Found(sch, seg, key, filter)
               <=> \E e : InSeq(list, e) /\ e.id = p /\ p \in seg.live /\ PassesFilter(columns, p, filter)
  <2>1. Found(sch, seg, key, filter)
          = {e.id : e \in {f \in ToSet(list) : f.id \in seg.live /\ PassesFilter(columns, f.id, filter)}}
    BY <1>1, <1>3, <1>5, Zenon DEF Found, IsAlive
  <2>2. \A e : e \in ToSet(list) <=> InSeq(list, e)
    BY DEF ToSet, InSeq
  <2> QED
    BY <2>1, <2>2
<1>7. \A i \in DOMAIN rows : \A e : Wanted(sch, rows, tokens, i, key, e) => e.id = i
  BY <1>3 DEF Wanted, Want, ByPlace
<1>8. \A p \in DOMAIN rows : PassesFilter(columns, p, filter) <=> Passes(sch, numbers, rows[p].doc, filter)
  <2> TAKE p \in DOMAIN rows
  <2>1. GoodColumns(sch, rows, numbers, seg.columns)
    BY <1>3 DEF GoodSeg
  <2>2. \A name : Value(columns, name, p) = NumberOf(sch, numbers, rows[p].doc, name)
    BY <1>5, <2>1, ColumnValue
  <2> QED
    BY <2>2 DEF PassesFilter, Passes
<1>9. ASSUME NEW p, p \in Found(sch, seg, key, filter)
      PROVE  Hit(sch, tokens, numbers, seg, key, filter, p)
  <2>1. PICK e : InSeq(list, e) /\ e.id = p /\ p \in seg.live /\ PassesFilter(columns, p, filter)
    BY <1>6, <1>9
  <2>2. PICK i \in DOMAIN rows : Wanted(sch, rows, tokens, i, key, e)
    BY <1>4, <2>1
  <2>3. i = p /\ key \in KeysIn(tokens[rows[i].doc])
    BY <1>7, <2>1, <2>2 DEF Wanted
  <2> QED
    BY <1>3, <1>8, <2>1, <2>3 DEF Hit
<1>10. ASSUME NEW p, Hit(sch, tokens, numbers, seg, key, filter, p)
       PROVE  p \in Found(sch, seg, key, filter)
  <2>1. p \in DOMAIN rows /\ p \in seg.live /\ key \in KeysIn(tokens[rows[p].doc])
        /\ PassesFilter(columns, p, filter)
    BY <1>3, <1>8, <1>10 DEF Hit
  <2>2. PICK e : e = Want(sch, rows[p].id, tokens[rows[p].doc], key)
    OBVIOUS
  <2>3. Wanted(sch, rows, tokens, p, key, e)
    BY <2>1, <2>2 DEF Wanted
  <2>4. InSeq(list, e) /\ e.id = p
    BY <1>4, <1>7, <2>1, <2>3
  <2> QED
    BY <1>6, <2>1, <2>4
<1> QED
  BY <1>9, <1>10

\* The posting a search shows of a row.
LEMMA PostingFacts ==
  ASSUME NEW D, NEW sch, NEW tokens, NEW numbers, NEW seg, GoodSeg(D, sch, tokens, numbers, seg),
         ByPlace(seg), NEW key, NEW p \in DOMAIN seg.stored, key \in KeysIn(tokens[seg.stored[p].doc])
  PROVE  Posting(seg, key, p) = Want(sch, p, tokens[seg.stored[p].doc], key)
<1>1. PICK list : list = ListOf(seg.lists, key)
  OBVIOUS
<1>2. GoodList(sch, seg.stored, tokens, key, list)
  BY <1>1, ListOfGood DEF GoodSeg
<1>3. seg.stored[p].id = p
  BY DEF ByPlace
<1>4. PICK w : w = Want(sch, p, tokens[seg.stored[p].doc], key)
  OBVIOUS
<1>5. w.id = p /\ Wanted(sch, seg.stored, tokens, p, key, w)
  BY <1>3, <1>4 DEF Want, Wanted
<1>6. InSeq(list, w)
  BY <1>2, <1>5 DEF GoodList
<1>7. PICK i \in DOMAIN list : list[i] = w
  BY <1>6 DEF InSeq
<1>8. \A j \in DOMAIN list : list[j].id = p => j = i
  BY <1>2, <1>5, <1>7 DEF GoodList, OneEach
<1>9. (CHOOSE j \in DOMAIN list : list[j].id = p) = i
  BY <1>5, <1>7, <1>8
<1>10. Posting(seg, key, p) = list[CHOOSE j \in DOMAIN list : list[j].id = p]
  BY <1>1, Zenon DEF Posting
<1> QED
  BY <1>4, <1>7, <1>9, <1>10

-----------------------------------------------------------------------------
(* Where the documents are *)

StoredAt(sg, s, i, d) == s \in DOMAIN sg /\ i \in DOMAIN sg[s].stored /\ sg[s].stored[i].doc = d

InBuffer(b, d) == \E i \in DOMAIN b : b[i].doc = d

AliveIn(sg, d) == \E s \in DOMAIN sg : \E i \in sg[s].live : StoredAt(sg, s, i, d)

\* Of the documents 1 to t, each is in the buffer, or struck, or alive; and it
\* is stored at one place at most.
Placed(sg, b, t, del) ==
  /\ \A i, j \in DOMAIN b : b[i].doc = b[j].doc => i = j
  /\ \A i \in DOMAIN b : /\ b[i].doc \in 1 .. t /\ b[i].doc \notin del
                         /\ \A s, j : ~ StoredAt(sg, s, j, b[i].doc)
  /\ \A s, r, i, j, d : StoredAt(sg, s, i, d) /\ StoredAt(sg, r, j, d) => s = r /\ i = j
  /\ \A s, i, d : StoredAt(sg, s, i, d) => d \in 1 .. t /\ (i \in sg[s].live => d \notin del)
  /\ \A d \in 1 .. t : d \in del \/ InBuffer(b, d) \/ AliveIn(sg, d)
  /\ del \subseteq 1 .. t

\* A new document joins the buffer.
LEMMA PlacedAppend ==
  ASSUME NEW sg, NEW D, NEW b \in Seq(RowT(D)), NEW t \in Nat, NEW del, Placed(sg, b, t, del),
         NEW u \in Nat, u = t + 1, NEW row, row.doc = u
  PROVE  Placed(sg, Append(b, row), u, del)
<1>1. PICK n \in Nat, m \in Nat : DOMAIN b = 1 .. n /\ m = n + 1 /\ Len(b) = n
  OBVIOUS
<1>2. PICK c : c = Append(b, row)
  OBVIOUS
<1>3. DOMAIN c = 1 .. m /\ c[m] = row /\ \A i \in 1 .. n : c[i] = b[i]
  BY <1>1, <1>2
<1>4. \A i \in 1 .. m : i # m => i \in 1 .. n
  BY <1>1
<1>5. \A x \in 1 .. t : x \in 1 .. u /\ x # u
  OBVIOUS
<1>6. u \in 1 .. u /\ \A x \in 1 .. u : x # u => x \in 1 .. t
  OBVIOUS
<1>7. \A s, j : ~ StoredAt(sg, s, j, u)
  BY <1>5 DEF Placed
<1>8. \A i \in 1 .. n : b[i].doc \in 1 .. t
  BY <1>1 DEF Placed
<1>9. \A i, j \in 1 .. m : c[i].doc = c[j].doc => i = j
  <2> TAKE i, j \in 1 .. m
  <2> HAVE c[i].doc = c[j].doc
  <2>1. CASE i = m \/ j = m
    BY <1>3, <1>4, <1>5, <1>8, <2>1
  <2>2. CASE i # m /\ j # m
    <3>1. i \in DOMAIN b /\ j \in DOMAIN b /\ b[i].doc = b[j].doc
      BY <1>1, <1>3, <1>4, <2>2
    <3> QED
      BY <3>1 DEF Placed
  <2> QED
    BY <2>1, <2>2
<1>10. \A i \in 1 .. m : /\ c[i].doc \in 1 .. u /\ c[i].doc \notin del
                         /\ \A s, j : ~ StoredAt(sg, s, j, c[i].doc)
  <2> TAKE i \in 1 .. m
  <2>1. CASE i = m
    <3>1. u \notin del
      BY <1>5 DEF Placed
    <3> QED
      BY <1>3, <1>6, <1>7, <2>1, <3>1
  <2>2. CASE i # m
    <3>1. i \in DOMAIN b /\ c[i] = b[i]
      BY <1>1, <1>3, <1>4, <2>2
    <3> QED
      BY <1>5, <3>1 DEF Placed
  <2> QED
    BY <2>1, <2>2
<1>11. \A s, i, d : StoredAt(sg, s, i, d) => d \in 1 .. u /\ (i \in sg[s].live => d \notin del)
  BY <1>5 DEF Placed
<1>12. \A d \in 1 .. u : d \in del \/ InBuffer(c, d) \/ AliveIn(sg, d)
  <2> TAKE d \in 1 .. u
  <2>1. CASE d = u
    <3>1. m \in 1 .. m
      BY <1>1
    <3> QED
      BY <1>3, <2>1, <3>1 DEF InBuffer
  <2>2. CASE d # u
    <3>1. InBuffer(b, d) => InBuffer(c, d)
      <4>1. \A i \in 1 .. n : i \in 1 .. m
        BY <1>1
      <4> QED
        BY <1>1, <1>3, <4>1 DEF InBuffer
    <3> QED
      BY <1>6, <2>2, <3>1 DEF Placed
  <2> QED
    BY <2>1, <2>2
<1>13. del \subseteq 1 .. u
  BY <1>5 DEF Placed
<1>14. \A s, r, i, j, d : StoredAt(sg, s, i, d) /\ StoredAt(sg, r, j, d) => s = r /\ i = j
  BY DEF Placed
<1> QED
  BY <1>2, <1>3, <1>9, <1>10, <1>11, <1>12, <1>13, <1>14 DEF Placed

\* The segments with one more.
With(sg, n, seg) == [s \in DOMAIN sg \cup {n} |-> IF s = n THEN seg ELSE sg[s]]

\* The buffer becomes a segment.
LEMMA PlacedWrite ==
  ASSUME NEW sg, NEW b, NEW t, NEW del, Placed(sg, b, t, del), NEW n, n \notin DOMAIN sg, NEW seg,
         seg.stored = b, seg.live = DOMAIN b
  PROVE  Placed(With(sg, n, seg), <<>>, t, del)
<1>1. PICK g : g = With(sg, n, seg) /\ g = [s \in DOMAIN sg \cup {n} |-> IF s = n THEN seg ELSE sg[s]]
  BY DEF With
<1>2. DOMAIN g = DOMAIN sg \cup {n} /\ g[n] = seg /\ \A s \in DOMAIN sg : s # n /\ g[s] = sg[s]
  BY <1>1
<1>3. \A s, i, d : StoredAt(g, s, i, d)
                     <=> StoredAt(sg, s, i, d) \/ (s = n /\ i \in DOMAIN b /\ b[i].doc = d)
  BY <1>2 DEF StoredAt
<1>4. PICK none : none = <<>> /\ DOMAIN none = {}
  OBVIOUS
<1>5. \A s, r, i, j, d : StoredAt(g, s, i, d) /\ StoredAt(g, r, j, d) => s = r /\ i = j
  <2> SUFFICES ASSUME NEW s, NEW r, NEW i, NEW j, NEW d, StoredAt(g, s, i, d), StoredAt(g, r, j, d)
               PROVE  s = r /\ i = j
    OBVIOUS
  <2>1. CASE StoredAt(sg, s, i, d) /\ StoredAt(sg, r, j, d)
    BY <2>1 DEF Placed
  <2>2. CASE StoredAt(sg, s, i, d) /\ ~ StoredAt(sg, r, j, d)
    <3>1. j \in DOMAIN b /\ b[j].doc = d
      BY <1>3, <2>2
    <3> QED
      BY <2>2, <3>1 DEF Placed
  <2>3. CASE ~ StoredAt(sg, s, i, d) /\ StoredAt(sg, r, j, d)
    <3>1. i \in DOMAIN b /\ b[i].doc = d
      BY <1>3, <2>3
    <3> QED
      BY <2>3, <3>1 DEF Placed
  <2>4. CASE ~ StoredAt(sg, s, i, d) /\ ~ StoredAt(sg, r, j, d)
    <3>1. s = n /\ r = n /\ i \in DOMAIN b /\ j \in DOMAIN b /\ b[i].doc = b[j].doc
      BY <1>3, <2>4
    <3> QED
      BY <3>1 DEF Placed
  <2> QED
    BY <2>1, <2>2, <2>3, <2>4
<1>6. \A s, i, d : StoredAt(g, s, i, d) => d \in 1 .. t /\ (i \in g[s].live => d \notin del)
  <2> SUFFICES ASSUME NEW s, NEW i, NEW d, StoredAt(g, s, i, d)
               PROVE  d \in 1 .. t /\ (i \in g[s].live => d \notin del)
    OBVIOUS
  <2>1. CASE StoredAt(sg, s, i, d)
    <3>1. g[s] = sg[s]
      BY <1>2, <2>1 DEF StoredAt
    <3> QED
      BY <2>1, <3>1 DEF Placed
  <2>2. CASE ~ StoredAt(sg, s, i, d)
    BY <1>3, <2>2 DEF Placed
  <2> QED
    BY <2>1, <2>2
<1>7. \A d \in 1 .. t : d \in del \/ AliveIn(g, d)
  <2> TAKE d \in 1 .. t
  <2>1. InBuffer(b, d) => AliveIn(g, d)
    BY <1>2, <1>3 DEF InBuffer, AliveIn
  <2>2. AliveIn(sg, d) => AliveIn(g, d)
    BY <1>2, <1>3 DEF AliveIn
  <2> QED
    BY <2>1, <2>2 DEF Placed
<1>8. del \subseteq 1 .. t
  BY DEF Placed
<1>9. Placed(g, none, t, del)
  BY <1>4, <1>5, <1>6, <1>7, <1>8 DEF Placed
<1> QED
  BY <1>1, <1>4, <1>9

\* A living row is struck.
LEMMA PlacedStrike ==
  ASSUME NEW sg, NEW b, NEW t, NEW del, Placed(sg, b, t, del), NEW g, NEW s, NEW i, NEW d,
         StoredAt(sg, s, i, d), i \in sg[s].live,
         DOMAIN g = DOMAIN sg, \A r \in DOMAIN sg : g[r].stored = sg[r].stored,
         \A r \in DOMAIN sg : r # s => g[r].live = sg[r].live, g[s].live = sg[s].live \ {i}
  PROVE  Placed(g, b, t, del \cup {d})
<1>1. \A r, j, e : StoredAt(g, r, j, e) <=> StoredAt(sg, r, j, e)
  BY DEF StoredAt
<1>2. d \in 1 .. t
  BY DEF Placed
<1>3. \A r, q, j, k, e : StoredAt(g, r, j, e) /\ StoredAt(g, q, k, e) => r = q /\ j = k
  BY <1>1 DEF Placed
<1>4. \A j \in DOMAIN b : /\ b[j].doc \in 1 .. t /\ b[j].doc \notin del \cup {d}
                          /\ \A r, k : ~ StoredAt(g, r, k, b[j].doc)
  <2> TAKE j \in DOMAIN b
  <2>1. /\ b[j].doc \in 1 .. t /\ b[j].doc \notin del
        /\ \A r, k : ~ StoredAt(sg, r, k, b[j].doc)
    BY DEF Placed
  <2>2. b[j].doc # d
    BY <2>1
  <2>3. \A r, k : ~ StoredAt(g, r, k, b[j].doc)
    BY <1>1, <2>1
  <2> QED
    BY <2>1, <2>2, <2>3
<1>5. \A r, j, e : StoredAt(g, r, j, e) => e \in 1 .. t /\ (j \in g[r].live => e \notin del \cup {d})
  <2> SUFFICES ASSUME NEW r, NEW j, NEW e, StoredAt(g, r, j, e)
               PROVE  e \in 1 .. t /\ (j \in g[r].live => e \notin del \cup {d})
    OBVIOUS
  <2>1. StoredAt(sg, r, j, e) /\ r \in DOMAIN sg
    BY <1>1 DEF StoredAt
  <2>2. e \in 1 .. t /\ (j \in sg[r].live => e \notin del)
    BY <2>1 DEF Placed
  <2>3. j \in g[r].live => j \in sg[r].live
    BY <2>1
  <2>4. ASSUME e = d PROVE j \notin g[r].live
    <3>1. r = s /\ j = i
      BY <2>1, <2>4 DEF Placed
    <3> QED
      BY <3>1
  <2> QED
    BY <2>2, <2>3, <2>4
<1>6. \A e \in 1 .. t : e \in del \cup {d} \/ InBuffer(b, e) \/ AliveIn(g, e)
  <2> TAKE e \in 1 .. t
  <2>1. ASSUME AliveIn(sg, e), e # d PROVE AliveIn(g, e)
    <3>1. PICK r \in DOMAIN sg : \E j \in sg[r].live : StoredAt(sg, r, j, e)
      BY <2>1 DEF AliveIn
    <3>2. PICK j \in sg[r].live : StoredAt(sg, r, j, e)
      BY <3>1
    <3>3. r = s => j # i
      BY <2>1, <3>2 DEF StoredAt
    <3>4. j \in g[r].live
      BY <3>2, <3>3
    <3> QED
      BY <1>1, <3>2, <3>4 DEF AliveIn
  <2> QED
    BY <2>1 DEF Placed
<1>7. del \cup {d} \subseteq 1 .. t
  BY <1>2 DEF Placed
<1>8. \A j, k \in DOMAIN b : b[j].doc = b[k].doc => j = k
  BY DEF Placed
<1> QED
  BY <1>3, <1>4, <1>5, <1>6, <1>7, <1>8 DEF Placed

\* What a merge keeps: just the living rows of its sources, each once.
Keeps(sg, L, m) ==
  /\ m.live = DOMAIN m.stored
  /\ \A n \in DOMAIN m.stored : \E s \in L : \E p \in sg[s].live : StoredAt(sg, s, p, m.stored[n].doc)
  /\ \A n1, n2 \in DOMAIN m.stored : m.stored[n1].doc = m.stored[n2].doc => n1 = n2
  /\ \A s \in L : \A p \in sg[s].live : \E n \in DOMAIN m.stored : m.stored[n].doc = sg[s].stored[p].doc

\* The segments with some replaced by one.
Replaced(sg, L, out, m) == [s \in (DOMAIN sg \ L) \cup {out} |-> IF s = out THEN m ELSE sg[s]]

\* A merge moves the documents of its sources, the living ones.
LEMMA PlacedMerge ==
  ASSUME NEW sg, NEW b, NEW t, NEW del, Placed(sg, b, t, del), NEW L \in SUBSET DOMAIN sg,
         NEW out, out \notin DOMAIN sg, NEW m, Keeps(sg, L, m)
  PROVE  Placed(Replaced(sg, L, out, m), b, t, del)
<1>1. PICK g : g = Replaced(sg, L, out, m) /\ g = [s \in (DOMAIN sg \ L) \cup {out} |-> IF s = out THEN m ELSE sg[s]]
  BY DEF Replaced
<1>2. DOMAIN g = (DOMAIN sg \ L) \cup {out} /\ g[out] = m
      /\ \A s \in DOMAIN sg \ L : s # out /\ g[s] = sg[s]
  BY <1>1
<1>3. \A s, i, d : StoredAt(g, s, i, d)
                     <=> (s \notin L /\ StoredAt(sg, s, i, d))
                         \/ (s = out /\ i \in DOMAIN m.stored /\ m.stored[i].doc = d)
  BY <1>2 DEF StoredAt
<1>4. \A n \in DOMAIN m.stored : \E s \in L : \E p \in sg[s].live : StoredAt(sg, s, p, m.stored[n].doc)
  BY DEF Keeps
<1>5. \A n \in DOMAIN m.stored : \A s, i : StoredAt(sg, s, i, m.stored[n].doc) => s \in L
  BY <1>4 DEF Placed
<1>6. \A n \in DOMAIN m.stored : m.stored[n].doc \in 1 .. t /\ m.stored[n].doc \notin del
  BY <1>4 DEF Placed
<1>7. \A s, r, i, j, d : StoredAt(g, s, i, d) /\ StoredAt(g, r, j, d) => s = r /\ i = j
  <2> SUFFICES ASSUME NEW s, NEW r, NEW i, NEW j, NEW d, StoredAt(g, s, i, d), StoredAt(g, r, j, d)
               PROVE  s = r /\ i = j
    OBVIOUS
  <2>1. CASE s = out /\ i \in DOMAIN m.stored /\ m.stored[i].doc = d
    <3>1. r = out /\ j \in DOMAIN m.stored /\ m.stored[j].doc = d
      BY <1>3, <1>5, <2>1
    <3> QED
      BY <2>1, <3>1 DEF Keeps
  <2>2. CASE s \notin L /\ StoredAt(sg, s, i, d)
    <3>1. r \notin L /\ StoredAt(sg, r, j, d)
      BY <1>3, <1>5, <2>2
    <3> QED
      BY <2>2, <3>1 DEF Placed
  <2> QED
    BY <1>3, <2>1, <2>2
<1>8. \A s, i, d : StoredAt(g, s, i, d) => d \in 1 .. t /\ (i \in g[s].live => d \notin del)
  <2> SUFFICES ASSUME NEW s, NEW i, NEW d, StoredAt(g, s, i, d)
               PROVE  d \in 1 .. t /\ (i \in g[s].live => d \notin del)
    OBVIOUS
  <2>1. CASE s = out /\ i \in DOMAIN m.stored /\ m.stored[i].doc = d
    BY <1>6, <2>1
  <2>2. CASE s \notin L /\ StoredAt(sg, s, i, d)
    <3>1. g[s] = sg[s]
      BY <1>2, <2>2 DEF StoredAt
    <3> QED
      BY <2>2, <3>1 DEF Placed
  <2> QED
    BY <1>3, <2>1, <2>2
<1>9. \A d \in 1 .. t : d \in del \/ InBuffer(b, d) \/ AliveIn(g, d)
  <2> TAKE d \in 1 .. t
  <2>1. ASSUME AliveIn(sg, d) PROVE AliveIn(g, d)
    <3>1. PICK s \in DOMAIN sg : \E i \in sg[s].live : StoredAt(sg, s, i, d)
      BY <2>1 DEF AliveIn
    <3>2. PICK i \in sg[s].live : StoredAt(sg, s, i, d)
      BY <3>1
    <3>3. CASE s \in L
      <4>1. PICK n \in DOMAIN m.stored : m.stored[n].doc = sg[s].stored[i].doc
        BY <3>2, <3>3 DEF Keeps
      <4>2. StoredAt(g, out, n, d)
        BY <1>3, <3>2, <4>1 DEF StoredAt
      <4>3. n \in g[out].live /\ out \in DOMAIN g
        BY <1>2 DEF Keeps
      <4> QED
        BY <4>2, <4>3 DEF AliveIn
    <3>4. CASE s \notin L
      <4>1. s \in DOMAIN g /\ g[s] = sg[s]
        BY <1>2, <3>4
      <4>2. StoredAt(g, s, i, d)
        BY <1>3, <3>2, <3>4
      <4> QED
        BY <3>2, <4>1, <4>2 DEF AliveIn
    <3> QED
      BY <3>3, <3>4
  <2> QED
    BY <2>1 DEF Placed
<1>10. \A i \in DOMAIN b : /\ b[i].doc \in 1 .. t /\ b[i].doc \notin del
                           /\ \A s, j : ~ StoredAt(g, s, j, b[i].doc)
  <2> TAKE i \in DOMAIN b
  <2>1. /\ b[i].doc \in 1 .. t /\ b[i].doc \notin del
        /\ \A s, j : ~ StoredAt(sg, s, j, b[i].doc)
    BY DEF Placed
  <2>2. ASSUME NEW s, NEW j PROVE ~ StoredAt(g, s, j, b[i].doc)
    BY <1>3, <1>4, <2>1
  <2> QED
    BY <2>1, <2>2
<1>11. /\ \A i, j \in DOMAIN b : b[i].doc = b[j].doc => i = j
       /\ del \subseteq 1 .. t
  BY DEF Placed
<1>12. Placed(g, b, t, del)
  BY <1>7, <1>8, <1>9, <1>10, <1>11 DEF Placed
<1> QED
  BY <1>1, <1>12

\* The segments of a set in some order, and their bitmaps.
InSomeOrder(sg, L, K, o, srcs, lv) ==
  /\ o \in [1 .. K -> L] /\ \A s \in L : \E k \in 1 .. K : o[k] = s
  /\ \A k, l \in 1 .. K : o[k] = o[l] => k = l
  /\ srcs = [k \in 1 .. K |-> sg[o[k]]] /\ lv = [k \in 1 .. K |-> sg[o[k]].live]

\* A merge of the segments of a set, in any order, keeps what it should.
LEMMA MergeKeeps ==
  ASSUME NEW D, NEW sg, NEW b, NEW t, NEW del, Placed(sg, b, t, del), NEW L \in SUBSET DOMAIN sg,
         NEW K \in Nat, NEW o, NEW srcs, NEW lv, InSomeOrder(sg, L, K, o, srcs, lv),
         NEW alive, SurvivorsOK(D, srcs, lv, K, alive),
         \A s \in L : sg[s].live \subseteq DOMAIN sg[s].stored,
         NEW m, m.stored = MergedStored(alive), m.live = DOMAIN alive
  PROVE  Keeps(sg, L, m)
<1>5. o \in [1 .. K -> L] /\ \A s \in L : \E k \in 1 .. K : o[k] = s
  BY DEF InSomeOrder
<1>6. /\ \A k, l \in 1 .. K : o[k] = o[l] => k = l
      /\ srcs = [k \in 1 .. K |-> sg[o[k]]] /\ lv = [k \in 1 .. K |-> sg[o[k]].live]
  BY DEF InSomeOrder
<1>1. /\ DOMAIN m.stored = DOMAIN alive
      /\ \A p \in DOMAIN alive : m.stored[p].doc = alive[p].doc
  BY MergedStoredFacts
<1>2. \A n \in DOMAIN alive : /\ alive[n].src \in 1 .. K /\ o[alive[n].src] \in L
                              /\ alive[n].pos \in sg[o[alive[n].src]].live
                              /\ StoredAt(sg, o[alive[n].src], alive[n].pos, alive[n].doc)
  <2> TAKE n \in DOMAIN alive
  <2>1. RowOf(srcs, lv, alive[n], K)
    BY DEF SurvivorsOK
  <2>2. PICK k \in 1 .. K : k = alive[n].src
    BY <2>1 DEF RowOf
  <2>3. o[k] \in L /\ srcs[k] = sg[o[k]] /\ lv[k] = sg[o[k]].live
    BY <1>5, <1>6
  <2>4. alive[n].pos \in sg[o[k]].live /\ alive[n].doc = sg[o[k]].stored[alive[n].pos].doc
    BY <2>1, <2>2, <2>3 DEF RowOf
  <2> QED
    BY <2>2, <2>3, <2>4 DEF StoredAt
<1>3. ASSUME NEW n1 \in DOMAIN alive, NEW n2 \in DOMAIN alive, alive[n1].doc = alive[n2].doc
      PROVE  n1 = n2
  <2>1. o[alive[n1].src] = o[alive[n2].src] /\ alive[n1].pos = alive[n2].pos
    BY <1>2, <1>3 DEF Placed
  <2>2. alive[n1].src = alive[n2].src
    BY <1>2, <1>6, <2>1
  <2> QED
    BY <2>1, <2>2 DEF SurvivorsOK
<1>4. ASSUME NEW s \in L, NEW p \in sg[s].live
      PROVE  \E n \in DOMAIN alive : alive[n].doc = sg[s].stored[p].doc
  <2>1. PICK k \in 1 .. K : o[k] = s
    BY <1>5
  <2>2. srcs[k] = sg[s] /\ lv[k] = sg[s].live
    BY <1>6, <2>1
  <2>3. PICK n \in DOMAIN alive : alive[n].src = k /\ alive[n].pos = p
    BY <2>2 DEF SurvivorsOK
  <2>4. RowOf(srcs, lv, alive[n], K)
    BY DEF SurvivorsOK
  <2> QED
    BY <2>2, <2>3, <2>4 DEF RowOf
<1> QED
  BY <1>1, <1>2, <1>3, <1>4 DEF Keeps

-----------------------------------------------------------------------------
(* The lengths of a flushed segment *)

CountIn(toks, field) == Cardinality({n \in DOMAIN toks : toks[n].key[1] = field})

\* A total with one addend that is not 0 at most.
LEMMA SumOfOne ==
  ASSUME NEW f, NEW S, IsFiniteSet(S), \A x \in S : f[x] \in Nat
  PROVE  /\ (\A x \in S : f[x] = 0) => Total(f, S) = 0
         /\ \A y \in S : (\A x \in S : x # y => f[x] = 0) => Total(f, S) = f[y]
<1>1. ASSUME NEW T \in SUBSET S, \A x \in T : f[x] = 0 PROVE Total(f, T) = 0
  <2>1. IsFiniteSet(T) /\ IsFiniteSet({}) /\ \A x \in T : f[x] \in Nat
    BY FS_Subset, FS_EmptySet
  <2>2. Total(f, {}) = 0
    <3>1. \A x \in {} : f[x] \in Nat
      OBVIOUS
    <3> QED
      BY <2>1, <3>1, SumType
  <2>3. PICK none : none = {}
    OBVIOUS
  <2>4. \A x \in none : f[x] \in Nat
    BY <2>3
  <2>5. \A x \in none : f[x] = 0 \/ (x \in T /\ f[x] = f[x])
    BY <2>3
  <2>6. Total(f, T) = Total(f, none)
    BY <1>1, <2>1, <2>3, <2>4, <2>5, SumSame
  <2> QED
    BY <2>2, <2>3, <2>6
<1>2. ASSUME NEW y \in S, \A x \in S : x # y => f[x] = 0 PROVE Total(f, S) = f[y]
  <2>1. Total(f, S) = f[y] + Total(f, S \ {y})
    BY SumRemove
  <2>2. Total(f, S \ {y}) = 0
    BY <1>1, <1>2
  <2> QED
    BY <2>1, <2>2
<1> QED
  BY <1>1, <1>2

TfPart(list, id) == [i \in DOMAIN list |-> IF list[i].id = id THEN list[i].tf ELSE 0]

TfSums(list, id, S, g) ==
  g = [t \in SUBSET S |-> IF t = {} THEN 0
         ELSE (IF list[Pick(t)].id = id THEN list[Pick(t)].tf ELSE 0) + g[t \ {Pick(t)}]]

\* The tf of a doc_id is a total over the list.
LEMMA TfOfIs ==
  ASSUME NEW list \in Seq(EntryT), NEW id
  PROVE  /\ TfOf(list, id) = Total(TfPart(list, id), DOMAIN list)
         /\ IsFiniteSet(DOMAIN list) /\ \A i \in DOMAIN list : TfPart(list, id)[i] \in Nat
<1>1. PICK K \in Nat : DOMAIN list = 1 .. K /\ IsFiniteSet(1 .. K)
  BY FS_Interval
<1>2. PICK S : S = DOMAIN list /\ IsFiniteSet(S)
  BY <1>1
<1>3. PICK f : f = TfPart(list, id)
  OBVIOUS
<1>4. \A i \in S : f[i] = (IF list[i].id = id THEN list[i].tf ELSE 0) /\ f[i] \in Nat
  <2>1. \A i \in S : list[i] \in EntryT
    BY <1>1, <1>2
  <2> QED
    BY <1>2, <1>3, <2>1 DEF TfPart, EntryT
<1>5. PICK g \in [SUBSET S -> Nat] : Sums(f, S, g) /\ \A U \in SUBSET S : Total(f, U) = g[U]
  <2>1. IsFiniteSet(S) /\ \A i \in S : f[i] \in Nat
    BY <1>2, <1>4
  <2>2. \E g \in [SUBSET S -> Nat] : Sums(f, S, g) /\ \A U \in SUBSET S : Total(f, U) = g[U]
    BY <2>1, TotalOf
  <2> QED
    BY <2>2
<1>6. \A t \in SUBSET S : t # {} => Pick(t) \in S
  <2> TAKE t \in SUBSET S
  <2> HAVE t # {}
  <2>1. Pick(t) \in t
    BY DEF Pick
  <2> QED
    BY <2>1
<1>7. \A h : Sums(f, S, h) <=> TfSums(list, id, S, h)
  <2> TAKE h
  <2>1. \A t \in SUBSET S : (IF t = {} THEN 0 ELSE f[Pick(t)] + h[t \ {Pick(t)}])
          = IF t = {} THEN 0
            ELSE (IF list[Pick(t)].id = id THEN list[Pick(t)].tf ELSE 0) + h[t \ {Pick(t)}]
    BY <1>4, <1>6
  <2>2. [t \in SUBSET S |-> IF t = {} THEN 0 ELSE f[Pick(t)] + h[t \ {Pick(t)}]]
          = [t \in SUBSET S |-> IF t = {} THEN 0
               ELSE (IF list[Pick(t)].id = id THEN list[Pick(t)].tf ELSE 0) + h[t \ {Pick(t)}]]
    BY <2>1
  <2> QED
    BY <2>2 DEF Sums, TfSums
<1>8. PICK h : h = CHOOSE x : TfSums(list, id, S, x)
  OBVIOUS
<1>9. TfSums(list, id, S, h)
  BY <1>5, <1>7, <1>8
<1>10. Sums(f, S, h)
  BY <1>7, <1>9
<1>11. h[S] = g[S]
  <2>1. S \in SUBSET (S \cap S)
    OBVIOUS
  <2> QED
    BY <1>2, <1>5, <1>10, <2>1, SumsAgree
<1>12. TfOf(list, id) = h[S]
  <2>1. TfOf(list, id) = (CHOOSE x : TfSums(list, id, DOMAIN list, x))[DOMAIN list]
    BY Zenon DEF TfOf, MapThenSumSet, MapThenFoldSet, TfSums, Pick
  <2> QED
    BY <1>2, <1>8, <2>1
<1>13. g[S] = Total(f, S)
  BY <1>5
<1> QED
  BY <1>2, <1>3, <1>4, <1>11, <1>12, <1>13

\* The tf of a doc_id in a list.
LEMMA TfOfOne ==
  ASSUME NEW list \in Seq(EntryT), OneEach(list), NEW id
  PROVE  /\ \A i \in DOMAIN list : list[i].id = id => TfOf(list, id) = list[i].tf
         /\ (\A i \in DOMAIN list : list[i].id # id) => TfOf(list, id) = 0
<1>1. PICK S, f : S = DOMAIN list /\ f = TfPart(list, id)
  OBVIOUS
<1>2. TfOf(list, id) = Total(f, S) /\ IsFiniteSet(S) /\ \A i \in S : f[i] \in Nat
  BY <1>1, TfOfIs
<1>3. \A i \in S : f[i] = IF list[i].id = id THEN list[i].tf ELSE 0
  BY <1>1 DEF TfPart
<1>4. ASSUME NEW i \in S, list[i].id = id PROVE Total(f, S) = list[i].tf
  <2>1. \A x \in S : x # i => f[x] = 0
    BY <1>1, <1>3, <1>4 DEF OneEach
  <2>2. Total(f, S) = f[i]
    BY <1>2, <2>1, SumOfOne
  <2> QED
    BY <1>3, <1>4, <2>2
<1>5. ASSUME \A i \in S : list[i].id # id PROVE Total(f, S) = 0
  <2>1. \A x \in S : f[x] = 0
    BY <1>3, <1>5
  <2> QED
    BY <1>2, <2>1, SumOfOne
<1> QED
  BY <1>1, <1>2, <1>4, <1>5

\* How often each key occurs.
Occurs(toks, S) == [key \in S |-> Cardinality(Places(toks, key))]

\* The places of the keys of a set are as many as the places of each together.
LEMMA OccursSum ==
  ASSUME NEW toks \in Seq(Keyed), NEW S, IsFiniteSet(S)
  PROVE  /\ \A key \in S : Occurs(toks, S)[key] \in Nat
         /\ Total(Occurs(toks, S), S) = Cardinality({n \in DOMAIN toks : toks[n].key \in S})
<1>1. PICK N \in Nat : DOMAIN toks = 1 .. N /\ IsFiniteSet(1 .. N)
  BY FS_Interval
<1>2. PICK f : f = Occurs(toks, S)
  OBVIOUS
<1> DEFINE In(U) == {n \in DOMAIN toks : toks[n].key \in U}
<1>3. \A U : IsFiniteSet(In(U)) /\ Cardinality(In(U)) \in Nat
  <2> TAKE U
  <2>1. In(U) \subseteq 1 .. N
    BY <1>1
  <2> QED
    BY <1>1, <2>1, FS_Subset, FS_CardinalityType
<1>4. \A key \in S : f[key] = Cardinality(In({key})) /\ f[key] \in Nat
  <2> TAKE key \in S
  <2>1. In({key}) = Places(toks, key)
    BY DEF Places
  <2>2. f[key] = Cardinality(Places(toks, key))
    BY <1>2 DEF Occurs
  <2> QED
    BY <1>3, <2>1, <2>2
<1>5. In({}) = {}
  OBVIOUS
<1>6. \A U, V : In(U \cup V) = In(U) \cup In(V) /\ In(U) \cap In(V) = In(U \cap V)
  OBVIOUS
<1> HIDE DEF In
<1> DEFINE B == {U \in SUBSET S : Total(f, U) # Cardinality(In(U))}
<1>7. \A U \in SUBSET S : IsFiniteSet(U) /\ \A key \in U : f[key] \in Nat
  BY <1>4, FS_Subset
<1>8. ASSUME B # {} PROVE FALSE
  <2>1. PICK U \in B : \A V \in SUBSET U : V # U => V \notin B
    <3>1. B \in SUBSET (SUBSET S)
      OBVIOUS
    <3> HIDE DEF B
    <3> QED
      BY <1>8, <3>1, MinimalSubset
  <2>2. U \in SUBSET S /\ Total(f, U) # Cardinality(In(U))
    BY <2>1
  <2>3. CASE U = {}
    <3>1. Total(f, U) = 0
      BY <1>7, <2>2, <2>3, SumType
    <3> QED
      BY <1>5, <2>2, <2>3, <3>1, FS_EmptySet
  <2>4. CASE U # {}
    <3>1. PICK y \in U : TRUE
      BY <2>4
    <3>7. PICK V : V = U \ {y}
      OBVIOUS
    <3>2. V = U \ {y} /\ V \in SUBSET S /\ V \in SUBSET U /\ V # U
      BY <2>2, <3>1, <3>7
    <3>3. Total(f, V) = Cardinality(In(V))
      BY <2>1, <3>2
    <3>4. Total(f, U) = f[y] + Total(f, V)
      <4>1. \A z \in U : Total(f, U) = f[z] + Total(f, U \ {z})
        BY <1>7, <2>2, SumRemove
      <4> QED
        BY <3>1, <3>2, <4>1, Zenon
    <3>5. Cardinality(In(U)) = Cardinality(In({y})) + Cardinality(In(V))
      <4>1. In(U) = In({y}) \cup In(V) /\ In({y}) \cap In(V) = {}
        <5>1. U = {y} \cup V /\ {y} \cap V = {}
          BY <3>1, <3>2
        <5> QED
          BY <1>5, <1>6, <5>1
      <4>2. PICK P, Q : P = In({y}) /\ Q = In(V) /\ IsFiniteSet(P) /\ IsFiniteSet(Q)
        BY <1>3
      <4>3. Cardinality(P \cup Q) = Cardinality(P) + Cardinality(Q) - Cardinality(P \cap Q)
        BY <4>2, FS_Union
      <4>4. Cardinality(P) \in Nat /\ Cardinality(Q) \in Nat /\ Cardinality({}) = 0
        BY <4>2, FS_CardinalityType, FS_EmptySet
      <4> QED
        <5>1. In(U) = P \cup Q /\ P \cap Q = {} /\ In({y}) = P /\ In(V) = Q
          BY <4>1, <4>2
        <5>2. PICK p \in Nat, q \in Nat : p = Cardinality(P) /\ q = Cardinality(Q)
          BY <4>4
        <5>3. Cardinality(P \cup Q) = p + q - 0
          BY <4>3, <4>4, <5>1, <5>2
        <5> QED
          BY <5>1, <5>2, <5>3
    <3>6. f[y] = Cardinality(In({y}))
      BY <1>4, <2>2, <3>1
    <3> QED
      BY <2>2, <3>3, <3>4, <3>5, <3>6
  <2> QED
    BY <2>3, <2>4
<1>9. S \notin B
  BY <1>8
<1>10. Total(f, S) = Cardinality(In(S))
  <2>1. S \in SUBSET S
    OBVIOUS
  <2> QED
    BY <1>9, <2>1
<1> QED
  BY <1>2, <1>4, <1>10 DEF In

LengthOf(index, id, S) == MapThenSumSet(LAMBDA key : TfOf(index[key], id), S)

LenSums(index, id, S, g) ==
  g = [t \in SUBSET S |-> IF t = {} THEN 0 ELSE TfOf(index[Pick(t)], id) + g[t \ {Pick(t)}]]

\* The sum of a flush, once the tf of every key is known.
LEMMA LengthIs ==
  ASSUME NEW index, NEW id, NEW S, IsFiniteSet(S), NEW f,
         \A key \in S : f[key] = TfOf(index[key], id) /\ f[key] \in Nat
  PROVE  LengthOf(index, id, S) = Total(f, S)
<1>5. PICK g \in [SUBSET S -> Nat] : Sums(f, S, g) /\ \A U \in SUBSET S : Total(f, U) = g[U]
  <2>1. IsFiniteSet(S) /\ \A i \in S : f[i] \in Nat
    OBVIOUS
  <2>2. \E g \in [SUBSET S -> Nat] : Sums(f, S, g) /\ \A U \in SUBSET S : Total(f, U) = g[U]
    BY <2>1, TotalOf
  <2> QED
    BY <2>2
<1>6. \A t \in SUBSET S : t # {} => Pick(t) \in S
  <2> TAKE t \in SUBSET S
  <2> HAVE t # {}
  <2>1. Pick(t) \in t
    BY DEF Pick
  <2> QED
    BY <2>1
<1>7. \A h : Sums(f, S, h) <=> LenSums(index, id, S, h)
  <2> TAKE h
  <2>1. \A t \in SUBSET S : (IF t = {} THEN 0 ELSE f[Pick(t)] + h[t \ {Pick(t)}])
          = IF t = {} THEN 0 ELSE TfOf(index[Pick(t)], id) + h[t \ {Pick(t)}]
    BY <1>6
  <2>2. [t \in SUBSET S |-> IF t = {} THEN 0 ELSE f[Pick(t)] + h[t \ {Pick(t)}]]
          = [t \in SUBSET S |-> IF t = {} THEN 0 ELSE TfOf(index[Pick(t)], id) + h[t \ {Pick(t)}]]
    BY <2>1
  <2> QED
    BY <2>2 DEF Sums, LenSums
<1>8. PICK h : h = CHOOSE x : LenSums(index, id, S, x)
  OBVIOUS
<1>9. LenSums(index, id, S, h)
  BY <1>5, <1>7, <1>8
<1>10. Sums(f, S, h)
  BY <1>7, <1>9
<1>11. h[S] = g[S]
  <2>1. S \in SUBSET (S \cap S)
    OBVIOUS
  <2> QED
    BY <1>5, <1>10, <2>1, SumsAgree
<1>12. LengthOf(index, id, S) = h[S]
  <2>1. LengthOf(index, id, S) = (CHOOSE x : LenSums(index, id, S, x))[S]
    BY Zenon DEF LengthOf, MapThenSumSet, MapThenFoldSet, LenSums, Pick
  <2> QED
    BY <1>8, <2>1
<1>13. g[S] = Total(f, S)
  BY <1>5
<1> QED
  BY <1>11, <1>12, <1>13

\* A segment tells the length of every field of the document at a position.
LensGood(tokens, seg) ==
  \A field : \A p \in DOMAIN seg.stored :
    DocLen(seg, field, p) = AtMost(CountIn(tokens[seg.stored[p].doc], field), MaxLen)

\* A document without a token in a field has length 0 there.
LEMMA NoLength ==
  ASSUME NEW toks, NEW field, \A n \in DOMAIN toks : toks[n].key[1] # field
  PROVE  AtMost(CountIn(toks, field), MaxLen) = 0
<1>1. {n \in DOMAIN toks : toks[n].key[1] = field} = {}
  OBVIOUS
<1>2. CountIn(toks, field) = 0
  BY <1>1, FS_EmptySet DEF CountIn
<1> QED
  BY <1>2, ContentAssumption DEF AtMost

\* The keys of an index are finitely many.
LEMMA KeysFinite ==
  ASSUME NEW D, NEW tokens \in [D -> Seq(Keyed)], NEW rows \in Seq(RowT(D)), NEW index,
         IndexHolds(rows, tokens, Len(rows), index)
  PROVE  IsFiniteSet(DOMAIN index)
<1>1. PICK N \in Nat : N = Len(rows) /\ DOMAIN rows = 1 .. N /\ IsFiniteSet(1 .. N)
  BY FS_Interval
<1>2. PICK X : X = {KeysIn(tokens[rows[i].doc]) : i \in 1 .. N}
  OBVIOUS
<1>3. IsFiniteSet(X)
  <2>1. PICK f : f = [i \in 1 .. N |-> KeysIn(tokens[rows[i].doc])]
    OBVIOUS
  <2>2. f \in [1 .. N -> X] /\ X = {f[i] : i \in 1 .. N}
    BY <1>2, <2>1
  <2>3. IsFiniteSet({f[i] : i \in 1 .. N})
    <3>1. PICK I : I = 1 .. N
      OBVIOUS
    <3>2. f \in [I -> X] /\ IsFiniteSet(I)
      BY <1>1, <2>2, <3>1
    <3>3. IsFiniteSet({f[i] : i \in I})
      BY <3>2, RangeFinite
    <3> QED
      BY <3>1, <3>3
  <2> QED
    BY <2>2, <2>3
<1>4. ASSUME NEW i \in 1 .. N PROVE IsFiniteSet(KeysIn(tokens[rows[i].doc]))
  <2>1. rows[i] \in RowT(D)
    BY <1>1
  <2>2. PICK toks \in Seq(Keyed) : toks = tokens[rows[i].doc]
    BY <2>1 DEF RowT
  <2>3. PICK M \in Nat : DOMAIN toks = 1 .. M /\ IsFiniteSet(1 .. M)
    BY FS_Interval
  <2>4. PICK f, Y : f = [n \in 1 .. M |-> toks[n].key] /\ Y = KeysIn(toks)
    OBVIOUS
  <2>5. f \in [1 .. M -> Y] /\ Y = {f[n] : n \in 1 .. M}
    BY <2>3, <2>4 DEF KeysIn
  <2>6. IsFiniteSet({f[n] : n \in 1 .. M})
    <3>1. PICK I : I = 1 .. M
      OBVIOUS
    <3>2. f \in [I -> Y] /\ IsFiniteSet(I)
      BY <2>3, <2>5, <3>1
    <3>3. IsFiniteSet({f[n] : n \in I})
      BY <3>2, RangeFinite
    <3> QED
      BY <3>1, <3>3
  <2> QED
    BY <2>2, <2>4, <2>5, <2>6
<1>5. \A T \in X : IsFiniteSet(T)
  BY <1>2, <1>4
<1>6. IsFiniteSet(UNION X)
  BY <1>3, <1>5, FS_UNION
<1>7. DOMAIN index = UNION X
  <2>1. \A key : key \in DOMAIN index <=> \E i \in 1 .. N : key \in KeysIn(tokens[rows[i].doc])
    BY <1>1 DEF IndexHolds
  <2> QED
    BY <1>2, <2>1
<1> QED
  BY <1>6, <1>7

\* The index of a writer's documents: they are numbered in order.
Flushable(D, tokens, rows, index) ==
  /\ tokens \in [D -> Seq(Keyed)] /\ rows \in Seq(RowT(D))
  /\ IndexHolds(rows, tokens, Len(rows), index)
  /\ \A p \in DOMAIN rows : rows[p].id = p

\* The tf of a key in a row's list is how often the key occurs.
LEMMA TfInIndex ==
  ASSUME NEW D, NEW tokens, NEW rows, NEW index, Flushable(D, tokens, rows, index),
         NEW p \in DOMAIN rows, NEW key \in DOMAIN index
  PROVE  TfOf(index[key], p) = Cardinality(Places(tokens[rows[p].doc], key))
<1>0. /\ tokens \in [D -> Seq(Keyed)] /\ rows \in Seq(RowT(D))
      /\ IndexHolds(rows, tokens, Len(rows), index) /\ \A q \in DOMAIN rows : rows[q].id = q
  BY DEF Flushable
<1>1. PICK N \in Nat : N = Len(rows) /\ DOMAIN rows = 1 .. N
  BY <1>0
<1>2. PICK list \in Seq(EntryT) : list = index[key]
  BY <1>0 DEF IndexHolds, Indexes
<1>3. OneEach(list) /\ \A e : InSeq(list, e) <=> Posted(rows, tokens, N, key, e)
  BY <1>0, <1>1, <1>2 DEF IndexHolds
<1>4. PICK toks : toks = tokens[rows[p].doc]
  OBVIOUS
<1>5. CASE key \in KeysIn(toks)
  <2>1. PICK e : e = EntryOf(p, toks, Places(toks, key))
    OBVIOUS
  <2>2. Posted(rows, tokens, N, key, e)
    <3>1. rows[p].id = p /\ p \in 1 .. N
      BY <1>0, <1>1
    <3> QED
      BY <1>4, <1>5, <2>1, <3>1 DEF Posted
  <2>3. PICK i \in DOMAIN list : list[i] = e
    BY <1>3, <2>2 DEF InSeq
  <2>4. list[i].id = p /\ list[i].tf = Cardinality(Places(toks, key))
    BY <2>1, <2>3 DEF EntryOf
  <2>5. TfOf(list, p) = list[i].tf
    BY <1>3, <2>4, TfOfOne
  <2> QED
    BY <1>2, <1>4, <2>4, <2>5
<1>6. CASE key \notin KeysIn(toks)
  <2>1. \A i \in DOMAIN list : list[i].id # p
    <3> SUFFICES ASSUME NEW i \in DOMAIN list, list[i].id = p PROVE FALSE
      OBVIOUS
    <3>1. Posted(rows, tokens, N, key, list[i])
      BY <1>3 DEF InSeq
    <3>2. PICK q \in 1 .. N : /\ key \in KeysIn(tokens[rows[q].doc])
                              /\ list[i].id = rows[q].id
      BY <3>1 DEF Posted, EntryOf
    <3> QED
      BY <1>0, <1>1, <1>4, <1>6, <3>2
  <2>2. TfOf(list, p) = 0
    BY <1>3, <2>1, TfOfOne
  <2>3. Places(toks, key) = {}
    BY <1>6 DEF Places, KeysIn
  <2> QED
    BY <1>2, <1>4, <2>2, <2>3, FS_EmptySet
<1> QED
  BY <1>5, <1>6

\* A flush sums the tf of the field's terms to the number of its tokens.
LEMMA FlushedLens ==
  ASSUME NEW D, NEW tokens \in [D -> Seq(Keyed)], NEW rows \in Seq(RowT(D)), NEW index,
         IndexHolds(rows, tokens, Len(rows), index), \A p \in DOMAIN rows : rows[p].id = p,
         NEW seg, seg.stored = rows, seg.lens = WriteLens(index, Len(rows))
  PROVE  LensGood(tokens, seg)
<1>0. \A q \in DOMAIN rows : \A key \in DOMAIN index :
        TfOf(index[key], q) = Cardinality(Places(tokens[rows[q].doc], key))
  <2> TAKE q \in DOMAIN rows
  <2> TAKE key \in DOMAIN index
  <2> QED
    <3>1. Flushable(D, tokens, rows, index)
      BY DEF Flushable
    <3> QED
      BY <3>1, TfInIndex
<1>1. PICK N \in Nat : N = Len(rows) /\ DOMAIN rows = 1 .. N
  OBVIOUS
<1>2. PICK lens : lens = WriteLens(index, N)
  OBVIOUS
<1>3. lens = [field \in FieldsOf(index) |->
                [id \in 1 .. N |-> AtMost(LengthOf(index, id, {key \in DOMAIN index : key[1] = field}), MaxLen)]]
  BY <1>2, Zenon DEF WriteLens, LengthOf
<1>4. \A key : key \in DOMAIN index <=> \E i \in 1 .. N : key \in KeysIn(tokens[rows[i].doc])
  BY <1>1 DEF IndexHolds
<1> SUFFICES ASSUME NEW field, NEW p \in 1 .. N
             PROVE  DocLen(seg, field, p) = AtMost(CountIn(tokens[rows[p].doc], field), MaxLen)
  BY <1>1 DEF LensGood
<1>5. rows[p] \in RowT(D)
  BY <1>1
<1>6. PICK toks \in Seq(Keyed) : toks = tokens[rows[p].doc]
  BY <1>5 DEF RowT
<1>7. \A n \in DOMAIN toks : toks[n].key \in DOMAIN index
  <2> TAKE n \in DOMAIN toks
  <2>1. toks[n].key \in KeysIn(toks)
    BY DEF KeysIn
  <2>2. toks[n].key \in KeysIn(tokens[rows[p].doc])
    BY <1>6, <2>1
  <2> QED
    BY <1>4, <2>2
<1>8. CASE field \in FieldsOf(index)
  <2>1. PICK S : S = {key \in DOMAIN index : key[1] = field}
    OBVIOUS
  <2>2. lens[field] = [id \in 1 .. N |-> AtMost(LengthOf(index, id, S), MaxLen)]
    BY <1>3, <1>8, <2>1
  <2>3. field \in DOMAIN lens /\ p \in DOMAIN lens[field] /\ lens[field][p] = AtMost(LengthOf(index, p, S), MaxLen)
    BY <1>3, <1>8, <2>2
  <2>4. IsFiniteSet(S)
    BY <2>1, KeysFinite, FS_Subset
  <2>5. PICK f : f = Occurs(toks, S)
    OBVIOUS
  <2>6. \A key \in S : f[key] \in Nat
    BY <2>4, <2>5, OccursSum
  <2>7. \A key \in S : f[key] = TfOf(index[key], p)
    <3> TAKE key \in S
    <3>1. TfOf(index[key], p) = Cardinality(Places(toks, key))
      <4>1. key \in DOMAIN index /\ p \in DOMAIN rows
        BY <1>1, <2>1
      <4>2. TfOf(index[key], p) = Cardinality(Places(tokens[rows[p].doc], key))
        BY <1>0, <4>1
      <4> QED
        BY <1>6, <4>2
    <3> QED
      BY <2>5, <3>1 DEF Occurs
  <2>8. LengthOf(index, p, S) = Total(f, S)
    BY <2>4, <2>6, <2>7, LengthIs
  <2>9. Total(f, S) = Cardinality({n \in DOMAIN toks : toks[n].key \in S})
    BY <2>4, <2>5, OccursSum
  <2>10. {n \in DOMAIN toks : toks[n].key \in S} = {n \in DOMAIN toks : toks[n].key[1] = field}
    BY <1>7, <2>1
  <2>11. LengthOf(index, p, S) = CountIn(toks, field)
    BY <2>8, <2>9, <2>10 DEF CountIn
  <2> QED
    BY <1>1, <1>2, <1>6, <2>3, <2>11 DEF DocLen
<1>9. CASE field \notin FieldsOf(index)
  <2>1. \A n \in DOMAIN toks : toks[n].key[1] # field
    BY <1>7, <1>9 DEF FieldsOf
  <2>2. field \notin DOMAIN seg.lens
    BY <1>1, <1>2, <1>3, <1>9
  <2> QED
    BY <1>6, <2>1, <2>2, NoLength DEF DocLen
<1> QED
  BY <1>8, <1>9

\* The sources of such a merge.
Measured(D, sch, tokens, srcs, lv, K) ==
  /\ tokens \in [D -> Seq(Keyed)] /\ DOMAIN srcs = 1 .. K
  /\ \A k \in 1 .. K : /\ ByPlace(srcs[k]) /\ LensGood(tokens, srcs[k])
                       /\ GoodLists(sch, srcs[k].stored, tokens, srcs[k].lists)
                       /\ lv[k] \subseteq DOMAIN srcs[k].stored

\* A merge asks a source for the length of each survivor by its old doc_id.
LEMMA MergedLensGood ==
  ASSUME NEW D, NEW sch, NEW tokens, NEW srcs, NEW lv, NEW K, Measured(D, sch, tokens, srcs, lv, K),
         NEW alive, SurvivorsOK(D, srcs, lv, K, alive),
         NEW m, m.stored = MergedStored(alive), m.lens = MergedLens(srcs, alive)
  PROVE  LensGood(tokens, m)
<1>0. /\ tokens \in [D -> Seq(Keyed)] /\ DOMAIN srcs = 1 .. K
      /\ \A k \in 1 .. K : /\ ByPlace(srcs[k]) /\ LensGood(tokens, srcs[k])
                           /\ GoodLists(sch, srcs[k].stored, tokens, srcs[k].lists)
                           /\ lv[k] \subseteq DOMAIN srcs[k].stored
  BY DEF Measured
<1>1. PICK N \in Nat : DOMAIN alive = 1 .. N /\ alive \in Seq(AliveT(D))
  BY DEF SurvivorsOK
<1>2. PICK fields : fields = UNION {FieldsOf(srcs[k].lists) : k \in DOMAIN srcs}
  OBVIOUS
<1>3. m.lens = [field \in fields |-> [n \in 1 .. N |->
                  AtMost(DocLen(srcs[alive[n].src], field, alive[n].id), MaxLen)]]
  BY <1>1, <1>2 DEF MergedLens
<1>4. DOMAIN m.stored = 1 .. N /\ \A n \in 1 .. N : m.stored[n].doc = alive[n].doc
  BY <1>1, MergedStoredFacts
<1> SUFFICES ASSUME NEW field, NEW n \in 1 .. N
             PROVE  DocLen(m, field, n) = AtMost(CountIn(tokens[alive[n].doc], field), MaxLen)
  BY <1>4 DEF LensGood
<1>5. PICK a \in AliveT(D) : a = alive[n]
  BY <1>1
<1>6. PICK k \in 1 .. K : k = a.src /\ a.pos \in lv[k] /\ a.doc = srcs[k].stored[a.pos].doc
                          /\ a.id = srcs[k].stored[a.pos].id
  BY <1>1, <1>5 DEF SurvivorsOK, RowOf
<1>7. PICK src : src = srcs[k] /\ ByPlace(src) /\ LensGood(tokens, src)
                 /\ GoodLists(sch, src.stored, tokens, src.lists) /\ lv[k] \subseteq DOMAIN src.stored
  BY <1>0
<1>8. a.pos \in DOMAIN src.stored /\ a.id = a.pos
  BY <1>6, <1>7 DEF ByPlace
<1>9. PICK toks \in Seq(Keyed) : toks = tokens[a.doc]
  BY <1>0, <1>5 DEF AliveT
<1>10. DocLen(src, field, a.id) = AtMost(CountIn(toks, field), MaxLen)
  BY <1>6, <1>7, <1>8, <1>9 DEF LensGood
<1>11. CASE field \in fields
  <2>1. DocLen(m, field, n) = AtMost(DocLen(src, field, a.id), MaxLen)
    <3>1. PICK out : out = [i \in 1 .. N |-> AtMost(DocLen(srcs[alive[i].src], field, alive[i].id), MaxLen)]
      OBVIOUS
    <3>2. field \in DOMAIN m.lens /\ m.lens[field] = out
      BY <1>3, <1>11, <3>1
    <3>3. n \in DOMAIN out /\ out[n] = AtMost(DocLen(srcs[alive[n].src], field, alive[n].id), MaxLen)
      BY <3>1
    <3>4. DocLen(m, field, n) = out[n]
      BY <3>2, <3>3 DEF DocLen
    <3>5. alive[n].src = k /\ alive[n].id = a.id /\ srcs[k] = src
      BY <1>5, <1>6, <1>7
    <3> QED
      BY <3>3, <3>4, <3>5
  <2>2. CountIn(toks, field) \in Nat
    <3>1. PICK M \in Nat : DOMAIN toks = 1 .. M /\ IsFiniteSet(1 .. M)
      BY FS_Interval
    <3>2. {i \in DOMAIN toks : toks[i].key[1] = field} \subseteq 1 .. M
      BY <3>1
    <3>3. Cardinality({i \in DOMAIN toks : toks[i].key[1] = field}) \in Nat
      BY <3>1, <3>2, FS_Subset, FS_CardinalityType
    <3> QED
      BY <3>3 DEF CountIn
  <2>3. MaxLen \in Nat
    BY ContentAssumption
  <2>4. PICK c \in Nat : c = CountIn(toks, field)
    BY <2>2
  <2>5. AtMost(AtMost(c, MaxLen), MaxLen) = AtMost(c, MaxLen)
    BY <2>3, AtMostFacts
  <2> QED
    BY <1>5, <1>9, <1>10, <2>1, <2>4, <2>5
<1>12. CASE field \notin fields
  <2>1. DocLen(m, field, n) = 0
    BY <1>3, <1>12 DEF DocLen
  <2>2. \A i \in DOMAIN toks : toks[i].key[1] # field
    <3> SUFFICES ASSUME NEW i \in DOMAIN toks, toks[i].key[1] = field PROVE FALSE
      OBVIOUS
    <3>1. toks[i].key \in KeysIn(toks)
      BY DEF KeysIn
    <3>2. HasKey(src.stored, tokens, toks[i].key)
      BY <1>6, <1>7, <1>8, <1>9, <3>1 DEF HasKey
    <3>3. toks[i].key \in DOMAIN src.lists
      BY <1>7, <3>2 DEF GoodLists
    <3>4. field \in FieldsOf(src.lists)
      BY <3>3 DEF FieldsOf
    <3> QED
      BY <1>0, <1>2, <1>7, <1>12, <3>4
  <2> QED
    BY <1>5, <1>9, <2>1, <2>2, NoLength
<1> QED
  BY <1>11, <1>12

\* A flush of documents that are numbered in order.
LEMMA FlushedLensGood ==
  ASSUME NEW D, NEW tokens \in [D -> Seq(Keyed)], NEW rows \in Seq(RowT(D)), OneEach(rows),
         \A p \in DOMAIN rows : rows[p].id = p, NEW sch, NEW numbers
  PROVE  LensGood(tokens, FlushedSegment(sch, rows, tokens, numbers))
<1>1. PICK index : index = IndexOf(rows, tokens)
  OBVIOUS
<1>2. IndexHolds(rows, tokens, Len(rows), index)
  BY <1>1, IndexOfFacts
<1>3. PICK seg : seg = FlushedSegment(sch, rows, tokens, numbers)
  OBVIOUS
<1>4. seg.stored = rows /\ seg.lens = WriteLens(index, Len(rows))
  BY <1>1, <1>3 DEF FlushedSegment
<1>5. LensGood(tokens, seg)
  BY <1>2, <1>4, FlushedLens
<1> QED
  BY <1>3, <1>5

-----------------------------------------------------------------------------
(* The inductive invariant *)

\* The doc_id of a row in the buffer.
Numbered(b, per) == \A i \in DOMAIN b : b[i].id = IF per THEN i ELSE b[i].doc

SegsGood(sch, per, sg) ==
  \A s \in DOMAIN sg : /\ GoodSeg(Docs, sch, TokensOf[sch], NumbersOf[sch], sg[s])
                       /\ per => ByPlace(sg[s]) /\ LensGood(TokensOf[sch], sg[s])

Types ==
  /\ schema \in Schemas /\ schemaFile = SaveSchema(schema) /\ perSegment \in BOOLEAN
  /\ total \in 0 .. NumDocs /\ buf \in Seq(RowT(Docs)) /\ nextSegId \in Nat
  /\ IsFiniteSet(DOMAIN segs) /\ DOMAIN segs \subseteq Nat
  /\ loaded \subseteq DOMAIN segs /\ live = [s \in loaded |-> segs[s].live]

\* While the writer is open there is no merger, and its next id is new.
WriterFirst == wpc = "open" => loaded = {} /\ \A s \in DOMAIN segs : s < nextSegId

IInv ==
  /\ Types /\ WriterFirst
  /\ Numbered(buf, perSegment) /\ SegsGood(schema, perSegment, segs)
  /\ Placed(segs, buf, total, deleted)

\* The tokens of a document, and that no two share a position.
LEMMA TokensFacts ==
  ASSUME NEW s \in Schemas
  PROVE  /\ TokensOf[s] \in [Docs -> Seq(Keyed)]
         /\ \A d \in Docs : \A i, j \in DOMAIN TokensOf[s][d] :
              TokensOf[s][d][i].pos = TokensOf[s][d][j].pos => i = j
<1>1. s \in Seq(FieldSchemas)
  BY OfflineAssumption
<1>2. \A d \in Docs : FieldsOK(Content[d].fields)
  BY OfflineAssumption DEF FieldsOK, Docs
<1>3. \A d \in Docs : /\ DocTokens(s, Content[d].fields) \in Seq(Keyed)
                      /\ \A i, j \in DOMAIN DocTokens(s, Content[d].fields) :
                           DocTokens(s, Content[d].fields)[i].pos = DocTokens(s, Content[d].fields)[j].pos
                             => i = j
  <2> TAKE d \in Docs
  <2>1. FieldsOK(Content[d].fields)
    BY <1>2
  <2>2. DocTokens(s, Content[d].fields) \in Seq(Keyed)
    BY <1>1, <2>1, DocTokensFacts
  <2>3. \A i, j \in DOMAIN DocTokens(s, Content[d].fields) :
          DocTokens(s, Content[d].fields)[i].pos = DocTokens(s, Content[d].fields)[j].pos => i = j
    BY <1>1, <2>1, DocTokensFacts
  <2> QED
    BY <2>2, <2>3
<1>4. TokensOf[s] = [d \in Docs |-> DocTokens(s, Content[d].fields)]
  BY DEF TokensOf
<1>5. PICK f : f = TokensOf[s]
  OBVIOUS
<1>6. DOMAIN f = Docs /\ f = [d \in Docs |-> f[d]] /\ \A d \in Docs : f[d] = DocTokens(s, Content[d].fields)
  BY <1>4, <1>5
<1>7. f \in [Docs -> Seq(Keyed)]
  BY <1>3, <1>6
<1>8. \A d \in Docs : \A i, j \in DOMAIN f[d] : f[d][i].pos = f[d][j].pos => i = j
  <2> TAKE d \in Docs
  <2>1. PICK toks : toks = DocTokens(s, Content[d].fields)
    OBVIOUS
  <2>2. \A i, j \in DOMAIN toks : toks[i].pos = toks[j].pos => i = j
    BY <1>3, <2>1
  <2>3. f[d] = toks
    BY <1>6, <2>1
  <2> QED
    BY <2>2, <2>3
<1> QED
  BY <1>5, <1>7, <1>8

\* Documents are numbered from 1.
LEMMA DocsFacts == NumDocs \in Nat /\ Docs = 1 .. NumDocs
BY OfflineAssumption DEF NumDocs, Docs

-----------------------------------------------------------------------------
(* The writer *)

FlushesTo(sch, sg, n, b, sg2, n2, b2) ==
  \/ /\ sg2 = [s \in DOMAIN sg \cup {n} |->
                 IF s = n THEN FlushedSegment(sch, b, TokensOf[sch], NumbersOf[sch]) ELSE sg[s]]
     /\ b2 = <<>> /\ n2 = n + 1
  \/ b2 = b /\ sg2 = sg /\ n2 = n

\* A flush, or none, keeps the invariant's parts.
LEMMA FlushKeeps ==
  ASSUME NEW sch \in Schemas, NEW per \in BOOLEAN, NEW sg, NEW n \in Nat, NEW b \in Seq(RowT(Docs)),
         NEW t, NEW del, NEW sg2, NEW n2, NEW b2, FlushesTo(sch, sg, n, b, sg2, n2, b2),
         IsFiniteSet(DOMAIN sg), DOMAIN sg \subseteq Nat, \A s \in DOMAIN sg : s < n,
         Numbered(b, per), SegsGood(sch, per, sg), Placed(sg, b, t, del)
  PROVE  /\ n2 \in Nat /\ b2 \in Seq(RowT(Docs))
         /\ IsFiniteSet(DOMAIN sg2) /\ DOMAIN sg2 \subseteq Nat /\ \A s \in DOMAIN sg2 : s < n2
         /\ Numbered(b2, per) /\ SegsGood(sch, per, sg2) /\ Placed(sg2, b2, t, del)
<1>1. CASE b2 = b /\ sg2 = sg /\ n2 = n
  BY <1>1
<1>2. CASE /\ sg2 = [s \in DOMAIN sg \cup {n} |->
                       IF s = n THEN FlushedSegment(sch, b, TokensOf[sch], NumbersOf[sch]) ELSE sg[s]]
           /\ b2 = <<>> /\ n2 = n + 1
  <2>1. PICK seg : seg = FlushedSegment(sch, b, TokensOf[sch], NumbersOf[sch])
    OBVIOUS
  <2>2. PICK tokens \in [Docs -> Seq(Keyed)] : tokens = TokensOf[sch]
    BY TokensFacts
  <2>12. PICK numbers : numbers = NumbersOf[sch]
    OBVIOUS
  <2>3. OneEach(b)
    BY DEF Numbered, Placed, OneEach
  <2>4. /\ GoodSeg(Docs, sch, tokens, numbers, seg)
        /\ seg.stored = b /\ seg.live = DOMAIN b /\ seg.merged = FALSE
    <3>1. PICK fs : fs = FlushedSegment(sch, b, tokens, numbers)
      OBVIOUS
    <3>2. /\ GoodSeg(Docs, sch, tokens, numbers, fs)
          /\ fs.stored = b /\ fs.live = DOMAIN b /\ fs.merged = FALSE
      <4>1. PICK D : D = Docs
        OBVIOUS
      <4>2. tokens \in [D -> Seq(Keyed)] /\ b \in Seq(RowT(D))
        BY <4>1
      <4>3. GoodSeg(D, sch, tokens, numbers, FlushedSegment(sch, b, tokens, numbers))
        BY <2>3, <4>2, FlushedGood
      <4>4. /\ FlushedSegment(sch, b, tokens, numbers).stored = b
            /\ FlushedSegment(sch, b, tokens, numbers).live = DOMAIN b
            /\ FlushedSegment(sch, b, tokens, numbers).merged = FALSE
        BY DEF FlushedSegment
      <4> QED
        BY <3>1, <4>1, <4>3, <4>4
    <3> QED
      BY <2>1, <2>2, <2>12, <3>1, <3>2
  <2>5. sg2 = [s \in DOMAIN sg \cup {n} |-> IF s = n THEN seg ELSE sg[s]]
    BY <1>2, <2>1
  <2>6. DOMAIN sg2 = DOMAIN sg \cup {n} /\ sg2[n] = seg /\ n \notin DOMAIN sg
        /\ \A s \in DOMAIN sg : sg2[s] = sg[s]
    BY <2>5
  <2>7. Placed(sg2, <<>>, t, del)
    <3>1. Placed(With(sg, n, seg), <<>>, t, del)
      BY <2>4, <2>6, PlacedWrite
    <3> QED
      BY <2>5, <3>1 DEF With
  <2>8. per => ByPlace(seg)
    BY <2>4 DEF Numbered, ByPlace
  <2>13. per => LensGood(tokens, seg)
    <3> HAVE per
    <3>1. \A p \in DOMAIN b : b[p].id = p
      BY DEF Numbered
    <3>2. PICK D : D = Docs
      OBVIOUS
    <3>3. tokens \in [D -> Seq(Keyed)] /\ b \in Seq(RowT(D))
      BY <3>2
    <3>4. LensGood(tokens, FlushedSegment(sch, b, tokens, numbers))
      BY <2>3, <3>1, <3>3, FlushedLensGood
    <3> QED
      BY <2>1, <2>2, <2>12, <3>4
  <2>9. SegsGood(sch, per, sg2)
    BY <2>2, <2>4, <2>6, <2>8, <2>12, <2>13 DEF SegsGood
  <2>10. IsFiniteSet(DOMAIN sg2)
    BY <2>6, FS_AddElement
  <2>11. b2 \in Seq(RowT(Docs)) /\ Numbered(b2, per)
    <3>1. DOMAIN b2 = {}
      BY <1>2
    <3> QED
      BY <1>2, <3>1 DEF Numbered
  <2> QED
    BY <1>2, <2>6, <2>7, <2>9, <2>10, <2>11
<1> QED
  BY <1>1, <1>2 DEF FlushesTo

\* What the three actions of the writer have in common.
LEMMA WriterKeeps ==
  ASSUME IInv, wpc = "open", NEW c \in Seq(RowT(Docs)), NEW u \in 0 .. NumDocs, total' = u,
         Numbered(c, perSegment), Placed(segs, c, u, deleted),
         FlushesTo(schema, segs, nextSegId, c, segs', nextSegId', buf'),
         schema' = schema, schemaFile' = schemaFile, perSegment' = perSegment,
         loaded' = loaded, live' = live, deleted' = deleted
  PROVE  IInv'
<1>1. PICK sch \in Schemas, per \in BOOLEAN, n \in Nat : sch = schema /\ per = perSegment /\ n = nextSegId
  BY DEF IInv, Types
<1>2. PICK sg, del, sg2, n2, b2 :
        sg = segs /\ del = deleted /\ sg2 = segs' /\ n2 = nextSegId' /\ b2 = buf'
  OBVIOUS
<1>3. /\ IsFiniteSet(DOMAIN sg) /\ DOMAIN sg \subseteq Nat /\ loaded = {}
      /\ \A s \in DOMAIN sg : s < n
      /\ SegsGood(sch, per, sg)
  BY <1>1, <1>2 DEF IInv, Types, WriterFirst
<1>4. Numbered(c, per) /\ Placed(sg, c, u, del) /\ FlushesTo(sch, sg, n, c, sg2, n2, b2)
  BY <1>1, <1>2
<1>5. /\ n2 \in Nat /\ b2 \in Seq(RowT(Docs))
      /\ IsFiniteSet(DOMAIN sg2) /\ DOMAIN sg2 \subseteq Nat /\ \A s \in DOMAIN sg2 : s < n2
      /\ Numbered(b2, per) /\ SegsGood(sch, per, sg2) /\ Placed(sg2, b2, u, del)
  BY <1>3, <1>4, FlushKeeps
<1>6. Types'
  <2>1. live' = [s \in loaded' |-> segs'[s].live]
    <3>1. live = [s \in {} |-> segs[s].live]
      BY <1>3 DEF IInv, Types
    <3>2. [s \in {} |-> segs[s].live] = [s \in {} |-> segs'[s].live]
      OBVIOUS
    <3> QED
      BY <1>3, <3>1, <3>2
  <2> QED
    BY <1>2, <1>3, <1>5, <2>1 DEF IInv, Types
<1>7. WriterFirst'
  BY <1>2, <1>3, <1>5 DEF WriterFirst
<1>8. (Numbered(buf, perSegment))' /\ (SegsGood(schema, perSegment, segs))'
      /\ (Placed(segs, buf, total, deleted))'
  BY <1>1, <1>2, <1>5
<1> QED
  BY <1>6, <1>7, <1>8 DEF IInv

\* addDocument, with the flush of a buffer that has outgrown its bound.
LEMMA AddDocumentKeeps ==
  ASSUME IInv, AddDocument
  PROVE  IInv'
<1>1. PICK b \in Seq(RowT(Docs)), t \in 0 .. NumDocs, per \in BOOLEAN :
        b = buf /\ t = total /\ per = perSegment
  BY DEF IInv, Types
<1>2. PICK u \in Nat : u = t + 1 /\ u = total' /\ u \in 0 .. NumDocs /\ u \in Docs
  BY <1>1, DocsFacts DEF AddDocument
<1>3. PICK m \in Nat, k \in Nat : m = Len(b) /\ DOMAIN b = 1 .. m /\ k = m + 1
  OBVIOUS
<1>4. PICK id \in Nat : id = (IF per THEN k ELSE u)
  BY <1>2
<1>5. PICK row \in RowT(Docs) : row = [doc |-> u, id |-> id]
  <2>1. [doc |-> u, id |-> id] \in RowT(Docs)
    BY <1>2 DEF RowT
  <2> QED
    BY <2>1
<1>6. row.doc = u /\ row.id = id
  BY <1>5
<1>7. PICK c \in Seq(RowT(Docs)) : c = Append(b, row)
  <2>1. PICK R : R = RowT(Docs)
    OBVIOUS
  <2>2. b \in Seq(R) /\ row \in R
    BY <2>1
  <2>3. Append(b, row) \in Seq(R)
    BY <2>2
  <2> QED
    BY <2>1, <2>3
<1>8. DOMAIN c = 1 .. k /\ c[k] = row /\ \A i \in 1 .. m : c[i] = b[i]
  BY <1>3, <1>7
<1>9. Numbered(c, perSegment)
  <2>1. \A i \in DOMAIN b : b[i].id = IF per THEN i ELSE b[i].doc
    BY <1>1 DEF IInv, Numbered
  <2>2. \A i \in 1 .. k : i = k \/ i \in 1 .. m
    BY <1>3
  <2>3. c[k].id = IF per THEN k ELSE c[k].doc
    BY <1>4, <1>6, <1>8
  <2>4. \A i \in 1 .. m : c[i].id = IF per THEN i ELSE c[i].doc
    BY <1>3, <1>8, <2>1
  <2> QED
    BY <1>1, <1>8, <2>2, <2>3, <2>4 DEF Numbered
<1>10. Placed(segs, c, u, deleted)
  <2>1. PICK sg, del : sg = segs /\ del = deleted
    OBVIOUS
  <2>2. Placed(sg, b, t, del)
    BY <1>1, <2>1 DEF IInv
  <2>3. t \in Nat
    BY DocsFacts
  <2>4. Placed(sg, c, u, del)
    BY <1>2, <1>6, <1>7, <2>2, <2>3, PlacedAppend
  <2> QED
    BY <2>1, <2>4
<1>11. c = Append(buf, [doc |-> total', id |-> IF perSegment THEN Len(buf) + 1 ELSE total'])
  BY <1>1, <1>2, <1>3, <1>4, <1>5, <1>7
<1>12. \/ buf' = c /\ segs' = segs /\ nextSegId' = nextSegId
       \/ /\ segs' = [s \in DOMAIN segs \cup {nextSegId} |->
               IF s = nextSegId THEN FlushedSegment(schema, c, TokensOf[schema], NumbersOf[schema])
               ELSE segs[s]]
          /\ buf' = <<>> /\ nextSegId' = nextSegId + 1
  BY <1>11 DEF AddDocument, FlushBuffer, WriteSegment
<1>13. FlushesTo(schema, segs, nextSegId, c, segs', nextSegId', buf')
  BY <1>12 DEF FlushesTo
<1>14. /\ wpc = "open" /\ schema' = schema /\ schemaFile' = schemaFile /\ perSegment' = perSegment
       /\ loaded' = loaded /\ live' = live /\ deleted' = deleted
  BY DEF AddDocument, schemaVars
<1> QED
  BY <1>2, <1>9, <1>10, <1>13, <1>14, WriterKeeps

\* flush and close.
LEMMA FlushActionKeeps ==
  ASSUME IInv, Flush \/ CloseWriter
  PROVE  IInv'
<1>1. PICK c \in Seq(RowT(Docs)), u \in 0 .. NumDocs : c = buf /\ u = total
  BY DEF IInv, Types
<1>2. Numbered(c, perSegment) /\ Placed(segs, c, u, deleted)
  BY <1>1 DEF IInv
<1>3. \/ buf' = c /\ segs' = segs /\ nextSegId' = nextSegId
      \/ /\ segs' = [s \in DOMAIN segs \cup {nextSegId} |->
              IF s = nextSegId THEN FlushedSegment(schema, c, TokensOf[schema], NumbersOf[schema])
              ELSE segs[s]]
         /\ buf' = <<>> /\ nextSegId' = nextSegId + 1
  BY <1>1 DEF Flush, CloseWriter, FlushBuffer, WriteSegment
<1>4. FlushesTo(schema, segs, nextSegId, c, segs', nextSegId', buf')
  BY <1>3 DEF FlushesTo
<1>5. /\ wpc = "open" /\ schema' = schema /\ schemaFile' = schemaFile /\ perSegment' = perSegment
      /\ loaded' = loaded /\ live' = live /\ deleted' = deleted /\ total' = u
  BY <1>1 DEF Flush, CloseWriter, schemaVars
<1> QED
  BY <1>2, <1>4, <1>5, WriterKeeps

-----------------------------------------------------------------------------
(* The merger *)

\* Constructing and closing a merger write nothing.
LEMMA OpenMergerKeeps ==
  ASSUME IInv, OpenMerger \/ CloseMerger
  PROVE  IInv'
<1>1. /\ schema' = schema /\ schemaFile' = schemaFile /\ perSegment' = perSegment
      /\ total' = total /\ buf' = buf /\ nextSegId' = nextSegId /\ wpc' = wpc
      /\ segs' = segs /\ deleted' = deleted
  BY DEF OpenMerger, CloseMerger, writerVars, schemaVars
<1>2. loaded' \subseteq DOMAIN segs /\ live' = [s \in loaded' |-> segs[s].live]
  <2>1. CASE OpenMerger
    BY <2>1 DEF OpenMerger
  <2>2. CASE CloseMerger
    <3>1. [s \in {} |-> {}] = [s \in {} |-> segs[s].live]
      OBVIOUS
    <3> QED
      BY <2>2, <3>1 DEF CloseMerger
  <2> QED
    BY <2>1, <2>2
<1>3. wpc = "open" => loaded' = {}
  BY DEF OpenMerger, CloseMerger
<1>4. Types'
  BY <1>1, <1>2 DEF IInv, Types
<1>5. WriterFirst'
  BY <1>1, <1>3 DEF IInv, WriterFirst
<1>6. (Numbered(buf, perSegment))' /\ (SegsGood(schema, perSegment, segs))'
      /\ (Placed(segs, buf, total, deleted))'
  BY <1>1 DEF IInv
<1> QED
  BY <1>4, <1>5, <1>6 DEF IInv

\* A segment with other bitmaps is as good.
LEMMA StruckGood ==
  ASSUME NEW D, NEW sch, NEW tokens, NEW numbers, NEW seg, GoodSeg(D, sch, tokens, numbers, seg),
         NEW seg2, NEW S, IsSegment(seg2), seg2.live = S, S \subseteq seg.live,
         seg2.stored = seg.stored, seg2.lists = seg.lists, seg2.lens = seg.lens,
         seg2.columns = seg.columns, seg2.merged = seg.merged
  PROVE  GoodSeg(D, sch, tokens, numbers, seg2) /\ (ByPlace(seg) => ByPlace(seg2))
         /\ (LensGood(tokens, seg) => LensGood(tokens, seg2))
BY DEF GoodSeg, ByPlace, LensGood, DocLen

\* softDelete strikes one row of one segment.
LEMMA SoftDeleteKeeps ==
  ASSUME IInv, NEW i, SoftDelete(i)
  PROVE  IInv'
<1>1. /\ schema' = schema /\ schemaFile' = schemaFile /\ perSegment' = perSegment
      /\ total' = total /\ buf' = buf /\ nextSegId' = nextSegId /\ wpc' = wpc
      /\ loaded' = loaded
  BY DEF SoftDelete, writerVars, schemaVars
<1>2. PICK sg, g, b, t, del, lv, lv2, L :
        /\ sg = segs /\ g = segs' /\ b = buf /\ t = total /\ del = deleted /\ lv = live /\ lv2 = live'
        /\ L = loaded
  OBVIOUS
<1>3. PICK s \in L : /\ i \in lv[s]
                     /\ lv2 = [lv EXCEPT ![s] = @ \ {i}]
                     /\ g = [sg EXCEPT ![s].live = @ \ {i}]
                     /\ deleted' = del \cup {sg[s].stored[i].doc}
  BY <1>2 DEF SoftDelete
<1>4. L \subseteq DOMAIN sg /\ lv = [r \in L |-> sg[r].live]
  BY <1>2 DEF IInv, Types
<1>5. s \in DOMAIN sg /\ i \in sg[s].live
  BY <1>3, <1>4
<1>6. PICK sch, per : sch = schema /\ per = perSegment
  OBVIOUS
<1>7. SegsGood(sch, per, sg) /\ Placed(sg, b, t, del)
  BY <1>2, <1>6 DEF IInv
<1>8. PICK seg : seg = sg[s] /\ GoodSeg(Docs, sch, TokensOf[sch], NumbersOf[sch], seg)
  BY <1>5, <1>7 DEF SegsGood
<1>9. PICK seg2 : seg2 = [seg EXCEPT !.live = @ \ {i}]
  OBVIOUS
<1>10. /\ seg2.live = seg.live \ {i} /\ seg2.stored = seg.stored /\ seg2.lists = seg.lists
       /\ seg2.lens = seg.lens /\ seg2.columns = seg.columns /\ seg2.merged = seg.merged
       /\ IsSegment(seg2)
  <2>1. seg = [stored |-> seg.stored, live |-> seg.live, lists |-> seg.lists, lens |-> seg.lens,
               columns |-> seg.columns, merged |-> seg.merged]
    BY <1>8 DEF GoodSeg, IsSegment
  <2>2. seg2 = [stored |-> seg.stored, live |-> seg.live \ {i}, lists |-> seg.lists, lens |-> seg.lens,
                columns |-> seg.columns, merged |-> seg.merged]
    BY <1>9, <2>1
  <2> QED
    BY <2>2 DEF IsSegment
<1>11. DOMAIN g = DOMAIN sg /\ g[s] = seg2 /\ \A r \in DOMAIN sg : r # s => g[r] = sg[r]
  BY <1>3, <1>5, <1>8, <1>9
<1>12. SegsGood(sch, per, g)
  <2>1. /\ GoodSeg(Docs, sch, TokensOf[sch], NumbersOf[sch], seg2)
        /\ ByPlace(seg) => ByPlace(seg2)
        /\ LensGood(TokensOf[sch], seg) => LensGood(TokensOf[sch], seg2)
    BY <1>8, <1>10, StruckGood
  <2> QED
    BY <1>7, <1>8, <1>11, <2>1 DEF SegsGood
<1>13. Placed(g, b, t, del \cup {seg.stored[i].doc})
  <2>1. PICK d : d = seg.stored[i].doc
    OBVIOUS
  <2>2. StoredAt(sg, s, i, d)
    BY <1>5, <1>8, <2>1 DEF StoredAt, GoodSeg
  <2>3. /\ \A r \in DOMAIN sg : g[r].stored = sg[r].stored
        /\ \A r \in DOMAIN sg : r # s => g[r].live = sg[r].live
        /\ g[s].live = sg[s].live \ {i}
    BY <1>8, <1>10, <1>11
  <2>4. Placed(g, b, t, del \cup {d})
    BY <1>5, <1>7, <1>11, <2>2, <2>3, PlacedStrike
  <2> QED
    BY <2>1, <2>4
<1>14. lv2 = [r \in L |-> g[r].live]
  BY <1>3, <1>4, <1>8, <1>10, <1>11
<1>15. Types'
  <2>1. live' = [r \in loaded' |-> segs'[r].live]
    BY <1>1, <1>2, <1>14
  <2> QED
    BY <1>1, <1>2, <1>11, <2>1 DEF IInv, Types
<1>16. WriterFirst'
  BY <1>1, <1>2, <1>11 DEF IInv, WriterFirst
<1>17. (Numbered(buf, perSegment))' /\ (SegsGood(schema, perSegment, segs))'
  BY <1>1, <1>2, <1>6, <1>12 DEF IInv
<1>18. (Placed(segs, buf, total, deleted))'
  BY <1>1, <1>2, <1>3, <1>8, <1>13
<1> QED
  BY <1>15, <1>16, <1>17, <1>18 DEF IInv

\* What the segment is that a merge of the segments of L writes, for GoodSeg's
\* sources and their own bitmaps.
LEMMA MergeWrites ==
  ASSUME NEW sch \in Schemas, NEW per, NEW sg, SegsGood(sch, per, sg), NEW b, NEW t, NEW del,
         Placed(sg, b, t, del), NEW L \in SUBSET DOMAIN sg, L \subseteq Nat, IsFiniteSet(L),
         NEW srcs, srcs = [k \in DOMAIN InOrder(L) |-> sg[InOrder(L)[k]]],
         NEW lv, lv = [k \in DOMAIN InOrder(L) |-> sg[InOrder(L)[k]].live]
  PROVE  /\ GoodSeg(Docs, sch, TokensOf[sch], NumbersOf[sch], MergedSegment(sch, srcs, lv))
         /\ ByPlace(MergedSegment(sch, srcs, lv))
         /\ per => LensGood(TokensOf[sch], MergedSegment(sch, srcs, lv))
         /\ Keeps(sg, L, MergedSegment(sch, srcs, lv))
<1>1. PICK o, K : o = InOrder(L) /\ K = Cardinality(L)
  OBVIOUS
<1>2. K \in Nat /\ o \in [1 .. K -> L] /\ \A s \in L : \E k \in 1 .. K : o[k] = s
  <2>1. K \in Nat /\ o \in [1 .. K -> L]
    BY <1>1, InOrderSorts, FS_CardinalityType
  <2>2. {o[i] : i \in DOMAIN o} = L
    BY <1>1, InOrderFacts
  <2>3. DOMAIN o = 1 .. K
    BY <2>1
  <2> QED
    BY <2>1, <2>2, <2>3
<1>3. \A k, l \in 1 .. K : o[k] = o[l] => k = l
  <2>1. \A i, j \in DOMAIN o : o[i] = o[j] => i = j
    BY <1>1, InOrderFacts
  <2> QED
    BY <1>2, <2>1
<1>4. srcs = [k \in 1 .. K |-> sg[o[k]]] /\ lv = [k \in 1 .. K |-> sg[o[k]].live]
  BY <1>1, <1>2
<1>5. PICK D, tokens, numbers : D = Docs /\ tokens = TokensOf[sch] /\ numbers = NumbersOf[sch]
  OBVIOUS
<1>6. tokens \in [D -> Seq(Keyed)]
  BY <1>5, TokensFacts
<1>7. \A s \in L : GoodSeg(D, sch, tokens, numbers, sg[s]) /\ sg[s].live \subseteq DOMAIN sg[s].stored
  BY <1>5 DEF SegsGood, GoodSeg
<1>8. DOMAIN srcs = 1 .. K
      /\ \A k \in 1 .. K : GoodSeg(D, sch, tokens, numbers, srcs[k]) /\ lv[k] \subseteq DOMAIN srcs[k].stored
  <2>1. \A k \in 1 .. K : o[k] \in L /\ srcs[k] = sg[o[k]] /\ lv[k] = sg[o[k]].live
    BY <1>2, <1>4
  <2>2. DOMAIN srcs = 1 .. K
    BY <1>4
  <2> QED
    BY <1>7, <2>1, <2>2
<1>9. PICK m : m = MergedSegment(sch, srcs, lv)
  OBVIOUS
<1>10. MergeMade(D, sch, tokens, numbers, srcs, lv, K, m)
  BY <1>2, <1>6, <1>8, <1>9, MergedGood
<1>11. PICK alive : /\ SurvivorsOK(D, srcs, lv, K, alive)
                    /\ GoodSeg(D, sch, tokens, numbers, m)
                    /\ m.stored = MergedStored(alive)
                    /\ m.live = DOMAIN alive
                    /\ m.merged = TRUE
                    /\ m.lens = MergedLens(srcs, alive)
  BY <1>10 DEF MergeMade
<1>12. ByPlace(m)
  BY <1>11 DEF GoodSeg, ByPlace
<1>13. Keeps(sg, L, m)
  <2>1. InSomeOrder(sg, L, K, o, srcs, lv)
    BY <1>2, <1>3, <1>4 DEF InSomeOrder
  <2>2. SurvivorsOK(D, srcs, lv, K, alive) /\ m.stored = MergedStored(alive) /\ m.live = DOMAIN alive
    BY <1>11
  <2>3. \A s \in L : sg[s].live \subseteq DOMAIN sg[s].stored
    BY <1>7
  <2> QED
    BY <1>2, <2>1, <2>2, <2>3, MergeKeeps
<1>14. per => LensGood(tokens, m)
  <2> HAVE per
  <2>1. \A s \in L : ByPlace(sg[s]) /\ LensGood(tokens, sg[s])
    BY <1>5 DEF SegsGood
  <2>2. \A k \in 1 .. K : o[k] \in L /\ srcs[k] = sg[o[k]] /\ lv[k] = sg[o[k]].live
    BY <1>2, <1>4
  <2>3. \A k \in 1 .. K : /\ ByPlace(srcs[k]) /\ LensGood(tokens, srcs[k])
                          /\ GoodLists(sch, srcs[k].stored, tokens, srcs[k].lists)
                          /\ lv[k] \subseteq DOMAIN srcs[k].stored
    BY <1>8, <2>1, <2>2 DEF GoodSeg
  <2> QED
    <3>1. Measured(D, sch, tokens, srcs, lv, K)
      BY <1>6, <1>8, <2>3 DEF Measured
    <3> QED
      BY <1>11, <3>1, MergedLensGood
<1> QED
  BY <1>5, <1>9, <1>11, <1>12, <1>13, <1>14

\* merge replaces the merger's segments by one.
LEMMA MergeActionKeeps ==
  ASSUME IInv, NEW out \in MergeIds, Merge(out)
  PROVE  IInv'
<1>1. /\ schema' = schema /\ schemaFile' = schemaFile /\ perSegment' = perSegment
      /\ total' = total /\ buf' = buf /\ nextSegId' = nextSegId /\ wpc' = wpc
      /\ deleted' = deleted /\ out \notin DOMAIN segs
  BY DEF Merge, writerVars, schemaVars
<1>2. PICK sg, b, t, del, L, g, per : /\ sg = segs /\ b = buf /\ t = total /\ del = deleted /\ L = loaded
                                      /\ g = segs' /\ per = perSegment
  OBVIOUS
<1>3. PICK sch \in Schemas : sch = schema /\ schemaFile = SaveSchema(sch)
  BY DEF IInv, Types
<1>4. FromJson(schemaFile) = sch
  BY <1>3, OfflineAssumption, SchemaRoundTrip
<1>5. /\ L \in SUBSET DOMAIN sg /\ L \subseteq Nat /\ IsFiniteSet(L) /\ IsFiniteSet(DOMAIN sg)
      /\ DOMAIN sg \subseteq Nat /\ live = [s \in L |-> sg[s].live]
  BY <1>2, FS_Subset DEF IInv, Types
<1>6. SegsGood(sch, per, sg) /\ Placed(sg, b, t, del)
  BY <1>2, <1>3 DEF IInv
<1>7. PICK srcs, lv : /\ srcs = [k \in DOMAIN InOrder(L) |-> sg[InOrder(L)[k]]]
                      /\ lv = [k \in DOMAIN InOrder(L) |-> sg[InOrder(L)[k]].live]
  OBVIOUS
<1>8. [k \in DOMAIN InOrder(loaded) |-> live[InOrder(loaded)[k]]] = lv
  <2>1. \A k \in DOMAIN InOrder(L) : InOrder(L)[k] \in L
    BY <1>5, InOrderFacts
  <2> QED
    BY <1>2, <1>5, <1>7, <2>1
<1>9. PICK m : m = MergedSegment(sch, srcs, lv)
  OBVIOUS
<1>10. GoodSeg(Docs, sch, TokensOf[sch], NumbersOf[sch], m) /\ ByPlace(m) /\ Keeps(sg, L, m)
  BY <1>5, <1>6, <1>7, <1>9, MergeWrites
<1>20. per => LensGood(TokensOf[sch], m)
  BY <1>5, <1>6, <1>7, <1>9, MergeWrites
<1>11. g = [s \in (DOMAIN sg \ L) \cup {out} |-> IF s = out THEN m ELSE sg[s]]
  <2>1. segs' = [s \in (DOMAIN segs \ loaded) \cup {out} |->
                   IF s = out THEN MergedSegment(FromJson(schemaFile),
                                 [k \in DOMAIN InOrder(loaded) |-> segs[InOrder(loaded)[k]]],
                                 [k \in DOMAIN InOrder(loaded) |-> live[InOrder(loaded)[k]]])
                   ELSE segs[s]]
    BY Zenon DEF Merge
  <2>2. [k \in DOMAIN InOrder(loaded) |-> segs[InOrder(loaded)[k]]] = srcs
    BY <1>2, <1>7
  <2> QED
    BY <1>2, <1>4, <1>8, <1>9, <2>1, <2>2
<1>12. g = Replaced(sg, L, out, m)
  BY <1>11 DEF Replaced
<1>13. DOMAIN g = (DOMAIN sg \ L) \cup {out} /\ g[out] = m /\ out \notin DOMAIN sg
       /\ \A s \in DOMAIN sg \ L : s # out /\ g[s] = sg[s]
  BY <1>1, <1>2, <1>11
<1>14. Placed(g, b, t, del)
  <2>1. Placed(Replaced(sg, L, out, m), b, t, del)
    BY <1>5, <1>6, <1>10, <1>13, PlacedMerge
  <2> QED
    BY <1>12, <2>1
<1>15. SegsGood(sch, per, g)
  BY <1>6, <1>10, <1>13, <1>20 DEF SegsGood
<1>16. loaded' \subseteq {out} /\ live' = [s \in loaded' |-> segs'[s].live]
  <2>1. loaded' \subseteq {out} /\ live' = [s \in loaded' |-> segs'[out].live]
    BY DEF Merge
  <2>2. \A s \in loaded' : s = out
    BY <2>1
  <2>3. [s \in loaded' |-> segs'[out].live] = [s \in loaded' |-> segs'[s].live]
    BY <2>2
  <2> QED
    BY <2>1, <2>3
<1>17. Types'
  <2>1. IsFiniteSet(DOMAIN g) /\ DOMAIN g \subseteq Nat
    <3>1. IsFiniteSet(DOMAIN sg \ L)
      BY <1>5, FS_Subset
    <3>2. IsFiniteSet((DOMAIN sg \ L) \cup {out})
      BY <3>1, FS_AddElement
    <3>3. out \in Nat
      BY OfflineAssumption
    <3> QED
      BY <1>5, <1>13, <3>2, <3>3
  <2>2. loaded' \subseteq DOMAIN g
    BY <1>13, <1>16
  <2> QED
    BY <1>1, <1>2, <1>16, <2>1, <2>2 DEF IInv, Types
<1>18. WriterFirst'
  <2>1. wpc # "open"
    BY DEF IInv, WriterFirst, Merge
  <2> QED
    BY <1>1, <2>1 DEF WriterFirst
<1>19. (Numbered(buf, perSegment))' /\ (SegsGood(schema, perSegment, segs))'
       /\ (Placed(segs, buf, total, deleted))'
  BY <1>1, <1>2, <1>3, <1>14, <1>15 DEF IInv
<1> QED
  BY <1>17, <1>18, <1>19 DEF IInv

\* It holds before anything is added.
LEMMA InitIInv == Init => IInv
<1> SUFFICES ASSUME Init PROVE IInv
  OBVIOUS
<1>1. DOMAIN segs = {} /\ DOMAIN buf = {} /\ total = 0 /\ deleted = {} /\ loaded = {}
  BY DEF Init
<1>2. Types
  <2>1. IsFiniteSet({})
    BY FS_EmptySet
  <2>2. live = [s \in loaded |-> segs[s].live]
    <3>1. [s \in {} |-> {}] = [s \in {} |-> segs[s].live]
      OBVIOUS
    <3> QED
      BY <3>1 DEF Init
  <2>3. buf \in Seq(RowT(Docs))
    BY DEF Init
  <2>4. total \in 0 .. NumDocs
    BY <1>1, DocsFacts
  <2> QED
    BY <1>1, <2>1, <2>2, <2>3, <2>4 DEF Init, Types
<1>3. WriterFirst
  BY <1>1 DEF WriterFirst
<1>4. Numbered(buf, perSegment) /\ SegsGood(schema, perSegment, segs)
  BY <1>1 DEF Numbered, SegsGood
<1>5. Placed(segs, buf, total, deleted)
  <2>1. \A s, i, d : ~ StoredAt(segs, s, i, d)
    BY <1>1 DEF StoredAt
  <2>2. \A d : d \notin 1 .. 0
    OBVIOUS
  <2> QED
    BY <1>1, <2>1, <2>2 DEF Placed
<1> QED
  BY <1>2, <1>3, <1>4, <1>5 DEF IInv

\* Every step keeps it.
LEMMA NextIInv == IInv /\ [Next]_vars => IInv'
<1> SUFFICES ASSUME IInv, [Next]_vars PROVE IInv'
  OBVIOUS
<1>1. CASE AddDocument
  BY <1>1, AddDocumentKeeps
<1>2. CASE Flush \/ CloseWriter
  BY <1>2, FlushActionKeeps
<1>3. CASE OpenMerger \/ CloseMerger
  BY <1>3, OpenMergerKeeps
<1>4. ASSUME NEW i \in Docs, SoftDelete(i) PROVE IInv'
  BY <1>4, SoftDeleteKeeps
<1>5. ASSUME NEW out \in MergeIds, Merge(out) PROVE IInv'
  BY <1>5, MergeActionKeeps
<1>6. CASE UNCHANGED vars
  BY <1>6 DEF vars, writerVars, schemaVars, IInv, Types, WriterFirst
<1> QED
  BY <1>1, <1>2, <1>3, <1>4, <1>5, <1>6 DEF Next

\* The inductive invariant.
\* The inductive invariant of the offline index: the writer, the merger and soft
\* deletion keep every segment directory a function of its rows and every
\* document in its place.
THEOREM InvariantHolds == Spec => []IInv
BY InitIInv, NextIInv, PTL DEF Spec

-----------------------------------------------------------------------------
(* AliveOnce *)

\* A segment has no more rows than there are documents.
LEMMA RowsFit ==
  ASSUME IInv, NEW s \in DOMAIN segs
  PROVE  DOMAIN segs[s].stored \subseteq Docs
<1>1. PICK rows \in Seq(RowT(Docs)) : rows = segs[s].stored
  BY DEF IInv, SegsGood, GoodSeg
<1>2. PICK n \in Nat, N \in Nat : DOMAIN rows = 1 .. n /\ N = NumDocs /\ Docs = 1 .. N
  BY DocsFacts
<1>3. PICK f : f = [i \in 1 .. n |-> rows[i].doc]
  OBVIOUS
<1>4. f \in [1 .. n -> 1 .. N]
  <2>1. \A i \in 1 .. n : rows[i].doc \in 1 .. N
    <3>1. \A i \in 1 .. n : rows[i] \in RowT(Docs)
      BY <1>2
    <3> QED
      BY <1>2, <3>1 DEF RowT
  <2> QED
    BY <1>3, <2>1
<1>5. \A i, j \in 1 .. n : f[i] = f[j] => i = j
  <2> SUFFICES ASSUME NEW i \in 1 .. n, NEW j \in 1 .. n, f[i] = f[j] PROVE i = j
    OBVIOUS
  <2>1. rows[i].doc = rows[j].doc
    BY <1>3
  <2>2. StoredAt(segs, s, i, rows[i].doc) /\ StoredAt(segs, s, j, rows[i].doc)
    BY <1>1, <1>2, <2>1 DEF StoredAt
  <2> QED
    BY <2>2 DEF IInv, Placed
<1>6. f \in Injection(1 .. n, 1 .. N)
  BY <1>4, <1>5 DEF Injection, IsInjective
<1>7. IsFiniteSet(1 .. N) /\ Cardinality(1 .. N) = N /\ Cardinality(1 .. n) = n
  BY FS_Interval
<1>8. n <= N
  BY <1>6, <1>7, FS_Injection
<1> QED
  BY <1>1, <1>2, <1>8

\* AliveOnce is a part of Placed.
LEMMA AliveOnceHolds == IInv => AliveOnce
<1> SUFFICES ASSUME IInv PROVE AliveOnce
  OBVIOUS
<1>1. ASSUME NEW d \in 1 .. total
      PROVE  Cardinality(AliveAt(d)) =
               IF d \in deleted \/ \E i \in DOMAIN buf : buf[i].doc = d THEN 0 ELSE 1
  <2>1. \A at \in AliveAt(d) : at = <<at[1], at[2]>> /\ StoredAt(segs, at[1], at[2], d) /\ at[2] \in segs[at[1]].live
    <3> TAKE at \in AliveAt(d)
    <3>1. at \in (DOMAIN segs) \X Docs /\ at[2] \in segs[at[1]].live /\ segs[at[1]].stored[at[2]].doc = d
      BY DEF AliveAt
    <3>2. segs[at[1]].live \subseteq DOMAIN segs[at[1]].stored
      BY <3>1 DEF IInv, SegsGood, GoodSeg
    <3> QED
      BY <3>1, <3>2 DEF StoredAt
  <2>2. CASE d \in deleted \/ \E i \in DOMAIN buf : buf[i].doc = d
    <3>1. AliveAt(d) = {}
      BY <2>1, <2>2 DEF IInv, Placed
    <3> QED
      BY <2>2, <3>1, FS_EmptySet
  <2>3. CASE ~ (d \in deleted \/ \E i \in DOMAIN buf : buf[i].doc = d)
    <3>1. AliveIn(segs, d)
      BY <2>3 DEF IInv, Placed, InBuffer
    <3>2. PICK s \in DOMAIN segs : \E i \in segs[s].live : StoredAt(segs, s, i, d)
      BY <3>1 DEF AliveIn
    <3>3. PICK i \in segs[s].live : StoredAt(segs, s, i, d)
      BY <3>2
    <3>4. i \in Docs /\ segs[s].stored[i].doc = d
      BY <3>3, RowsFit DEF StoredAt
    <3>5. <<s, i>> \in AliveAt(d)
      BY <3>3, <3>4 DEF AliveAt
    <3>6. \A at \in AliveAt(d) : at = <<s, i>>
      <4> TAKE at \in AliveAt(d)
      <4>1. at[1] = s /\ at[2] = i
        BY <2>1, <3>3 DEF IInv, Placed
      <4> QED
        BY <2>1, <4>1
    <3>7. AliveAt(d) = {<<s, i>>}
      BY <3>5, <3>6
    <3>8. Cardinality({<<s, i>>}) = 1
      BY FS_Singleton
    <3> QED
      BY <2>3, <3>7, <3>8
  <2> QED
    BY <2>2, <2>3
<1>2. ASSUME NEW s \in DOMAIN segs, \E d \in LivingDocs(s) : Tokens(d) # <<>>
      PROVE  Opens(segs[s])
  <2>1. PICK i \in segs[s].live : Tokens(segs[s].stored[i].doc) # <<>>
    BY <1>2 DEF LivingDocs
  <2>2. PICK sch \in Schemas : sch = schema
    BY DEF IInv, Types
  <2>3. PICK seg : seg = segs[s] /\ GoodSeg(Docs, sch, TokensOf[sch], NumbersOf[sch], seg)
    BY <2>2 DEF IInv, SegsGood
  <2>4. i \in DOMAIN seg.stored /\ seg.stored[i].doc \in Docs
    <3>1. PICK rows \in Seq(RowT(Docs)) : rows = seg.stored /\ i \in DOMAIN rows
      BY <2>3 DEF GoodSeg
    <3>2. rows[i] \in RowT(Docs)
      BY <3>1
    <3> QED
      BY <3>1, <3>2 DEF RowT
  <2>5. PICK toks \in Seq(Keyed) : toks = TokensOf[sch][seg.stored[i].doc] /\ toks # <<>>
    BY <2>1, <2>2, <2>3, <2>4, TokensFacts DEF Tokens
  <2>6. toks[1].key \in KeysIn(toks)
    <3>1. 1 \in DOMAIN toks
      BY <2>5
    <3> QED
      BY <3>1 DEF KeysIn
  <2>7. toks[1].key \in DOMAIN seg.lists
    BY <2>3, <2>4, <2>5, <2>6 DEF GoodSeg, GoodLists, HasKey
  <2>8. toks[1].key[1] \in DOMAIN seg.lens
    BY <2>3, <2>7 DEF GoodSeg, FieldsOf
  <2> QED
    BY <2>3, <2>8 DEF Opens, IndexedFields
<1>3. \A s \in loaded : s \in DOMAIN segs /\ live[s] = segs[s].live
  BY DEF IInv, Types
<1> QED
  BY <1>1, <1>2, <1>3 DEF AliveOnce

\* A document that was added is in the buffer, or alive in exactly one segment,
\* or was deleted: a flush, a deletion or a merge loses none, shows none twice
\* and brings none back.
THEOREM AliveOnceAlways == Spec => []AliveOnce
BY InvariantHolds, AliveOnceHolds, PTL

-----------------------------------------------------------------------------
(* SearchExact, FilterExact *)

\* The terms of a document are the keys of its tokens.
LEMMA TermsFacts ==
  ASSUME NEW sch \in Schemas, NEW d \in Docs
  PROVE  TermsOf[sch][d] = KeysIn(TokensOf[sch][d])
<1>1. TermsOf[sch][d] = {t.key : t \in ToSet(TokensOf[sch][d])}
  BY DEF TermsOf
<1> QED
  BY <1>1 DEF ToSet, KeysIn

\* What SearchExact expects of a document is the entry its tokens make.
LEMMA ExpectedFacts ==
  ASSUME NEW sch \in Schemas, NEW d \in Docs, NEW key \in TermsOf[sch][d], NEW p
  PROVE  ExpectedOf[sch][d][key] =
           [doc |-> d, tf |-> Want(sch, p, TokensOf[sch][d], key).tf,
            pos |-> Want(sch, p, TokensOf[sch][d], key).pos]
<1>1. PICK toks \in Seq(Keyed) : toks = TokensOf[sch][d]
  BY TokensFacts
<1>2. PICK S : S = Places(toks, key)
  OBVIOUS
<1>3. S \in SUBSET Nat /\ IsFiniteSet(S)
  BY <1>2, PositionsFacts DEF Places
<1>4. PICK at : at = Picked(toks, S)
  OBVIOUS
<1>5. Len(at) = Cardinality(S)
  BY <1>3, <1>4, PickedFacts
<1>6. ExpectedOf[sch][d] = [k \in TermsOf[sch][d] |->
     LET at2 == Picked(TokensOf[sch][d], {n \in DOMAIN TokensOf[sch][d] : TokensOf[sch][d][n].key = k})
     IN [doc |-> d, tf |-> AtMost(Len(at2), MaxTf),
         pos |-> IF HasPositions(sch, k[1]) THEN [n \in DOMAIN at2 |-> at2[n].pos] ELSE <<>>]]
  BY DEF ExpectedOf
<1>7. ExpectedOf[sch][d][key] =
        [doc |-> d, tf |-> AtMost(Len(at), MaxTf),
         pos |-> IF HasPositions(sch, key[1]) THEN [n \in DOMAIN at |-> at[n].pos] ELSE <<>>]
  <2> DEFINE E(a, k) == [doc |-> d, tf |-> AtMost(Len(a), MaxTf),
                         pos |-> IF HasPositions(sch, k[1]) THEN [n \in DOMAIN a |-> a[n].pos] ELSE <<>>]
             A(k) == Picked(TokensOf[sch][d], {n \in DOMAIN TokensOf[sch][d] : TokensOf[sch][d][n].key = k})
  <2>1. ExpectedOf[sch][d] = [k \in TermsOf[sch][d] |-> E(A(k), k)]
    BY <1>6, Zenon
  <2>2. A(key) = at
    BY <1>1, <1>2, <1>4 DEF Places
  <2> HIDE DEF E, A
  <2>3. ExpectedOf[sch][d][key] = E(at, key)
    BY <2>1, <2>2
  <2> QED
    BY <2>3 DEF E
<1>8. [n \in DOMAIN at |-> at[n].pos] = Positions(toks, S)
  BY <1>4 DEF Positions
<1>9. /\ Want(sch, p, toks, key).tf = AtMost(Cardinality(S), MaxTf)
      /\ Want(sch, p, toks, key).pos = IF HasPositions(sch, key[1]) THEN Positions(toks, S) ELSE <<>>
  BY <1>2 DEF Want
<1> QED
  BY <1>1, <1>5, <1>7, <1>8, <1>9

\* The segments a search answers exactly.
LEMMA ByPositionFacts ==
  ASSUME IInv, NEW s \in ByPosition
  PROVE  /\ s \in DOMAIN segs /\ schema \in Schemas
         /\ GoodSeg(Docs, schema, TokensOf[schema], NumbersOf[schema], segs[s])
         /\ ByPlace(segs[s])
         /\ \A p \in DOMAIN segs[s].stored : segs[s].stored[p].doc \in Docs
         /\ segs[s].live \subseteq DOMAIN segs[s].stored
<1>1. s \in DOMAIN segs /\ (segs[s].merged \/ perSegment) /\ schema \in Schemas
  BY DEF ByPosition, IInv, Types
<1>2. /\ GoodSeg(Docs, schema, TokensOf[schema], NumbersOf[schema], segs[s])
      /\ perSegment => ByPlace(segs[s])
  BY <1>1 DEF IInv, SegsGood
<1>3. ByPlace(segs[s])
  BY <1>1, <1>2 DEF GoodSeg, ByPlace
<1>4. PICK rows \in Seq(RowT(Docs)) : rows = segs[s].stored
  BY <1>2 DEF GoodSeg
<1>5. \A p \in DOMAIN rows : rows[p].doc \in Docs
  <2>1. \A p \in DOMAIN rows : rows[p] \in RowT(Docs)
    OBVIOUS
  <2> QED
    BY <2>1 DEF RowT
<1> QED
  BY <1>1, <1>2, <1>3, <1>4, <1>5 DEF GoodSeg

\* What is found, in terms of the documents.
LEMMA FoundDocs ==
  ASSUME IInv, NEW s \in ByPosition, NEW key, NEW filter
  PROVE  \A p : p \in Found(schema, segs[s], key, filter)
                  <=> /\ p \in segs[s].live /\ p \in DOMAIN segs[s].stored
                      /\ key \in TermsOf[schema][segs[s].stored[p].doc]
                      /\ Passes(schema, NumbersOf[schema], segs[s].stored[p].doc, filter)
<1>1. PICK sch, seg, D, tokens, numbers :
         sch = schema /\ seg = segs[s] /\ D = Docs /\ tokens = TokensOf[sch] /\ numbers = NumbersOf[sch]
  OBVIOUS
<1>2. GoodSeg(D, sch, tokens, numbers, seg) /\ ByPlace(seg) /\ sch \in Schemas
      /\ \A p \in DOMAIN seg.stored : seg.stored[p].doc \in D
  BY <1>1, ByPositionFacts
<1>3. \A p : p \in Found(sch, seg, key, filter) <=> Hit(sch, tokens, numbers, seg, key, filter, p)
  BY <1>2, FoundFacts
<1>4. \A p \in DOMAIN seg.stored : TermsOf[sch][seg.stored[p].doc] = KeysIn(tokens[seg.stored[p].doc])
  BY <1>1, <1>2, TermsFacts
<1> QED
  BY <1>1, <1>3, <1>4 DEF Hit

\* The filter of an unfiltered search.
LEMMA AnyNumberPasses ==
  ASSUME NEW sch, NEW numbers, NEW d
  PROVE  Passes(sch, numbers, d, AnyNumber)
<1>1. AnyNumber.ranged = FALSE /\ AnyNumber.uid = -1
  BY DEF AnyNumber
<1>2. ~ (-1 >= 0)
  OBVIOUS
<1> QED
  BY <1>1, <1>2 DEF Passes

\* It follows from GoodSeg where doc_ids are positions.
LEMMA SearchExactHolds == IInv => SearchExact
<1> SUFFICES ASSUME IInv, NEW s \in ByPosition, NEW key \in Keys
             PROVE  Shown(s, key) = {ExpectedOf[schema][d][key] : d \in Having(s, key)}
  BY DEF SearchExact
<1>1. PICK sch, seg, tokens : sch = schema /\ seg = segs[s] /\ tokens = TokensOf[sch]
  OBVIOUS
<1>2. PICK numbers : numbers = NumbersOf[sch]
  OBVIOUS
<1>3. /\ GoodSeg(Docs, sch, tokens, numbers, seg) /\ ByPlace(seg) /\ sch \in Schemas
      /\ seg.live \subseteq DOMAIN seg.stored
      /\ \A p \in DOMAIN seg.stored : seg.stored[p].doc \in Docs
  BY <1>1, <1>2, ByPositionFacts
<1>4. PICK found : found = Found(sch, seg, key, AnyNumber)
  OBVIOUS
<1>5. \A p : p \in found <=> p \in seg.live /\ key \in TermsOf[sch][seg.stored[p].doc]
  BY <1>1, <1>3, <1>4, FoundDocs, AnyNumberPasses
<1>6. ASSUME NEW p \in found
      PROVE  [doc |-> ReadStoredDoc(seg, p).doc, tf |-> Posting(seg, key, p).tf,
              pos |-> Posting(seg, key, p).pos] = ExpectedOf[sch][seg.stored[p].doc][key]
  <2>1. p \in DOMAIN seg.stored /\ key \in TermsOf[sch][seg.stored[p].doc]
    BY <1>3, <1>5
  <2>2. PICK d \in Docs : d = seg.stored[p].doc
    BY <1>3, <2>1
  <2>3. PICK w : w = Want(sch, p, tokens[d], key)
    OBVIOUS
  <2>4. key \in KeysIn(tokens[d])
    BY <1>1, <1>3, <2>1, <2>2, TermsFacts
  <2>5. PICK D : D = Docs
    OBVIOUS
  <2>6. GoodSeg(D, sch, tokens, numbers, seg)
    BY <1>3, <2>5
  <2>7. Posting(seg, key, p) = w
    BY <1>3, <2>1, <2>2, <2>3, <2>4, <2>6, PostingFacts
  <2>8. ExpectedOf[sch][d][key] = [doc |-> d, tf |-> w.tf, pos |-> w.pos]
    <3>1. key \in TermsOf[sch][d] /\ sch \in Schemas
      BY <1>3, <2>1, <2>2
    <3>2. ExpectedOf[sch][d][key] =
            [doc |-> d, tf |-> Want(sch, p, TokensOf[sch][d], key).tf,
             pos |-> Want(sch, p, TokensOf[sch][d], key).pos]
      BY <3>1, ExpectedFacts, Zenon
    <3> QED
      BY <1>1, <2>3, <3>2
  <2>9. ReadStoredDoc(seg, p).doc = d
    BY <2>1, <2>2 DEF ReadStoredDoc
  <2> QED
    BY <2>2, <2>7, <2>8, <2>9
<1>7. Shown(s, key) = {[doc |-> ReadStoredDoc(seg, p).doc, tf |-> Posting(seg, key, p).tf,
                        pos |-> Posting(seg, key, p).pos] : p \in found}
  BY <1>1, <1>4 DEF Shown
<1>8. Having(s, key) = {d \in {seg.stored[i].doc : i \in seg.live} : key \in TermsOf[sch][d]}
  BY <1>1 DEF Having, LivingDocs
<1>9. Having(s, key) = {seg.stored[p].doc : p \in found}
  BY <1>5, <1>8
<1>10. {ExpectedOf[sch][d][key] : d \in Having(s, key)} = {ExpectedOf[sch][seg.stored[p].doc][key] : p \in found}
  BY <1>9
<1> DEFINE show(p) == [doc |-> ReadStoredDoc(seg, p).doc, tf |-> Posting(seg, key, p).tf,
                       pos |-> Posting(seg, key, p).pos]
           expected(p) == ExpectedOf[sch][seg.stored[p].doc][key]
<1>11. \A p \in found : show(p) = expected(p)
  BY <1>6
<1>12. Shown(s, key) = {show(p) : p \in found}
  BY <1>7
<1>13. {ExpectedOf[sch][d][key] : d \in Having(s, key)} = {expected(p) : p \in found}
  BY <1>10
<1> HIDE DEF show, expected
<1>14. {show(p) : p \in found} = {expected(p) : p \in found}
  BY <1>11
<1> QED
  BY <1>1, <1>12, <1>13, <1>14

\* So does this, from the columns.
LEMMA FilterExactHolds == IInv => FilterExact
<1> SUFFICES ASSUME IInv, NEW s \in ByPosition, NEW key \in Keys, NEW filter \in Filters
             PROVE  {ReadStoredDoc(segs[s], id).doc : id \in Found(schema, segs[s], key, filter)} =
                      {d \in Having(s, key) :
                         LET Number(name) == IF name \in DOMAIN Numbers(d) THEN Numbers(d)[name] ELSE 0
                         IN /\ filter.ranged => Number("pubtime") \in filter.lo .. filter.hi
                            /\ filter.uid >= 0 => Number("uid") = filter.uid}
  BY DEF FilterExact
<1>1. PICK sch, seg, numbers : sch = schema /\ seg = segs[s] /\ numbers = NumbersOf[sch]
  OBVIOUS
<1>2. /\ sch \in Schemas /\ seg.live \subseteq DOMAIN seg.stored
      /\ \A p \in DOMAIN seg.stored : seg.stored[p].doc \in Docs
  BY <1>1, ByPositionFacts
<1>3. PICK found : found = Found(sch, seg, key, filter)
  OBVIOUS
<1>4. \A p : p \in found <=> /\ p \in seg.live /\ key \in TermsOf[sch][seg.stored[p].doc]
                             /\ Passes(sch, numbers, seg.stored[p].doc, filter)
  BY <1>1, <1>2, <1>3, FoundDocs
<1>5. \A p \in found : ReadStoredDoc(seg, p).doc = seg.stored[p].doc
  BY <1>2, <1>4 DEF ReadStoredDoc
<1>6. Having(s, key) = {d \in {seg.stored[i].doc : i \in seg.live} : key \in TermsOf[sch][d]}
  BY <1>1 DEF Having, LivingDocs
<1>7. \A d \in Docs : \A name :
        (IF name \in DOMAIN Numbers(d) THEN Numbers(d)[name] ELSE 0) = NumberOf(sch, numbers, d, name)
  <2> TAKE d \in Docs
  <2>1. Numbers(d) = Row(sch, Content[d].fields) /\ numbers[d] = Row(sch, Content[d].fields)
    BY <1>1, <1>2 DEF Numbers, NumbersOf
  <2>2. DOMAIN Row(sch, Content[d].fields) = FastNames(sch)
    BY DEF Row, FastNames
  <2> QED
    BY <2>1, <2>2 DEF NumberOf
<1>8. \A d \in Docs :
        (LET Number(name) == IF name \in DOMAIN Numbers(d) THEN Numbers(d)[name] ELSE 0
         IN /\ filter.ranged => Number("pubtime") \in filter.lo .. filter.hi
            /\ filter.uid >= 0 => Number("uid") = filter.uid)
        <=> Passes(sch, numbers, d, filter)
  BY <1>7 DEF Passes
<1>9. {ReadStoredDoc(seg, p).doc : p \in found} = {seg.stored[p].doc : p \in found}
  BY <1>5
<1>10. Having(s, key) \subseteq Docs
  BY <1>2, <1>6
<1>11. {d \in Having(s, key) : Passes(sch, numbers, d, filter)} = {seg.stored[p].doc : p \in found}
  BY <1>4, <1>6
<1> QED
  BY <1>1, <1>3, <1>8, <1>9, <1>10, <1>11

-----------------------------------------------------------------------------
(* PositionsDistinct *)

\* A position of a posting is that of a token.
LEMMA PositionsFrom ==
  ASSUME NEW toks \in Seq(Keyed), NEW key, NEW x \in ToSet(Positions(toks, Places(toks, key)))
  PROVE  \E n \in DOMAIN toks : toks[n].key = key /\ toks[n].pos = x
<1>1. PICK S : S = Places(toks, key)
  OBVIOUS
<1>2. S \in SUBSET Nat /\ IsFiniteSet(S)
  BY <1>1, PositionsFacts DEF Places
<1>3. PICK at, o : at = Picked(toks, S) /\ o = InOrder(S)
  OBVIOUS
<1>4. \A j \in DOMAIN at : o[j] \in S /\ at[j] = toks[o[j]]
  BY <1>2, <1>3, PickedFacts
<1>5. PICK j \in DOMAIN at : x = at[j].pos
  BY <1>1, <1>3 DEF Positions, ToSet
<1> QED
  BY <1>1, <1>4, <1>5 DEF Places

\* And this, from the positions of a document's tokens.
LEMMA PositionsDistinctHolds == IInv => PositionsDistinct
<1> SUFFICES ASSUME IInv, NEW s \in ByPosition, NEW i \in segs[s].live,
                    NEW k1 \in DOMAIN segs[s].lists, NEW k2 \in DOMAIN segs[s].lists,
                    \E e \in ToSet(segs[s].lists[k1]) : e.id = i,
                    \E e \in ToSet(segs[s].lists[k2]) : e.id = i,
                    NEW x, x \in ToSet(Posting(segs[s], k1, i).pos), x \in ToSet(Posting(segs[s], k2, i).pos)
             PROVE  k1 = k2
  BY DEF PositionsDistinct
<1>1. PICK sch, seg, tokens : sch = schema /\ seg = segs[s] /\ tokens = TokensOf[sch]
  OBVIOUS
<1>2. PICK numbers, D : numbers = NumbersOf[sch] /\ D = Docs
  OBVIOUS
<1>3. /\ GoodSeg(D, sch, tokens, numbers, seg) /\ ByPlace(seg) /\ sch \in Schemas
      /\ i \in DOMAIN seg.stored /\ seg.stored[i].doc \in Docs
  BY <1>1, <1>2, ByPositionFacts
<1>4. PICK toks \in Seq(Keyed) : toks = tokens[seg.stored[i].doc]
  BY <1>1, <1>3, TokensFacts
<1>5. ASSUME NEW key \in DOMAIN seg.lists, \E e \in ToSet(seg.lists[key]) : e.id = i,
             x \in ToSet(Posting(seg, key, i).pos)
      PROVE  \E n \in DOMAIN toks : toks[n].key = key /\ toks[n].pos = x
  <2>1. PICK e : InSeq(seg.lists[key], e) /\ e.id = i
    BY <1>5 DEF ToSet, InSeq
  <2>2. GoodList(sch, seg.stored, tokens, key, seg.lists[key])
    BY <1>3 DEF GoodSeg, GoodLists
  <2>3. PICK p \in DOMAIN seg.stored : Wanted(sch, seg.stored, tokens, p, key, e)
    BY <2>1, <2>2 DEF GoodList
  <2>4. e.id = p /\ key \in KeysIn(tokens[seg.stored[p].doc])
    BY <1>3, <2>3 DEF Wanted, Want, ByPlace
  <2>5. Posting(seg, key, i) = Want(sch, i, toks, key)
    BY <1>3, <1>4, <2>1, <2>4, PostingFacts
  <2>6. PICK w : w = Posting(seg, key, i) /\ x \in ToSet(w.pos)
    BY <1>5
  <2>7. w.pos = IF HasPositions(sch, key[1]) THEN Positions(toks, Places(toks, key)) ELSE <<>>
    BY <2>5, <2>6 DEF Want
  <2>8. CASE HasPositions(sch, key[1])
    <3>1. x \in ToSet(Positions(toks, Places(toks, key)))
      BY <2>6, <2>7, <2>8
    <3> QED
      BY <3>1, PositionsFrom
  <2>9. CASE ~ HasPositions(sch, key[1])
    <3>1. DOMAIN w.pos = {}
      BY <2>7, <2>9
    <3> QED
      BY <2>6, <3>1 DEF ToSet
  <2> QED
    BY <2>8, <2>9
<1>6. PICK n1 \in DOMAIN toks : toks[n1].key = k1 /\ toks[n1].pos = x
  BY <1>1, <1>5
<1>7. PICK n2 \in DOMAIN toks : toks[n2].key = k2 /\ toks[n2].pos = x
  BY <1>1, <1>5
<1>8. n1 = n2
  BY <1>1, <1>3, <1>4, <1>6, <1>7, TokensFacts
<1> QED
  BY <1>6, <1>7, <1>8

-----------------------------------------------------------------------------
(* LengthsExact *)

\* The length LengthsExact expects, as a count of tokens.
LEMMA LengthsOfIs ==
  ASSUME NEW sch \in Schemas, NEW d \in Docs, NEW e \in Docs, NEW key \in KeysIn(TokensOf[sch][e])
  PROVE  LengthsOf[sch][d][key[1]] = AtMost(CountIn(TokensOf[sch][d], key[1]), MaxLen)
<1>1. PICK fields : fields = {k[1] : k \in UNION {TermsOf[sch][x] : x \in Docs}}
  OBVIOUS
<1>2. key[1] \in fields
  BY <1>1, TermsFacts
<1>3. LengthsOf[sch] = [x \in Docs |-> [field \in fields |->
        AtMost(Cardinality({n \in DOMAIN TokensOf[sch][x] : TokensOf[sch][x][n].key[1] = field}), MaxLen)]]
  BY <1>1 DEF LengthsOf
<1>4. LengthsOf[sch] = [x \in Docs |-> [field \in fields |-> AtMost(CountIn(TokensOf[sch][x], field), MaxLen)]]
  BY <1>3, Zenon DEF CountIn
<1> QED
  BY <1>2, <1>4

\* LengthsExact is LensGood, which IInv has of every segment.
LEMMA LengthsExactHolds == IInv => LengthsExact
<1> SUFFICES ASSUME IInv, perSegment, NEW s \in DOMAIN segs, NEW key \in DOMAIN segs[s].lists,
                    NEW i \in segs[s].live
             PROVE  DocLen(segs[s], key[1], segs[s].stored[i].id) =
                      LengthsOf[schema][segs[s].stored[i].doc][key[1]]
  BY DEF LengthsExact
<1>1. PICK sch, seg, tokens : sch = schema /\ seg = segs[s] /\ tokens = TokensOf[sch]
  OBVIOUS
<1>2. PICK numbers, D : numbers = NumbersOf[sch] /\ D = Docs
  OBVIOUS
<1>3. s \in ByPosition
  BY DEF ByPosition
<1>4. /\ GoodSeg(D, sch, tokens, numbers, seg) /\ ByPlace(seg) /\ sch \in Schemas
      /\ i \in DOMAIN seg.stored /\ \A p \in DOMAIN seg.stored : seg.stored[p].doc \in Docs
  BY <1>1, <1>2, <1>3, ByPositionFacts
<1>5. LensGood(tokens, seg)
  BY <1>1 DEF IInv, SegsGood
<1>6. PICK d \in Docs : d = seg.stored[i].doc
  BY <1>4
<1>7. DocLen(seg, key[1], seg.stored[i].id) = AtMost(CountIn(tokens[d], key[1]), MaxLen)
  BY <1>4, <1>5, <1>6 DEF LensGood, ByPlace
<1>8. PICK p \in DOMAIN seg.stored : key \in KeysIn(tokens[seg.stored[p].doc])
  BY <1>1, <1>4 DEF GoodSeg, GoodLists, HasKey
<1>9. LengthsOf[sch][d][key[1]] = AtMost(CountIn(tokens[d], key[1]), MaxLen)
  BY <1>1, <1>4, <1>6, <1>8, LengthsOfIs
<1> QED
  BY <1>1, <1>6, <1>7, <1>9

\* When the caller numbers by position, the length a scorer reads is the number
\* of tokens of the living document in the field, saturated as .len holds it.
THEOREM LengthsExactAlways == Spec => []LengthsExact
BY InvariantHolds, LengthsExactHolds, PTL

\* A search for a term finds the living documents that have it, and shows each
\* with its own stored fields, tf and positions, after any flushes and merges.
THEOREM SearchExactAlways == Spec => []SearchExact
BY InvariantHolds, SearchExactHolds, PTL

\* A filtered search finds the living documents whose own numbers pass: a
\* column keeps in step with the documents through flushes and merges.
THEOREM FilterExactAlways == Spec => []FilterExact
BY InvariantHolds, FilterExactHolds, PTL

\* Of any two terms of a document in a segment the positions are disjoint, so a
\* phrase never takes one token for two.
THEOREM PositionsDistinctAlways == Spec => []PositionsDistinct
BY InvariantHolds, PositionsDistinctHolds, PTL

-----------------------------------------------------------------------------
(* QueryExact *)

\* The words of a text that count.
Counted(words) == {v \in ToSet(words) : v \notin StopWords /\ Stem[v] # ""}

\* The terms of a text are the stems of its words that count.
LEMMA AnalyzeQueryFacts ==
  ASSUME NEW X, NEW words \in Seq(X)
  PROVE  AnalyzeQuery(words) = {<<Stem[v]>> : v \in Counted(words)}
<1>1. PICK N \in Nat : DOMAIN words = 1 .. N /\ IsFiniteSet(1 .. N)
  BY FS_Interval
<1>2. PICK S : S = {i \in DOMAIN words : words[i] \notin StopWords /\ Stem[words[i]] # ""}
  OBVIOUS
<1>3. S \in SUBSET Nat /\ IsFiniteSet(S)
  <2>1. S \subseteq 1 .. N
    <3>1. S \subseteq DOMAIN words
      BY <1>2, Zenon
    <3> QED
      BY <1>1, <3>1
  <2>2. IsFiniteSet(S)
    BY <1>1, <2>1, FS_Subset
  <2>3. \A i \in S : i \in Nat
    BY <2>1
  <2> QED
    BY <2>2, <2>3
<1>4. PICK kept, o : kept = Picked(words, S) /\ o = InOrder(S)
  OBVIOUS
<1>5. /\ \A n \in DOMAIN kept : o[n] \in S /\ kept[n] = words[o[n]]
      /\ DOMAIN o = DOMAIN kept /\ \A i \in S : InSeq(o, i)
  BY <1>3, <1>4, PickedFacts
<1>6. PICK a : a = Analyze(words)
  OBVIOUS
<1>7. a = [i \in DOMAIN kept |-> [term |-> <<Stem[kept[i]]>>, pos |-> i - 1]]
  BY <1>2, <1>4, <1>6 DEF Analyze
<1>8. AnalyzeQuery(words) = {a[i].term : i \in DOMAIN a}
  BY <1>6 DEF AnalyzeQuery, ToSet
<1>9. DOMAIN a = DOMAIN kept /\ \A i \in DOMAIN kept : a[i].term = <<Stem[kept[i]]>>
  BY <1>7
<1>10. \A v : v \in Counted(words) <=> \E n \in DOMAIN kept : v = kept[n]
  <2> TAKE v
  <2>1. v \in Counted(words) <=> \E i \in S : v = words[i]
    BY <1>2 DEF Counted, ToSet
  <2>2. (\E i \in S : v = words[i]) => \E n \in DOMAIN kept : v = kept[n]
    BY <1>5 DEF InSeq
  <2> QED
    BY <1>5, <2>1, <2>2
<1>11. \A t : t \in AnalyzeQuery(words) <=> \E n \in DOMAIN kept : t = <<Stem[kept[n]]>>
  BY <1>8, <1>9
<1> QED
  BY <1>10, <1>11

\* What a token of the query asks: its words, and how they shall occur.
LEMMA ParseTokenFacts ==
  ASSUME NEW tok, tok.parts \in Seq(Seq(STRING)), NEW default
  PROVE  /\ ParseToken(tok, default).words \in Seq(STRING)
         /\ ParseToken(tok, default).occur \in {"MUST", "MUST_NOT", default}
         /\ tok.sign # "-" => ParseToken(tok, default).occur \in {"MUST", default}
<1>1. PICK parts \in Seq(Seq(STRING)) : parts = tok.parts
  OBVIOUS
<1>2. PICK q \in BOOLEAN : q = (Len(parts) = 2 /\ \A i \in 1 .. 2 : parts[i] # <<>>)
  OBVIOUS
<1>3. PICK pt : pt = ParseToken(tok, default)
  OBVIOUS
<1>4. pt = [occur |-> CASE tok.sign = "+" -> "MUST"
                        [] tok.sign = "-" -> "MUST_NOT"
                        [] OTHER          -> default,
            field |-> IF q THEN Head(parts[1]) ELSE "",
            words |-> IF q THEN parts[2] ELSE FlattenSeq(parts)]
  BY <1>1, <1>2, <1>3 DEF ParseToken
<1>5. pt.words = IF q THEN parts[2] ELSE FlattenSeq(parts)
  BY <1>4
<1>6. FlattenSeq(parts) \in Seq(STRING)
  <2>1. PICK X : X = STRING
    OBVIOUS
  <2>2. parts \in Seq(Seq(X))
    BY <2>1
  <2>3. FlattenSeq(parts) \in Seq(X)
    BY <2>2, FlattenFacts
  <2> QED
    BY <2>1, <2>3
<1>7. q => parts[2] \in Seq(STRING)
  <2>1. q => Len(parts) = 2
    BY <1>2, Zenon
  <2>2. Len(parts) = 2 => 2 \in DOMAIN parts
    OBVIOUS
  <2> QED
    BY <2>1, <2>2
<1>8. pt.occur = CASE tok.sign = "+" -> "MUST" [] tok.sign = "-" -> "MUST_NOT" [] OTHER -> default
  BY <1>4
<1>9. pt.words \in Seq(STRING)
  BY <1>5, <1>6, <1>7
<1> QED
  BY <1>3, <1>8, <1>9

\* Whether terms satisfy a clause, and whether they have a word.
Meets(terms, c) == \E key \in c.keys : key \in terms
HasIn(terms, field, w) == \E key \in terms : key[2] = <<Stem[w]>> /\ field \in {"", key[1]}

\* The clauses of one word of the query, in the fields F when it is bare.
WordClauses(C, terms, pt, w, F) ==
  /\ C # {} /\ \A c \in C : c.occur = pt.occur
  /\ \A c \in C : Meets(terms, c) => HasIn(terms, pt.field, w)
  /\ HasIn(terms, pt.field, w) /\ (\A key \in terms : key[1] \in F)
       => /\ \E c \in C : Meets(terms, c)
          /\ pt.occur # "SHOULD" => \A c \in C : Meets(terms, c)

\* A word's clauses over the fields F: what meeting one says of the word, and
\* when a document that has the word meets them.
LEMMA ClausesFacts ==
  ASSUME NEW terms \in SUBSET KeyT, NEW pt, NEW w, NEW F, F # {},
         NEW C, C = ClausesFor(pt, <<Stem[w]>>, F)
  PROVE  WordClauses(C, terms, pt, w, F)
<1>1. PICK t, field, occur : t = <<Stem[w]>> /\ field = pt.field /\ occur = pt.occur
  OBVIOUS
<1>2. \A key \in terms : key = <<key[1], key[2]>>
  BY DEF KeyT
<1>3. CASE field # ""
  <2>1. C = {[occur |-> occur, keys |-> {<<field, t>>}]}
    BY <1>1, <1>3 DEF ClausesFor
  <2>2. \A c \in C : c.occur = occur /\ (Meets(terms, c) <=> <<field, t>> \in terms)
    BY <2>1 DEF Meets
  <2>3. HasIn(terms, field, w) <=> <<field, t>> \in terms
    BY <1>1, <1>2, <1>3 DEF HasIn
  <2> QED
    BY <1>1, <2>1, <2>2, <2>3 DEF WordClauses
<1>4. CASE field = "" /\ occur = "SHOULD"
  <2>1. C = {[occur |-> "SHOULD", keys |-> {<<f, t>>}] : f \in F}
    BY <1>1, <1>4 DEF ClausesFor
  <2>2. \A c \in C : c.occur = occur /\ \E f \in F : (Meets(terms, c) <=> <<f, t>> \in terms)
    <3> TAKE c \in C
    <3>1. PICK f \in F : c = [occur |-> "SHOULD", keys |-> {<<f, t>>}]
      BY <2>1
    <3>2. c.occur = "SHOULD" /\ c.keys = {<<f, t>>}
      BY <3>1
    <3> QED
      BY <1>4, <3>2 DEF Meets
  <2>3. HasIn(terms, field, w) <=> \E key \in terms : key[2] = t
    BY <1>1, <1>4 DEF HasIn
  <2>4. \A f \in F : \E c \in C : Meets(terms, c) <=> <<f, t>> \in terms
    <3> TAKE f \in F
    <3>1. PICK c : c = [occur |-> "SHOULD", keys |-> {<<f, t>>}]
      OBVIOUS
    <3>2. c \in C /\ c.keys = {<<f, t>>}
      BY <2>1, <3>1
    <3> QED
      BY <3>2 DEF Meets
  <2>5. C # {}
    BY <2>1
  <2>6. \A c \in C : Meets(terms, c) => HasIn(terms, field, w)
    BY <2>2, <2>3
  <2>7. HasIn(terms, field, w) /\ (\A key \in terms : key[1] \in F) => \E c \in C : Meets(terms, c)
    BY <1>2, <2>3, <2>4
  <2> QED
    BY <1>1, <1>4, <2>2, <2>5, <2>6, <2>7 DEF WordClauses
<1>5. CASE field = "" /\ occur # "SHOULD"
  <2>1. C = {[occur |-> occur, keys |-> {<<f, t>> : f \in F}]}
    BY <1>1, <1>5 DEF ClausesFor
  <2>2. \A c \in C : c.occur = occur /\ (Meets(terms, c) <=> \E f \in F : <<f, t>> \in terms)
    <3> TAKE c \in C
    <3>1. c.occur = occur /\ c.keys = {<<f, t>> : f \in F}
      BY <2>1
    <3> QED
      BY <3>1 DEF Meets
  <2>3. HasIn(terms, field, w) <=> \E key \in terms : key[2] = t
    BY <1>1, <1>5 DEF HasIn
  <2>4. (\E f \in F : <<f, t>> \in terms) => HasIn(terms, field, w)
    BY <2>3
  <2>5. HasIn(terms, field, w) /\ (\A key \in terms : key[1] \in F) => \E f \in F : <<f, t>> \in terms
    BY <1>2, <2>3
  <2> QED
    BY <1>1, <2>1, <2>2, <2>4, <2>5 DEF WordClauses
<1> QED
  BY <1>3, <1>4, <1>5

\* A word the query asks for.
Asks(query, default, pt, w) ==
  \E tok \in ToSet(query) : pt = ParseToken(tok, default) /\ w \in Counted(pt.words)

\* The clauses of a query are those of its words.
LEMMA ParseFacts ==
  ASSUME NEW query, \A tok \in ToSet(query) : tok.parts \in Seq(Seq(STRING)), NEW default, NEW F
  PROVE  /\ \A c : c \in Parse(query, default, F)
              <=> \E pt, w : Asks(query, default, pt, w) /\ c \in ClausesFor(pt, <<Stem[w]>>, F)
         /\ \A pt, w : Asks(query, default, pt, w) =>
              /\ pt.occur \in {"MUST", "MUST_NOT", default}
              /\ (\A tok \in ToSet(query) : tok.sign # "-") => pt.occur \in {"MUST", default}
<1>1. \A tok \in ToSet(query) :
        /\ AnalyzeQuery(ParseToken(tok, default).words)
             = {<<Stem[v]>> : v \in Counted(ParseToken(tok, default).words)}
        /\ ParseToken(tok, default).occur \in {"MUST", "MUST_NOT", default}
        /\ tok.sign # "-" => ParseToken(tok, default).occur \in {"MUST", default}
  BY ParseTokenFacts, AnalyzeQueryFacts
<1> DEFINE Of(tok) == UNION {ClausesFor(ParseToken(tok, default), term, F) :
                               term \in AnalyzeQuery(ParseToken(tok, default).words)}
<1>2. Parse(query, default, F) = UNION {Of(tok) : tok \in ToSet(query)}
  BY Zenon DEF Parse
<1>3. \A tok \in ToSet(query) : \A c : c \in Of(tok)
        <=> \E w \in Counted(ParseToken(tok, default).words) :
              c \in ClausesFor(ParseToken(tok, default), <<Stem[w]>>, F)
  <2> TAKE tok \in ToSet(query)
  <2>1. PICK pt, K : pt = ParseToken(tok, default) /\ K = Counted(pt.words)
    OBVIOUS
  <2>2. Of(tok) = UNION {ClausesFor(pt, term, F) : term \in {<<Stem[v]>> : v \in K}}
    BY <1>1, <2>1
  <2> QED
    <3>1. \A c : c \in Of(tok) <=> \E w \in K : c \in ClausesFor(pt, <<Stem[w]>>, F)
      BY <2>2
    <3> HIDE DEF Of
    <3> QED
      BY <2>1, <3>1
<1> HIDE DEF Of
<1>4. \A c : c \in Parse(query, default, F)
        <=> \E pt, w : Asks(query, default, pt, w) /\ c \in ClausesFor(pt, <<Stem[w]>>, F)
  BY <1>2, <1>3 DEF Asks
<1> QED
  BY <1>1, <1>4 DEF Asks

\* The documents createScorer's scorers walk, when H are the clauses one meets.
LEMMA MatchingFacts ==
  ASSUME NEW clauses, NEW docs, NEW p, NEW H, \A c \in clauses : c \in H <=> \E key \in c.keys : p \in docs[key]
  PROVE  p \in Matching(clauses, docs)
           <=> /\ \A c \in clauses : /\ c.occur = "MUST" => c \in H
                                     /\ c.occur = "MUST_NOT" => c \notin H
               /\ \E c \in clauses : /\ c \in H
                                     /\ c.occur = "MUST" \/ (c.occur = "SHOULD" /\ \A x \in clauses : x.occur # "MUST")
<1> DEFINE Of(c) == UNION {docs[key] : key \in c.keys}
           All(occur) == UNION {Of(c) : c \in {x \in clauses : x.occur = occur}}
           must == {c \in clauses : c.occur = "MUST"}
<1>1. Matching(clauses, docs) =
        {id \in All(IF must = {} THEN "SHOULD" ELSE "MUST") :
           (\A c \in must : id \in Of(c)) /\ id \notin All("MUST_NOT")}
  BY Zenon DEF Matching
<1>2. \A c \in clauses : p \in Of(c) <=> c \in H
  OBVIOUS
<1> HIDE DEF Of
<1>3. \A occur : p \in All(occur) <=> \E c \in clauses : c.occur = occur /\ c \in H
  BY <1>2
<1>4. p \in Matching(clauses, docs)
        <=> /\ p \in All(IF must = {} THEN "SHOULD" ELSE "MUST")
            /\ \A c \in must : p \in Of(c)
            /\ p \notin All("MUST_NOT")
  BY <1>1
<1>5. (\A c \in must : p \in Of(c)) <=> \A c \in clauses : c.occur = "MUST" => c \in H
  BY <1>2
<1>6. must = {} <=> \A x \in clauses : x.occur # "MUST"
  OBVIOUS
<1> HIDE DEF All, must
<1>7. CASE must = {}
  <2>1. p \in All(IF must = {} THEN "SHOULD" ELSE "MUST") <=> p \in All("SHOULD")
    BY <1>7
  <2> QED
    BY <1>3, <1>4, <1>5, <1>6, <1>7, <2>1
<1>8. CASE must # {}
  <2>1. p \in All(IF must = {} THEN "SHOULD" ELSE "MUST") <=> p \in All("MUST")
    BY <1>8
  <2>2. \E x \in clauses : x.occur = "MUST"
    BY <1>6, <1>8
  <2> QED
    BY <1>3, <1>4, <1>5, <1>8, <2>1, <2>2
<1> QED
  BY <1>7, <1>8

\* What a reader of the query means, without its sets.
Means(terms, query, default) ==
  /\ \A pt, w : Asks(query, default, pt, w) =>
       /\ pt.occur = "MUST" => HasIn(terms, pt.field, w)
       /\ pt.occur = "MUST_NOT" => ~ HasIn(terms, pt.field, w)
  /\ (\A pt, w : Asks(query, default, pt, w) => pt.occur # "MUST")
       => \E pt, w : Asks(query, default, pt, w) /\ pt.occur = "SHOULD" /\ HasIn(terms, pt.field, w)

\* Satisfies, as quantifiers over the words.
LEMMA SatisfiesMeans ==
  ASSUME NEW d, NEW query, NEW default
  PROVE  Satisfies(d, query, default) <=> Means(TermsOf[schema][d], query, default)
<1>1. PICK terms : terms = TermsOf[schema][d]
  OBVIOUS
<1> DEFINE Asked(pt) == {[occur |-> pt.occur, has |-> HasWord(d, pt.field, w)] : w \in Counted(pt.words)}
           asked == UNION {Asked(ParseToken(tok, default)) : tok \in ToSet(query)}
           Ones(o) == {a \in asked : a.occur = o}
<1>2. Satisfies(d, query, default)
        <=> /\ \A a \in Ones("MUST") : a.has
            /\ \A a \in Ones("MUST_NOT") : ~a.has
            /\ Ones("MUST") = {} => \E a \in Ones("SHOULD") : a.has
  BY Zenon DEF Satisfies, Counted
<1>3. \A a : a \in asked <=> \E pt, w : /\ Asks(query, default, pt, w)
                                         /\ a = [occur |-> pt.occur, has |-> HasWord(d, pt.field, w)]
  BY DEF Asks
<1>4. \A field, w : HasWord(d, field, w) <=> HasIn(terms, field, w)
  BY <1>1 DEF HasWord, HasIn
<1> HIDE DEF asked
<1>9. \A pt, w : Asks(query, default, pt, w)
        => \E a \in asked : a.occur = pt.occur /\ (a.has <=> HasIn(terms, pt.field, w))
  <2> TAKE pt, w
  <2> HAVE Asks(query, default, pt, w)
  <2>1. PICK h \in BOOLEAN : h = HasWord(d, pt.field, w)
    BY DEF HasWord
  <2>2. PICK a : a = [occur |-> pt.occur, has |-> h]
    OBVIOUS
  <2>3. a \in asked
    BY <1>3, <2>1, <2>2
  <2>4. a.occur = pt.occur /\ (a.has <=> h)
    BY <2>1, <2>2
  <2> QED
    BY <1>4, <2>1, <2>3, <2>4
<1>10. \A a \in asked : \E pt, w : /\ Asks(query, default, pt, w) /\ a.occur = pt.occur
                                   /\ (a.has <=> HasIn(terms, pt.field, w))
  <2> TAKE a \in asked
  <2>1. PICK pt, w : Asks(query, default, pt, w) /\ a = [occur |-> pt.occur, has |-> HasWord(d, pt.field, w)]
    BY <1>3
  <2>2. PICK h \in BOOLEAN : h = HasWord(d, pt.field, w)
    BY DEF HasWord
  <2>3. a = [occur |-> pt.occur, has |-> h]
    BY <2>1, <2>2
  <2>4. a.occur = pt.occur /\ (a.has <=> h)
    BY <2>2, <2>3
  <2> QED
    BY <1>4, <2>1, <2>2, <2>4
<1>5. \A o : (\A a \in Ones(o) : a.has)
        <=> \A pt, w : Asks(query, default, pt, w) /\ pt.occur = o => HasIn(terms, pt.field, w)
  BY <1>9, <1>10, Zenon
<1>6. \A o : (\A a \in Ones(o) : ~a.has)
        <=> \A pt, w : Asks(query, default, pt, w) /\ pt.occur = o => ~ HasIn(terms, pt.field, w)
  BY <1>9, <1>10, Zenon
<1>7. Ones("MUST") = {} <=> \A pt, w : Asks(query, default, pt, w) => pt.occur # "MUST"
  <2>1. Ones("MUST") = {} <=> \A a \in asked : a.occur # "MUST"
    OBVIOUS
  <2>2. (\A a \in asked : a.occur # "MUST")
          <=> \A pt, w : Asks(query, default, pt, w) => pt.occur # "MUST"
    <3> HIDE DEF Ones
    <3>1. \A pt, w : Asks(query, default, pt, w) => \E a \in asked : a.occur = pt.occur
      BY <1>9, Zenon
    <3>2. \A a \in asked : \E pt, w : Asks(query, default, pt, w) /\ a.occur = pt.occur
      BY <1>10, Zenon
    <3> QED
      BY <3>1, <3>2
  <2> QED
    BY <2>1, <2>2
<1>8. (\E a \in Ones("SHOULD") : a.has)
        <=> \E pt, w : Asks(query, default, pt, w) /\ pt.occur = "SHOULD" /\ HasIn(terms, pt.field, w)
  BY <1>9, <1>10, Zenon
<1> HIDE DEF Ones
<1> QED
  BY <1>1, <1>2, <1>5, <1>6, <1>7, <1>8 DEF Means

\* What the scorers of a query's clauses ask of the terms of a document.
Walks(clauses, terms) ==
  /\ \A c \in clauses : /\ c.occur = "MUST" => Meets(terms, c)
                        /\ c.occur = "MUST_NOT" => ~ Meets(terms, c)
  /\ \E c \in clauses : /\ Meets(terms, c)
                        /\ c.occur = "MUST" \/ (c.occur = "SHOULD" /\ \A x \in clauses : x.occur # "MUST")

\* The clauses ask for what the query means, as far as the fields reach.
LEMMA WalksMeans ==
  ASSUME NEW query, \A tok \in ToSet(query) : tok.parts \in Seq(Seq(STRING)),
         NEW default \in {"MUST", "SHOULD"}, NEW F, F # {}, NEW terms \in SUBSET KeyT,
         NEW clauses, clauses = Parse(query, default, F)
  PROVE  /\ (\A tok \in ToSet(query) : tok.sign # "-") /\ Walks(clauses, terms) => Means(terms, query, default)
         /\ (\A key \in terms : key[1] \in F) => (Walks(clauses, terms) <=> Means(terms, query, default))
<1> DEFINE Q(pt, w) == Asks(query, default, pt, w)
           C(pt, w) == ClausesFor(pt, <<Stem[w]>>, F)
<1>1. \A c : c \in clauses <=> \E pt, w : Q(pt, w) /\ c \in C(pt, w)
  BY ParseFacts
<1>2. \A pt, w : Q(pt, w) =>
        /\ pt.occur \in {"MUST", "MUST_NOT", "SHOULD"}
        /\ (\A tok \in ToSet(query) : tok.sign # "-") => pt.occur \in {"MUST", "SHOULD"}
  BY ParseFacts
<1>3. \A pt, w : /\ C(pt, w) # {} /\ \A c \in C(pt, w) : c.occur = pt.occur
                 /\ \A c \in C(pt, w) : Meets(terms, c) => HasIn(terms, pt.field, w)
                 /\ HasIn(terms, pt.field, w) /\ (\A key \in terms : key[1] \in F)
                      => /\ \E c \in C(pt, w) : Meets(terms, c)
                         /\ pt.occur # "SHOULD" => \A c \in C(pt, w) : Meets(terms, c)
  <2> TAKE pt, w
  <2>1. PICK D : D = C(pt, w)
    OBVIOUS
  <2>2. D = ClausesFor(pt, <<Stem[w]>>, F)
    BY <2>1
  <2> HIDE DEF C
  <2>3. WordClauses(D, terms, pt, w, F)
    BY <2>2, ClausesFacts
  <2> QED
    BY <2>1, <2>3 DEF WordClauses
<1> HIDE DEF Q, C
<1>4. (\E c \in clauses : c.occur = "MUST") <=> \E pt, w : Q(pt, w) /\ pt.occur = "MUST"
  BY <1>1, <1>3
<1>5. ASSUME \A c \in clauses : c.occur = "MUST" => Meets(terms, c)
      PROVE  \A pt, w : Q(pt, w) /\ pt.occur = "MUST" => HasIn(terms, pt.field, w)
  BY <1>1, <1>3, <1>5
<1>6. ASSUME \E c \in clauses : Meets(terms, c) /\ c.occur = "SHOULD"
      PROVE  \E pt, w : Q(pt, w) /\ pt.occur = "SHOULD" /\ HasIn(terms, pt.field, w)
  BY <1>1, <1>3, <1>6
<1>7. ASSUME Walks(clauses, terms),
             \A pt, w : Q(pt, w) /\ pt.occur = "MUST_NOT" => ~ HasIn(terms, pt.field, w)
      PROVE  Means(terms, query, default)
  <2>1. \A pt, w : Q(pt, w) /\ pt.occur = "MUST" => HasIn(terms, pt.field, w)
    BY <1>5, <1>7 DEF Walks
  <2>2. ASSUME \A pt, w : Q(pt, w) => pt.occur # "MUST"
        PROVE  \E pt, w : Q(pt, w) /\ pt.occur = "SHOULD" /\ HasIn(terms, pt.field, w)
    <3>1. \A c \in clauses : c.occur # "MUST"
      BY <1>4, <2>2
    <3>2. \E c \in clauses : Meets(terms, c) /\ c.occur = "SHOULD"
      BY <1>7, <3>1 DEF Walks
    <3> QED
      BY <1>6, <3>2
  <2> QED
    BY <1>7, <2>1, <2>2 DEF Means, Q
<1>8. ASSUME \A tok \in ToSet(query) : tok.sign # "-"
      PROVE  \A pt, w : Q(pt, w) => pt.occur # "MUST_NOT"
  BY <1>2, <1>8
<1>9. ASSUME \A key \in terms : key[1] \in F, Walks(clauses, terms)
      PROVE  \A pt, w : Q(pt, w) /\ pt.occur = "MUST_NOT" => ~ HasIn(terms, pt.field, w)
  <2> TAKE pt, w
  <2> HAVE Q(pt, w) /\ pt.occur = "MUST_NOT"
  <2>1. PICK c \in C(pt, w) : c.occur = "MUST_NOT"
    BY <1>3
  <2>2. c \in clauses
    BY <1>1, <2>1
  <2>3. ~ Meets(terms, c)
    BY <1>9, <2>1, <2>2 DEF Walks
  <2> QED
    BY <1>3, <1>9, <2>1, <2>3
<1>10. ASSUME \A key \in terms : key[1] \in F, Means(terms, query, default)
       PROVE  Walks(clauses, terms)
  <2>1. ASSUME NEW c \in clauses
        PROVE  /\ c.occur = "MUST" => Meets(terms, c)
               /\ c.occur = "MUST_NOT" => ~ Meets(terms, c)
    <3>1. PICK pt, w : Q(pt, w) /\ c \in C(pt, w)
      BY <1>1
    <3>2. c.occur = pt.occur
      BY <1>3, <3>1
    <3>3. CASE pt.occur = "MUST"
      <4>1. HasIn(terms, pt.field, w)
        BY <1>10, <3>1, <3>3 DEF Means, Q
      <4> QED
        BY <1>3, <1>10, <3>1, <3>2, <3>3, <4>1
    <3>4. CASE pt.occur = "MUST_NOT"
      <4>1. ~ HasIn(terms, pt.field, w)
        BY <1>10, <3>1, <3>4 DEF Means, Q
      <4> QED
        BY <1>3, <3>1, <3>2, <3>4, <4>1
    <3> QED
      BY <3>2, <3>3, <3>4
  <2>2. \E c \in clauses : /\ Meets(terms, c)
                           /\ c.occur = "MUST" \/ (c.occur = "SHOULD" /\ \A x \in clauses : x.occur # "MUST")
    <3>1. CASE \E c \in clauses : c.occur = "MUST"
      BY <2>1, <3>1
    <3>2. CASE \A c \in clauses : c.occur # "MUST"
      <4>1. \A pt, w : Q(pt, w) => pt.occur # "MUST"
        BY <1>4, <3>2
      <4>2. PICK pt, w : Q(pt, w) /\ pt.occur = "SHOULD" /\ HasIn(terms, pt.field, w)
        BY <1>10, <4>1 DEF Means, Q
      <4>3. PICK c \in C(pt, w) : Meets(terms, c) /\ c.occur = "SHOULD"
        BY <1>3, <1>10, <4>2
      <4> QED
        BY <1>1, <3>2, <4>2, <4>3
    <3> QED
      BY <3>1, <3>2
  <2> QED
    BY <2>1, <2>2 DEF Walks
<1> QED
  BY <1>7, <1>8, <1>9, <1>10

\* What a segment answers.
LEMMA SegmentAnswers ==
  ASSUME IInv, NEW s \in ByPosition, NEW clauses, NEW p
  PROVE  p \in Matching(clauses, [key \in UNION {c.keys : c \in clauses} |-> Found(schema, segs[s], key, AnyNumber)])
           <=> p \in segs[s].live /\ Walks(clauses, TermsOf[schema][segs[s].stored[p].doc])
<1>1. PICK found : found = [key \in UNION {c.keys : c \in clauses} |-> Found(schema, segs[s], key, AnyNumber)]
  OBVIOUS
<1>2. segs[s].live \subseteq DOMAIN segs[s].stored
  BY ByPositionFacts
<1>3. PICK seg, terms : seg = segs[s] /\ terms = TermsOf[schema][segs[s].stored[p].doc]
  OBVIOUS
<1>4. \A key : p \in Found(schema, segs[s], key, AnyNumber) <=> p \in seg.live /\ key \in terms
  BY <1>2, <1>3, FoundDocs, AnyNumberPasses
<1>5. PICK H : H = {c \in clauses : p \in seg.live /\ Meets(terms, c)}
  OBVIOUS
<1>6. \A c \in clauses : c \in H <=> \E key \in c.keys : p \in found[key]
  <2> TAKE c \in clauses
  <2>1. \A key \in c.keys : found[key] = Found(schema, segs[s], key, AnyNumber)
    BY <1>1
  <2>2. \A key \in c.keys : p \in found[key] <=> p \in seg.live /\ key \in terms
    BY <1>4, <2>1
  <2> QED
    BY <1>5, <2>2 DEF Meets
<1>7. p \in Matching(clauses, found)
        <=> /\ \A c \in clauses : /\ c.occur = "MUST" => c \in H
                                  /\ c.occur = "MUST_NOT" => c \notin H
            /\ \E c \in clauses : /\ c \in H
                                  /\ c.occur = "MUST" \/ (c.occur = "SHOULD" /\ \A x \in clauses : x.occur # "MUST")
  BY <1>6, MatchingFacts
<1> QED
  BY <1>1, <1>3, <1>5, <1>7 DEF Walks

\* The least number of a finite set is in it.
LEMMA MinOfSet ==
  ASSUME NEW S \in SUBSET Nat, IsFiniteSet(S), S # {}
  PROVE  Min(S) \in S
<1>1. PICK n, o : n \in Nat /\ o \in [1 .. n -> S] /\ n = Cardinality(S) /\ o = InOrder(S)
  BY InOrderSorts, FS_CardinalityType
<1>2. /\ \A i, j \in 1 .. n : i < j => o[i] < o[j]
      /\ {o[i] : i \in DOMAIN o} = S
  BY <1>1, InOrderSorts, InOrderFacts
<1>3. 1 \in 1 .. n /\ DOMAIN o = 1 .. n
  <2>1. DOMAIN o = 1 .. n
    BY <1>1
  <2>2. PICK i \in 1 .. n : TRUE
    BY <1>2, <2>1
  <2> QED
    BY <1>1, <2>1, <2>2
<1>4. o[1] \in S /\ \A y \in S : o[1] <= y
  <2>1. ASSUME NEW y \in S PROVE o[1] <= y
    <3>1. PICK i \in 1 .. n : y = o[i]
      BY <1>2, <1>3
    <3>2. i = 1 \/ 1 < i
      OBVIOUS
    <3>3. o[1] \in Nat /\ o[i] \in Nat
      BY <1>1, <1>3
    <3> QED
      BY <1>2, <1>3, <3>1, <3>2, <3>3
  <2>2. o[1] \in S
    BY <1>1, <1>3
  <2> QED
    BY <2>1, <2>2
<1> QED
  BY <1>4 DEF Min

\* QueryExact, segment by segment: the clauses ask for what the query means,
\* and a segment answers them from the documents alone.
LEMMA QueryExactHolds == IInv => QueryExact
<1> SUFFICES ASSUME IInv, ByPosition = DOMAIN segs, \A s \in DOMAIN segs : Opens(segs[s]),
                    NEW query \in Queries, NEW occur \in {"MUST", "SHOULD"}
             PROVE  LET shown    == Answer(query, occur)
                        expected == {d \in UNION {LivingDocs(s) : s \in DOMAIN segs} :
                                       Satisfies(d, query, occur)}
                    IN /\ (\A tok \in ToSet(query) : tok.sign # "-") => shown \subseteq expected
                       /\ (\A s \in DOMAIN segs : IndexedFields(segs[s]) \subseteq DefaultFields)
                            => shown = expected
  BY Zenon DEF QueryExact
<1>2. PICK shown, expected : /\ shown = Answer(query, occur)
                             /\ expected = {d \in UNION {LivingDocs(s) : s \in DOMAIN segs} :
                                              Satisfies(d, query, occur)}
  OBVIOUS
<1>1. PICK F, clauses : F = DefaultFields /\ clauses = Parse(query, occur, F)
  OBVIOUS
<1> DEFINE doc(s, p) == segs[s].stored[p].doc
           terms(s, p) == TermsOf[schema][doc(s, p)]
<1>3. shown = UNION {{ReadStoredDoc(segs[s], id).doc :
                 id \in Matching(clauses, [key \in UNION {c.keys : c \in clauses} |->
                                              Found(schema, segs[s], key, AnyNumber)])} : s \in DOMAIN segs}
  <2> DEFINE A(x) == UNION {{ReadStoredDoc(segs[s], id).doc :
                 id \in Matching(x, [key \in UNION {c.keys : c \in x} |->
                                        Found(schema, segs[s], key, AnyNumber)])} : s \in DOMAIN segs}
  <2>1. Answer(query, occur) = A(Parse(query, occur, DefaultFields))
    BY Zenon DEF Answer
  <2>2. shown = A(clauses)
    <3> HIDE DEF A
    <3> QED
      BY <1>1, <1>2, <2>1
  <2> QED
    BY <2>2, Zenon
<1>4. \A s \in DOMAIN segs : \A p : p \in Matching(clauses, [key \in UNION {c.keys : c \in clauses} |->
                                              Found(schema, segs[s], key, AnyNumber)])
                             <=> p \in segs[s].live /\ Walks(clauses, terms(s, p))
  BY SegmentAnswers
<1>5. \A s \in DOMAIN segs : /\ segs[s].live \subseteq DOMAIN segs[s].stored
                           /\ GoodSeg(Docs, schema, TokensOf[schema], NumbersOf[schema], segs[s])
                           /\ \A p \in DOMAIN segs[s].stored : segs[s].stored[p].doc \in Docs
  BY ByPositionFacts
<1>6. schema \in Schemas
  BY DEF IInv, Types
<1>7. \A s \in DOMAIN segs : \A p \in segs[s].live : ReadStoredDoc(segs[s], p).doc = doc(s, p)
  BY <1>5 DEF ReadStoredDoc
<1>8. \A d : d \in shown <=> \E s \in DOMAIN segs : \E p \in segs[s].live :
                                d = doc(s, p) /\ Walks(clauses, terms(s, p))
  <2> DEFINE M(s) == Matching(clauses, [key \in UNION {c.keys : c \in clauses} |->
                                              Found(schema, segs[s], key, AnyNumber)])
  <2>1. shown = UNION {{ReadStoredDoc(segs[s], id).doc : id \in M(s)} : s \in DOMAIN segs}
    BY <1>3
  <2>2. \A s \in DOMAIN segs : \A p : p \in M(s) <=> p \in segs[s].live /\ Walks(clauses, terms(s, p))
    BY <1>4
  <2> HIDE DEF M, doc, terms
  <2>3. \A d : d \in shown <=> \E s \in DOMAIN segs : \E p \in M(s) : d = ReadStoredDoc(segs[s], p).doc
    BY <2>1
  <2> QED
    BY <1>7, <2>2, <2>3
<1>9. \A d : d \in expected <=> \E s \in DOMAIN segs : \E p \in segs[s].live :
                                   d = doc(s, p) /\ Means(terms(s, p), query, occur)
  <2>1. \A d : Satisfies(d, query, occur) <=> Means(TermsOf[schema][d], query, occur)
    BY SatisfiesMeans
  <2>2. \A s \in DOMAIN segs : LivingDocs(s) = {doc(s, p) : p \in segs[s].live}
    BY DEF LivingDocs
  <2>3. \A d : d \in UNION {LivingDocs(s) : s \in DOMAIN segs}
                 <=> \E s \in DOMAIN segs : \E p \in segs[s].live : d = doc(s, p)
    BY <2>2
  <2> TAKE d
  <2>4. d \in expected <=> d \in UNION {LivingDocs(s) : s \in DOMAIN segs} /\ Satisfies(d, query, occur)
    BY <1>2
  <2>5. \A s \in DOMAIN segs : \A p \in segs[s].live :
          d = doc(s, p) => (Means(terms(s, p), query, occur) <=> Means(TermsOf[schema][d], query, occur))
    OBVIOUS
  <2> HIDE DEF doc, terms
  <2> QED
    BY <2>1, <2>3, <2>4, <2>5
<1>10. ASSUME NEW s \in DOMAIN segs, NEW p \in segs[s].live
       PROVE  /\ terms(s, p) \in SUBSET KeyT /\ F # {}
              /\ \A key \in terms(s, p) : key[1] \in IndexedFields(segs[s])
  <2>1. PICK d, seg, tokens : /\ d = doc(s, p) /\ d \in Docs /\ seg = segs[s] /\ tokens = TokensOf[schema]
                                       /\ p \in DOMAIN seg.stored /\ d = seg.stored[p].doc
    BY <1>5
  <2>2. terms(s, p) = KeysIn(tokens[d]) /\ tokens[d] \in Seq(Keyed)
    BY <1>6, <2>1, TermsFacts, TokensFacts
  <2>3. \A key \in KeysIn(tokens[d]) : key[1] \in DOMAIN seg.lens
    <3> TAKE key \in KeysIn(tokens[d])
    <3>1. HasKey(seg.stored, tokens, key)
      BY <2>1 DEF HasKey
    <3>2. GoodLists(schema, seg.stored, tokens, seg.lists) /\ FieldsOf(seg.lists) \subseteq DOMAIN seg.lens
      BY <1>5, <2>1 DEF GoodSeg
    <3>3. key \in DOMAIN seg.lists
      BY <3>1, <3>2 DEF GoodLists
    <3> QED
      BY <3>2, <3>3 DEF FieldsOf
  <2>4. KeysIn(tokens[d]) \subseteq KeyT
    <3>1. PICK toks \in Seq(Keyed) : toks = tokens[d]
      BY <2>2
    <3>2. \A n \in DOMAIN toks : toks[n].key \in KeyT
      <4> TAKE n \in DOMAIN toks
      <4>1. toks[n] \in Keyed
        OBVIOUS
      <4> QED
        BY <4>1 DEF Keyed, KeyT
    <3> QED
      BY <3>1, <3>2 DEF KeysIn
  <2>5. F # {}
    <3>1. DOMAIN segs # {}
      OBVIOUS
    <3>2. IsFiniteSet(DOMAIN segs) /\ DOMAIN segs \subseteq Nat
      BY DEF IInv, Types
    <3>3. Min(DOMAIN segs) \in DOMAIN segs
      BY <3>1, <3>2, MinOfSet
    <3> QED
      BY <1>1, <3>1, <3>3 DEF DefaultFields, Opens
  <2> QED
    BY <2>1, <2>2, <2>3, <2>4, <2>5 DEF IndexedFields
<1>11. \A tok \in ToSet(query) : tok.parts \in Seq(Seq(STRING))
  BY SearchAssumption
<1>12. ASSUME NEW s \in DOMAIN segs, NEW p \in segs[s].live
       PROVE  /\ (\A tok \in ToSet(query) : tok.sign # "-") /\ Walks(clauses, terms(s, p))
                   => Means(terms(s, p), query, occur)
              /\ IndexedFields(segs[s]) \subseteq F
                   => (Walks(clauses, terms(s, p)) <=> Means(terms(s, p), query, occur))
  <2>1. PICK T : T = terms(s, p)
    OBVIOUS
  <2>2. T \in SUBSET KeyT /\ F # {} /\ \A key \in T : key[1] \in IndexedFields(segs[s])
    BY <1>10, <2>1
  <2> HIDE DEF terms
  <2>3. /\ (\A tok \in ToSet(query) : tok.sign # "-") /\ Walks(clauses, T) => Means(T, query, occur)
        /\ (\A key \in T : key[1] \in F) => (Walks(clauses, T) <=> Means(T, query, occur))
    BY <1>1, <1>11, <2>2, WalksMeans
  <2> QED
    BY <2>1, <2>2, <2>3
<1> HIDE DEF doc, terms
<1> QED
  BY <1>1, <1>2, <1>8, <1>9, <1>12

\* A query shows just the living documents that satisfy it, if the first segment
\* has every field that occurs; if it has not, and nothing is excluded, it still
\* shows no document that does not satisfy it.
THEOREM QueryExactAlways == Spec => []QueryExact
BY InvariantHolds, QueryExactHolds, PTL

-----------------------------------------------------------------------------
(* Ranking hits *)

\* Better orders the hits.
Comparable(H) ==
  /\ IsFiniteSet(H)
  /\ \A a, b \in H : /\ ~ (Better(a, b) /\ Better(b, a))
                     /\ a # b => Better(a, b) \/ Better(b, a)
  /\ \A a, b, c \in H : Better(a, b) /\ Better(b, c) => Better(a, c)

Above(H, h) == {g \in H : Better(g, h)}

\* t lists H from the best down.
Lists(H, n, t) ==
  /\ t \in [1 .. n -> H] /\ \A h \in H : \E i \in 1 .. n : t[i] = h
  /\ \A i, j \in 1 .. n : i < j => Better(t[i], t[j])

\* Hits that no two of are at one place are comparable.
LEMMA HitsComparable ==
  ASSUME NEW H, IsFiniteSet(H), \A h \in H : h.seg \in Nat /\ h.id \in Nat /\ h.score \in Nat,
         \A g, h \in H : g.seg = h.seg /\ g.id = h.id => g = h
  PROVE  Comparable(H)
<1>1. ASSUME NEW a \in H, NEW b \in H
      PROVE  ~ (Better(a, b) /\ Better(b, a)) /\ (a # b => Better(a, b) \/ Better(b, a))
  <2>1. /\ a.seg \in Nat /\ a.id \in Nat /\ a.score \in Nat
        /\ b.seg \in Nat /\ b.id \in Nat /\ b.score \in Nat
    OBVIOUS
  <2>2. a # b => a.seg # b.seg \/ a.id # b.id
    OBVIOUS
  <2> QED
    BY <2>1, <2>2 DEF Better
<1>2. ASSUME NEW a \in H, NEW b \in H, NEW c \in H, Better(a, b), Better(b, c)
      PROVE  Better(a, c)
  <2>1. /\ a.seg \in Nat /\ a.id \in Nat /\ a.score \in Nat
        /\ b.seg \in Nat /\ b.id \in Nat /\ b.score \in Nat
        /\ c.seg \in Nat /\ c.id \in Nat /\ c.score \in Nat
    OBVIOUS
  <2> QED
    BY <1>2, <2>1 DEF Better
<1> QED
  BY <1>1, <1>2 DEF Comparable

\* Comparable hits stay so in a subset.
LEMMA SubsetComparable ==
  ASSUME NEW H, Comparable(H), NEW G \in SUBSET H
  PROVE  Comparable(G)
BY FS_Subset DEF Comparable

\* The place of a hit is how many are better.
LEMMA ListsRanks ==
  ASSUME NEW H, Comparable(H), NEW n \in Nat, NEW t, Lists(H, n, t)
  PROVE  /\ n = Cardinality(H) /\ \A i, j \in 1 .. n : t[i] = t[j] => i = j
         /\ \A i, j \in 1 .. n : Better(t[i], t[j]) => i < j
         /\ \A i \in 1 .. n : Cardinality(Above(H, t[i])) = i - 1
<1>1. /\ t \in [1 .. n -> H] /\ \A h \in H : \E i \in 1 .. n : t[i] = h
      /\ \A i, j \in 1 .. n : i < j => Better(t[i], t[j])
  BY DEF Lists
<1>2. /\ \A a, b \in H : ~ (Better(a, b) /\ Better(b, a))
      /\ \A a \in H : ~ Better(a, a)
  BY DEF Comparable
<1>3. \A i, j \in 1 .. n : (t[i] = t[j] => i = j) /\ (Better(t[i], t[j]) => i < j)
  <2> TAKE i, j \in 1 .. n
  <2>1. i < j \/ j < i \/ i = j
    OBVIOUS
  <2>2. t[i] \in H /\ t[j] \in H
    BY <1>1
  <2> QED
    BY <1>1, <1>2, <2>1, <2>2
<1>4. \A i \in 1 .. n : Cardinality(Above(H, t[i])) = i - 1
  <2> TAKE i \in 1 .. n
  <2>0. PICK B, m : B = Above(H, t[i]) /\ m = i - 1 /\ m \in Nat
    OBVIOUS
  <2> DEFINE f == [j \in 1 .. m |-> t[j]]
  <2>1. \A j \in 1 .. m : j \in 1 .. n /\ t[j] \in B
    <3> TAKE j \in 1 .. m
    <3>1. j \in 1 .. n /\ j < i
      BY <2>0
    <3> QED
      BY <1>1, <2>0, <3>1 DEF Above
  <2>2. f \in Injection(1 .. m, B)
    BY <1>3, <2>1 DEF Injection, IsInjective
  <2>3. \A x \in B : \E j \in 1 .. m : f[j] = x
    <3> TAKE x \in B
    <3>1. x \in H /\ Better(x, t[i])
      BY <2>0 DEF Above
    <3>2. PICK j \in 1 .. n : t[j] = x
      BY <1>1, <3>1
    <3>3. j < i
      BY <1>3, <3>1, <3>2
    <3>4. j \in 1 .. m
      BY <2>0, <3>3
    <3> QED
      BY <3>2, <3>4
  <2> HIDE DEF f
  <2>4. f \in Bijection(1 .. m, B)
    BY <2>2, <2>3 DEF Bijection, Surjection, Injection
  <2>5. ExistsBijection(1 .. m, B)
    BY <2>4 DEF ExistsBijection
  <2>6. IsFiniteSet(1 .. m) /\ Cardinality(1 .. m) = m
    BY <2>0, FS_Interval
  <2> QED
    BY <2>0, <2>5, <2>6, FS_Bijection
<1>5. n = Cardinality(H)
  <2>1. t \in Bijection(1 .. n, H)
    BY <1>1, <1>3 DEF Bijection, Surjection, Injection, IsInjective
  <2>2. ExistsBijection(1 .. n, H)
    BY <2>1 DEF ExistsBijection
  <2>3. IsFiniteSet(1 .. n) /\ Cardinality(1 .. n) = n
    BY FS_Interval
  <2> QED
    BY <2>2, <2>3, FS_Bijection
<1> QED
  BY <1>3, <1>4, <1>5

\* Hits are listed from the best down in one way, which is Ranked.
LEMMA RankedIs ==
  ASSUME NEW H, Comparable(H), NEW n \in Nat, NEW t, Lists(H, n, t)
  PROVE  Ranked(H) = t
<1>1. /\ t \in [1 .. n -> H] /\ \A h \in H : \E i \in 1 .. n : t[i] = h
      /\ n = Cardinality(H) /\ \A i \in 1 .. n : Cardinality(Above(H, t[i])) = i - 1
  BY ListsRanks DEF Lists
<1>2. \A i \in 1 .. n : Ranked(H)[i] = t[i]
  <2> TAKE i \in 1 .. n
  <2>1. t[i] \in H /\ Cardinality(Above(H, t[i])) = i - 1
    BY <1>1
  <2>2. ASSUME NEW x \in H, Cardinality(Above(H, x)) = i - 1 PROVE x = t[i]
    <3>1. PICK j \in 1 .. n : t[j] = x
      BY <1>1
    <3>2. Cardinality(Above(H, t[j])) = j - 1
      BY <1>1
    <3> QED
      BY <2>2, <3>1, <3>2
  <2>3. Ranked(H) = [k \in 1 .. n |-> CHOOSE x \in H : Cardinality(Above(H, x)) = k - 1]
    BY <1>1, Zenon DEF Ranked, Above
  <2>4. Ranked(H)[i] = CHOOSE x \in H : Cardinality(Above(H, x)) = i - 1
    BY <2>3, Zenon
  <2> QED
    BY <2>1, <2>2, <2>4
<1>3. DOMAIN Ranked(H) = 1 .. n /\ Ranked(H) = [k \in 1 .. n |-> Ranked(H)[k]]
  <2>1. PICK c : c = [k \in 1 .. n |-> CHOOSE x \in H : Cardinality({g \in H : Better(g, x)}) = k - 1]
    OBVIOUS
  <2>2. Ranked(H) = c
    BY <1>1, <2>1, Zenon DEF Ranked
  <2> QED
    BY <2>1, <2>2
<1>4. t = [k \in 1 .. n |-> t[k]]
  BY <1>1
<1> QED
  BY <1>2, <1>3, <1>4

\* Ranked lists any comparable hits: each has as many above it as its place
\* says.
LEMMA RankedLists ==
  ASSUME NEW H, Comparable(H)
  PROVE  Cardinality(H) \in Nat /\ Lists(H, Cardinality(H), Ranked(H))
<1>1. PICK n \in Nat : n = Cardinality(H)
  BY FS_CardinalityType DEF Comparable
<1>2. ASSUME NEW h \in H
      PROVE  IsFiniteSet(Above(H, h)) /\ Cardinality(Above(H, h)) \in 0 .. n - 1
  <2>1. Above(H, h) \in SUBSET H /\ h \notin Above(H, h)
    BY DEF Above, Comparable
  <2>2. /\ IsFiniteSet(Above(H, h)) /\ Cardinality(Above(H, h)) <= n
        /\ n = Cardinality(Above(H, h)) => H = Above(H, h)
    BY <1>1, <2>1, FS_Subset DEF Comparable
  <2>3. Cardinality(Above(H, h)) \in Nat
    BY <2>2, FS_CardinalityType
  <2> QED
    BY <2>1, <2>2, <2>3
<1>3. ASSUME NEW a \in H, NEW b \in H, Better(a, b)
      PROVE  Cardinality(Above(H, a)) < Cardinality(Above(H, b))
  <2>1. Above(H, a) \in SUBSET Above(H, b) /\ a \in Above(H, b) /\ a \notin Above(H, a)
    BY <1>3 DEF Above, Comparable
  <2>2. /\ Cardinality(Above(H, a)) <= Cardinality(Above(H, b))
        /\ Cardinality(Above(H, b)) = Cardinality(Above(H, a)) => Above(H, b) = Above(H, a)
    BY <1>2, <2>1, FS_Subset
  <2>3. Cardinality(Above(H, a)) \in Nat /\ Cardinality(Above(H, b)) \in Nat
    BY <1>2
  <2> QED
    BY <2>1, <2>2, <2>3
<1>4. PICK f : f = [h \in H |-> Cardinality(Above(H, h))]
  OBVIOUS
<1>5. f \in [H -> 0 .. n - 1] /\ \A a, b \in H : f[a] = f[b] => a = b
  <2>1. \A h \in H : f[h] = Cardinality(Above(H, h))
    BY <1>4
  <2>2. \A a, b \in H : f[a] = f[b] => a = b
    <3> TAKE a, b \in H
    <3>1. a # b => Better(a, b) \/ Better(b, a)
      BY DEF Comparable
    <3>2. f[a] \in 0 .. n - 1 /\ f[b] \in 0 .. n - 1
      BY <1>2, <2>1
    <3>3. (Better(a, b) => f[a] < f[b]) /\ (Better(b, a) => f[b] < f[a])
      BY <1>3, <2>1
    <3> QED
      BY <3>1, <3>2, <3>3
  <2> QED
    BY <1>2, <1>4, <2>1, <2>2
<1>6. \A k \in 0 .. n - 1 : \E h \in H : f[h] = k
  <2>1. PICK R : R = 0 .. n - 1 /\ IsFiniteSet(R) /\ Cardinality(R) = n
    BY FS_Interval
  <2>2. f \in Injection(H, R)
    BY <1>5, <2>1 DEF Injection, IsInjective
  <2>3. f \in Surjection(H, R)
    BY <1>1, <2>1, <2>2, FS_Injection
  <2> QED
    BY <2>1, <2>3 DEF Surjection
<1>7. PICK t : t = [i \in 1 .. n |-> CHOOSE h \in H : f[h] = i - 1]
  OBVIOUS
<1>8. \A i \in 1 .. n : t[i] \in H /\ f[t[i]] = i - 1
  <2> TAKE i \in 1 .. n
  <2>1. i - 1 \in 0 .. n - 1
    OBVIOUS
  <2>2. t[i] = CHOOSE h \in H : f[h] = i - 1
    BY <1>7
  <2> QED
    BY <1>6, <2>1, <2>2
<1>9. Lists(H, n, t)
  <2>1. t \in [1 .. n -> H]
    BY <1>7, <1>8
  <2>2. \A h \in H : \E i \in 1 .. n : t[i] = h
    <3> TAKE h \in H
    <3>1. f[h] \in 0 .. n - 1
      BY <1>5
    <3>2. PICK i \in 1 .. n : i = f[h] + 1
      BY <3>1
    <3>3. t[i] \in H /\ f[t[i]] = f[h]
      BY <1>8, <3>1, <3>2
    <3> QED
      BY <1>5, <3>3
  <2>3. \A i, j \in 1 .. n : i < j => Better(t[i], t[j])
    <3> TAKE i, j \in 1 .. n
    <3> HAVE i < j
    <3>1. PICK a \in H, b \in H : a = t[i] /\ b = t[j]
      BY <1>8
    <3>2. f[a] < f[b] /\ f[a] \in Nat /\ f[b] \in Nat
      BY <1>8, <3>1
    <3>3. ~ Better(b, a)
      BY <1>3, <1>4, <3>2
    <3>4. a # b
      BY <3>2
    <3> QED
      BY <3>1, <3>3, <3>4 DEF Comparable
  <2> QED
    BY <2>1, <2>2, <2>3 DEF Lists
<1>10. Ranked(H) = t
  BY <1>9, RankedIs
<1> QED
  BY <1>1, <1>9, <1>10

-----------------------------------------------------------------------------
(* Merging the ranked hits of several segments *)

\* Of every external id the best hit.
BestOf(H) == {h \in H : h.ext = 0 \/ \A g \in H : g.ext = h.ext /\ g # h => Better(h, g)}

CutLen(n, topK) == IF n < topK THEN n ELSE topK

\* c is the first m elements of t.
Begins(c, t, m) == DOMAIN c = 1 .. m /\ \A i \in 1 .. m : c[i] = t[i]

\* Cut takes the first topK elements, or all of them.
LEMMA CutFacts ==
  ASSUME NEW H, NEW n \in Nat, NEW t \in [1 .. n -> H], NEW topK \in Nat
  PROVE  CutLen(n, topK) \in 0 .. n /\ Begins(Cut(t, topK), t, CutLen(n, topK))
<1>1. PICK m \in 0 .. n : m = CutLen(n, topK)
  BY DEF CutLen
<1>2. t \in Seq(H) /\ Len(t) = n
  OBVIOUS
<1>3. Cut(t, topK) = SubSeq(t, 1, m)
  BY <1>1, <1>2 DEF Cut, CutLen
<1>4. DOMAIN SubSeq(t, 1, m) = 1 .. m /\ \A i \in 1 .. m : SubSeq(t, 1, m)[i] = t[i]
  BY <1>2
<1> QED
  BY <1>1, <1>3, <1>4 DEF Begins

\* What a segment hands in are its hits that fewer than topK are better than.
LEMMA SegmentTopKFacts ==
  ASSUME NEW H, Comparable(H), NEW topK \in Nat
  PROVE  \A h : h \in ToSet(SegmentTopK(H, topK)) <=> h \in H /\ Cardinality(Above(H, h)) < topK
<1>1. PICK n, t : n \in Nat /\ t \in [1 .. n -> H] /\ t = Ranked(H) /\ Lists(H, n, t)
  BY RankedLists DEF Lists
<1> n \in Nat /\ t \in [1 .. n -> H]
  BY <1>1
<1>2. PICK m \in 0 .. n : m = CutLen(n, topK)
  BY CutFacts
<1>3. PICK c : c = SegmentTopK(H, topK)
  OBVIOUS
<1>4. DOMAIN c = 1 .. m /\ \A i \in 1 .. m : c[i] = t[i]
  <2>1. c = Cut(t, topK)
    BY <1>1, <1>3 DEF SegmentTopK
  <2>2. Begins(Cut(t, topK), t, CutLen(n, topK))
    BY CutFacts
  <2> QED
    BY <1>2, <2>1, <2>2 DEF Begins
<1>5. \A i \in 1 .. n : Cardinality(Above(H, t[i])) = i - 1
  BY <1>1, ListsRanks
<1>6. \A i \in 1 .. n : i \in 1 .. m <=> i - 1 < topK
  BY <1>2 DEF CutLen
<1>7. \A h : h \in ToSet(c) <=> \E i \in 1 .. m : t[i] = h
  BY <1>4 DEF ToSet
<1> SUFFICES ASSUME NEW h
             PROVE  (\E i \in 1 .. m : t[i] = h) <=> h \in H /\ Cardinality(Above(H, h)) < topK
  BY <1>3, <1>7
<1>8. ASSUME NEW i \in 1 .. m, t[i] = h PROVE h \in H /\ Cardinality(Above(H, h)) < topK
  <2>1. i \in 1 .. n
    OBVIOUS
  <2> QED
    BY <1>5, <1>6, <1>8, <2>1
<1>9. ASSUME h \in H, Cardinality(Above(H, h)) < topK PROVE \E i \in 1 .. m : t[i] = h
  <2>1. PICK i \in 1 .. n : t[i] = h
    BY <1>1, <1>9 DEF Lists
  <2> QED
    BY <1>5, <1>6, <1>9, <2>1
<1> QED
  BY <1>8, <1>9

\* Dropping the later hits of an external id leaves its best one.
LEMMA DedupedIs ==
  ASSUME NEW H, Comparable(H)
  PROVE  Deduped(Ranked(H)) = Ranked(BestOf(H))
<1>1. PICK n, t : n \in Nat /\ t \in [1 .. n -> H] /\ t = Ranked(H) /\ Lists(H, n, t)
  BY RankedLists DEF Lists
<1> n \in Nat /\ t \in [1 .. n -> H]
  BY <1>1
<1>2. /\ \A i, j \in 1 .. n : (i < j => Better(t[i], t[j])) /\ (t[i] = t[j] => i = j)
      /\ \A i, j \in 1 .. n : Better(t[i], t[j]) => i < j
      /\ \A h \in H : \E i \in 1 .. n : t[i] = h
  <2>1. /\ \A i, j \in 1 .. n : i < j => Better(t[i], t[j])
        /\ \A h \in H : \E i \in 1 .. n : t[i] = h
    BY <1>1 DEF Lists
  <2>2. /\ \A i, j \in 1 .. n : t[i] = t[j] => i = j
        /\ \A i, j \in 1 .. n : Better(t[i], t[j]) => i < j
    BY <1>1, ListsRanks
  <2> QED
    BY <2>1, <2>2
<1>3. PICK S : S = {i \in 1 .. n : t[i].ext = 0 \/ \A j \in 1 .. i - 1 : t[j].ext # t[i].ext}
  OBVIOUS
<1>4. Deduped(Ranked(H)) = Picked(t, S)
  <2>1. DOMAIN t = 1 .. n
    OBVIOUS
  <2> QED
    BY <1>1, <1>3, <2>1 DEF Deduped
<1>5. \A i \in 1 .. n : i \in S <=> t[i] \in BestOf(H)
  <2> TAKE i \in 1 .. n
  <2>1. ASSUME i \in S, t[i].ext # 0, NEW g \in H, g.ext = t[i].ext, g # t[i]
        PROVE  Better(t[i], g)
    <3>1. PICK j \in 1 .. n : t[j] = g
      BY <1>2
    <3>2. j \notin 1 .. i - 1 /\ j # i
      BY <1>3, <2>1, <3>1
    <3>3. i < j
      BY <3>2
    <3> QED
      BY <1>2, <3>1, <3>3
  <2>2. ASSUME t[i].ext # 0, t[i] \in BestOf(H), NEW j \in 1 .. i - 1
        PROVE  t[j].ext # t[i].ext
    <3>1. j \in 1 .. n /\ j < i
      OBVIOUS
    <3>2. t[j] \in H /\ t[j] # t[i] /\ ~ Better(t[i], t[j])
      BY <1>2, <3>1
    <3> QED
      BY <2>2, <3>2 DEF BestOf
  <2>3. t[i] \in H
    OBVIOUS
  <2> QED
    BY <1>3, <2>1, <2>2, <2>3 DEF BestOf
<1>6. S \in SUBSET Nat /\ S \subseteq 1 .. n /\ IsFiniteSet(S)
  <2>1. S \subseteq 1 .. n
    BY <1>3, Zenon
  <2>2. IsFiniteSet(S)
    <3>1. IsFiniteSet(1 .. n)
      BY FS_Interval
    <3> QED
      BY <2>1, <3>1, FS_Subset
  <2> QED
    BY <2>1, <2>2
<1>7. PICK m, p, o : m \in Nat /\ m = Cardinality(S) /\ p = Picked(t, S) /\ o = InOrder(S)
  BY <1>6, FS_CardinalityType
<1> m \in Nat
  BY <1>7
<1>8. /\ DOMAIN p = 1 .. m /\ p \in Seq(H)
      /\ \A k \in 1 .. m : o[k] \in S /\ p[k] = t[o[k]]
      /\ \A i \in S : \E k \in 1 .. m : o[k] = i
      /\ \A k, l \in 1 .. m : k < l => o[k] < o[l]
  <2>1. /\ DOMAIN p = 1 .. m /\ DOMAIN o = DOMAIN p
        /\ \A k \in DOMAIN p : o[k] \in S /\ p[k] = t[o[k]]
        /\ \A i \in S : InSeq(o, i)
        /\ \A X : (\A i \in S : t[i] \in X) => p \in Seq(X)
    BY <1>6, <1>7, PickedFacts
  <2>2. \A k, l \in 1 .. m : k < l => o[k] < o[l]
    BY <1>6, <1>7, InOrderSorts
  <2>3. \A i \in S : t[i] \in H
    BY <1>6
  <2> QED
    BY <2>1, <2>2, <2>3 DEF InSeq
<1>9. Lists(BestOf(H), m, p)
  <2>1. \A k \in 1 .. m : o[k] \in 1 .. n /\ p[k] \in BestOf(H)
    BY <1>5, <1>6, <1>8
  <2>2. p \in [1 .. m -> BestOf(H)]
    BY <1>8, <2>1
  <2>3. \A h \in BestOf(H) : \E k \in 1 .. m : p[k] = h
    <3> TAKE h \in BestOf(H)
    <3>1. h \in H
      BY DEF BestOf
    <3>2. PICK i \in 1 .. n : t[i] = h
      BY <1>2, <3>1
    <3>3. PICK k \in 1 .. m : o[k] = i
      BY <1>5, <1>8, <3>2
    <3> QED
      BY <1>8, <3>2, <3>3
  <2>4. \A k, l \in 1 .. m : k < l => Better(p[k], p[l])
    <3> TAKE k, l \in 1 .. m
    <3> HAVE k < l
    <3>1. o[k] < o[l] /\ o[k] \in 1 .. n /\ o[l] \in 1 .. n /\ p[k] = t[o[k]] /\ p[l] = t[o[l]]
      BY <1>8, <2>1
    <3> QED
      BY <1>2, <3>1
  <2> QED
    BY <2>2, <2>3, <2>4 DEF Lists
<1>10. Comparable(BestOf(H))
  <2>1. BestOf(H) \in SUBSET H
    BY DEF BestOf
  <2> QED
    BY <2>1, SubsetComparable
<1>11. Ranked(BestOf(H)) = p
  BY <1>9, <1>10, RankedIs
<1> QED
  BY <1>4, <1>7, <1>11

\* Every hit has a best one of its external id.
LEMMA BestExists ==
  ASSUME NEW H, Comparable(H), NEW g \in H
  PROVE  \E b \in BestOf(H) : b.ext = g.ext /\ (g.ext = 0 => b = g) /\ (b = g \/ Better(b, g))
<1>1. CASE g.ext = 0
  BY <1>1 DEF BestOf
<1>2. CASE g.ext # 0
  <2>1. PICK E \in SUBSET H : E = {h \in H : h.ext = g.ext}
    OBVIOUS
  <2>2. PICK n, t : n \in Nat /\ t \in [1 .. n -> E] /\ Lists(E, n, t)
    BY SubsetComparable, RankedLists DEF Lists
  <2> n \in Nat /\ t \in [1 .. n -> E]
    BY <2>2
  <2>3. \A h \in E : \E i \in 1 .. n : t[i] = h
    BY <2>2 DEF Lists
  <2>4. \A i, j \in 1 .. n : i < j => Better(t[i], t[j])
    BY <2>2 DEF Lists
  <2>5. PICK k \in 1 .. n : t[k] = g
    BY <2>1, <2>3
  <2>6. 1 \in 1 .. n
    BY <2>5
  <2>7. PICK b \in E : b = t[1]
    BY <2>6
  <2>8. \A h \in E : b = h \/ Better(b, h)
    <3> TAKE h \in E
    <3>1. PICK i \in 1 .. n : t[i] = h
      BY <2>3
    <3>2. i = 1 \/ 1 < i
      OBVIOUS
    <3> QED
      BY <2>4, <2>6, <2>7, <3>1, <3>2
  <2>9. b \in H /\ b.ext = g.ext
    BY <2>1
  <2>10. b \in BestOf(H)
    BY <2>1, <2>8, <2>9 DEF BestOf
  <2> QED
    BY <1>2, <2>1, <2>8, <2>9, <2>10
<1> QED
  BY <1>1, <1>2

\* No external id twice.
OneOfEach(H) == \A g, h \in H : g.ext = h.ext /\ g.ext # 0 => g = h

BestOnce == \A H : Comparable(H) => OneOfEach(BestOf(H)) /\ Comparable(BestOf(H))

\* The best hits show no external id twice.
LEMMA BestOnceHolds == BestOnce
<1> SUFFICES ASSUME NEW H, Comparable(H)
             PROVE  OneOfEach(BestOf(H)) /\ Comparable(BestOf(H))
  BY DEF BestOnce
<1>1. BestOf(H) \in SUBSET H
  BY DEF BestOf
<1>2. Comparable(BestOf(H))
  BY <1>1, SubsetComparable
<1>3. \A g, h \in BestOf(H) : g.ext = h.ext /\ g.ext # 0 /\ g # h => Better(g, h) /\ Better(h, g)
  BY DEF BestOf
<1>4. \A g, h \in BestOf(H) : ~ (Better(g, h) /\ Better(h, g))
  BY <1>2 DEF Comparable
<1> QED
  BY <1>2, <1>3, <1>4 DEF OneOfEach

\* A best hit of all with fewer than topK better best ones is among the topK of
\* any segment that finds an external id once.
LEMMA BestHandedIn ==
  ASSUME NEW U, Comparable(U), NEW H \in SUBSET U, OneOfEach(H), NEW h \in BestOf(U), h \in H
  PROVE  Cardinality(Above(H, h)) <= Cardinality(Above(BestOf(U), h))
<1>1. PICK A, B : A = Above(H, h) /\ B = Above(BestOf(U), h)
  OBVIOUS
<1>2. \A g \in A : g \in U /\ g \in H /\ Better(g, h)
  BY <1>1 DEF Above
<1>3. h \in U /\ \A g \in BestOf(U) : g \in U
  BY DEF BestOf
<1>4. ASSUME NEW g \in A
      PROVE  \E b \in B : b.ext = g.ext /\ (g.ext = 0 => b = g)
  <2>1. PICK b \in BestOf(U) : b.ext = g.ext /\ (g.ext = 0 => b = g) /\ (b = g \/ Better(b, g))
    BY <1>2, BestExists
  <2>2. Better(b, h)
    <3>1. g \in U /\ b \in U /\ h \in U /\ Better(g, h)
      BY <1>2, <1>3
    <3> QED
      BY <2>1, <3>1 DEF Comparable
  <2> QED
    BY <1>1, <2>1, <2>2 DEF Above
<1>5. PICK f : f = [g \in A |-> CHOOSE b \in B : b.ext = g.ext /\ (g.ext = 0 => b = g)]
  OBVIOUS
<1>6. \A g \in A : f[g] \in B /\ f[g].ext = g.ext /\ (g.ext = 0 => f[g] = g)
  <2> TAKE g \in A
  <2>1. f[g] = CHOOSE b \in B : b.ext = g.ext /\ (g.ext = 0 => b = g)
    BY <1>5
  <2> QED
    BY <1>4, <2>1
<1>7. f \in Injection(A, B)
  <2>1. f \in [A -> B]
    BY <1>5, <1>6
  <2>2. \A a, b \in A : f[a] = f[b] => a = b
    <3> TAKE a, b \in A
    <3> HAVE f[a] = f[b]
    <3>1. a.ext = b.ext /\ (a.ext = 0 => a = b)
      BY <1>6
    <3> QED
      BY <1>2, <3>1 DEF OneOfEach
  <2> QED
    BY <2>1, <2>2 DEF Injection, IsInjective
<1>8. IsFiniteSet(B)
  <2>1. IsFiniteSet(BestOf(U))
    BY BestOnceHolds DEF BestOnce, Comparable
  <2>2. B \in SUBSET BestOf(U)
    BY <1>1 DEF Above
  <2> QED
    BY <2>1, <2>2, FS_Subset
<1> QED
  BY <1>1, <1>7, <1>8, FS_Injection

\* When every best hit of U with fewer than topK better ones is in C, the best
\* hits of C begin as those of U do.
LEMMA SameBeginning ==
  ASSUME NEW U, Comparable(U), NEW C \in SUBSET U, NEW topK \in Nat,
         \A h \in BestOf(U) : Cardinality(Above(BestOf(U), h)) < topK => h \in C,
         NEW n \in Nat, NEW t, Lists(BestOf(U), n, t), NEW k \in Nat, NEW r, Lists(BestOf(C), k, r)
  PROVE  CutLen(k, topK) = CutLen(n, topK) /\ \A i \in 1 .. CutLen(n, topK) : r[i] = t[i]
<1>1. PICK B, E : B = BestOf(U) /\ E = BestOf(C)
  OBVIOUS
<1>2. Comparable(B) /\ Comparable(C) /\ Comparable(E)
  BY <1>1, SubsetComparable, BestOnceHolds DEF BestOnce
<1>3. /\ n = Cardinality(B) /\ \A i, j \in 1 .. n : Better(t[i], t[j]) => i < j
      /\ \A i \in 1 .. n : Cardinality(Above(B, t[i])) = i - 1
  BY <1>1, <1>2, ListsRanks
<1>4. k = Cardinality(E) /\ \A i \in 1 .. k : Cardinality(Above(E, r[i])) = i - 1
  BY <1>1, <1>2, ListsRanks
<1>5. /\ t \in [1 .. n -> B] /\ \A h \in B : \E i \in 1 .. n : t[i] = h
      /\ \A i, j \in 1 .. n : i < j => Better(t[i], t[j])
  BY <1>1 DEF Lists
<1>6. r \in [1 .. k -> E] /\ \A h \in E : \E i \in 1 .. k : r[i] = h
  BY <1>1 DEF Lists
<1>7. PICK m \in 0 .. n : m = CutLen(n, topK) /\ m <= topK /\ (m < topK => m = n)
  BY DEF CutLen
<1>8. \A i \in 1 .. m : i \in 1 .. n /\ t[i] \in B /\ t[i] \in U /\ t[i] \in E
  <2> TAKE i \in 1 .. m
  <2>1. i \in 1 .. n /\ i - 1 < topK
    BY <1>7
  <2>2. t[i] \in B /\ Cardinality(Above(B, t[i])) < topK
    BY <1>3, <1>5, <2>1
  <2>3. t[i] \in C
    BY <1>1, <2>2
  <2> QED
    BY <1>1, <2>1, <2>2, <2>3 DEF BestOf
\* A best hit of C is one of U when those better than it in U are in C.
<1>9. ASSUME NEW g \in E, \A b \in B : b = g \/ Better(b, g) => b \in E
      PROVE  g \in B
  <2>1. g \in U /\ g \in C
    BY <1>1 DEF BestOf
  <2>2. PICK b \in B : b.ext = g.ext /\ (g.ext = 0 => b = g) /\ (b = g \/ Better(b, g))
    BY <1>1, <2>1, BestExists
  <2>3. b \in E
    BY <1>9, <2>2
  <2>4. g.ext # 0 => b = g
    BY <1>1, <1>2, <2>2, <2>3, BestOnceHolds DEF BestOnce, OneOfEach
  <2> QED
    BY <2>2, <2>4
<1>10. ASSUME NEW i \in 1 .. m PROVE i \in 1 .. k /\ r[i] = t[i]
  <2>1. PICK h \in E : h = t[i] /\ h \in B /\ h \in U
    BY <1>8
  <2>2. i \in 1 .. n
    OBVIOUS
  <2>3. ASSUME NEW b \in B, Better(b, h) PROVE b \in E
    <3>1. PICK j \in 1 .. n : t[j] = b
      BY <1>5
    <3>2. j < i
      BY <1>3, <2>1, <2>2, <2>3, <3>1
    <3>3. j \in 1 .. m
      BY <3>2
    <3> QED
      BY <1>8, <3>1, <3>3
  <2>4. ASSUME NEW g \in E, Better(g, h) PROVE g \in B
    <3>1. g \in U /\ h \in U
      BY <1>1, <2>1 DEF BestOf
    <3>2. ASSUME NEW b \in B, b = g \/ Better(b, g) PROVE b \in E
      <4>1. b \in U
        BY <1>1 DEF BestOf
      <4>2. Better(b, h)
        BY <2>4, <3>1, <3>2, <4>1 DEF Comparable
      <4> QED
        BY <2>3, <4>2
    <3> QED
      BY <1>9, <3>2
  <2>5. Above(E, h) = Above(B, h)
    BY <2>3, <2>4 DEF Above
  <2>6. Cardinality(Above(E, h)) = i - 1
    BY <1>3, <2>1, <2>2, <2>5
  <2>7. PICK j \in 1 .. k : r[j] = h
    BY <1>6
  <2>8. j - 1 = i - 1
    BY <1>4, <2>6, <2>7
  <2>9. j = i
    BY <2>8
  <2> QED
    BY <2>1, <2>7, <2>9
<1>11. m <= k
  <2>1. m = 0 \/ m \in 1 .. m
    OBVIOUS
  <2> QED
    BY <1>10, <2>1
<1>12. m = n => k = n
  <2> HAVE m = n
  <2>1. \A h \in B : h \in E
    BY <1>5, <1>8
  <2>2. \A g \in E : g \in B
    BY <1>9, <2>1
  <2>3. E = B
    BY <2>1, <2>2
  <2> QED
    BY <1>3, <1>4, <2>3
<1>13. CutLen(k, topK) = m
  BY <1>7, <1>11, <1>12 DEF CutLen
<1> QED
  BY <1>7, <1>10, <1>13

AllHits(hits) == UNION {hits[s] : s \in DOMAIN hits}

\* The hits of the segments' lists.
HandedIn(hits, topK) == UNION {ToSet(SegmentTopK(hits[s], topK)) : s \in DOMAIN hits}

ShownOnce(top) == \A i, j \in DOMAIN top : top[i].ext = top[j].ext /\ top[i].ext # 0 => i = j

\* A hit is handed in by the segment in which fewer than topK are above it.
LEMMA HandedInFacts ==
  ASSUME NEW hits, Comparable(AllHits(hits)), NEW topK \in Nat
  PROVE  \A h : h \in HandedIn(hits, topK)
                  <=> \E s \in DOMAIN hits : h \in hits[s] /\ Cardinality(Above(hits[s], h)) < topK
<1>1. ASSUME NEW s \in DOMAIN hits
      PROVE  \A h : h \in ToSet(SegmentTopK(hits[s], topK))
                      <=> h \in hits[s] /\ Cardinality(Above(hits[s], h)) < topK
  <2>1. hits[s] \in SUBSET AllHits(hits)
    BY DEF AllHits
  <2>2. Comparable(hits[s])
    BY <2>1, SubsetComparable
  <2> QED
    BY <2>2, SegmentTopKFacts
<1>2. \A h : h \in HandedIn(hits, topK) <=> \E s \in DOMAIN hits : h \in ToSet(SegmentTopK(hits[s], topK))
  BY DEF HandedIn
<1> QED
  BY <1>1, <1>2

\* What search does with the hits of the segments.
LEMMA SearchIs ==
  ASSUME NEW hits, Comparable(AllHits(hits)), NEW topK \in Nat
  PROVE  /\ HandedIn(hits, topK) \in SUBSET AllHits(hits)
         /\ Search(hits, topK) = Cut(Ranked(BestOf(HandedIn(hits, topK))), topK)
<1>1. PICK C : C = HandedIn(hits, topK)
  OBVIOUS
<1>2. C \in SUBSET AllHits(hits)
  BY <1>1, HandedInFacts DEF AllHits
<1>3. PICK perSeg : perSeg = [s \in DOMAIN hits |-> SegmentTopK(hits[s], topK)]
  OBVIOUS
<1>4. Search(hits, topK) = MergeTopK(perSeg, topK)
  BY <1>3, Zenon DEF Search
<1>5. UNION {ToSet(perSeg[s]) : s \in DOMAIN perSeg} = C
  <2>1. DOMAIN perSeg = DOMAIN hits /\ \A s \in DOMAIN hits : perSeg[s] = SegmentTopK(hits[s], topK)
    BY <1>3
  <2> QED
    BY <1>1, <2>1 DEF HandedIn
<1>6. MergeTopK(perSeg, topK) = Cut(Deduped(Ranked(C)), topK)
  BY <1>5, Zenon DEF MergeTopK
<1>7. Deduped(Ranked(C)) = Ranked(BestOf(C))
  BY <1>2, SubsetComparable, DedupedIs
<1> QED
  BY <1>1, <1>2, <1>4, <1>6, <1>7

\* A search shows no external id twice, whatever the segments hand in.
LEMMA SearchShowsOnce ==
  ASSUME NEW hits, Comparable(AllHits(hits)), NEW topK \in Nat
  PROVE  ShownOnce(Search(hits, topK))
<1>1. PICK E, top : E = BestOf(HandedIn(hits, topK)) /\ top = Search(hits, topK)
  OBVIOUS
<1>2. OneOfEach(E) /\ Comparable(E)
  BY <1>1, SearchIs, SubsetComparable, BestOnceHolds DEF BestOnce
<1>3. PICK n, t : n \in Nat /\ t \in [1 .. n -> E] /\ t = Ranked(E) /\ Lists(E, n, t)
  BY <1>2, RankedLists DEF Lists
<1>4. \A i, j \in 1 .. n : t[i] = t[j] => i = j
  BY <1>2, <1>3, ListsRanks
<1>5. top = Cut(t, topK)
  BY <1>1, <1>3, SearchIs
<1>6. CutLen(n, topK) \in 0 .. n /\ Begins(top, t, CutLen(n, topK))
  BY <1>3, <1>5, CutFacts
<1>7. \A i \in DOMAIN top : i \in 1 .. n /\ top[i] = t[i] /\ t[i] \in E
  BY <1>3, <1>6 DEF Begins
<1> QED
  BY <1>1, <1>2, <1>4, <1>7 DEF ShownOnce, OneOfEach

\* If no segment hands in an external id twice, the scores shown are those of
\* the best distinct hits of all: what a segment cuts off is beaten by topK
\* hits of different external ids, each of which has a best one that stays.
LEMMA SearchShowsBest ==
  ASSUME NEW hits, Comparable(AllHits(hits)), NEW topK \in Nat,
         \A s \in DOMAIN hits : OneOfEach(hits[s])
  PROVE  LET top == Search(hits, topK)
         IN [i \in DOMAIN top |-> top[i].score] = BestScores(hits, topK)
<1>1. PICK U, C : U = AllHits(hits) /\ C = HandedIn(hits, topK)
  OBVIOUS
<1>2. /\ Comparable(U) /\ Comparable(C) /\ C \in SUBSET U
      /\ Comparable(BestOf(U)) /\ Comparable(BestOf(C))
  BY <1>1, SearchIs, SubsetComparable, BestOnceHolds DEF BestOnce
<1>3. ASSUME NEW h \in BestOf(U), Cardinality(Above(BestOf(U), h)) < topK
      PROVE  h \in C
  <2>1. PICK s \in DOMAIN hits : h \in hits[s]
    BY <1>1 DEF BestOf, AllHits
  <2>2. PICK H \in SUBSET U : H = hits[s]
    BY <1>1 DEF AllHits
  <2>3. Cardinality(Above(H, h)) <= Cardinality(Above(BestOf(U), h))
    BY <1>2, <2>1, <2>2, BestHandedIn
  <2>4. \A G : Comparable(G) => Cardinality(Above(G, h)) \in Nat
    <3> TAKE G
    <3> HAVE Comparable(G)
    <3>1. Above(G, h) \in SUBSET G
      BY DEF Above
    <3> QED
      BY <3>1, FS_Subset, FS_CardinalityType DEF Comparable
  <2>5. Cardinality(Above(H, h)) \in Nat /\ Cardinality(Above(BestOf(U), h)) \in Nat
    BY <1>2, <2>4, SubsetComparable
  <2>6. Cardinality(Above(hits[s], h)) < topK
    BY <1>3, <2>2, <2>3, <2>5
  <2> QED
    BY <1>1, <2>1, <2>6, HandedInFacts
<1>4. PICK n, t : n \in Nat /\ t = Ranked(BestOf(U)) /\ Lists(BestOf(U), n, t) /\ n = Cardinality(BestOf(U))
  BY <1>2, RankedLists
<1>5. PICK k, r : k \in Nat /\ r = Ranked(BestOf(C)) /\ Lists(BestOf(C), k, r) /\ r \in [1 .. k -> BestOf(C)]
  BY <1>2, RankedLists DEF Lists
<1>6. CutLen(k, topK) = CutLen(n, topK) /\ \A i \in 1 .. CutLen(n, topK) : r[i] = t[i]
  BY <1>2, <1>3, <1>4, <1>5, SameBeginning
<1>7. PICK m, top : m = CutLen(n, topK) /\ top = Search(hits, topK)
  OBVIOUS
<1>8. top = Cut(r, topK)
  BY <1>1, <1>5, <1>7, SearchIs
<1>9. Begins(top, r, CutLen(k, topK))
  BY <1>5, <1>8, CutFacts
<1>10. DOMAIN top = 1 .. m /\ \A i \in 1 .. m : top[i] = t[i]
  BY <1>6, <1>7, <1>9 DEF Begins
<1>11. [i \in DOMAIN top |-> top[i].score] = [i \in 1 .. m |-> t[i].score]
  BY <1>10
<1>12. BestScores(hits, topK) = [i \in 1 .. m |-> t[i].score]
  <2>1. {h \in UNION {hits[s] : s \in DOMAIN hits} :
           h.ext = 0 \/ \A s \in DOMAIN hits : \A g \in hits[s] :
                          g.ext = h.ext /\ g # h => Better(h, g)} = BestOf(U)
    BY <1>1 DEF BestOf, AllHits
  <2>2. m = IF Cardinality(BestOf(U)) < topK THEN Cardinality(BestOf(U)) ELSE topK
    BY <1>4, <1>7 DEF CutLen
  <2>3. BestScores(hits, topK) =
          [i \in 1 .. (IF Cardinality(BestOf(U)) < topK THEN Cardinality(BestOf(U)) ELSE topK) |->
             Ranked(BestOf(U))[i].score]
    BY <2>1, Zenon DEF BestScores
  <2>4. BestScores(hits, topK) = [i \in 1 .. m |-> Ranked(BestOf(U))[i].score]
    BY <2>2, <2>3, Zenon
  <2> QED
    BY <1>4, <2>4, Zenon
<1> QED
  BY <1>7, <1>11, <1>12

\* A hit of a segment.
IsHit(s, h) == h.seg = s /\ h.id \in Nat /\ h.score \in Nat

\* The hits of a term in a segment are finitely many, at places of their own.
LEMMA HitsOfSegment ==
  ASSUME IInv, NEW s \in ByPosition, NEW key, NEW hits, hits = HitsOf(key)
  PROVE  /\ IsFiniteSet(hits[s]) /\ \A h \in hits[s] : IsHit(s, h)
         /\ \A g, h \in hits[s] : g.id = h.id => g = h
<1>1. PICK sch, seg, tokens, numbers :
         sch = schema /\ seg = segs[s] /\ tokens = TokensOf[sch] /\ numbers = NumbersOf[sch]
  OBVIOUS
<1>2. /\ GoodSeg(Docs, sch, tokens, numbers, seg) /\ ByPlace(seg) /\ sch \in Schemas
      /\ seg.live \subseteq DOMAIN seg.stored
      /\ \A p \in DOMAIN seg.stored : seg.stored[p].doc \in Docs
  BY <1>1, ByPositionFacts
<1>3. PICK found : found = Found(sch, seg, key, AnyNumber)
  OBVIOUS
<1>4. \A p : p \in found => p \in DOMAIN seg.stored /\ key \in TermsOf[sch][seg.stored[p].doc]
  BY <1>1, <1>3, FoundDocs
<1>5. PICK N \in Nat : DOMAIN seg.stored = 1 .. N
  <2>1. seg.stored \in Seq(RowT(Docs))
    BY <1>2 DEF GoodSeg
  <2> QED
    BY <2>1
<1>6. IsFiniteSet(found) /\ found \subseteq Nat
  <2>1. found \subseteq 1 .. N
    BY <1>4, <1>5
  <2>2. IsFiniteSet(1 .. N)
    BY FS_Interval
  <2>3. IsFiniteSet(found)
    BY <2>1, <2>2, FS_Subset
  <2> QED
    BY <2>1, <2>3
<1>7. ASSUME NEW p \in found PROVE Posting(seg, key, p).tf \in Nat
  <2>1. PICK d \in Docs : d = seg.stored[p].doc
    BY <1>2, <1>4
  <2>2. PICK toks \in Seq(Keyed) : toks = tokens[d]
    BY <1>1, <1>2, TokensFacts
  <2>3. key \in KeysIn(tokens[d]) /\ p \in DOMAIN seg.stored
    BY <1>1, <1>2, <1>4, <2>1, TermsFacts
  <2>4. Posting(seg, key, p) = Want(sch, p, toks, key)
    <3>1. PICK D : D = Docs
      OBVIOUS
    <3>2. GoodSeg(D, sch, tokens, numbers, seg)
      BY <1>2, <3>1
    <3> QED
      BY <1>2, <2>1, <2>2, <2>3, <3>2, PostingFacts
  <2>5. Cardinality(Places(toks, key)) \in Nat
    <3>1. Places(toks, key) \in SUBSET Nat /\ IsFiniteSet(Places(toks, key))
      BY PositionsFacts DEF Places
    <3> QED
      BY <3>1, FS_CardinalityType
  <2>6. Posting(seg, key, p).tf = AtMost(Cardinality(Places(toks, key)), MaxTf)
    BY <2>4 DEF Want
  <2>7. MaxTf \in Nat
    BY ContentAssumption
  <2> QED
    BY <2>5, <2>6, <2>7 DEF AtMost
<1>8. PICK f : f = [p \in found |-> [seg |-> s, id |-> p, ext |-> Content[seg.stored[p].doc].ext,
                                     score |-> Posting(seg, key, p).tf]]
  OBVIOUS
<1>9. hits[s] = {f[p] : p \in found}
  <2>1. s \in DOMAIN segs
    BY DEF ByPosition
  <2>2. hits[s] = {[seg |-> s, id |-> p, ext |-> Content[seg.stored[p].doc].ext,
                    score |-> Posting(seg, key, p).tf] : p \in found}
    BY <1>1, <1>3, <2>1 DEF HitsOf
  <2> QED
    BY <1>8, <2>2
<1>10. \A p \in found : IsHit(s, f[p]) /\ f[p].id = p
  BY <1>6, <1>7, <1>8 DEF IsHit
<1>11. IsFiniteSet({f[p] : p \in found})
  <2>1. PICK X : X = {f[p] : p \in found}
    OBVIOUS
  <2>2. f = [p \in found |-> f[p]] /\ \A p \in found : f[p] \in X
    BY <1>8, <2>1
  <2>3. f \in [found -> X]
    BY <2>2
  <2> QED
    BY <1>6, <2>3, RangeFinite
<1>12. \A h \in hits[s] : \E p \in found : h = f[p]
  BY <1>9
<1> QED
  BY <1>9, <1>10, <1>11, <1>12

\* So the hits of all segments can be ranked.
LEMMA AllHitsComparable ==
  ASSUME IInv, ByPosition = DOMAIN segs, NEW key, NEW hits, hits = HitsOf(key)
  PROVE  DOMAIN hits = DOMAIN segs /\ Comparable(AllHits(hits))
<1>1. DOMAIN hits = DOMAIN segs
  BY DEF HitsOf
<1>2. IsFiniteSet(DOMAIN segs) /\ DOMAIN segs \subseteq Nat
  BY DEF IInv, Types
<1>3. ASSUME NEW s \in DOMAIN segs
      PROVE  /\ IsFiniteSet(hits[s]) /\ \A h \in hits[s] : IsHit(s, h)
             /\ \A g, h \in hits[s] : g.id = h.id => g = h
  BY HitsOfSegment
<1>4. PICK U : U = AllHits(hits)
  OBVIOUS
<1>5. IsFiniteSet(U)
  <2>1. PICK W : W = {hits[s] : s \in DOMAIN segs}
    OBVIOUS
  <2>2. \A H \in W : IsFiniteSet(H)
    BY <1>3, <2>1
  <2>3. IsFiniteSet(W)
    <3>1. PICK S : S = DOMAIN segs
      OBVIOUS
    <3>2. hits = [s \in S |-> hits[s]] /\ \A s \in S : hits[s] \in W
      <4>1. hits = [s \in S |-> hits[s]]
        BY <3>1 DEF HitsOf
      <4> QED
        BY <2>1, <3>1, <4>1
    <3>3. hits \in [S -> W]
      BY <3>2
    <3>4. IsFiniteSet(S)
      BY <1>2, <3>1
    <3>5. IsFiniteSet({hits[s] : s \in S})
      BY <3>3, <3>4, RangeFinite
    <3> QED
      BY <2>1, <3>1, <3>5
  <2>4. U = UNION W
    BY <1>1, <1>4, <2>1 DEF AllHits
  <2> QED
    BY <2>2, <2>3, <2>4, FS_UNION
<1>6. \A h \in U : h.seg \in DOMAIN segs /\ h \in hits[h.seg] /\ IsHit(h.seg, h)
  <2> TAKE h \in U
  <2>1. PICK s \in DOMAIN segs : h \in hits[s]
    BY <1>1, <1>4 DEF AllHits
  <2>2. IsHit(s, h)
    BY <1>3, <2>1
  <2> QED
    BY <2>1, <2>2 DEF IsHit
<1>7. \A h \in U : h.seg \in Nat /\ h.id \in Nat /\ h.score \in Nat
  BY <1>2, <1>6 DEF IsHit
<1>8. \A g, h \in U : g.seg = h.seg /\ g.id = h.id => g = h
  BY <1>3, <1>6
<1> QED
  BY <1>1, <1>4, <1>5, <1>7, <1>8, HitsComparable

\* DistinctTopK, from what search does with comparable hits.
LEMMA DistinctTopKHolds == IInv => DistinctTopK
<1> SUFFICES ASSUME IInv, ByPosition = DOMAIN segs, NEW key \in Keys, NEW topK \in 1 .. MaxTopK
             PROVE  LET hits == HitsOf(key)
                        top  == Search(hits, topK)
                    IN /\ \A i, j \in DOMAIN top : top[i].ext = top[j].ext /\ top[i].ext # 0 => i = j
                       /\ (\A s \in DOMAIN segs : \A g, h \in hits[s] : g.ext = h.ext /\ g.ext # 0 => g = h)
                            => [i \in DOMAIN top |-> top[i].score] = BestScores(hits, topK)
  BY DEF DistinctTopK
<1>1. PICK hits, top : hits = HitsOf(key) /\ top = Search(hits, topK)
  OBVIOUS
<1>2. DOMAIN hits = DOMAIN segs /\ Comparable(AllHits(hits))
  BY <1>1, AllHitsComparable
<1>3. topK \in Nat
  BY SearchAssumption
<1>4. \A i, j \in DOMAIN top : top[i].ext = top[j].ext /\ top[i].ext # 0 => i = j
  BY <1>1, <1>2, <1>3, SearchShowsOnce DEF ShownOnce
<1>5. ASSUME \A s \in DOMAIN segs : \A g, h \in hits[s] : g.ext = h.ext /\ g.ext # 0 => g = h
      PROVE  [i \in DOMAIN top |-> top[i].score] = BestScores(hits, topK)
  <2>1. \A s \in DOMAIN hits : OneOfEach(hits[s])
    BY <1>2, <1>5 DEF OneOfEach
  <2> QED
    BY <1>1, <1>2, <1>3, <2>1, SearchShowsBest
<1> QED
  BY <1>1, <1>4, <1>5

\* Ranking the hits of several segments shows no external id twice; and if no
\* segment has two living versions of a document that match, cutting each segment
\* to its own best topK loses none of the best topK of all.
THEOREM DistinctTopKAlways == Spec => []DistinctTopK
BY InvariantHolds, DistinctTopKHolds, PTL
=============================================================================
