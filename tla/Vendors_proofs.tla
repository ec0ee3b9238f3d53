---- MODULE Vendors_proofs ----
(***************************************************************************)
(* The vendors' walks, by which their ledgers are what they bill, for      *)
(* every vendor's data and whatever moves meanwhile: what the token has    *)
(* passed is stored, or still in the token, unless it moved at the vendor  *)
(* behind it.                                                              *)
(***************************************************************************)
EXTENDS Connectors_proofs

-----------------------------------------------------------------------------
(***************************************************************************)
(* Sums over finite sets.                                                  *)
(***************************************************************************)
SumOf(g, S) == SumFunctionOnSet(g, S)
AnyOf(s) == CHOOSE x \in s : TRUE
SumStep(g, it, s) == IF s = {} THEN 0 ELSE g[AnyOf(s)] + it[s \ {AnyOf(s)}]
Iteration(g, F) == CHOOSE it : it = [s \in SUBSET F |-> SumStep(g, it, s)]
SmallOf(F, n) == {s \in SUBSET F : Cardinality(s) <= n}
Integral(g, F) == IsFiniteSet(F) /\ \A f \in F : g[f] \in Int
SumsIn(it, g, F) == \A s \in SUBSET F : it[s] = SumStep(g, it, s)
SumsUpTo(g, F, n) == \E it \in [SmallOf(F, n) -> Int] : \A s \in SmallOf(F, n) : it[s] = SumStep(g, it, s)

LEMMA SumIsIteration == ASSUME NEW g, NEW F PROVE SumOf(g, F) = Iteration(g, F)[F]
BY DEF SumOf, SumFunctionOnSet, FoldFunctionOnSet, MapThenFoldSet, Iteration, SumStep, AnyOf

LEMMA AnyIn == ASSUME NEW s, s # {} PROVE AnyOf(s) \in s
BY DEF AnyOf

LEMMA SmallerOf ==
  ASSUME NEW F, IsFiniteSet(F), NEW n \in Nat, NEW s \in SmallOf(F, n), s # {}
  PROVE  /\ n > 0 /\ s \ {AnyOf(s)} \in SmallOf(F, n - 1) /\ s \ {AnyOf(s)} \in SmallOf(F, n)
         /\ Cardinality(s \ {AnyOf(s)}) < Cardinality(s) /\ AnyOf(s) \in F
<1>1. s \subseteq F /\ Cardinality(s) <= n
  BY DEF SmallOf
<1>2. IsFiniteSet(s)
  BY <1>1, FS_Subset
<1>3. PICK c \in Nat : c = Cardinality(s)
  BY <1>2, FS_CardinalityType
<1>4. c # 0
  BY <1>2, <1>3, FS_EmptySet
<1>5. AnyOf(s) \in s
  BY AnyIn
<1>6. Cardinality(s \ {AnyOf(s)}) = c - 1
  BY <1>2, <1>3, <1>5, FS_RemoveElement
<1>7. QED BY <1>1, <1>3, <1>4, <1>5, <1>6 DEF SmallOf

LEMMA SumsExist ==
  ASSUME NEW g, NEW F, Integral(g, F), NEW n \in Nat
  PROVE  SumsUpTo(g, F, n)
<1> DEFINE Bad == {k \in Nat : ~SumsUpTo(g, F, k)}
<1>1. SUFFICES ASSUME Bad # {} PROVE FALSE
  OBVIOUS
<1>2. PICK m \in Bad : \A k \in Bad : m <= k
  BY <1>1, LeastNat
<1>3. m \in Nat /\ ~SumsUpTo(g, F, m) /\ IsFiniteSet(F)
  BY DEF Integral
<1>4. CASE m = 0
  <2>1. \A s \in SmallOf(F, 0) : s = {}
    <3>1. SUFFICES ASSUME NEW s \in SmallOf(F, 0), s # {} PROVE FALSE
      OBVIOUS
    <3>2. 0 > 0
      BY <1>3, <3>1, SmallerOf, Zenon, 0 \in Nat
    <3>3. QED BY <3>2
  <2>2. PICK it : it = [s \in SmallOf(F, 0) |-> 0]
    OBVIOUS
  <2>3. it \in [SmallOf(F, 0) -> Int] /\ \A s \in SmallOf(F, 0) : it[s] = SumStep(g, it, s)
    BY <2>1, <2>2 DEF SumStep
  <2>4. QED BY <1>3, <1>4, <2>3 DEF SumsUpTo
<1>5. CASE m # 0
  <2>1. m - 1 \in Nat /\ m - 1 \notin Bad
    BY <1>2, <1>3, <1>5
  <2>2. PICK it \in [SmallOf(F, m - 1) -> Int] : \A s \in SmallOf(F, m - 1) : it[s] = SumStep(g, it, s)
    BY <2>1 DEF SumsUpTo
  <2>3. PICK h : h = [s \in SmallOf(F, m) |-> SumStep(g, it, s)]
    OBVIOUS
  <2>4. ASSUME NEW s \in SmallOf(F, m), s # {}
        PROVE  /\ s \ {AnyOf(s)} \in SmallOf(F, m - 1) /\ s \ {AnyOf(s)} \in SmallOf(F, m)
               /\ AnyOf(s) \in F
    BY <1>3, <2>4, SmallerOf
  <2>5. \A s \in SmallOf(F, m) : SumStep(g, it, s) \in Int
    BY <2>2, <2>4 DEF SumStep, Integral
  <2>6. ASSUME NEW s \in SmallOf(F, m) PROVE h[s] = SumStep(g, h, s)
    <3>1. CASE s = {}
      BY <3>1, <2>3 DEF SumStep
    <3>2. CASE s # {}
      <4>1. h[s \ {AnyOf(s)}] = it[s \ {AnyOf(s)}]
        BY <3>2, <2>2, <2>3, <2>4
      <4>2. QED BY <4>1, <3>2, <2>3 DEF SumStep
    <3>3. QED BY <3>1, <3>2
  <2>7. h \in [SmallOf(F, m) -> Int]
    BY <2>3, <2>5
  <2>8. QED BY <2>6, <2>7, <1>3 DEF SumsUpTo
<1>6. QED BY <1>4, <1>5

\* two functions that sum a set up in steps are one
LEMMA SumsAreOne ==
  ASSUME NEW g, NEW F, IsFiniteSet(F), NEW a, NEW b, SumsIn(a, g, F), SumsIn(b, g, F)
  PROVE  \A s \in SUBSET F : a[s] = b[s]
<1> DEFINE Sizes == {n \in Nat : \E s \in SUBSET F : Cardinality(s) = n /\ a[s] # b[s]}
<1>1. Sizes = {}
  <2>1. SUFFICES ASSUME Sizes # {} PROVE FALSE
    OBVIOUS
  <2>2. PICK n \in Sizes : \A k \in Sizes : n <= k
    BY <2>1, LeastNat
  <2>3. PICK s \in SUBSET F : Cardinality(s) = n /\ a[s] # b[s]
    BY <2>2
  <2>4. s # {}
    BY <2>3 DEF SumStep, SumsIn
  <2>5. s \in SmallOf(F, n) /\ n \in Nat
    BY <2>3 DEF SmallOf
  <2>6. PICK r : r = s \ {AnyOf(s)}
    OBVIOUS
  <2>7. Cardinality(r) < n /\ r \in SUBSET F
    BY <2>3, <2>4, <2>5, <2>6, SmallerOf
  <2>8. Cardinality(r) \in Nat
    BY <2>7, FS_Subset, FS_CardinalityType
  <2>9. a[r] = b[r]
    BY <2>2, <2>5, <2>7, <2>8
  <2>10. QED BY <2>3, <2>4, <2>6, <2>9 DEF SumStep, SumsIn
<1>2. ASSUME NEW s \in SUBSET F
      PROVE  a[s] = b[s]
  <2>1. Cardinality(s) \in Nat
    BY FS_Subset, FS_CardinalityType
  <2>2. QED BY <1>1, <2>1
<1>3. QED BY <1>2

LEMMA IterationIs ==
  ASSUME NEW g, NEW F, Integral(g, F)
  PROVE  /\ \A s \in SUBSET F : Iteration(g, F)[s] \in Int
         /\ \A s \in SUBSET F : Iteration(g, F)[s] = SumStep(g, Iteration(g, F), s)
<1>1. IsFiniteSet(F)
  BY DEF Integral
<1>2. PICK c \in Nat : c = Cardinality(F)
  BY <1>1, FS_CardinalityType
<1>3. SmallOf(F, c) = SUBSET F
  BY <1>1, <1>2, FS_Subset DEF SmallOf
<1>4. SumsUpTo(g, F, c)
  BY SumsExist
<1>5. PICK it \in [SUBSET F -> Int] : \A s \in SUBSET F : it[s] = SumStep(g, it, s)
  BY <1>3, <1>4 DEF SumsUpTo
<1>6. it = [s \in SUBSET F |-> SumStep(g, it, s)]
  BY <1>5
<1>7. Iteration(g, F) = [s \in SUBSET F |-> SumStep(g, Iteration(g, F), s)]
  BY <1>6, Zenon DEF Iteration
<1>8. PICK h : h = Iteration(g, F) /\ h = [s \in SUBSET F |-> SumStep(g, h, s)]
  BY <1>7, Zenon
<1>9. \A s \in SUBSET F : h[s] = SumStep(g, h, s)
  BY <1>8, Zenon
<1>10. \A s \in SUBSET F : h[s] = it[s]
  <2>1. SumsIn(it, g, F) /\ SumsIn(h, g, F)
    BY <1>5, <1>9 DEF SumsIn
  <2>2. QED BY <1>1, <2>1, SumsAreOne
<1>11. QED BY <1>5, <1>8, <1>9, <1>10

LEMMA SumUnfolds ==
  ASSUME NEW g, NEW F, Integral(g, F)
  PROVE  /\ SumOf(g, F) \in Int
         /\ F = {} => SumOf(g, F) = 0
         /\ F # {} => SumOf(g, F) = g[AnyOf(F)] + SumOf(g, F \ {AnyOf(F)})
<1>1. PICK h : h = Iteration(g, F)
  OBVIOUS
<1>2. (\A s \in SUBSET F : h[s] \in Int) /\ \A s \in SUBSET F : h[s] = SumStep(g, h, s)
  BY <1>1, IterationIs
<1>3. F \in SUBSET F /\ SumOf(g, F) = h[F]
  BY <1>1, SumIsIteration
<1>4. ASSUME F # {}
      PROVE  h[F] = g[AnyOf(F)] + SumOf(g, F \ {AnyOf(F)})
  <2>1. PICK r : r = F \ {AnyOf(F)}
    OBVIOUS
  <2>2. r \in SUBSET F /\ Integral(g, r)
    BY <2>1, FS_Subset DEF Integral
  <2>3. PICK k : k = Iteration(g, r)
    OBVIOUS
  <2>4. \A s \in SUBSET r : k[s] = SumStep(g, k, s)
    BY <2>2, <2>3, IterationIs
  <2>5. \A s \in SUBSET r : h[s] = SumStep(g, h, s)
    BY <1>2, <2>2
  <2>10. IsFiniteSet(r) /\ r \in SUBSET r
    BY <2>2 DEF Integral
  <2>6. h[r] = k[r]
    <3>1. SumsIn(k, g, r) /\ SumsIn(h, g, r)
      BY <2>4, <2>5 DEF SumsIn
    <3>2. QED BY <2>10, <3>1, SumsAreOne
  <2>7. SumOf(g, r) = k[r]
    BY <2>3, SumIsIteration
  <2>8. h[F] = g[AnyOf(F)] + h[r]
    BY <1>2, <1>3, <1>4, <2>1 DEF SumStep
  <2>9. QED BY <2>1, <2>6, <2>7, <2>8
<1>5. QED BY <1>2, <1>3, <1>4 DEF SumStep

\* the order of summation does not matter
LEMMA SumAdds ==
  ASSUME NEW g, NEW F, Integral(g, F), NEW x, x \notin F, g[x] \in Int
  PROVE  SumOf(g, F \cup {x}) = SumOf(g, F) + g[x]
<1> DEFINE Adds(S, y) == SumOf(g, S \cup {y}) = SumOf(g, S) + g[y]
           Sizes == {n \in Nat : \E S, y : /\ Integral(g, S) /\ Cardinality(S) = n
                                          /\ y \notin S /\ g[y] \in Int /\ ~Adds(S, y)}
<1>1. Sizes = {}
  <2>1. SUFFICES ASSUME Sizes # {} PROVE FALSE
    OBVIOUS
  <2>2. PICK n \in Sizes : \A k \in Sizes : n <= k
    BY <2>1, LeastNat
  <2>3. PICK S, y : Integral(g, S) /\ Cardinality(S) = n /\ y \notin S /\ g[y] \in Int /\ ~Adds(S, y)
    BY <2>2
  <2>4. PICK T : T = S \cup {y}
    OBVIOUS
  <2>5. Integral(g, T) /\ T # {} /\ IsFiniteSet(S)
    BY <2>3, <2>4, FS_AddElement DEF Integral
  <2>6. PICK z : z = AnyOf(T)
    OBVIOUS
  <2>7. z \in T /\ SumOf(g, T) = g[z] + SumOf(g, T \ {z})
    BY <2>5, <2>6, AnyIn, SumUnfolds
  <2>8. SumOf(g, S) \in Int
    BY <2>3, SumUnfolds
  <2>9. CASE z = y
    <3>1. T \ {z} = S
      BY <2>3, <2>4, <2>9
    <3>2. SumOf(g, T) = g[y] + SumOf(g, S)
      BY <2>7, <2>9, <3>1
    <3>3. SumOf(g, T) = SumOf(g, S) + g[y]
      BY <2>3, <2>8, <3>2
    <3>4. QED BY <2>3, <2>4, <3>3
  <2>10. CASE z # y
    <3>1. PICK R : R = S \ {z}
      OBVIOUS
    <3>2. z \in S /\ T \ {z} = R \cup {y} /\ S = R \cup {z} /\ y \notin R /\ z \notin R
      BY <2>3, <2>4, <2>7, <2>10, <3>1
    <3>3. Integral(g, R) /\ Cardinality(R) = n - 1 /\ n \in Nat /\ g[z] \in Int
      BY <2>3, <2>5, <3>1, <3>2, FS_RemoveElement, FS_Subset DEF Integral
    <3>4. Cardinality(R) \in Nat
      BY <3>3, FS_CardinalityType DEF Integral
    <3>5. n - 1 \in Nat /\ n - 1 \notin Sizes
      <4>1. n - 1 \in Nat
        BY <3>3, <3>4
      <4>2. n - 1 \in Sizes => n <= n - 1
        BY <2>2, Zenon
      <4>3. n - 1 \notin Sizes
        <5> HIDE DEF Sizes
        <5>1. QED BY <3>3, <4>2
      <4>4. QED BY <4>1, <4>3
    <3>6. \A v : v \notin R /\ g[v] \in Int => Adds(R, v)
      BY <3>3, <3>5
    <3>7. SumOf(g, R \cup {y}) = SumOf(g, R) + g[y] /\ SumOf(g, R \cup {z}) = SumOf(g, R) + g[z]
      BY <2>3, <3>2, <3>3, <3>6
    <3>8. SumOf(g, R) \in Int
      BY <3>3, SumUnfolds
    <3>9. SumOf(g, T) = g[z] + (SumOf(g, R) + g[y]) /\ SumOf(g, S) = SumOf(g, R) + g[z]
      BY <2>7, <3>2, <3>7
    <3>10. SumOf(g, T) = SumOf(g, S) + g[y]
      BY <2>3, <3>3, <3>8, <3>9
    <3>11. QED BY <2>3, <2>4, <3>10
  <2>11. QED BY <2>9, <2>10
<1>2. Cardinality(F) \in Nat
  BY FS_CardinalityType DEF Integral
<1>3. QED BY <1>1, <1>2

\* what two functions agree on, they sum to the same
LEMMA SumSame ==
  ASSUME NEW g, NEW h, NEW F, Integral(g, F), \A f \in F : h[f] = g[f]
  PROVE  SumOf(h, F) = SumOf(g, F)
<1> DEFINE Sizes == {n \in Nat : \E s \in SUBSET F : Cardinality(s) = n /\ SumOf(h, s) # SumOf(g, s)}
<1>1. IsFiniteSet(F) /\ Integral(h, F)
  BY DEF Integral
<1>2. Sizes = {}
  <2>1. SUFFICES ASSUME Sizes # {} PROVE FALSE
    OBVIOUS
  <2>2. PICK n \in Sizes : \A k \in Sizes : n <= k
    BY <2>1, LeastNat
  <2>3. PICK s \in SUBSET F : Cardinality(s) = n /\ SumOf(h, s) # SumOf(g, s)
    BY <2>2
  <2>4. Integral(g, s) /\ Integral(h, s) /\ IsFiniteSet(s)
    BY <1>1, FS_Subset DEF Integral
  <2>5. s # {}
    BY <2>3, <2>4, SumUnfolds
  <2>6. PICK x, r : x = AnyOf(s) /\ r = s \ {x}
    OBVIOUS
  <2>7. x \in s /\ SumOf(g, s) = g[x] + SumOf(g, r) /\ SumOf(h, s) = h[x] + SumOf(h, r)
    BY <2>4, <2>5, <2>6, AnyIn, SumUnfolds
  <2>8. Cardinality(r) = n - 1 /\ n \in Nat /\ IsFiniteSet(r)
    BY <2>3, <2>4, <2>6, <2>7, FS_RemoveElement
  <2>9. Cardinality(r) \in Nat
    BY <2>8, FS_CardinalityType
  <2>10. SumOf(h, r) = SumOf(g, r)
    BY <2>2, <2>3, <2>6, <2>8, <2>9
  <2>11. QED BY <2>3, <2>7, <2>10
<1>3. Cardinality(F) \in Nat
  BY <1>1, FS_CardinalityType
<1>4. QED BY <1>2, <1>3

LEMMA SumSplits ==
  ASSUME NEW g, NEW F, NEW S, Integral(g, F), S \subseteq F
  PROVE  SumOf(g, F) = SumOf(g, S) + SumOf(g, F \ S)
<1> DEFINE Splits(s) == SumOf(g, s \cup (F \ S)) = SumOf(g, s) + SumOf(g, F \ S)
           Sizes == {n \in Nat : \E s \in SUBSET S : Cardinality(s) = n /\ ~Splits(s)}
<1>1. IsFiniteSet(F) /\ IsFiniteSet(S) /\ Integral(g, F \ S) /\ Integral(g, S)
  BY FS_Subset DEF Integral
<1>2. SumOf(g, F \ S) \in Int
  BY <1>1, SumUnfolds
<1>3. Sizes = {}
  <2>1. SUFFICES ASSUME Sizes # {} PROVE FALSE
    OBVIOUS
  <2>2. PICK n \in Sizes : \A k \in Sizes : n <= k
    BY <2>1, LeastNat
  <2>3. PICK s \in SUBSET S : Cardinality(s) = n /\ ~Splits(s)
    BY <2>2
  <2>4. Integral(g, s) /\ IsFiniteSet(s)
    BY <1>1, FS_Subset DEF Integral
  <2>5. CASE s = {}
    <3>1. SumOf(g, s) = 0 /\ s \cup (F \ S) = F \ S
      BY <2>4, <2>5, SumUnfolds
    <3>2. QED BY <1>2, <2>3, <3>1
  <2>6. CASE s # {}
    <3>1. PICK x, r : x \in s /\ r = s \ {x}
      BY <2>6
    <3>2. Cardinality(r) = n - 1 /\ n \in Nat /\ IsFiniteSet(r) /\ r \in SUBSET S /\ g[x] \in Int
      BY <2>3, <2>4, <3>1, FS_RemoveElement DEF Integral
    <3>3. Cardinality(r) \in Nat
      BY <3>2, FS_CardinalityType
    <3>4. Splits(r)
      <4>1. n - 1 \in Nat
        BY <3>2, <3>3
      <4>2. n - 1 \in Sizes => n <= n - 1
        BY <2>2, Zenon
      <4>3. n - 1 \notin Sizes
        <5> HIDE DEF Sizes
        <5>1. QED BY <3>2, <4>2
      <4>4. QED BY <3>2, <4>1, <4>3, Zenon
    <3>5. PICK u : u = r \cup (F \ S)
      OBVIOUS
    <3>6. u \in SUBSET F /\ x \notin u /\ s \cup (F \ S) = u \cup {x} /\ s = r \cup {x} /\ x \notin r
      BY <2>3, <3>1, <3>5
    <3>7. Integral(g, u) /\ Integral(g, r)
      BY <1>1, <3>2, <3>6, FS_Subset DEF Integral
    <3>8. SumOf(g, u \cup {x}) = SumOf(g, u) + g[x]
      BY <3>2, <3>6, <3>7, SumAdds
    <3>9. SumOf(g, s) = SumOf(g, r) + g[x]
      BY <3>2, <3>6, <3>7, SumAdds
    <3>10. SumOf(g, r) \in Int
      BY <3>7, SumUnfolds
    <3>13. SumOf(g, u) = SumOf(g, r) + SumOf(g, F \ S)
      BY <3>4, <3>5
    <3>14. SumOf(g, u \cup {x}) = SumOf(g, s) + SumOf(g, F \ S)
      BY <1>2, <3>2, <3>8, <3>9, <3>10, <3>13
    <3>11. Splits(s)
      BY <3>6, <3>14
    <3>12. QED BY <2>3, <3>11
  <2>7. QED BY <2>5, <2>6
<1>4. Cardinality(S) \in Nat
  BY <1>1, FS_CardinalityType
<1>5. SumOf(g, S \cup (F \ S)) = SumOf(g, S) + SumOf(g, F \ S)
  BY <1>3, <1>4
<1>6. S \cup (F \ S) = F
  OBVIOUS
<1>7. QED BY <1>5, <1>6

-----------------------------------------------------------------------------
(***************************************************************************)
(* Tables, and lists served one id after the other.                        *)
(***************************************************************************)
LEMMA UpsertIs ==
  ASSUME NEW table, NEW rows
  PROVE  /\ DOMAIN Upsert(table, rows) = DOMAIN table \cup DOMAIN rows
         /\ \A k \in DOMAIN rows : Upsert(table, rows)[k] = rows[k]
         /\ \A k \in DOMAIN table \ DOMAIN rows : Upsert(table, rows)[k] = table[k]
BY DEF Upsert

LEMMA ListIs ==
  ASSUME NEW S, S \subseteq Nat, NEW c \in Nat
  PROVE  /\ ListAfter(S, c) \subseteq S
         /\ ~HasMore(S, c) => \A k \in S : k <= c \/ k \in ListAfter(S, c)
         /\ HasMore(S, c) =>
              /\ Max(ListAfter(S, c)) \in S
              /\ \A k \in S : k <= Max(ListAfter(S, c)) => k <= c \/ k \in ListAfter(S, c)
<1>1. PICK rest : rest = {i \in S : i > c}
  OBVIOUS
<1>2. CASE rest = {}
  <2>1. ListAfter(S, c) = {} /\ ~HasMore(S, c)
    BY <1>1, <1>2 DEF ListAfter, HasMore
  <2>2. QED BY <1>1, <1>2, <2>1
<1>3. CASE rest # {}
  <2>1. PICK m : m = Min(rest)
    OBVIOUS
  <2>2. m \in rest /\ \A n \in rest : m <= n
    BY <1>1, <1>3, <2>1, MinIs
  <2>3. ListAfter(S, c) = {m}
    BY <1>1, <1>3, <2>1 DEF ListAfter
  <2>4. Max({m}) = m
    BY <1>1, <2>2 DEF Max
  <2>5. ~HasMore(S, c) => \A k \in S : k <= c \/ k = m
    BY <1>1, <2>2 DEF HasMore
  <2>6. \A k \in S : k <= m => k <= c \/ k = m
    BY <1>1, <2>2
  <2>7. QED BY <1>1, <2>2, <2>3, <2>4, <2>5, <2>6
<1>4. QED BY <1>2, <1>3

LEMMA ListFinite == ASSUME NEW S, NEW c PROVE IsFiniteSet(ListAfter(S, c))
BY FS_EmptySet, FS_Singleton DEF ListAfter

LEMMA ServedIs ==
  ASSUME NEW S, IsFiniteSet(S)
  PROVE  /\ SetToSeq(S) \in Seq(S) /\ ToSet(SetToSeq(S)) = S
         /\ Len(SetToSeq(S)) = Cardinality(S)
<1>1. PICK n \in Nat : n = Cardinality(S)
  BY FS_CardinalityType
<1>2. ExistsBijection(1 .. n, S)
  BY <1>1, FS_CardinalityType
<1>3. PICK g \in [1 .. n -> S] : IsInjective(g)
  BY <1>2 DEF ExistsBijection, Bijection, Injection, IsInjective
<1>4. PICK f : f = SetToSeq(S)
  OBVIOUS
<1>5. f \in [1 .. n -> S] /\ IsInjective(f)
  BY <1>1, <1>3, <1>4 DEF SetToSeq
<1>6. f \in Seq(S) /\ DOMAIN f = 1 .. n /\ Len(f) = n
  BY <1>5
<1>7. f \in Injection(1 .. n, S)
  BY <1>5 DEF Injection, IsInjective
<1>8. IsFiniteSet(1 .. n) /\ Cardinality(1 .. n) = n
  BY FS_Interval
<1>9. f \in Surjection(1 .. n, S)
  BY <1>1, <1>7, <1>8, FS_Injection
<1>10. ToSet(f) = S
  BY <1>6, <1>9 DEF ToSet, Surjection
<1>11. QED BY <1>1, <1>4, <1>6, <1>10

LEMMA ConcatIs ==
  ASSUME NEW S, NEW a \in Seq(S), NEW b \in Seq(S)
  PROVE  a \o b \in Seq(S) /\ ToSet(a \o b) = ToSet(a) \cup ToSet(b)
<1>0. PICK q : q = a \o b
  OBVIOUS
<1>1. PICK m \in Nat, n \in Nat : m = Len(a) /\ n = Len(b)
  BY LenProperties
<1>2. /\ q \in Seq(S) /\ Len(q) = m + n
      /\ \A i \in 1 .. m + n : q[i] = IF i <= m THEN a[i] ELSE b[i - m]
  BY <1>0, <1>1, ConcatProperties
<1>3. DOMAIN a = 1 .. m /\ DOMAIN b = 1 .. n /\ DOMAIN q = 1 .. m + n
  BY <1>1, <1>2, LenProperties
<1>4. ToSet(q) \subseteq ToSet(a) \cup ToSet(b)
  <2>1. SUFFICES ASSUME NEW i \in 1 .. m + n PROVE q[i] \in ToSet(a) \cup ToSet(b)
    BY <1>3 DEF ToSet
  <2>2. CASE i <= m
    <3>1. i \in 1 .. m /\ q[i] = a[i]
      BY <1>2, <2>2
    <3>2. QED BY <1>3, <3>1 DEF ToSet
  <2>3. CASE i > m
    <3>1. i - m \in 1 .. n /\ q[i] = b[i - m]
      BY <1>2, <2>3
    <3>2. QED BY <1>3, <3>1 DEF ToSet
  <2>4. QED BY <2>2, <2>3
<1>5. ToSet(a) \subseteq ToSet(q)
  <2>1. \A i \in 1 .. m : i \in 1 .. m + n /\ q[i] = a[i]
    BY <1>2
  <2>2. QED BY <1>3, <2>1 DEF ToSet
<1>6. ToSet(b) \subseteq ToSet(q)
  <2>1. \A i \in 1 .. n : i + m \in 1 .. m + n /\ q[i + m] = b[i]
    <3>1. TAKE i \in 1 .. n
    <3>2. PICK j \in 1 .. m + n : j = i + m /\ j - m = i /\ ~(j <= m)
      OBVIOUS
    <3>3. QED BY <1>2, <3>2
  <2>2. QED BY <1>3, <2>1 DEF ToSet
<1>7. QED BY <1>0, <1>2, <1>4, <1>5, <1>6

-----------------------------------------------------------------------------
(***************************************************************************)
(* What an estimate is worth.                                              *)
(***************************************************************************)
LEMMA OneMore == ASSUME NEW n \in Nat, NEW x \in Int PROVE n * x + x = (n + 1) * x /\ 0 * x = 0
OBVIOUS

\* every term of the sum is x; F is the n numbers after a
Flat(g, F, x) == \A k \in F : g[k] = x
After(a, n) == (a + 1) .. (a + n)
Part(S, F) == S \subseteq F

LEMMA PartSplits ==
  ASSUME NEW g, NEW F, NEW S, Integral(g, F), Part(S, F)
  PROVE  SumOf(g, F) = SumOf(g, S) + SumOf(g, F \ S)
<1>1. S \subseteq F
  BY DEF Part
<1>2. QED BY <1>1, SumSplits

LEMMA EqualTerms ==
  ASSUME NEW g, NEW a \in Nat, NEW n \in Nat, NEW x \in Int, Flat(g, After(a, n), x)
  PROVE  SumOf(g, After(a, n)) = n * x
<1>0. PICK F : F = (a + 1) .. (a + n) /\ \A k \in F : g[k] = x
  BY DEF After, Flat
<1> DEFINE Off == {m \in Nat : m <= n /\ SumOf(g, (a + 1) .. (a + m)) # m * x}
<1>1. Off = {}
  <2>1. SUFFICES ASSUME Off # {} PROVE FALSE
    OBVIOUS
  <2>2. PICK m \in Off : \A k \in Off : m <= k
    BY <2>1, LeastNat
  <2>3. \A k \in Nat : IsFiniteSet((a + 1) .. (a + k))
    BY FS_Interval
  <2>4. \A k \in Nat : k <= n => Integral(g, (a + 1) .. (a + k))
    <3>1. TAKE k \in Nat
    <3>2. HAVE k <= n
    <3>3. \A j \in (a + 1) .. (a + k) : j \in F
      BY <1>0, <3>2
    <3>4. \A j \in (a + 1) .. (a + k) : g[j] \in Int
      BY <1>0, <3>3
    <3>5. QED BY <2>3, <3>4 DEF Integral
  <2>5. CASE m = 0
    <3>1. (a + 1) .. (a + 0) = {} /\ Integral(g, {})
      BY FS_EmptySet DEF Integral
    <3>2. SumOf(g, {}) = 0
      BY <3>1, SumUnfolds
    <3>3. QED BY <2>2, <2>5, <3>1, <3>2, OneMore
  <2>6. CASE m # 0
    <3>1. PICK p \in Nat : p + 1 = m /\ p <= n
      BY <2>2, <2>6
    <3>2. p \notin Off
      BY <2>2, <3>1
    <3>3. PICK G : G = (a + 1) .. (a + p)
      OBVIOUS
    <3>4. SumOf(g, G) = p * x
      BY <3>1, <3>2, <3>3
    <3>5. (a + 1) .. (a + m) = G \cup {a + m} /\ a + m \notin G
      BY <3>1, <3>3
    <3>6. g[a + m] = x
      BY <1>0, <2>2, <3>1
    <3>7. Integral(g, G)
      BY <2>4, <3>1, <3>3
    <3>8. SumOf(g, G \cup {a + m}) = SumOf(g, G) + x
      BY <3>5, <3>6, <3>7, SumAdds
    <3>9. SumOf(g, (a + 1) .. (a + m)) = m * x
      BY <3>1, <3>4, <3>5, <3>8, OneMore
    <3>10. QED BY <2>2, <3>9
  <2>7. QED BY <2>5, <2>6
<1>2. n \notin Off
  BY <1>1
<1>3. QED BY <1>2 DEF After

LEMMA RoundedHalfUp == ASSUME NEW x \in Nat PROVE LET q == (x + 5) \div 10 IN 10 * q - 5 <= x /\ x < 10 * q + 5
<1>1. PICK q, y : y = x + 5 /\ q = y \div 10 /\ y \in Nat
  OBVIOUS
<1>2. q \in Int /\ 10 * q <= y /\ y < 10 * q + 10
  BY <1>1
<1>3. QED BY <1>1, <1>2

Uses == [input : Nat, cached : Nat]

LEMMA PriceIs ==
  ASSUME NEW m, hasPinnedPrice(m), world.pinned \subseteq DOMAIN OaRates
  PROVE  LookupPinnedPrice(m) \in Priced
BY OpenAiAssumption DEF hasPinnedPrice, LookupPinnedPrice

LEMMA TimesNat == ASSUME NEW x \in Nat, NEW y \in Nat PROVE x * y \in Nat
OBVIOUS

LEMMA EstimateIsWorth ==
  ASSUME NEW r, NEW t \in Uses, ~Unpriceable(r, t), world.pinned \subseteq DOMAIN OaRates
  PROVE  10 * Estimate(r, t) - 5 <= Worth(r, t) /\ Worth(r, t) < 10 * Estimate(r, t) + 5
<1>1. PICK p : p = LookupPinnedPrice(r.model)
  OBVIOUS
<1>2. p \in Priced
  BY <1>1, PriceIs DEF Unpriceable
<1>3. PICK i, c : i = t.input /\ c = t.cached
  OBVIOUS
<1>4. i \in Nat /\ c \in Nat /\ c <= i
  BY <1>3 DEF Uses, Unpriceable
<1>5. PICK g : g = [n \in 1 .. i |-> IF r.batch THEN p.batch ELSE IF n <= c THEN p.cached ELSE p.input]
  OBVIOUS
<1>6. Worth(r, t) = SumOf(g, 1 .. i)
  <2>1. DOMAIN g = 1 .. i
    BY <1>5
  <2>2. Worth(r, t) = SumFunction(g)
    BY <1>1, <1>3, <1>5, Zenon DEF Worth
  <2>3. SumFunction(g) = SumOf(g, DOMAIN g)
    BY DEF SumFunction, SumOf, SumFunctionOnSet, FoldFunction, FoldFunctionOnSet
  <2>4. QED BY <2>1, <2>2, <2>3
<1>7. CASE r.batch
  <2>1. c = 0 /\ (i = 0 \/ p.batch \in Nat)
    BY <1>1, <1>2, <1>3, <1>4, <1>7 DEF Unpriceable, Priced
  <2>2. PICK x \in Nat : x = IF i = 0 THEN 0 ELSE p.batch
    BY <2>1
  <2>3. SumOf(g, 1 .. i) = i * x
    <3>1. After(0, i) = 1 .. i
      BY <1>4 DEF After
    <3>2. Flat(g, After(0, i), x)
      BY <1>4, <1>5, <1>7, <2>2, <3>1 DEF Flat
    <3>3. SumOf(g, After(0, i)) = i * x
      BY <1>4, <3>2, EqualTerms
    <3>4. QED BY <3>1, <3>3
  <2>4. PICK cost : cost = i * x
    OBVIOUS
  <2>5. cost \in Nat /\ Worth(r, t) = cost
    BY <1>4, <1>6, <2>2, <2>3, <2>4, TimesNat
  <2>6. Estimate(r, t) = (cost + 5) \div 10
    BY <1>1, <1>3, <1>4, <1>7, <2>2, <2>4, OneMore DEF Estimate
  <2>7. QED BY <2>5, <2>6, RoundedHalfUp
<1>8. CASE ~r.batch
  <2>1. p.input \in Nat /\ (c = 0 \/ p.cached \in Nat)
    BY <1>1, <1>2, <1>3, <1>4, <1>8 DEF Unpriceable, Priced
  <2>2. PICK x \in Nat : x = IF c = 0 THEN 0 ELSE p.cached
    BY <2>1
  <2>3. PICK d \in Nat : d = i - c
    BY <1>4
  <2>4. PICK A, B : A = After(0, c) /\ B = After(c, d)
    OBVIOUS
  <2>5. \A k \in A : g[k] = x
    BY <1>4, <1>5, <1>8, <2>2, <2>4 DEF After
  <2>6. \A k \in B : g[k] = p.input
    BY <1>4, <1>5, <1>8, <2>3, <2>4 DEF After
  <2>7. SumOf(g, A) = c * x
    <3>1. Flat(g, After(0, c), x)
      BY <2>4, <2>5 DEF Flat
    <3>2. QED BY <1>4, <2>4, <3>1, EqualTerms
  <2>8. SumOf(g, B) = d * p.input
    <3>1. Flat(g, After(c, d), p.input)
      BY <2>4, <2>6 DEF Flat
    <3>2. QED BY <1>4, <2>1, <2>4, <3>1, EqualTerms
  <2>9. A \subseteq 1 .. i /\ (1 .. i) \ A = B
    BY <1>4, <2>3, <2>4 DEF After
  <2>10. Integral(g, 1 .. i)
    <3>1. \A k \in 1 .. i : k \in A \/ k \in B
      BY <2>9
    <3>2. \A k \in 1 .. i : g[k] \in Int
      BY <2>1, <2>5, <2>6, <3>1
    <3>3. QED BY <1>4, <3>2, FS_Interval DEF Integral
  <2>11. Worth(r, t) = SumOf(g, A) + SumOf(g, B)
    <3>1. PICK F : F = 1 .. i
      OBVIOUS
    <3>2. SumOf(g, F) = SumOf(g, A) + SumOf(g, F \ A)
      <4>1. Integral(g, F) /\ Part(A, F)
        BY <2>9, <2>10, <3>1 DEF Part
      <4>2. QED BY <4>1, PartSplits
    <3>3. QED BY <1>6, <2>9, <3>1, <3>2
  <2>12. PICK cost : cost = d * p.input + c * x
    OBVIOUS
  <2>13. d * p.input \in Nat /\ c * x \in Nat
    BY <1>4, <2>1, TimesNat
  <2>14. cost \in Nat /\ Worth(r, t) = cost
    BY <2>7, <2>8, <2>11, <2>12, <2>13
  <2>15. (IF c = 0 THEN 0 ELSE c * p.cached) = c * x
    BY <1>4, <2>2, OneMore
  <2>16. Estimate(r, t) = (cost + 5) \div 10
    BY <1>1, <1>3, <1>8, <2>3, <2>12, <2>15 DEF Estimate
  <2>17. QED BY <2>14, <2>16, RoundedHalfUp
<1>9. QED BY <1>7, <1>8

-----------------------------------------------------------------------------
(***************************************************************************)
(* OpenAI's walk: what the token has passed is stored, unless the vendor   *)
(* moved since the walk began.                                             *)
(***************************************************************************)
OaShape(w) ==
  /\ w = [users |-> w.users, projects |-> w.projects, keys |-> w.keys, rows |-> w.rows, bill |-> w.bill,
          pinned |-> w.pinned]
  /\ w.users \subseteq OaIds /\ w.projects = {1, 2} /\ w.keys \in [OaIds -> SUBSET OaIds]
  /\ DOMAIN w.rows \subseteq OaUsage /\ \A r \in DOMAIN w.rows : w.rows[r] \in Uses
  /\ DOMAIN w.bill \subseteq OaItems
  /\ OaPinned \subseteq w.pinned /\ w.pinned \subseteq DOMAIN OaRates

OaStored(s) ==
  /\ s = [people |-> s.people, keys |-> s.keys, usage |-> s.usage, costs |-> s.costs]
  /\ \A k \in DOMAIN s.keys : s.keys[k] = OaOwner[k]
  /\ \A b \in DOMAIN s.costs : LineModel[b.item] \notin OaPinned

\* the projects are listed up to the cursor, and all of them before their keys
OaTokenOK ==
  token # None =>
    /\ token \in OaCursors
    /\ token.phase \in {"users", "projects", "api_keys"} => ToSet(token.projects) \subseteq world.projects
    /\ token.phase = "projects" => \A p \in world.projects : p <= token.cursor => p \in ToSet(token.projects)
    /\ token.phase = "api_keys" =>
         world.projects \subseteq ToSet(token.projects) /\ token.index \in DOMAIN token.projects
    /\ token.phase \in {"usage", "costs"} => token.cursor \in 1 .. OaDays

\* a walk has ended
OaOver == token = None /\ walks > 0

UserPassed(u) == OaOver \/ (token # None /\ (token.phase = "users" => u <= token.cursor))
UsersRead ==
  "people" \notin moved => \A u \in world.users : UserPassed(u) => u \in stored.people

KeyPassed(p, k) ==
  \/ OaOver
  \/ token # None /\ token.phase \in {"usage", "costs"}
  \/ /\ token # None /\ token.phase = "api_keys"
     /\ \A n \in DOMAIN token.projects :
          token.projects[n] = p => n < token.index \/ (n = token.index /\ k <= token.cursor)
KeysRead ==
  "people" \notin moved =>
    \A p \in world.projects : \A k \in world.keys[p] : KeyPassed(p, k) => k \in DOMAIN stored.keys

UsagePassed(d) ==
  \/ OaOver
  \/ token # None /\ (token.phase = "costs" \/ (token.phase = "usage" /\ d < token.cursor))
UsageRead ==
  moved \cap {"usage", "pinned"} = {} =>
    \A r \in DOMAIN world.rows : UsagePassed(r.day) =>
      /\ r \in DOMAIN stored.usage /\ ~Unpriceable(r, world.rows[r])
      /\ stored.usage[r] = [cents |-> Estimate(r, world.rows[r]), who |-> Who(r)]

CostsPassed(d) == OaOver \/ (token # None /\ token.phase = "costs" /\ d < token.cursor)
CostsRead ==
  moved \cap {"bill", "pinned"} = {} =>
    \A b \in DOMAIN world.bill : CostsPassed(b.day) /\ Kept(b) =>
      b \in DOMAIN stored.costs /\ stored.costs[b] = world.bill[b]

OaInv ==
  /\ OaShape(world) /\ OaStored(stored) /\ OaTokenOK /\ walks \in Nat
  /\ UsersRead /\ KeysRead /\ UsageRead /\ CostsRead
OpenAiIInv == vendor = "openai" => OaInv

LEMMA OaNoToken == None \notin OaCursors
BY OpenAiAssumption

LEMMA OaInitially == OaInit => OaInv
<1> SUFFICES ASSUME OaInit PROVE OaInv
  OBVIOUS
<1>1. /\ world \in [users : {{1}}, projects : {{1, 2}}, keys : {[p \in OaIds |-> IF p = 2 THEN {1} ELSE {}]},
                rows : {NoRows}, bill : {NoRows}, pinned : {OaPinned}]
      /\ token = None /\ walks = 0
      /\ stored = [people |-> {}, keys |-> NoRows, usage |-> NoRows, costs |-> NoRows]
  BY DEF OaInit
<1>2. DOMAIN NoRows = {}
  BY DEF NoRows
<1>3. OaShape(world)
  <2>1. world = [users |-> world.users, projects |-> world.projects, keys |-> world.keys, rows |-> world.rows,
                 bill |-> world.bill, pinned |-> world.pinned]
    BY <1>1
  <2>2. /\ world.users = {1} /\ world.projects = {1, 2} /\ world.rows = NoRows /\ world.bill = NoRows
        /\ world.pinned = OaPinned /\ world.keys = [p \in OaIds |-> IF p = 2 THEN {1} ELSE {}]
    BY <1>1
  <2>3. world.keys \in [OaIds -> SUBSET OaIds]
    BY <2>2, OpenAiAssumption
  <2>4. QED BY <1>2, <2>1, <2>2, <2>3, OpenAiAssumption DEF OaShape
<1>4. OaStored(stored)
  BY <1>1, <1>2 DEF OaStored
<1>5. ~OaOver /\ token = None
  BY <1>1 DEF OaOver
<1>6. UsersRead /\ KeysRead /\ UsageRead /\ CostsRead
  BY <1>5 DEF UsersRead, KeysRead, UsageRead, CostsRead, UserPassed, KeyPassed, UsagePassed, CostsPassed
<1>7. QED BY <1>1, <1>3, <1>4, <1>5, <1>6 DEF OaInv, OaTokenOK

LEMMA OaStarts == OaInv /\ Start(OaInitialCursor) => OaInv'
<1> SUFFICES ASSUME OaInv, Start(OaInitialCursor) PROVE OaInv'
  OBVIOUS
<1>1. PICK t : t = OaInitialCursor
  OBVIOUS
<1>2. token' = t /\ walks' = walks + 1 /\ world' = world /\ stored' = stored /\ moved' = {} /\ token = None
  BY <1>1 DEF Start
<1>3. /\ t.phase = "users" /\ t.cursor = 0 /\ t.projects = <<>> /\ t.index = 1 /\ t \in OaCursors
  BY <1>1 DEF OaInitialCursor, OaCursors
<1>4. t # None
  BY <1>3, OaNoToken
<1>5. OaTokenOK'
  BY <1>2, <1>3 DEF OaTokenOK, ToSet
<1>6. \A u \in world.users : ~UserPassed(u)'
  BY <1>2, <1>3, <1>4, OpenAiAssumption DEF UserPassed, OaOver, OaInv, OaShape
<1>7. /\ \A p, k : ~KeyPassed(p, k)'
      /\ \A d : ~UsagePassed(d)' /\ ~CostsPassed(d)'
  BY <1>2, <1>3, <1>4 DEF KeyPassed, UsagePassed, CostsPassed, OaOver
<1>8. UsersRead' /\ KeysRead' /\ UsageRead' /\ CostsRead'
  BY <1>2, <1>6, <1>7 DEF UsersRead, KeysRead, UsageRead, CostsRead
<1>9. QED BY <1>2, <1>5, <1>8 DEF OaInv

\* a page disturbs what it writes; the rest follows the token
LEMMA UsersStay ==
  ASSUME UsersRead, world' = world, moved' = moved, stored.people \subseteq stored'.people,
         \A u \in world.users : UserPassed(u)' => UserPassed(u)
  PROVE  UsersRead'
BY DEF UsersRead

LEMMA KeysStay ==
  ASSUME KeysRead, world' = world, moved' = moved, DOMAIN stored.keys \subseteq DOMAIN stored'.keys,
         \A p \in world.projects : \A k \in world.keys[p] : KeyPassed(p, k)' => KeyPassed(p, k)
  PROVE  KeysRead'
BY DEF KeysRead

LEMMA EstimatesStay ==
  ASSUME world'.pinned = world.pinned, NEW r, NEW t
  PROVE  (Unpriceable(r, t)' <=> Unpriceable(r, t)) /\ Estimate(r, t)' = Estimate(r, t)
<1>1. \A m : LookupPinnedPrice(m)' = LookupPinnedPrice(m)
  BY DEF LookupPinnedPrice
<1>2. hasPinnedPrice(r.model)' <=> hasPinnedPrice(r.model)
  BY <1>1 DEF hasPinnedPrice
<1>3. QED BY <1>1, <1>2 DEF Unpriceable, Estimate

LEMMA UsageStays ==
  ASSUME UsageRead, world'.rows = world.rows, world'.pinned = world.pinned, moved \subseteq moved',
         stored'.usage = stored.usage, \A r \in DOMAIN world.rows : UsagePassed(r.day)' => UsagePassed(r.day)
  PROVE  UsageRead'
<1>1. SUFFICES ASSUME moved' \cap {"usage", "pinned"} = {}, NEW r \in DOMAIN world.rows, UsagePassed(r.day)'
               PROVE  /\ r \in DOMAIN stored.usage /\ ~Unpriceable(r, world.rows[r])'
                      /\ stored.usage[r] = [cents |-> Estimate(r, world.rows[r])', who |-> Who(r)]
  BY DEF UsageRead, Who
<1>2. PICK t : t = world.rows[r]
  OBVIOUS
<1>3. (Unpriceable(r, t)' <=> Unpriceable(r, t)) /\ Estimate(r, t)' = Estimate(r, t)
  BY EstimatesStay
<1>4. (Unpriceable(r, world.rows[r])' <=> Unpriceable(r, t)') /\ Estimate(r, world.rows[r])' = Estimate(r, t)'
  BY <1>2 DEF Unpriceable, Estimate
<1>5. QED BY <1>1, <1>2, <1>3, <1>4 DEF UsageRead

LEMMA CostsStay ==
  ASSUME CostsRead, world'.bill = world.bill, world'.pinned = world.pinned, moved \subseteq moved',
         stored'.costs = stored.costs, \A b \in DOMAIN world.bill : CostsPassed(b.day)' => CostsPassed(b.day)
  PROVE  CostsRead'
<1>1. \A b : Kept(b)' <=> Kept(b)
  BY DEF Kept, hasPinnedPrice, LookupPinnedPrice
<1>2. QED BY <1>1 DEF CostsRead

-----------------------------------------------------------------------------
(***************************************************************************)
(* The pages of OpenAI.                                                    *)
(***************************************************************************)
LEMMA UsersPageKeeps == OaInv /\ OaListUsers => OaInv'
<1> SUFFICES ASSUME OaInv, OaListUsers PROVE OaInv'
  OBVIOUS
<1>1. PICK pg, more, c : pg = ListAfter(world.users, token.cursor) /\ more = HasMore(world.users, token.cursor)
                           /\ c = token.cursor
  OBVIOUS
<1>2. PICK t, s : /\ t = (IF more THEN [token EXCEPT !.cursor = Max(pg)]
                          ELSE [token EXCEPT !.phase = "projects", !.cursor = 0])
                  /\ s = [stored EXCEPT !.people = @ \cup pg]
  OBVIOUS
<1>3. /\ token' = t /\ stored' = s /\ UNCHANGED <<vendor, world, moved, walks, changes>>
      /\ token # None /\ token.phase = "users" /\ token \in OaCursors /\ c \in Nat
  BY <1>1, <1>2 DEF OaListUsers, InPhase, CommitPage, OaInv, OaTokenOK, OaCursors
<1>4. world.users \subseteq Nat \ {0} /\ OaShape(world) /\ OaStored(stored) /\ walks \in Nat
  BY OpenAiAssumption DEF OaInv, OaShape
<1>5. /\ ~more => \A u \in world.users : u <= c \/ u \in pg
      /\ more => /\ Max(pg) \in world.users
                 /\ \A u \in world.users : u <= Max(pg) => u <= c \/ u \in pg
  <2>1. PICK S : S = world.users
    OBVIOUS
  <2>2. S \subseteq Nat
    BY <1>4, <2>1
  <2>3. QED BY <1>1, <1>3, <2>1, <2>2, ListIs
<1>6. /\ s.people = stored.people \cup pg /\ s.keys = stored.keys /\ s.usage = stored.usage /\ s.costs = stored.costs
      /\ OaStored(s)
  BY <1>2, <1>4 DEF OaStored
<1>7. /\ t \in OaCursors /\ t # None /\ t.projects = token.projects
      /\ IF more THEN t.phase = "users" /\ t.cursor = Max(pg) ELSE t.phase = "projects" /\ t.cursor = 0
  <2>1. more => Max(pg) \in Nat
    BY <1>4, <1>5
  <2>2. t \in OaCursors
    BY <1>2, <1>3, <2>1 DEF OaCursors
  <2>3. t.projects = token.projects
    BY <1>2, <1>3 DEF OaCursors
  <2>4. IF more THEN t.phase = "users" /\ t.cursor = Max(pg) ELSE t.phase = "projects" /\ t.cursor = 0
    BY <1>2, <1>3 DEF OaCursors
  <2>5. QED BY <2>2, <2>3, <2>4, OaNoToken
<1>8. OaTokenOK'
  BY <1>3, <1>4, <1>7 DEF OaInv, OaTokenOK, OaShape
<1>9. UsersRead'
  <2>1. SUFFICES ASSUME "people" \notin moved, NEW u \in world.users, UserPassed(u)'
                 PROVE  u \in stored.people \cup pg
    BY <1>3, <1>6 DEF UsersRead
  <2>2. u <= c => u \in stored.people
    BY <1>1, <1>3, <2>1 DEF OaInv, UsersRead, UserPassed
  <2>3. more => u <= Max(pg)
    BY <1>3, <1>7, <2>1 DEF UserPassed, OaOver
  <2>4. QED BY <1>5, <2>2, <2>3
<1>10. /\ \A p, k : ~KeyPassed(p, k)'
       /\ \A d : ~UsagePassed(d)' /\ ~CostsPassed(d)'
  BY <1>3, <1>7 DEF KeyPassed, UsagePassed, CostsPassed, OaOver
<1>11. KeysRead' /\ UsageRead' /\ CostsRead'
  BY <1>10 DEF KeysRead, UsageRead, CostsRead
<1>12. QED BY <1>3, <1>4, <1>6, <1>8, <1>9, <1>11 DEF OaInv

LEMMA ProjectsPageKeeps == OaInv /\ ListProjects => OaInv'
<1> SUFFICES ASSUME OaInv, ListProjects PROVE OaInv'
  OBVIOUS
<1>1. PICK pg, more, c : pg = ListAfter(world.projects, token.cursor)
                           /\ more = HasMore(world.projects, token.cursor) /\ c = token.cursor
  OBVIOUS
<1>2. PICK q : q = token.projects \o SetToSeq(pg)
  OBVIOUS
<1>3. PICK n : n = [token EXCEPT !.projects = q]
  OBVIOUS
<1>4. PICK t : t = IF more THEN [n EXCEPT !.cursor = Max(pg)]
                   ELSE IF q = <<>> THEN [n EXCEPT !.phase = "usage", !.cursor = 1]
                   ELSE [n EXCEPT !.phase = "api_keys", !.cursor = 0, !.index = 1]
  OBVIOUS
<1>5. /\ token # None /\ token.phase = "projects" /\ token \in OaCursors /\ c \in Nat
      /\ OaShape(world) /\ world.projects = {1, 2} /\ OaStored(stored) /\ walks \in Nat
      /\ ToSet(token.projects) \subseteq world.projects
      /\ \A p \in world.projects : p <= c => p \in ToSet(token.projects)
  BY <1>1 DEF ListProjects, InPhase, OaInv, OaTokenOK, OaCursors, OaShape
<1>6. n \in [phase : {"users", "projects", "api_keys", "usage", "costs"}, cursor : Nat, projects : {q}, index : Nat]
      /\ n.projects = q /\ n.phase = "projects"
  BY <1>3, <1>5 DEF OaCursors
<1>7. token' = t /\ UNCHANGED <<vendor, world, moved, walks, changes, stored>>
  <2>1. CommitPage(t, stored)
    BY <1>1, <1>2, <1>3, <1>4, <1>6 DEF ListProjects
  <2>2. QED BY <2>1 DEF CommitPage
<1>8. /\ pg \subseteq world.projects
      /\ ~more => \A p \in world.projects : p <= c \/ p \in pg
      /\ more => /\ Max(pg) \in world.projects
                 /\ \A p \in world.projects : p <= Max(pg) => p <= c \/ p \in pg
  <2>1. PICK S : S = world.projects
    OBVIOUS
  <2>2. S \subseteq Nat
    BY <1>5, <2>1
  <2>3. QED BY <1>1, <1>5, <2>1, <2>2, ListIs
<1>9. q \in Seq(Nat) /\ ToSet(q) = ToSet(token.projects) \cup pg
  <2>1. PICK a, b : a = token.projects /\ b = SetToSeq(pg)
    OBVIOUS
  <2>2. IsFiniteSet(pg)
    BY <1>1, ListFinite
  <2>3. b \in Seq(pg) /\ ToSet(b) = pg
    BY <2>1, <2>2, ServedIs
  <2>4. a \in Seq(Nat) /\ b \in Seq(Nat)
    BY <1>5, <1>8, <2>1, <2>3 DEF OaCursors
  <2>5. QED BY <1>2, <2>1, <2>3, <2>4, ConcatIs
<1>10. n \in OaCursors
  BY <1>6, <1>9 DEF OaCursors
<1>11. ~more => q # <<>>
  <2>1. ~more => 1 \in ToSet(q)
    BY <1>5, <1>8, <1>9
  <2>2. ToSet(<<>>) = {}
    BY DEF ToSet
  <2>3. QED BY <2>1, <2>2
<1>12. /\ t \in OaCursors /\ t # None /\ t.projects = q
       /\ IF more THEN t.phase = "projects" /\ t.cursor = Max(pg)
          ELSE t.phase = "api_keys" /\ t.cursor = 0 /\ t.index = 1
  <2>1. more => Max(pg) \in Nat
    BY <1>5, <1>8
  <2>2. t \in OaCursors
    BY <1>4, <1>10, <1>11, <2>1 DEF OaCursors
  <2>3. t.projects = q /\ IF more THEN t.phase = "projects" /\ t.cursor = Max(pg)
                          ELSE t.phase = "api_keys" /\ t.cursor = 0 /\ t.index = 1
    BY <1>4, <1>6, <1>10, <1>11 DEF OaCursors
  <2>4. QED BY <2>2, <2>3, OaNoToken
<1>13. OaTokenOK'
  <2>1. ToSet(q) \subseteq world.projects
    BY <1>5, <1>8, <1>9
  <2>2. more => \A p \in world.projects : p <= Max(pg) => p \in ToSet(q)
    BY <1>5, <1>8, <1>9
  <2>3. ~more => world.projects \subseteq ToSet(q)
    BY <1>5, <1>8, <1>9
  <2>4. ~more => 1 \in DOMAIN q
    <3>1. Len(q) \in Nat /\ DOMAIN q = 1 .. Len(q) /\ (Len(q) = 0 => q = <<>>)
      BY <1>9, LenProperties, EmptySeq
    <3>2. QED BY <1>11, <3>1
  <2>5. QED BY <1>7, <1>12, <2>1, <2>2, <2>3, <2>4 DEF OaTokenOK
<1>14. UsersRead'
  <2>1. \A u \in world.users : UserPassed(u)
    BY <1>5 DEF UserPassed
  <2>2. QED BY <1>7, <2>1 DEF OaInv, UsersRead
<1>15. \A d : ~UsagePassed(d)' /\ ~CostsPassed(d)'
  BY <1>7, <1>12 DEF UsagePassed, CostsPassed, OaOver
<1>16. \A p \in world.projects : \A k \in world.keys[p] : ~KeyPassed(p, k)'
  <2>1. SUFFICES ASSUME NEW p \in world.projects, NEW k \in world.keys[p], KeyPassed(p, k)' PROVE FALSE
    OBVIOUS
  <2>2. k \in Nat \ {0}
    BY <1>5, OpenAiAssumption DEF OaShape
  <2>3. ~more /\ \A i \in DOMAIN q : q[i] = p => i < 1 \/ (i = 1 /\ k <= 0)
    BY <1>7, <1>12, <2>1 DEF KeyPassed, OaOver
  <2>4. p \in ToSet(q)
    BY <1>5, <1>8, <1>9, <2>3
  <2>5. PICK i \in DOMAIN q : q[i] = p
    BY <2>4 DEF ToSet
  <2>6. i \in Nat \ {0}
    BY <1>9, LenProperties
  <2>7. QED BY <2>2, <2>3, <2>5, <2>6
<1>17. KeysRead' /\ UsageRead' /\ CostsRead'
  <2>1. KeysRead'
    BY <1>7, <1>16 DEF KeysRead
  <2>2. UsageRead' /\ CostsRead'
    BY <1>15 DEF UsageRead, CostsRead
  <2>3. QED BY <2>1, <2>2
<1>18. QED BY <1>5, <1>7, <1>13, <1>14, <1>17 DEF OaInv

LEMMA KeysPageKeeps == OaInv /\ OaListKeys => OaInv'
<1> SUFFICES ASSUME OaInv, OaListKeys PROVE OaInv'
  OBVIOUS
<1>1. PICK j, c, pr : j = token.index /\ c = token.cursor /\ pr = token.projects[j]
  OBVIOUS
<1>2. PICK pg, more, rows : /\ pg = ListAfter(world.keys[pr], c) /\ more = HasMore(world.keys[pr], c)
                              /\ rows = [k \in pg |-> OaOwner[k]]
  OBVIOUS
<1>3. PICK table : table = Upsert(stored.keys, rows)
  OBVIOUS
<1>4. PICK t, s : /\ t = (IF more THEN [token EXCEPT !.cursor = Max(pg)]
                          ELSE IF j < Len(token.projects) THEN [token EXCEPT !.cursor = 0, !.index = @ + 1]
                          ELSE [token EXCEPT !.phase = "usage", !.cursor = 1])
                  /\ s = [stored EXCEPT !.keys = table]
  OBVIOUS
<1>5. /\ token # None /\ token.phase = "api_keys" /\ token \in OaCursors /\ c \in Nat
      /\ OaShape(world) /\ world.projects = {1, 2} /\ OaStored(stored) /\ walks \in Nat
      /\ ToSet(token.projects) = world.projects /\ j \in DOMAIN token.projects
  BY <1>1 DEF OaListKeys, InPhase, OaInv, OaTokenOK, OaCursors, OaShape
<1>6. token' = t /\ stored' = s /\ UNCHANGED <<vendor, world, moved, walks, changes>>
  <2>1. CommitPage(t, s)
    BY <1>1, <1>2, <1>3, <1>4 DEF OaListKeys
  <2>2. QED BY <2>1 DEF CommitPage
<1>7. PICK N \in Nat : /\ N = Len(token.projects) /\ DOMAIN token.projects = 1 .. N /\ j \in 1 .. N
  BY <1>5, LenProperties DEF OaCursors
<1>8. pr \in world.projects /\ world.keys[pr] \subseteq Nat \ {0}
  <2>1. pr \in world.projects
    BY <1>1, <1>5 DEF ToSet
  <2>2. pr \in OaIds
    BY <1>5, <2>1, OpenAiAssumption
  <2>3. QED BY <1>5, <2>1, <2>2, OpenAiAssumption DEF OaShape
<1>9. /\ ~more => \A k \in world.keys[pr] : k <= c \/ k \in pg
      /\ more => /\ Max(pg) \in world.keys[pr]
                 /\ \A k \in world.keys[pr] : k <= Max(pg) => k <= c \/ k \in pg
  <2>1. PICK S : S = world.keys[pr]
    OBVIOUS
  <2>2. S \subseteq Nat
    BY <1>8, <2>1
  <2>3. QED BY <1>2, <1>5, <2>1, <2>2, ListIs
<1>10. /\ s.people = stored.people /\ s.keys = table /\ s.usage = stored.usage /\ s.costs = stored.costs
       /\ s = [people |-> s.people, keys |-> s.keys, usage |-> s.usage, costs |-> s.costs]
  BY <1>4, <1>5 DEF OaStored
<1>20. /\ DOMAIN table = DOMAIN stored.keys \cup DOMAIN rows /\ \A k \in DOMAIN rows : table[k] = rows[k]
      /\ \A k \in DOMAIN stored.keys \ DOMAIN rows : table[k] = stored.keys[k]
  BY <1>3 DEF Upsert
<1>11. /\ DOMAIN table = DOMAIN stored.keys \cup pg
       /\ \A k \in DOMAIN table : table[k] = OaOwner[k]
  <2>1. DOMAIN rows = pg /\ \A k \in pg : rows[k] = OaOwner[k]
    BY <1>2
  <2>2. QED BY <1>5, <1>20, <2>1 DEF OaStored
<1>12. OaStored(s)
  BY <1>5, <1>10, <1>11 DEF OaStored
<1>13. /\ t \in OaCursors /\ t # None /\ t.projects = token.projects
       /\ more => t.phase = "api_keys" /\ t.cursor = Max(pg) /\ t.index = j
       /\ ~more /\ j < N => t.phase = "api_keys" /\ t.cursor = 0 /\ t.index = j + 1
       /\ ~more /\ ~(j < N) => t.phase = "usage" /\ t.cursor = 1
  <2>1. more => Max(pg) \in Nat
    BY <1>8, <1>9
  <2>2. j + 1 \in Nat /\ j = token.index
    BY <1>1, <1>7
  <2>3. t \in OaCursors
    BY <1>4, <1>5, <2>1, <2>2 DEF OaCursors
  <2>4. t.projects = token.projects
    BY <1>4, <1>5 DEF OaCursors
  <2>5. /\ more => t.phase = "api_keys" /\ t.cursor = Max(pg) /\ t.index = j
        /\ ~more /\ j < N => t.phase = "api_keys" /\ t.cursor = 0 /\ t.index = j + 1
        /\ ~more /\ ~(j < N) => t.phase = "usage" /\ t.cursor = 1
    BY <1>4, <1>5, <1>7, <2>2 DEF OaCursors
  <2>6. QED BY <2>3, <2>4, <2>5, OaNoToken
<1>14. OaTokenOK'
  <2>1. t.phase \in {"api_keys", "usage"} /\ (t.phase = "usage" => t.cursor = 1)
    BY <1>13
  <2>2. 1 \in 1 .. OaDays
    BY OpenAiAssumption
  <2>3. t.phase = "api_keys" => t.index \in DOMAIN t.projects
    BY <1>7, <1>13
  <2>4. QED BY <1>5, <1>6, <1>13, <2>1, <2>2, <2>3 DEF OaTokenOK
<1>15. UsersRead'
  <2>1. \A u \in world.users : UserPassed(u)
    BY <1>5 DEF UserPassed
  <2>2. QED BY <1>6, <1>10, <2>1 DEF OaInv, UsersRead
<1>16. KeysRead'
  <2>1. SUFFICES ASSUME "people" \notin moved, NEW p \in world.projects, NEW k \in world.keys[p], KeyPassed(p, k)',
                        k \notin pg
                 PROVE  k \in DOMAIN stored.keys
    BY <1>6, <1>10, <1>11 DEF KeysRead
  <2>2. SUFFICES ASSUME NEW n \in DOMAIN token.projects, token.projects[n] = p
                 PROVE  n < j \/ (n = j /\ k <= c)
    BY <1>1, <1>5, <2>1 DEF OaInv, KeysRead, KeyPassed
  <2>3. k \in Nat \ {0}
    <3>1. p \in OaIds
      BY <1>5, OpenAiAssumption
    <3>2. QED BY <1>5, <3>1, OpenAiAssumption DEF OaShape
  <2>4. n \in 1 .. N
    BY <1>7
  <2>5. n = j => p = pr
    BY <1>1, <2>2
  <2>6. CASE more
    <3>1. n < j \/ (n = j /\ k <= Max(pg))
      BY <1>5, <1>6, <1>13, <2>1, <2>2, <2>6 DEF KeyPassed, OaOver
    <3>2. n = j /\ k <= Max(pg) => k <= c
      BY <1>9, <2>1, <2>5, <2>6
    <3>3. QED BY <3>1, <3>2
  <2>7. CASE ~more
    <3>1. n = j => k <= c
      BY <1>9, <2>1, <2>5, <2>7
    <3>2. CASE j < N
      <4>1. n < j + 1 \/ (n = j + 1 /\ k <= 0)
        BY <1>5, <1>6, <1>13, <2>1, <2>2, <2>7, <3>2 DEF KeyPassed, OaOver
      <4>2. QED BY <1>7, <2>3, <2>4, <3>1, <4>1
    <3>3. CASE ~(j < N)
      BY <1>7, <2>4, <3>1, <3>3
    <3>4. QED BY <3>2, <3>3
  <2>8. QED BY <2>6, <2>7
<1>17. /\ \A d : ~CostsPassed(d)'
       /\ \A r \in DOMAIN world.rows : ~UsagePassed(r.day)'
  <2>1. \A r \in DOMAIN world.rows : r.day \in Nat \ {0}
    BY <1>5, OpenAiAssumption DEF OaShape
  <2>2. t.phase # "costs" /\ (t.phase = "usage" => t.cursor = 1)
    BY <1>13
  <2>3. QED BY <1>6, <1>13, <2>1, <2>2 DEF UsagePassed, CostsPassed, OaOver
<1>18. UsageRead' /\ CostsRead'
  BY <1>6, <1>17 DEF UsageRead, CostsRead
<1>19. QED BY <1>5, <1>6, <1>12, <1>14, <1>15, <1>16, <1>18 DEF OaInv

\* users and keys stay read in the phases after theirs
LEMMA PeopleStayRead ==
  ASSUME OaInv, token # None, token.phase \in {"usage", "costs"},
         world' = world, moved' = moved, stored'.people = stored.people, stored'.keys = stored.keys
  PROVE  UsersRead' /\ KeysRead'
<1>1. /\ \A u : UserPassed(u)
      /\ \A p, k : KeyPassed(p, k)
  BY DEF UserPassed, KeyPassed
<1>2. QED BY <1>1 DEF OaInv, UsersRead, KeysRead

LEMMA UsagePageKeeps == OaInv /\ OaUsagePage => OaInv'
<1> SUFFICES ASSUME OaInv, OaUsagePage PROVE OaInv'
  OBVIOUS
<1>1. PICK c, facts, table : c = token.cursor /\ facts = usageFacts(c) /\ table = Upsert(stored.usage, facts)
  OBVIOUS
<1>2. PICK t, s : /\ t = (IF c < OaDays THEN [token EXCEPT !.cursor = @ + 1]
                          ELSE [token EXCEPT !.phase = "costs", !.cursor = 1])
                  /\ s = [stored EXCEPT !.usage = table]
  OBVIOUS
<1>3. /\ token # None /\ token.phase = "usage" /\ token \in OaCursors /\ c \in 1 .. OaDays
      /\ OaShape(world) /\ OaStored(stored) /\ walks \in Nat
      /\ \A r \in RowsOf(c) : ~Unpriceable(r, world.rows[r])
  BY <1>1 DEF OaUsagePage, InPhase, OaInv, OaTokenOK
<1>4. token' = t /\ stored' = s /\ UNCHANGED <<vendor, world, moved, walks, changes>>
  <2>1. CommitPage(t, s)
    BY <1>1, <1>2 DEF OaUsagePage
  <2>2. QED BY <2>1 DEF CommitPage
<1>5. /\ s.people = stored.people /\ s.keys = stored.keys /\ s.usage = table /\ s.costs = stored.costs
      /\ OaStored(s)
  BY <1>2, <1>3 DEF OaStored
<1>6. /\ t \in OaCursors /\ t # None
      /\ IF c < OaDays THEN t.phase = "usage" /\ t.cursor = c + 1 ELSE t.phase = "costs" /\ t.cursor = 1
  <2>1. c + 1 \in Nat
    BY <1>3, OpenAiAssumption
  <2>2. t \in OaCursors
    BY <1>1, <1>2, <1>3, <2>1 DEF OaCursors
  <2>3. IF c < OaDays THEN t.phase = "usage" /\ t.cursor = c + 1 ELSE t.phase = "costs" /\ t.cursor = 1
    BY <1>1, <1>2, <1>3 DEF OaCursors
  <2>4. QED BY <2>2, <2>3, OaNoToken
<1>7. OaTokenOK'
  <2>1. t.cursor \in 1 .. OaDays
    BY <1>3, <1>6, OpenAiAssumption
  <2>2. QED BY <1>4, <1>6, <2>1 DEF OaTokenOK
<1>8. UsersRead' /\ KeysRead'
  BY <1>3, <1>4, <1>5, PeopleStayRead
<1>20. /\ DOMAIN table = DOMAIN stored.usage \cup DOMAIN facts /\ \A k \in DOMAIN facts : table[k] = facts[k]
      /\ \A k \in DOMAIN stored.usage \ DOMAIN facts : table[k] = stored.usage[k]
  BY <1>1 DEF Upsert
<1>9. UsageRead'
  <2>1. SUFFICES ASSUME moved \cap {"usage", "pinned"} = {}, NEW r \in DOMAIN world.rows, UsagePassed(r.day)'
                 PROVE  /\ r \in DOMAIN table /\ ~Unpriceable(r, world.rows[r])
                        /\ table[r] = [cents |-> Estimate(r, world.rows[r]), who |-> Who(r)]
    <3>1. \A r, x : Unpriceable(r, x)' <=> Unpriceable(r, x)
      BY <1>4 DEF Unpriceable, hasPinnedPrice, LookupPinnedPrice
    <3>2. \A r, x : Estimate(r, x)' = Estimate(r, x)
      BY <1>4 DEF Estimate, LookupPinnedPrice
    <3>3. \A r : Who(r)' = Who(r)
      BY <1>4 DEF Who
    <3>4. QED BY <1>4, <1>5, <3>1, <3>2, <3>3 DEF UsageRead
  <2>2. DOMAIN facts = RowsOf(c)
    BY <1>1 DEF usageFacts
  <2>3. CASE r.day = c
    <3>1. r \in RowsOf(c)
      BY <2>3 DEF RowsOf
    <3>2. facts[r] = [cents |-> Estimate(r, world.rows[r]), who |-> Who(r)]
      BY <1>1, <3>1 DEF usageFacts
    <3>3. r \in DOMAIN table /\ table[r] = facts[r]
      BY <1>20, <2>2, <3>1
    <3>4. QED BY <1>3, <3>1, <3>2, <3>3
  <2>4. CASE r.day # c
    <3>1. r.day \in 1 .. OaDays
      BY <1>3, OpenAiAssumption DEF OaShape
    <3>2. r.day < c
      BY <1>3, <1>4, <1>6, <2>1, <2>4, <3>1, OpenAiAssumption DEF UsagePassed, OaOver
    <3>3. UsagePassed(r.day)
      BY <1>1, <1>3, <3>2 DEF UsagePassed
    <3>4. /\ r \in DOMAIN stored.usage /\ ~Unpriceable(r, world.rows[r])
          /\ stored.usage[r] = [cents |-> Estimate(r, world.rows[r]), who |-> Who(r)]
      BY <2>1, <3>3 DEF OaInv, UsageRead
    <3>5. r \notin DOMAIN facts
      BY <2>2, <2>4 DEF RowsOf
    <3>6. r \in DOMAIN table /\ table[r] = stored.usage[r]
      BY <1>20, <3>4, <3>5
    <3>7. QED BY <3>4, <3>6
  <2>5. QED BY <2>3, <2>4
<1>10. CostsRead'
  <2>1. \A b \in DOMAIN world.bill : b.day \in Nat \ {0}
    BY <1>3, OpenAiAssumption DEF OaShape
  <2>2. \A b \in DOMAIN world.bill : ~CostsPassed(b.day)'
    BY <1>4, <1>6, <2>1 DEF CostsPassed, OaOver
  <2>3. QED BY <1>4, <2>2 DEF CostsRead
<1>11. QED BY <1>3, <1>4, <1>5, <1>7, <1>8, <1>9, <1>10 DEF OaInv

LEMMA CostsPageKeeps == OaInv /\ OaCosts => OaInv'
<1> SUFFICES ASSUME OaInv, OaCosts PROVE OaInv'
  OBVIOUS
<1>1. PICK c, facts, table : c = token.cursor /\ facts = costFacts(c) /\ table = Upsert(stored.costs, facts)
  OBVIOUS
<1>2. PICK t, s : /\ t = (IF c < OaDays THEN [token EXCEPT !.cursor = @ + 1] ELSE None)
                  /\ s = [stored EXCEPT !.costs = table]
  OBVIOUS
<1>3. /\ token # None /\ token.phase = "costs" /\ token \in OaCursors /\ c \in 1 .. OaDays
      /\ OaShape(world) /\ OaStored(stored) /\ walks \in Nat
  BY <1>1 DEF OaCosts, InPhase, OaInv, OaTokenOK
<1>4. token' = t /\ stored' = s /\ UNCHANGED <<vendor, world, moved, walks, changes>>
  <2>1. CommitPage(t, s)
    BY <1>1, <1>2 DEF OaCosts
  <2>2. QED BY <2>1 DEF CommitPage
<1>5. /\ s.people = stored.people /\ s.keys = stored.keys /\ s.usage = stored.usage /\ s.costs = table
      /\ s = [people |-> s.people, keys |-> s.keys, usage |-> s.usage, costs |-> s.costs]
  BY <1>2, <1>3 DEF OaStored
<1>6. IF c < OaDays THEN t \in OaCursors /\ t # None /\ t.phase = "costs" /\ t.cursor = c + 1 ELSE t = None
  <2>1. c + 1 \in Nat
    BY <1>3, OpenAiAssumption
  <2>2. c < OaDays => t \in OaCursors
    BY <1>1, <1>2, <1>3, <2>1 DEF OaCursors
  <2>3. c < OaDays => t.phase = "costs" /\ t.cursor = c + 1
    BY <1>1, <1>2, <1>3 DEF OaCursors
  <2>4. QED BY <1>2, <2>2, <2>3, OaNoToken
<1>7. OaTokenOK'
  <2>1. c < OaDays => c + 1 \in 1 .. OaDays
    BY <1>3, OpenAiAssumption
  <2>2. QED BY <1>4, <1>6, <2>1 DEF OaTokenOK
<1>8. UsersRead' /\ KeysRead'
  BY <1>3, <1>4, <1>5, PeopleStayRead
<1>9. UsageRead'
  <2>1. \A d : UsagePassed(d)
    BY <1>3 DEF UsagePassed
  <2>2. UsageRead
    BY DEF OaInv
  <2>3. QED BY <1>4, <1>5, <2>1, <2>2, UsageStays
<1>10. /\ DOMAIN facts = {b \in DOMAIN world.bill : b.day = c /\ Kept(b)}
       /\ \A b \in DOMAIN facts : facts[b] = world.bill[b]
  BY <1>1 DEF costFacts
<1>20. /\ DOMAIN table = DOMAIN stored.costs \cup DOMAIN facts /\ \A k \in DOMAIN facts : table[k] = facts[k]
      /\ \A k \in DOMAIN stored.costs \ DOMAIN facts : table[k] = stored.costs[k]
  BY <1>1 DEF Upsert
<1>11. CostsRead'
  <2>1. SUFFICES ASSUME moved \cap {"bill", "pinned"} = {}, NEW b \in DOMAIN world.bill, CostsPassed(b.day)', Kept(b)
                 PROVE  b \in DOMAIN table /\ table[b] = world.bill[b]
    BY <1>4, <1>5 DEF CostsRead, Kept, hasPinnedPrice, LookupPinnedPrice
  <2>2. CASE b.day = c
    BY <1>10, <1>20, <2>1, <2>2
  <2>3. CASE b.day # c
    <3>1. b.day \in 1 .. OaDays
      BY <1>3, OpenAiAssumption DEF OaShape
    <3>2. b.day < c
      BY <1>3, <1>4, <1>6, <2>1, <2>3, <3>1, OpenAiAssumption DEF CostsPassed, OaOver
    <3>3. CostsPassed(b.day)
      BY <1>1, <1>3, <3>2 DEF CostsPassed
    <3>4. b \in DOMAIN stored.costs /\ stored.costs[b] = world.bill[b]
      BY <2>1, <3>3 DEF OaInv, CostsRead
    <3>5. b \notin DOMAIN facts
      BY <1>10, <2>3
    <3>6. QED BY <1>20, <3>4, <3>5
  <2>4. QED BY <2>2, <2>3
<1>12. OaStored(s)
  <2>1. ASSUME NEW b, Kept(b)
        PROVE  LineModel[b.item] \notin OaPinned
    <3>1. SUFFICES ASSUME LineModel[b.item] \in OaPinned PROVE FALSE
      OBVIOUS
    <3>2. PICK m : m = LineModel[b.item]
      OBVIOUS
    <3>3. m # None /\ m \in world.pinned /\ OaRates[m] \in Priced
      BY <1>3, <3>1, <3>2, OpenAiAssumption DEF OaShape
    <3>4. LookupPinnedPrice(m) # None
      BY <3>3, OpenAiAssumption DEF LookupPinnedPrice
    <3>5. QED BY <2>1, <3>2, <3>3, <3>4 DEF Kept, hasPinnedPrice
  <2>2. \A b \in DOMAIN table : LineModel[b.item] \notin OaPinned
    <3>1. \A b \in DOMAIN facts : LineModel[b.item] \notin OaPinned
      BY <1>10, <2>1
    <3>2. QED BY <1>3, <1>20, <3>1 DEF OaStored
  <2>3. QED BY <1>3, <1>5, <2>2 DEF OaStored
<1>13. QED BY <1>3, <1>4, <1>7, <1>8, <1>9, <1>11, <1>12 DEF OaInv

-----------------------------------------------------------------------------
(***************************************************************************)
(* OpenAI moves, and what is promised of it.                               *)
(***************************************************************************)
\* what a move leaves alone stays as read as it was
LEMMA OaMoved ==
  ASSUME OaInv, NEW w, NEW what, Move(w, what), OaShape(w),
         (w.users = world.users /\ w.keys = world.keys) \/ "people" \in what,
         w.rows = world.rows \/ "usage" \in what,
         w.bill = world.bill \/ "bill" \in what,
         w.pinned = world.pinned \/ "pinned" \in what
  PROVE  OaInv'
<1>1. world' = w /\ moved' = moved \cup what /\ UNCHANGED <<token, stored, walks>>
  BY DEF Move
<1>2. world.projects = {1, 2} /\ w.projects = {1, 2}
  BY DEF OaInv, OaShape
<1>3. OaTokenOK'
  BY <1>1, <1>2 DEF OaInv, OaTokenOK
<1>4. /\ \A u : UserPassed(u)' <=> UserPassed(u)
      /\ \A p, k : KeyPassed(p, k)' <=> KeyPassed(p, k)
      /\ \A d : UsagePassed(d)' <=> UsagePassed(d)
      /\ \A d : CostsPassed(d)' <=> CostsPassed(d)
  BY <1>1 DEF UserPassed, KeyPassed, UsagePassed, CostsPassed, OaOver
<1>5. UsersRead' /\ KeysRead'
  BY <1>1, <1>2, <1>4 DEF OaInv, UsersRead, KeysRead
<1>6. UsageRead'
  <2>1. CASE what \cap {"usage", "pinned"} # {}
    BY <1>1, <2>1 DEF UsageRead
  <2>2. CASE what \cap {"usage", "pinned"} = {}
    <3>1. world'.rows = world.rows /\ world'.pinned = world.pinned
      BY <1>1, <2>2
    <3>2. UsageRead /\ moved \subseteq moved' /\ stored'.usage = stored.usage
      BY <1>1 DEF OaInv
    <3>3. QED BY <1>4, <3>1, <3>2, UsageStays
  <2>3. QED BY <2>1, <2>2
<1>7. CostsRead'
  <2>1. CASE what \cap {"bill", "pinned"} # {}
    BY <1>1, <2>1 DEF CostsRead
  <2>2. CASE what \cap {"bill", "pinned"} = {}
    <3>1. world'.bill = world.bill /\ world'.pinned = world.pinned
      BY <1>1, <2>2
    <3>2. CostsRead /\ moved \subseteq moved' /\ stored'.costs = stored.costs
      BY <1>1 DEF OaInv
    <3>3. QED BY <1>4, <3>1, <3>2, CostsStay
  <2>3. QED BY <2>1, <2>2
<1>8. QED BY <1>1, <1>3, <1>5, <1>6, <1>7 DEF OaInv

LEMMA OaMovesKeep == OaInv /\ OaMoves => OaInv'
<1> SUFFICES ASSUME OaInv, OaMoves PROVE OaInv'
  OBVIOUS
<1>1. OaShape(world)
  BY DEF OaInv
<1>2. CASE Release
  <2>1. PICK w : w = [world EXCEPT !.pinned = DOMAIN OaRates]
    OBVIOUS
  <2>2. OaShape(w) /\ w.users = world.users /\ w.keys = world.keys /\ w.rows = world.rows /\ w.bill = world.bill
    BY <1>1, <2>1, OpenAiAssumption DEF OaShape
  <2>3. Move(w, {"pinned"})
    BY <1>2, <2>1 DEF Release
  <2>4. QED BY <2>2, <2>3, OaMoved
<1>3. ASSUME NEW u \in OaIds, inviteOpenAiUser(u) \/ deleteOpenAiUser(u)
      PROVE  OaInv'
  <2>1. PICK us \in {world.users \cup {u}, world.users \ {u}} : Move([world EXCEPT !.users = us], {"people"})
    BY <1>1, <1>3 DEF inviteOpenAiUser, deleteOpenAiUser
  <2>2. PICK w : w = [world EXCEPT !.users = us]
    OBVIOUS
  <2>3. /\ OaShape(w) /\ w.rows = world.rows /\ w.bill = world.bill /\ w.pinned = world.pinned
    BY <1>1, <2>2 DEF OaShape
  <2>4. Move(w, {"people"})
    BY <2>1, <2>2
  <2>5. QED BY <2>3, <2>4, OaMoved
<1>4. ASSUME NEW p \in OaIds, NEW ks \in SUBSET OaIds, Move([world EXCEPT !.keys[p] = ks], {"people"})
      PROVE  OaInv'
  <2>1. PICK f : f = [world.keys EXCEPT ![p] = ks]
    OBVIOUS
  <2>2. f \in [OaIds -> SUBSET OaIds]
    BY <1>1, <2>1 DEF OaShape
  <2>3. PICK w : w = [world EXCEPT !.keys = f]
    OBVIOUS
  <2>4. /\ OaShape(w) /\ w.rows = world.rows /\ w.bill = world.bill /\ w.pinned = world.pinned
    BY <1>1, <2>2, <2>3 DEF OaShape
  <2>5. Move(w, {"people"})
    BY <1>4, <2>1, <2>3
  <2>6. QED BY <2>4, <2>5, OaMoved
<1>5. ASSUME NEW p \in OaIds, NEW k \in OaIds, mintOpenAiKey(p, k)
      PROVE  OaInv'
  <2>1. PICK ks : ks = world.keys[p] \cup {k}
    OBVIOUS
  <2>2. ks \in SUBSET OaIds
    BY <1>1, <2>1 DEF OaShape
  <2>3. Move([world EXCEPT !.keys[p] = ks], {"people"})
    BY <1>5, <2>1 DEF mintOpenAiKey
  <2>4. QED BY <1>4, <2>2, <2>3
<1>6. ASSUME NEW k \in OaIds, deleteOpenAiApiKey(k)
      PROVE  OaInv'
  <2>1. PICK p \in world.projects : Move([world EXCEPT !.keys[p] = @ \ {k}], {"people"})
    BY <1>6 DEF deleteOpenAiApiKey
  <2>2. PICK ks : ks = world.keys[p] \ {k}
    OBVIOUS
  <2>3. p \in OaIds /\ ks \in SUBSET OaIds
    BY <1>1, <2>2, OpenAiAssumption DEF OaShape
  <2>4. Move([world EXCEPT !.keys[p] = ks], {"people"})
    BY <2>1, <2>2
  <2>5. QED BY <1>4, <2>3, <2>4
<1>7. ASSUME NEW r \in OaUsage, NEW input \in 1 .. OaTokens, NEW cached \in {0, 1},
             OaUse(r, [input |-> input, cached |-> cached])
      PROVE  OaInv'
  <2>1. PICK t \in Uses : t = [input |-> input, cached |-> cached]
    <3>1. input \in Nat /\ cached \in Nat
      BY OpenAiAssumption
    <3>2. [input |-> input, cached |-> cached] \in Uses
      BY <3>1 DEF Uses
    <3>3. QED BY <3>2
  <2>2. PICK rows : rows = Upsert(world.rows, Row(r, t))
    OBVIOUS
  <2>3. DOMAIN rows \subseteq OaUsage /\ \A x \in DOMAIN rows : rows[x] \in Uses
    BY <1>1, <2>2 DEF OaShape, Upsert, Row
  <2>4. PICK w : w = [world EXCEPT !.rows = rows]
    OBVIOUS
  <2>5. /\ OaShape(w) /\ w.users = world.users /\ w.keys = world.keys /\ w.bill = world.bill /\ w.pinned = world.pinned
    BY <1>1, <2>3, <2>4 DEF OaShape
  <2>6. Move(w, {"usage"})
    BY <1>7, <2>1, <2>2, <2>4 DEF OaUse
  <2>7. QED BY <2>5, <2>6, OaMoved
<1>8. ASSUME NEW b \in OaItems, Bill(b)
      PROVE  OaInv'
  <2>1. PICK bill : bill = Grow(world.bill, b)
    OBVIOUS
  <2>2. DOMAIN bill \subseteq OaItems
    BY <1>1, <2>1 DEF OaShape, Grow, Upsert, Row
  <2>3. PICK w : w = [world EXCEPT !.bill = bill]
    OBVIOUS
  <2>4. /\ OaShape(w) /\ w.users = world.users /\ w.keys = world.keys /\ w.rows = world.rows /\ w.pinned = world.pinned
    BY <1>1, <2>2, <2>3 DEF OaShape
  <2>5. Move(w, {"bill"})
    BY <1>8, <2>1, <2>3 DEF Bill
  <2>6. QED BY <2>4, <2>5, OaMoved
<1>9. QED BY <1>2, <1>3, <1>5, <1>6, <1>7, <1>8 DEF OaMoves

LEMMA OaStutters == OaInv /\ UNCHANGED walkVars => OaInv'
<1> SUFFICES ASSUME OaInv, UNCHANGED walkVars PROVE OaInv'
  OBVIOUS
<1>1. UNCHANGED <<world, token, stored, moved, walks>>
  BY DEF walkVars
<1>2. UsageRead' /\ CostsRead'
  <2>1. \A d : (UsagePassed(d)' <=> UsagePassed(d)) /\ (CostsPassed(d)' <=> CostsPassed(d))
    BY <1>1 DEF UsagePassed, CostsPassed, OaOver
  <2>2. UsageRead /\ CostsRead
    BY DEF OaInv
  <2>3. QED BY <1>1, <2>1, <2>2, UsageStays, CostsStay
<1>3. OaTokenOK' /\ UsersRead' /\ KeysRead'
  BY <1>1 DEF OaInv, OaTokenOK, UsersRead, KeysRead, UserPassed, KeyPassed, OaOver
<1>4. QED BY <1>1, <1>2, <1>3 DEF OaInv

LEMMA OpenAiInductive == OpenAiIInv /\ [MCNext]_walkVars => OpenAiIInv'
<1> SUFFICES ASSUME OpenAiIInv, [MCNext]_walkVars, vendor' = "openai" PROVE OaInv'
  BY DEF OpenAiIInv
<1>1. vendor' = vendor
  BY GithubStays, CursorStays, OpenAiStays, AnthropicStays, IssuesStay DEF MCNext, walkVars
<1>2. OaInv
  BY <1>1 DEF OpenAiIInv
<1>3. OaNext \/ UNCHANGED walkVars
  BY <1>1 DEF MCNext
<1>4. QED BY <1>2, <1>3, OaStarts, UsersPageKeeps, ProjectsPageKeeps, KeysPageKeeps, UsagePageKeeps, CostsPageKeeps,
          OaMovesKeep, OaStutters DEF OaNext, OaPages

THEOREM OpenAiInvariance == MCSpec => []OpenAiIInv
<1>1. MCInit => OpenAiIInv
  BY OaInitially DEF MCInit, OpenAiIInv, GhInit, CuInit, AnInit, IbInit
<1>2. OpenAiIInv /\ [MCNext]_walkVars => OpenAiIInv'
  BY OpenAiInductive
<1>3. QED BY <1>1, <1>2, PTL DEF MCSpec

\* Every finished walk has each usage row once, estimated from the pinned table
\* on the account of who spent it, no cost line of a model the first release
\* prices, every other line as billed, and every key with its owner, for all
\* rows, prices and releases (openai.ts:431-544, openai-prices.ts:49-86).
THEOREM OpenAiBooked == MCSpec => []OpenAiLedger
<1>1. OpenAiIInv => OpenAiLedger
  <2>1. SUFFICES ASSUME OpenAiIInv PROVE UsagePriced /\ CostsOnce /\ KeysKnown
    BY DEF OpenAiLedger
  <2>2. ASSUME vendor = "openai", token = None, walks > 0
        PROVE  /\ OaInv
               /\ \A u : UserPassed(u)
               /\ \A p, k : KeyPassed(p, k)
               /\ \A d : UsagePassed(d) /\ CostsPassed(d)
    BY <2>1, <2>2 DEF OpenAiIInv, UserPassed, KeyPassed, UsagePassed, CostsPassed, OaOver
  <2>3. UsagePriced
    <3>1. SUFFICES ASSUME Settled("openai", {"usage", "pinned"}), NEW r \in DOMAIN world.rows
                   PROVE  LET f == stored.usage[r] IN
                          /\ f.who = Who(r)
                          /\ 10 * f.cents - 5 <= Worth(r, world.rows[r]) /\ Worth(r, world.rows[r]) < 10 * f.cents + 5
      BY DEF UsagePriced
    <3>2. /\ ~Unpriceable(r, world.rows[r])
          /\ stored.usage[r] = [cents |-> Estimate(r, world.rows[r]), who |-> Who(r)]
      BY <2>2, <3>1 DEF Settled, OaInv, UsageRead
    <3>3. PICK t : t = world.rows[r]
      OBVIOUS
    <3>4. t \in Uses /\ world.pinned \subseteq DOMAIN OaRates
      BY <2>2, <3>1, <3>3 DEF Settled, OaInv, OaShape
    <3>5. 10 * Estimate(r, t) - 5 <= Worth(r, t) /\ Worth(r, t) < 10 * Estimate(r, t) + 5
      BY <3>2, <3>3, <3>4, EstimateIsWorth
    <3>6. QED BY <3>2, <3>3, <3>5
  <2>4. CostsOnce
    <3>1. SUFFICES ASSUME Settled("openai", {"bill", "pinned"}), NEW b \in DOMAIN world.bill
                   PROVE  IF hasPinnedPrice(LineModel[b.item])
                          THEN LineModel[b.item] \in OaPinned => b \notin DOMAIN stored.costs
                          ELSE stored.costs[b] = world.bill[b]
      BY DEF CostsOnce
    <3>2. CASE hasPinnedPrice(LineModel[b.item])
      BY <2>2, <3>1, <3>2 DEF Settled, OaInv, OaStored
    <3>3. CASE ~hasPinnedPrice(LineModel[b.item])
      BY <2>2, <3>1, <3>3 DEF Settled, OaInv, CostsRead, Kept
    <3>4. QED BY <3>2, <3>3
  <2>5. KeysKnown
    BY <2>2 DEF KeysKnown, Settled, OaInv, OaStored, UsersRead, KeysRead
  <2>6. QED BY <2>3, <2>4, <2>5
<1>2. QED BY <1>1, OpenAiInvariance, PTL

-----------------------------------------------------------------------------
(***************************************************************************)
(* Pages of a list.                                                        *)
(***************************************************************************)
LEMMA MaxIs ==
  ASSUME NEW b \in Nat, NEW T, T \subseteq 0 .. b, T # {}
  PROVE  Max(T) \in T /\ \A n \in T : Max(T) >= n
<1>1. PICK R : R = {b - n : n \in T}
  OBVIOUS
<1>2. R \subseteq Nat /\ R # {}
  <2>1. \A n \in T : b - n \in Nat
    OBVIOUS
  <2>2. QED BY <1>1, <2>1
<1>3. PICK m \in R : \A n \in R : m <= n
  BY <1>2, LeastNat
<1>4. PICK k \in T : m = b - k
  BY <1>1, <1>3
<1>5. \A n \in T : k >= n
  <2>1. TAKE n \in T
  <2>2. b - n \in R
    BY <1>1
  <2>3. n \in Int /\ k \in Int
    OBVIOUS
  <2>4. QED BY <1>3, <1>4, <2>2, <2>3
<1>6. QED BY <1>4, <1>5 DEF Max

LEMMA ListOne ==
  ASSUME NEW S, S \subseteq Nat, NEW c \in Nat, NEW k \in ListAfter(S, c)
  PROVE  ListAfter(S, c) = {k} /\ Max(ListAfter(S, c)) = k /\ k \in S
<1>1. PICK rest : rest = {i \in S : i > c}
  OBVIOUS
<1>2. PICK m : m = Min(rest)
  OBVIOUS
<1>3. ListAfter(S, c) = IF rest = {} THEN {} ELSE {m}
  BY <1>1, <1>2 DEF ListAfter
<1>4. rest # {} /\ k = m
  BY <1>3
<1>5. m \in S
  BY <1>1, <1>2, <1>4, MinIs
<1>6. Max({m}) = m
  BY <1>5 DEF Max
<1>7. QED BY <1>3, <1>4, <1>5, <1>6

\* page n is the elements from the end of the page before to its own end
LEMMA PageIs ==
  ASSUME NEW S, NEW list \in Seq(S), NEW n \in Nat \ {0}, NEW size \in Nat \ {0},
         NEW pg, pg = PageOf(list, n, size)
  PROVE  /\ pg \in Seq(S) /\ IsFiniteSet(DOMAIN pg) /\ \E b \in Nat : DOMAIN pg \subseteq 1 .. b
         /\ ToSet(pg) \subseteq ToSet(list)
         /\ \A i \in DOMAIN list : (n - 1) * size < i /\ i <= n * size => list[i] \in ToSet(pg)
<1>1. PICK a, z, L, m, e : /\ a = (n - 1) * size /\ z = n * size /\ L = Len(list)
                           /\ m = Min({z, L}) /\ e = a + 1
  OBVIOUS
<1>2. a \in Nat /\ z \in Nat /\ L \in Nat /\ DOMAIN list = 1 .. L
  <2>1. n - 1 \in Nat
    OBVIOUS
  <2>2. QED BY <1>1, <2>1, TimesNat, LenProperties
<1>3. m \in {z, L} /\ m <= z /\ m <= L
  BY <1>1, <1>2, MinIs
<1>4. pg = SubSeq(list, e, m)
  BY <1>1 DEF PageOf
<1>5. /\ Len(pg) = IF e <= m THEN m - e + 1 ELSE 0
      /\ pg \in Seq(S) /\ \A i \in 1 .. m - e + 1 : pg[i] = list[e + i - 1]
  <2>1. \A i \in e .. m : list[i] \in S
    <3>1. \A i \in e .. m : i \in 1 .. L
      BY <1>1, <1>2, <1>3
    <3>2. QED BY <1>1, <3>1, ElementOfSeq
  <2>2. e \in Int /\ m \in Int
    BY <1>1, <1>2, <1>3
  <2>3. QED BY <1>4, <2>1, <2>2, SubSeqProperties
<1>6. PICK d : d = m - e + 1
  OBVIOUS
<1>7. d \in Int /\ d = m - a /\ e = a + 1 /\ m \in Nat
  BY <1>1, <1>2, <1>3, <1>6
<1>8. DOMAIN pg = 1 .. d
  BY <1>5, <1>6, <1>7, LenProperties
<1>9. \A i \in 1 .. d : pg[i] = list[a + i] /\ a + i \in 1 .. L
  <2>1. TAKE i \in 1 .. d
  <2>2. e + i - 1 = a + i
    BY <1>2, <1>7
  <2>3. a + i \in 1 .. L
    BY <1>2, <1>3, <1>7
  <2>4. QED BY <1>5, <1>6, <2>2, <2>3
<1>10. IsFiniteSet(DOMAIN pg) /\ \E b \in Nat : DOMAIN pg \subseteq 1 .. b
  <2>1. 1 .. d \subseteq 1 .. m
    BY <1>2, <1>7
  <2>2. QED BY <1>7, <1>8, <2>1, FS_Interval
<1>11. ToSet(pg) \subseteq ToSet(list)
  BY <1>2, <1>8, <1>9 DEF ToSet
<1>12. ASSUME NEW i \in DOMAIN list, a < i, i <= z
       PROVE  list[i] \in ToSet(pg)
  <2>1. i \in 1 .. L /\ i <= m
    BY <1>2, <1>3, <1>12
  <2>2. PICK j : j = i - a
    OBVIOUS
  <2>3. j \in 1 .. d /\ a + j = i
    BY <1>2, <1>7, <1>12, <2>1, <2>2
  <2>4. pg[j] = list[i]
    BY <1>9, <2>3
  <2>5. QED BY <1>8, <2>3, <2>4 DEF ToSet
<1>13. QED BY <1>1, <1>5, <1>10, <1>11, <1>12

LEMMA PagesFollow ==
  ASSUME NEW n \in Nat \ {0}, NEW size \in Nat \ {0}
  PROVE  /\ (n - 1) * size \in Nat /\ n * size \in Nat
         /\ ((n + 1) - 1) * size = n * size /\ (1 - 1) * size = 0
<1>1. n - 1 \in Nat
  OBVIOUS
<1>2. (n + 1) - 1 = n /\ 1 - 1 = 0
  OBVIOUS
<1>3. 0 * size = 0
  OBVIOUS
<1>4. (n - 1) * size \in Nat /\ n * size \in Nat
  BY <1>1, TimesNat
<1>5. ((n + 1) - 1) * size = n * size /\ (1 - 1) * size = 0
  BY <1>2, <1>3
<1>6. QED BY <1>4, <1>5

LEMMA TablesUpsert ==
  ASSUME NEW K, NEW R, NEW table \in Tables(K, R), NEW rows \in Tables(K, R)
  PROVE  Upsert(table, rows) \in Tables(K, R)
<1>1. PICK A, B, q : A = DOMAIN table /\ B = DOMAIN rows /\ q = Upsert(table, rows)
  OBVIOUS
<1>2. A \subseteq K /\ table \in [A -> R] /\ B \subseteq K /\ rows \in [B -> R]
  BY <1>1 DEF Tables
<1>3. q \in [B \cup A -> R]
  BY <1>1, <1>2 DEF Upsert
<1>4. B \cup A \in SUBSET K
  BY <1>2
<1>5. QED BY <1>1, <1>3, <1>4 DEF Tables

-----------------------------------------------------------------------------
(***************************************************************************)
(* Anthropic's walk.                                                       *)
(***************************************************************************)
AnShape(w) ==
  /\ w = [users |-> w.users, keys |-> w.keys, rows |-> w.rows, cost |-> w.cost, code |-> w.code]
  /\ w.users \subseteq AnUsers /\ DOMAIN w.keys \subseteq AnKeys
  /\ DOMAIN w.rows \subseteq AnUsage /\ DOMAIN w.cost \subseteq AnCharges
  /\ DOMAIN w.code \subseteq AnRecords /\ IsFiniteSet(DOMAIN w.code)

AnStored(s) ==
  /\ s = [emails |-> s.emails, seats |-> s.seats, usage |-> s.usage, costs |-> s.costs, code |-> s.code]
  /\ \A c \in DOMAIN s.costs : c.type # "tokens"

AnTokenOK ==
  token # None =>
    /\ token \in AnCursors
    /\ token.phase \in {"usage", "cost"} => token.cursor \in 1 .. AnDays
    /\ token.phase = "claude_code" => token.cursor \in Nat \ {0} /\ token.day \in 1 .. AnDays

AnOver == token = None /\ walks > 0

\* the roster read so far is in the token
RosterSeen ==
  token # None /\ "people" \notin moved =>
    \A u \in world.users : (token.phase = "users" => u <= token.cursor) => u \in token.users

AnKeyPassed(k) ==
  \/ AnOver
  \/ token # None /\ token.phase \in {"usage", "cost", "claude_code"}
  \/ token # None /\ token.phase = "api_keys" /\ k <= token.cursor
KeyOnFile(k) ==
  /\ <<"key", k>> \in DOMAIN stored.emails
  /\ AnCreator[k] \in world.users => stored.emails[<<"key", k>>] = AnEmail[AnCreator[k]]
AnKeysRead ==
  "people" \notin moved => \A k \in DOMAIN world.keys : AnKeyPassed(k) => KeyOnFile(k)

AnUsagePassed(d) ==
  \/ AnOver
  \/ token # None /\ (token.phase \in {"cost", "claude_code"} \/ (token.phase = "usage" /\ d < token.cursor))
AnUsageRead ==
  "usage" \notin moved =>
    \A r \in DOMAIN world.rows : AnUsagePassed(r.day) =>
      r \in DOMAIN stored.usage /\ stored.usage[r] = world.rows[r]

AnCostPassed(d) ==
  \/ AnOver
  \/ token # None /\ (token.phase = "claude_code" \/ (token.phase = "cost" /\ d < token.cursor))
AnCostsRead ==
  "cost" \notin moved =>
    \A c \in DOMAIN world.cost : AnCostPassed(c.day) /\ ~TokenCharge(c) =>
      c \in DOMAIN stored.costs /\ stored.costs[c] = world.cost[c]

\* a record is passed with its day, or with the page of its day it is on
ServedBy(x, n) ==
  \E i \in DOMAIN ServedOn(x.day) : ServedOn(x.day)[i] = x /\ i <= (n - 1) * AnPage
CodePassed(x) ==
  \/ AnOver
  \/ /\ token # None /\ token.phase = "claude_code"
     /\ x.day < token.day \/ (x.day = token.day /\ ServedBy(x, token.cursor))
Writes(x, u) == x.actor[1] = "user" /\ LowerCase[x.actor[2]] = LowerCase[AnEmail[u]]
Counted(x) ==
  /\ CodeRef(x) \in DOMAIN stored.code
  /\ Alone(x) => stored.code[CodeRef(x)].sessions = world.code[x]
  /\ \A u \in world.users : Writes(x, u) =>
       /\ stored.code[CodeRef(x)].who = <<"user", u>>
       /\ x.type = "subscription" => <<"user", u>> \in stored.seats
CodeRead ==
  moved \cap {"code", "people"} = {} => \A x \in DOMAIN world.code : CodePassed(x) => Counted(x)

AnInv ==
  /\ AnShape(world) /\ AnStored(stored) /\ AnTokenOK /\ walks \in Nat
  /\ RosterSeen /\ AnKeysRead /\ AnUsageRead /\ AnCostsRead /\ CodeRead
AnthropicIInv == vendor = "anthropic" => AnInv

LEMMA AnNoToken == None \notin AnCursors
BY AnthropicAssumption

LEMMA AnIds == AnUsers \subseteq Nat \ {0} /\ AnKeys \subseteq Nat \ {0} /\ AnDays \in Nat \ {0} /\ AnPage \in Nat \ {0}
BY AnthropicAssumption

\* what a step leaves alone stays as read as it was
LEMMA AnKeysStay ==
  ASSUME AnKeysRead, world'.users = world.users, DOMAIN (world.keys') = DOMAIN world.keys, moved \subseteq moved',
         stored'.emails = stored.emails, \A k \in DOMAIN world.keys : AnKeyPassed(k)' => AnKeyPassed(k)
  PROVE  AnKeysRead'
BY DEF AnKeysRead, KeyOnFile

LEMMA AnUsageStays ==
  ASSUME AnUsageRead, world'.rows = world.rows, moved \subseteq moved', stored'.usage = stored.usage,
         \A r \in DOMAIN world.rows : AnUsagePassed(r.day)' => AnUsagePassed(r.day)
  PROVE  AnUsageRead'
BY DEF AnUsageRead

LEMMA AnCostsStay ==
  ASSUME AnCostsRead, world'.cost = world.cost, moved \subseteq moved', stored'.costs = stored.costs,
         \A c \in DOMAIN world.cost : AnCostPassed(c.day)' => AnCostPassed(c.day)
  PROVE  AnCostsRead'
BY DEF AnCostsRead, TokenCharge

LEMMA ServedStays == ASSUME world'.code = world.code, NEW d PROVE ServedOn(d)' = ServedOn(d)
BY DEF ServedOn

LEMMA AloneStays == ASSUME world'.code = world.code, NEW x PROVE Alone(x)' <=> Alone(x)
BY DEF Alone

LEMMA CodeStays ==
  ASSUME CodeRead, world'.code = world.code, world'.users = world.users, moved \subseteq moved',
         stored'.code = stored.code, stored'.seats = stored.seats,
         \A x \in DOMAIN world.code : CodePassed(x)' => CodePassed(x)
  PROVE  CodeRead'
<1>1. \A x : Alone(x)' <=> Alone(x)
  BY AloneStays
<1>2. \A x : Counted(x) => Counted(x)'
  BY <1>1 DEF Counted
<1>3. QED BY <1>2 DEF CodeRead

LEMMA AnInitially == AnInit => AnInv
<1> SUFFICES ASSUME AnInit PROVE AnInv
  OBVIOUS
<1>1. /\ world \in [users : {{Min(AnUsers)}}, keys : {Row(Min(AnKeys), "active")},
                rows : {NoRows}, cost : {NoRows}, code : {NoRows}]
      /\ token = None /\ walks = 0
      /\ stored = [emails |-> NoRows, seats |-> {}, usage |-> NoRows, costs |-> NoRows, code |-> NoRows]
  BY DEF AnInit
<1>2. DOMAIN NoRows = {}
  BY DEF NoRows
<1>3. AnShape(world)
  <2>1. world = [users |-> world.users, keys |-> world.keys, rows |-> world.rows, cost |-> world.cost,
                 code |-> world.code]
    BY <1>1
  <2>2. /\ world.users = {Min(AnUsers)} /\ world.keys = Row(Min(AnKeys), "active")
        /\ world.rows = NoRows /\ world.cost = NoRows /\ world.code = NoRows
    BY <1>1
  <2>3. Min(AnUsers) \in AnUsers /\ Min(AnKeys) \in AnKeys
    BY AnIds, MinIs, AnthropicAssumption
  <2>4. DOMAIN world.keys = {Min(AnKeys)}
    BY <2>2 DEF Row
  <2>5. QED BY <1>2, <2>1, <2>2, <2>3, <2>4, FS_EmptySet DEF AnShape
<1>4. AnStored(stored)
  BY <1>1, <1>2 DEF AnStored
<1>5. ~AnOver /\ token = None
  BY <1>1 DEF AnOver
<1>6. RosterSeen /\ AnKeysRead /\ AnUsageRead /\ AnCostsRead /\ CodeRead
  BY <1>5 DEF RosterSeen, AnKeysRead, AnUsageRead, AnCostsRead, CodeRead, AnKeyPassed, AnUsagePassed, AnCostPassed,
    CodePassed
<1>7. QED BY <1>1, <1>3, <1>4, <1>5, <1>6 DEF AnInv, AnTokenOK

LEMMA AnStarts == AnInv /\ Start(AnInitialCursor) => AnInv'
<1> SUFFICES ASSUME AnInv, Start(AnInitialCursor) PROVE AnInv'
  OBVIOUS
<1>1. PICK t : t = AnInitialCursor
  OBVIOUS
<1>2. token' = t /\ walks' = walks + 1 /\ world' = world /\ stored' = stored /\ moved' = {} /\ token = None
  BY <1>1 DEF Start
<1>3. NoRows \in Tables({LowerCase[AnName[k]] : k \in AnKeys}, AnKeys)
  <2>1. PICK R : R = AnKeys
    OBVIOUS
  <2>2. <<>> \in Seq(R) /\ Len(<<>>) = 0
    BY EmptySeq
  <2>3. <<>> \in [1 .. 0 -> R] /\ 1 .. 0 = {}
    BY <2>2, LenProperties
  <2>4. NoRows \in [{} -> R]
    BY <2>3 DEF NoRows
  <2>5. QED BY <2>1, <2>4 DEF Tables
<1>4. t.phase = "users" /\ t.cursor = 0 /\ t \in AnCursors
  BY <1>1, <1>3 DEF AnInitialCursor, AnCursors
<1>5. t # None
  BY <1>4, AnNoToken
<1>6. AnTokenOK'
  BY <1>2, <1>4 DEF AnTokenOK
<1>7. \A u \in world.users : ~(u <= 0)
  BY AnIds DEF AnInv, AnShape
<1>8. RosterSeen'
  BY <1>2, <1>4, <1>7 DEF RosterSeen
<1>9. /\ \A k : ~AnKeyPassed(k)'
      /\ \A d : ~AnUsagePassed(d)' /\ ~AnCostPassed(d)'
      /\ \A x : ~CodePassed(x)'
  BY <1>2, <1>4, <1>5 DEF AnKeyPassed, AnUsagePassed, AnCostPassed, CodePassed, AnOver
<1>10. AnKeysRead' /\ AnUsageRead' /\ AnCostsRead' /\ CodeRead'
  BY <1>9 DEF AnKeysRead, AnUsageRead, AnCostsRead, CodeRead
<1>11. QED BY <1>2, <1>6, <1>8, <1>10 DEF AnInv

-----------------------------------------------------------------------------
(***************************************************************************)
(* The pages of Anthropic.                                                 *)
(***************************************************************************)
LEMMA AnUsersKeep == AnInv /\ AnListUsers => AnInv'
<1> SUFFICES ASSUME AnInv, AnListUsers PROVE AnInv'
  OBVIOUS
<1>1. PICK pg, more, c : pg = ListAfter(world.users, token.cursor) /\ more = HasMore(world.users, token.cursor)
                           /\ c = token.cursor
  OBVIOUS
<1>2. PICK emails : emails = Describe(stored.emails, [i \in {<<"user", u>> : u \in pg} |-> AnEmail[i[2]]])
  OBVIOUS
<1>3. PICK n, s : n = [token EXCEPT !.users = @ \cup pg] /\ s = [stored EXCEPT !.emails = emails]
  OBVIOUS
<1>4. PICK t : t = IF more THEN [n EXCEPT !.cursor = Max(pg)] ELSE [n EXCEPT !.phase = "api_keys", !.cursor = 0]
  OBVIOUS
<1>5. /\ token # None /\ token.phase = "users" /\ token \in AnCursors /\ c \in Nat
      /\ AnShape(world) /\ AnStored(stored) /\ walks \in Nat
  BY <1>1 DEF AnListUsers, InPhase, AnInv, AnTokenOK, AnCursors
<1>6. token' = t /\ stored' = s /\ UNCHANGED <<vendor, world, moved, walks, changes>>
  <2>1. CommitPage(t, s)
    BY <1>1, <1>2, <1>3, <1>4 DEF AnListUsers
  <2>2. QED BY <2>1 DEF CommitPage
<1>7. world.users \subseteq AnUsers /\ world.users \subseteq Nat
  BY <1>5, AnIds DEF AnShape
<1>8. /\ pg \subseteq world.users
      /\ ~more => \A u \in world.users : u <= c \/ u \in pg
      /\ more => /\ Max(pg) \in world.users
                 /\ \A u \in world.users : u <= Max(pg) => u <= c \/ u \in pg
  <2>1. PICK S : S = world.users
    OBVIOUS
  <2>2. QED BY <1>1, <1>5, <1>7, <2>1, ListIs
<1>9. n \in AnCursors /\ n.users = token.users \cup pg
  <2>1. token.users \cup pg \subseteq AnUsers
    BY <1>5, <1>7, <1>8 DEF AnCursors
  <2>2. QED BY <1>3, <1>5, <2>1 DEF AnCursors
<1>10. /\ t \in AnCursors /\ t # None /\ t.users = token.users \cup pg
       /\ IF more THEN t.phase = "users" /\ t.cursor = Max(pg) ELSE t.phase = "api_keys" /\ t.cursor = 0
  <2>1. more => Max(pg) \in Nat
    BY <1>7, <1>8
  <2>2. t \in AnCursors
    BY <1>4, <1>9, <2>1 DEF AnCursors
  <2>3. n.phase = "users"
    BY <1>3, <1>5 DEF AnCursors
  <2>4. t.users = n.users
    BY <1>4, <1>9 DEF AnCursors
  <2>5. IF more THEN t.phase = "users" /\ t.cursor = Max(pg) ELSE t.phase = "api_keys" /\ t.cursor = 0
    BY <1>4, <1>9, <2>3 DEF AnCursors
  <2>6. QED BY <1>9, <2>2, <2>4, <2>5, AnNoToken
<1>11. AnTokenOK'
  BY <1>6, <1>10 DEF AnTokenOK
<1>12. AnStored(s)
  BY <1>3, <1>5 DEF AnStored
<1>13. RosterSeen'
  <2>1. SUFFICES ASSUME "people" \notin moved, NEW u \in world.users, t.phase = "users" => u <= t.cursor
                 PROVE  u \in token.users \cup pg
    BY <1>6, <1>10 DEF RosterSeen
  <2>2. u <= c => u \in token.users
    BY <1>1, <1>5, <2>1 DEF AnInv, RosterSeen
  <2>3. more => u <= Max(pg)
    BY <1>10, <2>1
  <2>4. QED BY <1>8, <2>2, <2>3
<1>14. /\ \A k \in DOMAIN world.keys : ~AnKeyPassed(k)'
       /\ \A d : ~AnUsagePassed(d)' /\ ~AnCostPassed(d)'
       /\ \A x : ~CodePassed(x)'
  <2>1. \A k \in DOMAIN world.keys : ~(k <= 0)
    BY <1>5, AnIds DEF AnShape
  <2>2. QED BY <1>6, <1>10, <2>1 DEF AnKeyPassed, AnUsagePassed, AnCostPassed, CodePassed, AnOver
<1>15. AnKeysRead' /\ AnUsageRead' /\ AnCostsRead' /\ CodeRead'
  <2>1. DOMAIN (world.keys') = DOMAIN world.keys
    BY <1>6
  <2>2. QED BY <1>6, <1>14, <2>1 DEF AnKeysRead, AnUsageRead, AnCostsRead, CodeRead
<1>16. QED BY <1>5, <1>6, <1>11, <1>12, <1>13, <1>15 DEF AnInv

\* an address that is known is written, and only those of its ids
LEMMA DescribeIs ==
  ASSUME NEW table, NEW ids, NEW q, q = Describe(table, ids)
  PROVE  /\ \A i \in DOMAIN ids : i \in DOMAIN q /\ (ids[i] # None => q[i] = ids[i])
         /\ \A i \in DOMAIN table \ DOMAIN ids : i \in DOMAIN q /\ q[i] = table[i]
BY DEF Describe, Upsert

LEMMA AnKeysKeep == AnInv /\ AnListKeys => AnInv'
<1> SUFFICES ASSUME AnInv, AnListKeys PROVE AnInv'
  OBVIOUS
<1>1. PICK S : S = {k \in DOMAIN world.keys : Listed(k)}
  OBVIOUS
<1>2. PICK pg, more, c : pg = ListAfter(S, token.cursor) /\ more = HasMore(S, token.cursor) /\ c = token.cursor
  OBVIOUS
<1>3. PICK ids : ids = [i \in {<<"key", k>> : k \in pg} |->
                          IF AnCreator[i[2]] \in token.users THEN AnEmail[AnCreator[i[2]]] ELSE None]
  OBVIOUS
<1>4. PICK emails : emails = Describe(stored.emails, ids)
  OBVIOUS
<1>5. PICK names : names = Upsert(token.keys, [n \in {LowerCase[AnName[k]] : k \in pg} |-> Max(pg)])
  OBVIOUS
<1>6. PICK n, s : n = [token EXCEPT !.keys = names] /\ s = [stored EXCEPT !.emails = emails]
  OBVIOUS
<1>7. PICK t : t = IF more THEN [n EXCEPT !.cursor = Max(pg)] ELSE [n EXCEPT !.phase = "usage", !.cursor = 1]
  OBVIOUS
<1>8. /\ token # None /\ token.phase = "api_keys" /\ token \in AnCursors /\ c \in Nat
      /\ AnShape(world) /\ AnStored(stored) /\ walks \in Nat
  BY <1>2 DEF AnListKeys, InPhase, AnInv, AnTokenOK, AnCursors
<1>9. token' = t /\ stored' = s /\ UNCHANGED <<vendor, world, moved, walks, changes>>
  <2>1. CommitPage(t, s)
    BY <1>1, <1>2, <1>3, <1>4, <1>5, <1>6, <1>7 DEF AnListKeys
  <2>2. QED BY <2>1 DEF CommitPage
<1>10. S = DOMAIN world.keys /\ S \subseteq AnKeys /\ S \subseteq Nat
  BY <1>1, <1>8, AnIds DEF AnShape, Listed
<1>11. /\ pg \subseteq S
       /\ ~more => \A k \in S : k <= c \/ k \in pg
       /\ more => /\ Max(pg) \in S
                  /\ \A k \in S : k <= Max(pg) => k <= c \/ k \in pg
  BY <1>2, <1>8, <1>10, ListIs
<1>12. names \in Tables({LowerCase[AnName[k]] : k \in AnKeys}, AnKeys)
  <2>1. PICK K, R : K = {LowerCase[AnName[k]] : k \in AnKeys} /\ R = AnKeys
    OBVIOUS
  <2>2. PICK rows : rows = [m \in {LowerCase[AnName[k]] : k \in pg} |-> Max(pg)]
    OBVIOUS
  <2>3. PICK B : B = {LowerCase[AnName[k]] : k \in pg}
    OBVIOUS
  <2>4. B \in SUBSET K
    BY <1>10, <1>11, <2>1, <2>3
  <2>5. \A m \in B : Max(pg) \in R
    <3>1. SUFFICES ASSUME NEW k \in pg PROVE Max(pg) \in R
      BY <2>3
    <3>2. Max(pg) = k
      BY <1>2, <1>8, <1>10, <3>1, ListOne
    <3>3. QED BY <1>10, <1>11, <2>1, <3>2
  <2>6. rows \in [B -> R]
    BY <2>2, <2>3, <2>5
  <2>7. rows \in Tables(K, R)
    BY <2>4, <2>6 DEF Tables
  <2>8. PICK table : table = token.keys
    OBVIOUS
  <2>9. table \in Tables(K, R)
    BY <1>8, <2>1, <2>8 DEF AnCursors
  <2>10. names = Upsert(table, rows)
    BY <1>5, <2>2, <2>8
  <2>11. QED BY <2>1, <2>7, <2>9, <2>10, TablesUpsert
<1>13. n \in AnCursors
  BY <1>6, <1>8, <1>12 DEF AnCursors
<1>14. /\ t \in AnCursors /\ t # None /\ t.users = token.users
       /\ IF more THEN t.phase = "api_keys" /\ t.cursor = Max(pg) ELSE t.phase = "usage" /\ t.cursor = 1
  <2>1. more => Max(pg) \in Nat
    BY <1>10, <1>11
  <2>2. t \in AnCursors
    BY <1>7, <1>13, <2>1 DEF AnCursors
  <2>3. n.phase = "api_keys" /\ n.users = token.users
    BY <1>6, <1>8 DEF AnCursors
  <2>4. t.users = n.users
    BY <1>7, <1>13 DEF AnCursors
  <2>5. IF more THEN t.phase = "api_keys" /\ t.cursor = Max(pg) ELSE t.phase = "usage" /\ t.cursor = 1
    BY <1>7, <1>13, <2>3 DEF AnCursors
  <2>6. QED BY <2>2, <2>3, <2>4, <2>5, AnNoToken
<1>15. AnTokenOK'
  <2>1. 1 \in 1 .. AnDays
    BY AnIds
  <2>2. QED BY <1>9, <1>14, <2>1 DEF AnTokenOK
<1>16. AnStored(s) /\ s.emails = emails
  BY <1>6, <1>8 DEF AnStored
<1>17. "people" \notin moved => world.users \subseteq token.users
  BY <1>8 DEF AnInv, RosterSeen
<1>18. RosterSeen'
  BY <1>9, <1>14, <1>17 DEF RosterSeen
<1>19. AnKeysRead'
  <2>1. SUFFICES ASSUME "people" \notin moved, NEW k \in S, AnKeyPassed(k)'
                 PROVE  /\ <<"key", k>> \in DOMAIN emails
                        /\ AnCreator[k] \in world.users => emails[<<"key", k>>] = AnEmail[AnCreator[k]]
    BY <1>9, <1>10, <1>16 DEF AnKeysRead, KeyOnFile
  <2>2. PICK i : i = <<"key", k>>
    OBVIOUS
  <2>3. CASE k \in pg
    <3>1. i \in DOMAIN ids
      BY <1>3, <2>2, <2>3
    <3>2. ids[i] = IF AnCreator[k] \in token.users THEN AnEmail[AnCreator[k]] ELSE None
      BY <1>3, <2>2, <3>1
    <3>3. i \in DOMAIN emails /\ (ids[i] # None => emails[i] = ids[i])
      BY <1>4, <3>1, DescribeIs
    <3>4. AnCreator[k] \in world.users => AnEmail[AnCreator[k]] # None
      <4>1. SUFFICES ASSUME NEW u \in AnUsers PROVE AnEmail[u] # None
        BY <1>8 DEF AnShape
      <4>2. QED BY AnthropicAssumption
    <3>5. QED BY <1>17, <2>1, <2>2, <3>2, <3>3, <3>4
  <2>4. CASE k \notin pg
    <3>1. k <= c
      <4>1. more => k <= Max(pg)
        BY <1>8, <1>9, <1>14, <2>1 DEF AnKeyPassed, AnOver
      <4>2. QED BY <1>11, <2>4, <4>1
    <3>2. AnKeyPassed(k)
      BY <1>2, <1>8, <3>1 DEF AnKeyPassed
    <3>3. KeyOnFile(k)
      BY <1>10, <2>1, <3>2 DEF AnInv, AnKeysRead
    <3>4. i \notin DOMAIN ids
      BY <1>3, <2>2, <2>4
    <3>5. i \in DOMAIN stored.emails \ DOMAIN ids
      BY <2>2, <3>3, <3>4 DEF KeyOnFile
    <3>6. i \in DOMAIN emails /\ emails[i] = stored.emails[i]
      BY <1>4, <3>5, DescribeIs
    <3>7. QED BY <2>2, <3>3, <3>6 DEF KeyOnFile
  <2>5. QED BY <2>3, <2>4
<1>20. /\ \A r \in DOMAIN world.rows : ~AnUsagePassed(r.day)'
       /\ \A d : ~AnCostPassed(d)'
       /\ \A x : ~CodePassed(x)'
  <2>1. \A r \in DOMAIN world.rows : r.day \in Nat \ {0}
    BY <1>8, AnthropicAssumption DEF AnShape
  <2>2. QED BY <1>9, <1>14, <2>1 DEF AnUsagePassed, AnCostPassed, CodePassed, AnOver
<1>21. AnUsageRead' /\ AnCostsRead' /\ CodeRead'
  BY <1>9, <1>20 DEF AnUsageRead, AnCostsRead, CodeRead
<1>22. QED BY <1>8, <1>9, <1>15, <1>16, <1>18, <1>19, <1>21 DEF AnInv

LEMMA AnUsageKeeps == AnInv /\ AnUsagePage => AnInv'
<1> SUFFICES ASSUME AnInv, AnUsagePage PROVE AnInv'
  OBVIOUS
<1>1. PICK c, pg : c = token.cursor /\ pg = {r \in DOMAIN world.rows : r.day = c}
  OBVIOUS
<1>2. PICK table : table = Upsert(stored.usage, [r \in pg |-> world.rows[r]])
  OBVIOUS
<1>3. PICK t, s : /\ t = (IF c < AnDays THEN [token EXCEPT !.cursor = @ + 1]
                          ELSE [token EXCEPT !.phase = "cost", !.cursor = 1])
                  /\ s = [stored EXCEPT !.usage = table]
  OBVIOUS
<1>4. /\ token # None /\ token.phase = "usage" /\ token \in AnCursors /\ c \in 1 .. AnDays
      /\ AnShape(world) /\ AnStored(stored) /\ walks \in Nat
  BY <1>1 DEF AnUsagePage, InPhase, AnInv, AnTokenOK
<1>5. token' = t /\ stored' = s /\ UNCHANGED <<vendor, world, moved, walks, changes>>
  <2>1. CommitPage(t, s)
    BY <1>1, <1>2, <1>3 DEF AnUsagePage
  <2>2. QED BY <2>1 DEF CommitPage
<1>6. s.emails = stored.emails /\ s.usage = table /\ AnStored(s)
  BY <1>3, <1>4 DEF AnStored
<1>7. /\ t \in AnCursors /\ t # None /\ t.users = token.users
      /\ IF c < AnDays THEN t.phase = "usage" /\ t.cursor = c + 1 ELSE t.phase = "cost" /\ t.cursor = 1
  <2>1. c + 1 \in Nat
    BY <1>4, AnIds
  <2>2. t \in AnCursors
    BY <1>1, <1>3, <1>4, <2>1 DEF AnCursors
  <2>3. t.users = token.users
    BY <1>3, <1>4 DEF AnCursors
  <2>4. IF c < AnDays THEN t.phase = "usage" /\ t.cursor = c + 1 ELSE t.phase = "cost" /\ t.cursor = 1
    BY <1>1, <1>3, <1>4 DEF AnCursors
  <2>5. QED BY <2>2, <2>3, <2>4, AnNoToken
<1>8. AnTokenOK'
  <2>1. t.cursor \in 1 .. AnDays
    BY <1>4, <1>7, AnIds
  <2>2. QED BY <1>5, <1>7, <2>1 DEF AnTokenOK
<1>9. RosterSeen'
  BY <1>4, <1>5, <1>7 DEF AnInv, RosterSeen
<1>10. AnKeysRead'
  <2>1. \A k : AnKeyPassed(k)
    BY <1>4 DEF AnKeyPassed
  <2>2. AnKeysRead /\ moved' = moved /\ world'.users = world.users /\ DOMAIN (world.keys') = DOMAIN world.keys
    BY <1>5 DEF AnInv
  <2>3. QED BY <1>5, <1>6, <2>1, <2>2, AnKeysStay
<1>11. /\ \A r \in pg : r \in DOMAIN table /\ table[r] = world.rows[r]
       /\ \A r \in DOMAIN stored.usage \ pg : r \in DOMAIN table /\ table[r] = stored.usage[r]
  BY <1>2 DEF Upsert
<1>12. AnUsageRead'
  <2>1. SUFFICES ASSUME "usage" \notin moved, NEW r \in DOMAIN world.rows, AnUsagePassed(r.day)'
                 PROVE  r \in DOMAIN table /\ table[r] = world.rows[r]
    BY <1>5, <1>6 DEF AnUsageRead
  <2>2. CASE r.day = c
    BY <1>1, <1>11, <2>2
  <2>3. CASE r.day # c
    <3>1. r.day \in 1 .. AnDays
      BY <1>4, AnthropicAssumption DEF AnShape
    <3>2. r.day < c
      BY <1>4, <1>5, <1>7, <2>1, <2>3, <3>1, AnIds DEF AnUsagePassed, AnOver
    <3>3. AnUsagePassed(r.day)
      BY <1>1, <1>4, <3>2 DEF AnUsagePassed
    <3>4. r \in DOMAIN stored.usage /\ stored.usage[r] = world.rows[r]
      BY <2>1, <3>3 DEF AnInv, AnUsageRead
    <3>5. r \notin pg
      BY <1>1, <2>3
    <3>6. QED BY <1>11, <3>4, <3>5
  <2>4. QED BY <2>2, <2>3
<1>13. /\ \A r \in DOMAIN world.cost : ~AnCostPassed(r.day)'
       /\ \A x : ~CodePassed(x)'
  <2>1. \A r \in DOMAIN world.cost : r.day \in Nat \ {0}
    BY <1>4, AnthropicAssumption DEF AnShape
  <2>2. QED BY <1>5, <1>7, <2>1 DEF AnCostPassed, CodePassed, AnOver
<1>14. AnCostsRead' /\ CodeRead'
  BY <1>5, <1>13 DEF AnCostsRead, CodeRead
<1>15. QED BY <1>4, <1>5, <1>6, <1>8, <1>9, <1>10, <1>12, <1>14 DEF AnInv

LEMMA AnCostsKeep == AnInv /\ AnCosts => AnInv'
<1> SUFFICES ASSUME AnInv, AnCosts PROVE AnInv'
  OBVIOUS
<1>1. PICK c, pg : c = token.cursor /\ pg = {x \in DOMAIN world.cost : x.day = c /\ ~TokenCharge(x)}
  OBVIOUS
<1>2. PICK table : table = Upsert(stored.costs, [x \in pg |-> world.cost[x]])
  OBVIOUS
<1>3. PICK t, s : /\ t = (IF c < AnDays THEN [token EXCEPT !.cursor = @ + 1]
                          ELSE [token EXCEPT !.phase = "claude_code", !.cursor = 1, !.day = 1])
                  /\ s = [stored EXCEPT !.costs = table]
  OBVIOUS
<1>4. /\ token # None /\ token.phase = "cost" /\ token \in AnCursors /\ c \in 1 .. AnDays
      /\ AnShape(world) /\ AnStored(stored) /\ walks \in Nat
  BY <1>1 DEF AnCosts, InPhase, AnInv, AnTokenOK
<1>5. token' = t /\ stored' = s /\ UNCHANGED <<vendor, world, moved, walks, changes>>
  <2>1. CommitPage(t, s)
    BY <1>1, <1>2, <1>3 DEF AnCosts
  <2>2. QED BY <2>1 DEF CommitPage
<1>6. /\ \A x \in pg : x \in DOMAIN table /\ table[x] = world.cost[x]
      /\ \A x \in DOMAIN stored.costs \ pg : x \in DOMAIN table /\ table[x] = stored.costs[x]
      /\ DOMAIN table = pg \cup DOMAIN stored.costs
  BY <1>2 DEF Upsert
<1>7. s.emails = stored.emails /\ s.usage = stored.usage /\ s.costs = table /\ AnStored(s)
  <2>1. \A x \in DOMAIN table : x.type # "tokens"
    BY <1>1, <1>4, <1>6 DEF AnStored, TokenCharge
  <2>2. /\ s.emails = stored.emails /\ s.usage = stored.usage /\ s.costs = table
        /\ s = [emails |-> s.emails, seats |-> s.seats, usage |-> s.usage, costs |-> s.costs, code |-> s.code]
    BY <1>3, <1>4 DEF AnStored
  <2>3. QED BY <2>1, <2>2 DEF AnStored
<1>8. /\ t \in AnCursors /\ t # None /\ t.users = token.users
      /\ IF c < AnDays THEN t.phase = "cost" /\ t.cursor = c + 1
         ELSE t.phase = "claude_code" /\ t.cursor = 1 /\ t.day = 1
  <2>1. c + 1 \in Nat
    BY <1>4, AnIds
  <2>2. t \in AnCursors
    BY <1>1, <1>3, <1>4, <2>1 DEF AnCursors
  <2>3. t.users = token.users
    BY <1>3, <1>4 DEF AnCursors
  <2>4. IF c < AnDays THEN t.phase = "cost" /\ t.cursor = c + 1
        ELSE t.phase = "claude_code" /\ t.cursor = 1 /\ t.day = 1
    BY <1>1, <1>3, <1>4 DEF AnCursors
  <2>5. QED BY <2>2, <2>3, <2>4, AnNoToken
<1>9. AnTokenOK'
  <2>1. t.phase = "cost" => t.cursor \in 1 .. AnDays
    BY <1>4, <1>8, AnIds
  <2>2. 1 \in 1 .. AnDays /\ 1 \in Nat \ {0}
    BY AnIds
  <2>3. QED BY <1>5, <1>8, <2>1, <2>2 DEF AnTokenOK
<1>10. RosterSeen'
  BY <1>4, <1>5, <1>8 DEF AnInv, RosterSeen
<1>11. AnKeysRead' /\ AnUsageRead'
  <2>1. /\ \A k : AnKeyPassed(k)
        /\ \A d : AnUsagePassed(d)
    BY <1>4 DEF AnKeyPassed, AnUsagePassed
  <2>2. /\ AnKeysRead /\ AnUsageRead /\ moved' = moved /\ world'.users = world.users /\ world'.rows = world.rows
        /\ DOMAIN (world.keys') = DOMAIN world.keys
    BY <1>5 DEF AnInv
  <2>3. AnKeysRead'
    BY <1>5, <1>7, <2>1, <2>2, AnKeysStay
  <2>4. AnUsageRead'
    BY <1>5, <1>7, <2>1, <2>2, AnUsageStays
  <2>5. QED BY <2>3, <2>4
<1>12. AnCostsRead'
  <2>1. SUFFICES ASSUME "cost" \notin moved, NEW x \in DOMAIN world.cost, AnCostPassed(x.day)', ~TokenCharge(x)
                 PROVE  x \in DOMAIN table /\ table[x] = world.cost[x]
    BY <1>5, <1>7 DEF AnCostsRead, TokenCharge
  <2>2. CASE x.day = c
    BY <1>1, <1>6, <2>1, <2>2
  <2>3. CASE x.day # c
    <3>1. x.day \in 1 .. AnDays
      BY <1>4, AnthropicAssumption DEF AnShape
    <3>2. x.day < c
      BY <1>4, <1>5, <1>8, <2>1, <2>3, <3>1, AnIds DEF AnCostPassed, AnOver
    <3>3. AnCostPassed(x.day)
      BY <1>1, <1>4, <3>2 DEF AnCostPassed
    <3>4. x \in DOMAIN stored.costs /\ stored.costs[x] = world.cost[x]
      BY <2>1, <3>3 DEF AnInv, AnCostsRead
    <3>5. x \notin pg
      BY <1>1, <2>3
    <3>6. QED BY <1>6, <3>4, <3>5
  <2>4. QED BY <2>2, <2>3
<1>13. \A x \in DOMAIN world.code : ~CodePassed(x)'
  <2>1. SUFFICES ASSUME NEW x \in DOMAIN world.code, CodePassed(x)' PROVE FALSE
    OBVIOUS
  <2>2. x.day \in Nat \ {0}
    BY <1>4, AnthropicAssumption DEF AnShape
  <2>3. PICK i \in DOMAIN ServedOn(x.day)' : i <= (1 - 1) * AnPage
    BY <1>5, <1>8, <2>1, <2>2 DEF CodePassed, AnOver, ServedBy
  <2>4. i \in Nat \ {0}
    <3>1. PICK X : X = {y \in DOMAIN world.code : y.day = x.day}
      OBVIOUS
    <3>2. IsFiniteSet(X)
      BY <1>4, <3>1, FS_Subset DEF AnShape
    <3>3. ServedOn(x.day)' = SetToSeq(X)
      BY <1>5, <3>1 DEF ServedOn
    <3>4. QED BY <2>3, <3>2, <3>3, ServedIs, LenProperties
  <2>5. (1 - 1) * AnPage = 0
    BY AnIds, PagesFollow
  <2>6. QED BY <2>3, <2>4, <2>5
<1>14. CodeRead'
  BY <1>5, <1>13 DEF CodeRead
<1>15. QED BY <1>4, <1>5, <1>7, <1>9, <1>10, <1>11, <1>12, <1>14 DEF AnInv

\* on a record of theirs the roster's user stands
LEMMA ActorIs ==
  ASSUME AnShape(world), token # None, token \in AnCursors, world.users \subseteq token.users,
         NEW u \in world.users, NEW x, Writes(x, u)
  PROVE  ActorOf(x.actor) = <<"user", u>>
<1>1. token.users \subseteq AnUsers /\ u \in AnUsers /\ u \in Nat
  BY AnIds DEF AnShape, AnCursors
<1>2. \A v \in token.users : LowerCase[AnEmail[v]] = LowerCase[AnEmail[u]] => v = u
  BY <1>1, AnthropicAssumption
<1>3. Known(token.users, x.actor[2]) = {u}
  BY <1>2 DEF Known, Writes
<1>4. Max({u}) = u
  BY <1>1 DEF Max
<1>5. QED BY <1>3, <1>4 DEF ActorOf, Writes

\* a page's row says of every record of its key what it should
LEMMA RowIs ==
  ASSUME AnShape(world), token # None, token \in AnCursors, world.users \subseteq token.users,
         NEW pg, NEW b \in Nat, DOMAIN pg \subseteq 1 .. b, ToSet(pg) \subseteq DOMAIN world.code,
         NEW x \in DOMAIN world.code, CodeRef(x) \in DOMAIN codeRows(pg)
  PROVE  /\ Alone(x) => codeRows(pg)[CodeRef(x)].sessions = world.code[x]
         /\ \A u \in world.users : Writes(x, u) => codeRows(pg)[CodeRef(x)].who = <<"user", u>>
<1>1. PICK ref : ref = CodeRef(x)
  OBVIOUS
<1>2. PICK hits : hits = {n \in DOMAIN pg : CodeRef(pg[n]) = ref}
  OBVIOUS
<1>3. ref \in {CodeRef(y) : y \in ToSet(pg)}
  BY <1>1 DEF codeRows
<1>4. hits # {} /\ hits \subseteq 0 .. b
  BY <1>2, <1>3 DEF ToSet
<1>5. PICK m : m = Max(hits)
  OBVIOUS
<1>6. m \in hits
  BY <1>4, <1>5, MaxIs
<1>7. PICK y : y = pg[m]
  OBVIOUS
<1>8. y \in DOMAIN world.code /\ CodeRef(y) = ref
  BY <1>2, <1>6, <1>7 DEF ToSet
<1>9. codeRows(pg)[ref] = [who |-> ActorOf(y.actor), sessions |-> world.code[y]]
  BY <1>2, <1>3, <1>5, <1>7 DEF codeRows
<1>10. Alone(x) => y = x
  BY <1>1, <1>8 DEF Alone
<1>11. ASSUME NEW u \in world.users, Writes(x, u)
       PROVE  ActorOf(y.actor) = <<"user", u>>
  <2>1. y.actor[1] = x.actor[1] /\ LowerCase[y.actor[2]] = LowerCase[x.actor[2]]
    BY <1>1, <1>8 DEF CodeRef
  <2>2. Writes(y, u)
    BY <1>11, <2>1 DEF Writes
  <2>3. QED BY <2>2, ActorIs
<1>12. QED BY <1>1, <1>9, <1>10, <1>11

LEMMA CodeKeeps == AnInv /\ ClaudeCode => AnInv'
<1> SUFFICES ASSUME AnInv, ClaudeCode PROVE AnInv'
  OBVIOUS
<1>1. PICK c, d, all : c = token.cursor /\ d = token.day /\ all = ServedOn(token.day)
  OBVIOUS
<1>2. PICK pg, more : pg = PageOf(all, c, AnPage) /\ more = MorePages(all, c, AnPage)
  OBVIOUS
<1>3. PICK rows, table : rows = codeRows(pg) /\ table = Upsert(stored.code, rows)
  OBVIOUS
<1>4. PICK subscribed : subscribed = {x \in ToSet(pg) : x.actor[1] = "user" /\ x.type = "subscription"}
  OBVIOUS
<1>5. PICK seats : seats = stored.seats \cup {ActorOf(x.actor) : x \in subscribed}
  OBVIOUS
<1>6. PICK t, s : /\ t = (IF more THEN [token EXCEPT !.cursor = @ + 1]
                          ELSE IF d < AnDays THEN [token EXCEPT !.cursor = 1, !.day = @ + 1]
                          ELSE None)
                  /\ s = [stored EXCEPT !.code = table, !.seats = seats]
  OBVIOUS
<1>7. /\ token # None /\ token.phase = "claude_code" /\ token \in AnCursors /\ c \in Nat \ {0} /\ d \in 1 .. AnDays
      /\ AnShape(world) /\ AnStored(stored) /\ walks \in Nat
  BY <1>1 DEF ClaudeCode, InPhase, AnInv, AnTokenOK
<1>8. token' = t /\ stored' = s /\ UNCHANGED <<vendor, world, moved, walks, changes>>
  <2>1. CommitPage(t, s)
    BY <1>1, <1>2, <1>3, <1>4, <1>5, <1>6 DEF ClaudeCode
  <2>2. QED BY <2>1 DEF CommitPage
<1>9. /\ s.emails = stored.emails /\ s.usage = stored.usage /\ s.costs = stored.costs
      /\ s.code = table /\ s.seats = seats /\ AnStored(s)
  BY <1>6, <1>7 DEF AnStored
<1>10. IF more \/ d < AnDays
       THEN /\ t \in AnCursors /\ t # None /\ t.users = token.users /\ t.phase = "claude_code"
            /\ t.cursor = (IF more THEN c + 1 ELSE 1) /\ t.day = (IF more THEN d ELSE d + 1)
       ELSE t = None
  <2>1. c + 1 \in Nat /\ d + 1 \in Nat /\ 1 \in Nat
    BY <1>7, AnIds
  <2>2. more \/ d < AnDays => t \in AnCursors
    BY <1>1, <1>6, <1>7, <2>1 DEF AnCursors
  <2>3. more \/ d < AnDays => t.users = token.users /\ t.phase = "claude_code"
    BY <1>6, <1>7 DEF AnCursors
  <2>4. more \/ d < AnDays => t.cursor = (IF more THEN c + 1 ELSE 1) /\ t.day = (IF more THEN d ELSE d + 1)
    BY <1>1, <1>6, <1>7 DEF AnCursors
  <2>5. ~(more \/ d < AnDays) => t = None
    BY <1>6
  <2>6. QED BY <2>2, <2>3, <2>4, <2>5, AnNoToken
<1>11. AnTokenOK'
  <2>1. ASSUME more \/ d < AnDays PROVE t.cursor \in Nat \ {0} /\ t.day \in 1 .. AnDays
    BY <1>7, <1>10, <2>1, AnIds
  <2>2. QED BY <1>8, <1>10, <2>1 DEF AnTokenOK
<1>12. "people" \notin moved => world.users \subseteq token.users
  BY <1>7 DEF AnInv, RosterSeen
<1>13. RosterSeen'
  BY <1>8, <1>10, <1>12 DEF RosterSeen
<1>14. AnKeysRead' /\ AnUsageRead' /\ AnCostsRead'
  <2>1. /\ \A k : AnKeyPassed(k)
        /\ \A n : AnUsagePassed(n) /\ AnCostPassed(n)
    BY <1>7 DEF AnKeyPassed, AnUsagePassed, AnCostPassed
  <2>2. /\ AnKeysRead /\ AnUsageRead /\ AnCostsRead /\ moved' = moved /\ world'.users = world.users
        /\ world'.rows = world.rows /\ world'.cost = world.cost /\ DOMAIN (world.keys') = DOMAIN world.keys
    BY <1>8 DEF AnInv
  <2>3. AnKeysRead'
    BY <1>8, <1>9, <2>1, <2>2, AnKeysStay
  <2>4. AnUsageRead'
    BY <1>8, <1>9, <2>1, <2>2, AnUsageStays
  <2>5. AnCostsRead'
    BY <1>8, <1>9, <2>1, <2>2, AnCostsStay
  <2>6. QED BY <2>3, <2>4, <2>5
<1>15. PICK X : X = {x \in DOMAIN world.code : x.day = d}
  OBVIOUS
<1>16. all \in Seq(X) /\ ToSet(all) = X
  <2>1. IsFiniteSet(X)
    BY <1>7, <1>15, FS_Subset DEF AnShape
  <2>2. all = SetToSeq(X)
    BY <1>1, <1>15 DEF ServedOn
  <2>3. QED BY <2>1, <2>2, ServedIs
<1>17. PICK L \in Nat : L = Len(all) /\ DOMAIN all = 1 .. L
  BY <1>16, LenProperties
<1>18. PICK a, z : a = (c - 1) * AnPage /\ z = c * AnPage
  OBVIOUS
<1>19. PICK b \in Nat : DOMAIN pg \subseteq 1 .. b
  BY <1>2, <1>7, <1>16, AnIds, PageIs
<1>20. /\ ToSet(pg) \subseteq X
       /\ \A i \in DOMAIN all : a < i /\ i <= z => all[i] \in ToSet(pg)
  BY <1>2, <1>7, <1>16, <1>18, AnIds, PageIs
<1>21. a \in Nat /\ z \in Nat /\ ((c + 1) - 1) * AnPage = z /\ (1 - 1) * AnPage = 0
  BY <1>7, <1>18, AnIds, PagesFollow
<1>22. more <=> z < L
  BY <1>2, <1>17, <1>18 DEF MorePages
<1>23. ASSUME NEW x \in DOMAIN world.code, CodePassed(x)', x \notin ToSet(pg)
       PROVE  CodePassed(x)
  <2>1. x.day \in 1 .. AnDays
    BY <1>7, AnthropicAssumption DEF AnShape
  <2>2. CASE x.day = d
    <3>1. x \in X
      BY <1>15, <2>2
    <3>2. PICK i \in DOMAIN all : all[i] = x
      BY <1>16, <3>1 DEF ToSet
    <3>3. i \in 1 .. L
      BY <1>17
    <3>4. PICK j \in DOMAIN all : all[j] = x /\ j <= z
      <4>1. CASE more
        <5>1. ServedBy(x, c + 1)'
          <6>1. t # None /\ t.cursor = c + 1 /\ t.day = d
            BY <1>10, <4>1
          <6>2. ~(d < d)
            BY <1>7
          <6>3. QED BY <1>8, <1>23, <2>2, <6>1, <6>2 DEF CodePassed, AnOver
        <5>2. ServedOn(x.day)' = all
          BY <1>1, <1>8, <2>2, ServedStays
        <5>3. QED BY <1>21, <5>1, <5>2, <1>8 DEF ServedBy
      <4>2. CASE ~more
        BY <1>21, <1>22, <3>2, <3>3, <4>2
      <4>3. QED BY <4>1, <4>2
    <3>5. j <= a
      <4>1. ~(a < j /\ j <= z)
        BY <1>20, <1>23, <3>4
      <4>2. j \in Nat
        BY <1>17
      <4>3. QED BY <1>21, <3>4, <4>1, <4>2
    <3>6. ServedBy(x, c)
      BY <1>1, <1>18, <2>2, <3>4, <3>5 DEF ServedBy
    <3>7. QED BY <1>1, <1>7, <2>2, <3>6 DEF CodePassed
  <2>3. CASE x.day # d
    <3>1. CASE t = None
      <4>1. d = AnDays
        BY <1>7, <1>10, <3>1, AnIds
      <4>2. x.day < d
        BY <1>7, <2>1, <2>3, <4>1, AnIds
      <4>3. QED BY <1>1, <1>7, <4>2 DEF CodePassed
    <3>2. CASE t # None
      <4>1. CASE more
        <5>1. x.day < d
          BY <1>8, <1>10, <1>23, <2>3, <3>2, <4>1 DEF CodePassed, AnOver
        <5>2. QED BY <1>1, <1>7, <5>1 DEF CodePassed
      <4>2. CASE ~more
        <5>1. t.day = d + 1 /\ t.cursor = 1
          BY <1>10, <3>2, <4>2
        <5>2. x.day < d + 1 \/ (x.day = d + 1 /\ ServedBy(x, 1)')
          BY <1>8, <1>23, <3>2, <5>1 DEF CodePassed, AnOver
        <5>3. ASSUME ServedBy(x, 1)' PROVE FALSE
          <6>1. ServedBy(x, 1)
            BY <1>8, <5>3, ServedStays DEF ServedBy
          <6>2. PICK i \in DOMAIN ServedOn(x.day) : i <= 0
            BY <1>21, <6>1 DEF ServedBy
          <6>3. i \in Nat \ {0}
            <7>1. PICK Y : Y = {y \in DOMAIN world.code : y.day = x.day}
              OBVIOUS
            <7>2. IsFiniteSet(Y)
              BY <1>7, <7>1, FS_Subset DEF AnShape
            <7>3. ServedOn(x.day) = SetToSeq(Y)
              BY <7>1 DEF ServedOn
            <7>4. QED BY <6>2, <7>2, <7>3, ServedIs, LenProperties
          <6>4. QED BY <6>2, <6>3
        <5>4. x.day < d
          BY <1>7, <2>1, <2>3, <5>2, <5>3, AnIds
        <5>5. QED BY <1>1, <1>7, <5>4 DEF CodePassed
      <4>3. QED BY <4>1, <4>2
    <3>3. QED BY <3>1, <3>2
  <2>4. QED BY <2>2, <2>3
<1>24. /\ \A ref \in DOMAIN rows : ref \in DOMAIN table /\ table[ref] = rows[ref]
       /\ \A ref \in DOMAIN stored.code \ DOMAIN rows : ref \in DOMAIN table /\ table[ref] = stored.code[ref]
  BY <1>3 DEF Upsert
<1>25. CodeRead'
  <2>1. SUFFICES ASSUME moved \cap {"code", "people"} = {}, NEW x \in DOMAIN world.code, CodePassed(x)'
                 PROVE  /\ CodeRef(x) \in DOMAIN table
                        /\ Alone(x) => table[CodeRef(x)].sessions = world.code[x]
                        /\ \A u \in world.users : Writes(x, u) =>
                             /\ table[CodeRef(x)].who = <<"user", u>>
                             /\ x.type = "subscription" => <<"user", u>> \in seats
    BY <1>8, <1>9, AloneStays DEF CodeRead, Counted
  <2>2. world.users \subseteq token.users
    BY <1>12, <2>1
  <2>3. PICK ref : ref = CodeRef(x)
    OBVIOUS
  <2>4. ToSet(pg) \subseteq DOMAIN world.code
    BY <1>15, <1>20
  <2>5. x \in ToSet(pg) => ref \in DOMAIN rows
    BY <1>3, <2>3 DEF codeRows
  <2>6. x \notin ToSet(pg) => Counted(x)
    BY <1>23, <2>1 DEF AnInv, CodeRead
  <2>7. ref \in DOMAIN table
    BY <1>24, <2>3, <2>5, <2>6 DEF Counted
  <2>8. /\ Alone(x) => table[ref].sessions = world.code[x]
        /\ \A u \in world.users : Writes(x, u) => table[ref].who = <<"user", u>>
    <3>1. CASE ref \in DOMAIN rows
      <4>1. /\ Alone(x) => rows[ref].sessions = world.code[x]
            /\ \A u \in world.users : Writes(x, u) => rows[ref].who = <<"user", u>>
        BY <1>3, <1>7, <1>19, <2>2, <2>3, <2>4, <3>1, RowIs
      <4>2. QED BY <1>24, <3>1, <4>1
    <3>2. CASE ref \notin DOMAIN rows
      <4>1. Counted(x)
        BY <2>5, <2>6, <3>2
      <4>2. table[ref] = stored.code[ref]
        BY <1>24, <2>3, <3>2, <4>1 DEF Counted
      <4>3. QED BY <2>3, <4>1, <4>2 DEF Counted
    <3>3. QED BY <3>1, <3>2
  <2>9. ASSUME NEW u \in world.users, Writes(x, u), x.type = "subscription"
        PROVE  <<"user", u>> \in seats
    <3>1. CASE x \in ToSet(pg)
      <4>1. x \in subscribed
        BY <1>4, <2>9, <3>1 DEF Writes
      <4>2. ActorOf(x.actor) = <<"user", u>>
        BY <1>7, <2>2, <2>9, ActorIs
      <4>3. QED BY <1>5, <4>1, <4>2
    <3>2. CASE x \notin ToSet(pg)
      BY <1>5, <2>6, <2>9, <3>2 DEF Counted
    <3>3. QED BY <3>1, <3>2
  <2>10. QED BY <2>3, <2>7, <2>8, <2>9
<1>26. QED BY <1>7, <1>8, <1>9, <1>11, <1>13, <1>14, <1>25 DEF AnInv

-----------------------------------------------------------------------------
(***************************************************************************)
(* Anthropic moves, and what is promised of it.                            *)
(***************************************************************************)
LEMMA AnMoved ==
  ASSUME AnInv, NEW w, NEW what, Move(w, what), AnShape(w),
         (w.users = world.users /\ DOMAIN w.keys = DOMAIN world.keys) \/ "people" \in what,
         w.rows = world.rows \/ "usage" \in what,
         w.cost = world.cost \/ "cost" \in what,
         w.code = world.code \/ "code" \in what
  PROVE  AnInv'
<1>1. world' = w /\ moved' = moved \cup what /\ UNCHANGED <<token, stored, walks>>
  BY DEF Move
<1>2. AnTokenOK'
  BY <1>1 DEF AnInv, AnTokenOK
<1>3. RosterSeen'
  BY <1>1 DEF AnInv, RosterSeen
<1>4. /\ \A k : AnKeyPassed(k)' <=> AnKeyPassed(k)
      /\ \A d : AnUsagePassed(d)' <=> AnUsagePassed(d)
      /\ \A d : AnCostPassed(d)' <=> AnCostPassed(d)
  BY <1>1 DEF AnKeyPassed, AnUsagePassed, AnCostPassed, AnOver
<1>5. moved \subseteq moved' /\ AnKeysRead /\ AnUsageRead /\ AnCostsRead /\ CodeRead
  BY <1>1 DEF AnInv
<1>6. AnKeysRead'
  <2>1. CASE "people" \in what
    BY <1>1, <2>1 DEF AnKeysRead
  <2>2. CASE "people" \notin what
    <3>1. world'.users = world.users /\ DOMAIN (world.keys') = DOMAIN world.keys /\ stored'.emails = stored.emails
      BY <1>1, <2>2
    <3>2. QED BY <1>4, <1>5, <3>1, AnKeysStay
  <2>3. QED BY <2>1, <2>2
<1>7. AnUsageRead'
  <2>1. CASE "usage" \in what
    BY <1>1, <2>1 DEF AnUsageRead
  <2>2. CASE "usage" \notin what
    <3>1. world'.rows = world.rows /\ stored'.usage = stored.usage
      BY <1>1, <2>2
    <3>2. QED BY <1>4, <1>5, <3>1, AnUsageStays
  <2>3. QED BY <2>1, <2>2
<1>8. AnCostsRead'
  <2>1. CASE "cost" \in what
    BY <1>1, <2>1 DEF AnCostsRead
  <2>2. CASE "cost" \notin what
    <3>1. world'.cost = world.cost /\ stored'.costs = stored.costs
      BY <1>1, <2>2
    <3>2. QED BY <1>4, <1>5, <3>1, AnCostsStay
  <2>3. QED BY <2>1, <2>2
<1>9. CodeRead'
  <2>1. CASE what \cap {"code", "people"} # {}
    BY <1>1, <2>1 DEF CodeRead
  <2>2. CASE what \cap {"code", "people"} = {}
    <3>1. /\ world'.code = world.code /\ world'.users = world.users /\ stored'.code = stored.code
          /\ stored'.seats = stored.seats
      BY <1>1, <2>2
    <3>2. \A x : CodePassed(x)' => CodePassed(x)
      <4>1. \A d : ServedOn(d)' = ServedOn(d)
        BY <3>1, ServedStays
      <4>2. \A x : ServedBy(x, token.cursor)' => ServedBy(x, token.cursor)
        BY <1>1, <4>1 DEF ServedBy
      <4>3. QED BY <1>1, <4>2 DEF CodePassed, AnOver
    <3>3. QED BY <1>5, <3>1, <3>2, CodeStays
  <2>3. QED BY <2>1, <2>2
<1>10. QED BY <1>1, <1>2, <1>3, <1>6, <1>7, <1>8, <1>9 DEF AnInv

LEMMA GrowIs == ASSUME NEW f, NEW x PROVE DOMAIN Grow(f, x) = DOMAIN f \cup {x}
BY DEF Grow, Upsert, Row

LEMMA AnMovesKeep == AnInv /\ AnMoves => AnInv'
<1> SUFFICES ASSUME AnInv, AnMoves PROVE AnInv'
  OBVIOUS
<1>1. AnShape(world)
  BY DEF AnInv
<1>2. ASSUME NEW u \in AnUsers, inviteAnthropicUser(u) \/ deleteAnthropicUser(u)
      PROVE  AnInv'
  <2>1. PICK us \in {world.users \cup {u}, world.users \ {u}} : Move([world EXCEPT !.users = us], {"people"})
    BY <1>2 DEF inviteAnthropicUser, deleteAnthropicUser
  <2>2. PICK w : w = [world EXCEPT !.users = us]
    OBVIOUS
  <2>3. AnShape(w) /\ w.rows = world.rows /\ w.cost = world.cost /\ w.code = world.code
    BY <1>1, <2>2 DEF AnShape
  <2>4. Move(w, {"people"})
    BY <2>1, <2>2
  <2>5. QED BY <2>3, <2>4, AnMoved
<1>3. ASSUME NEW k \in AnKeys, CreateKey(k)
      PROVE  AnInv'
  <2>1. PICK ks : ks = Upsert(world.keys, Row(k, "active"))
    OBVIOUS
  <2>2. DOMAIN ks \subseteq AnKeys
    BY <1>1, <2>1 DEF AnShape, Upsert, Row
  <2>3. PICK w : w = [world EXCEPT !.keys = ks]
    OBVIOUS
  <2>4. AnShape(w) /\ w.rows = world.rows /\ w.cost = world.cost /\ w.code = world.code
    BY <1>1, <2>2, <2>3 DEF AnShape
  <2>5. Move(w, {"people"})
    BY <1>3, <2>1, <2>3 DEF CreateKey
  <2>6. QED BY <2>4, <2>5, AnMoved
<1>4. ASSUME NEW k \in AnKeys, archiveAnthropicApiKey(k)
      PROVE  AnInv'
  <2>1. PICK ks : ks = [world.keys EXCEPT ![k] = "archived"]
    OBVIOUS
  <2>2. DOMAIN ks = DOMAIN world.keys
    BY <2>1
  <2>3. PICK w : w = [world EXCEPT !.keys = ks]
    OBVIOUS
  <2>4. /\ AnShape(w) /\ w.users = world.users /\ DOMAIN w.keys = DOMAIN world.keys /\ w.rows = world.rows
        /\ w.cost = world.cost /\ w.code = world.code
    BY <1>1, <2>2, <2>3 DEF AnShape
  <2>5. Move(w, {"keys"})
    BY <1>4, <2>1, <2>3 DEF archiveAnthropicApiKey
  <2>6. QED BY <2>4, <2>5, AnMoved
<1>5. ASSUME NEW r \in AnUsage, AnUse(r)
      PROVE  AnInv'
  <2>1. PICK rows : rows = Grow(world.rows, r)
    OBVIOUS
  <2>2. DOMAIN rows \subseteq AnUsage
    <3>1. DOMAIN rows = DOMAIN world.rows \cup {r}
      BY <2>1, GrowIs
    <3>2. DOMAIN world.rows \subseteq AnUsage
      BY <1>1 DEF AnShape
    <3>3. QED BY <3>1, <3>2
  <2>3. PICK w : w = [world EXCEPT !.rows = rows]
    OBVIOUS
  <2>4. /\ AnShape(w) /\ w.users = world.users /\ w.keys = world.keys
        /\ w.cost = world.cost /\ w.code = world.code
    BY <1>1, <2>2, <2>3 DEF AnShape
  <2>5. Move(w, {"usage"})
    BY <1>5, <2>1, <2>3 DEF AnUse
  <2>6. QED BY <2>4, <2>5, AnMoved
<1>6. ASSUME NEW c \in AnCharges, Charge(c)
      PROVE  AnInv'
  <2>1. PICK cost : cost = Grow(world.cost, c)
    OBVIOUS
  <2>2. DOMAIN cost \subseteq AnCharges
    <3>1. DOMAIN cost = DOMAIN world.cost \cup {c}
      BY <2>1, GrowIs
    <3>2. DOMAIN world.cost \subseteq AnCharges
      BY <1>1 DEF AnShape
    <3>3. QED BY <3>1, <3>2
  <2>3. PICK w : w = [world EXCEPT !.cost = cost]
    OBVIOUS
  <2>4. /\ AnShape(w) /\ w.users = world.users /\ w.keys = world.keys
        /\ w.rows = world.rows /\ w.code = world.code
    BY <1>1, <2>2, <2>3 DEF AnShape
  <2>5. Move(w, {"cost"})
    BY <1>6, <2>1, <2>3 DEF Charge
  <2>6. QED BY <2>4, <2>5, AnMoved
<1>7. ASSUME NEW x \in AnRecords, Code(x)
      PROVE  AnInv'
  <2>1. PICK code : code = Grow(world.code, x)
    OBVIOUS
  <2>2. DOMAIN code \subseteq AnRecords /\ IsFiniteSet(DOMAIN code)
    <3>1. IsFiniteSet(DOMAIN world.code \cup {x})
      BY <1>1, FS_AddElement DEF AnShape
    <3>2. QED BY <1>1, <2>1, <3>1, GrowIs DEF AnShape
  <2>3. PICK w : w = [world EXCEPT !.code = code]
    OBVIOUS
  <2>4. /\ AnShape(w) /\ w.users = world.users /\ w.keys = world.keys
        /\ w.rows = world.rows /\ w.cost = world.cost
    BY <1>1, <2>2, <2>3 DEF AnShape
  <2>5. Move(w, {"code"})
    BY <1>7, <2>1, <2>3 DEF Code
  <2>6. QED BY <2>4, <2>5, AnMoved
<1>8. QED BY <1>2, <1>3, <1>4, <1>5, <1>6, <1>7 DEF AnMoves

LEMMA AnStutters == AnInv /\ UNCHANGED walkVars => AnInv'
<1> SUFFICES ASSUME AnInv, UNCHANGED walkVars PROVE AnInv'
  OBVIOUS
<1>1. UNCHANGED <<world, token, stored, moved, walks>>
  BY DEF walkVars
<1>2. AnTokenOK' /\ RosterSeen' /\ AnKeysRead' /\ AnUsageRead' /\ AnCostsRead'
  BY <1>1 DEF AnInv, AnTokenOK, RosterSeen, AnKeysRead, KeyOnFile, AnKeyPassed, AnUsageRead, AnUsagePassed,
    AnCostsRead, AnCostPassed, TokenCharge, AnOver
<1>3. CodeRead'
  <2>1. \A d : ServedOn(d)' = ServedOn(d)
    BY <1>1, ServedStays
  <2>2. \A x : ServedBy(x, token.cursor)' => ServedBy(x, token.cursor)
    BY <1>1, <2>1 DEF ServedBy
  <2>3. \A x : CodePassed(x)' => CodePassed(x)
    BY <1>1, <2>2 DEF CodePassed, AnOver
  <2>4. CodeRead /\ moved \subseteq moved'
    BY <1>1 DEF AnInv
  <2>5. QED BY <1>1, <2>3, <2>4, CodeStays
<1>4. QED BY <1>1, <1>2, <1>3 DEF AnInv

LEMMA AnthropicInductive == AnthropicIInv /\ [MCNext]_walkVars => AnthropicIInv'
<1> SUFFICES ASSUME AnthropicIInv, [MCNext]_walkVars, vendor' = "anthropic" PROVE AnInv'
  BY DEF AnthropicIInv
<1>1. vendor' = vendor
  BY GithubStays, CursorStays, OpenAiStays, AnthropicStays, IssuesStay DEF MCNext, walkVars
<1>2. AnInv
  BY <1>1 DEF AnthropicIInv
<1>3. AnNext \/ UNCHANGED walkVars
  BY <1>1 DEF MCNext
<1>4. QED BY <1>2, <1>3, AnStarts, AnUsersKeep, AnKeysKeep, AnUsageKeeps, AnCostsKeep, CodeKeeps,
          AnMovesKeep, AnStutters DEF AnNext, AnPages

THEOREM AnthropicInvariance == MCSpec => []AnthropicIInv
<1>1. MCInit => AnthropicIInv
  BY AnInitially DEF MCInit, AnthropicIInv, GhInit, CuInit, OaInit, IbInit
<1>2. AnthropicIInv /\ [MCNext]_walkVars => AnthropicIInv'
  BY AnthropicInductive
<1>3. QED BY <1>1, <1>2, PTL DEF MCSpec

\* Every finished walk has each usage row and each charge that is not for
\* tokens as the vendor states it, every key under its creator's address, and
\* each person's analytics on that person in whatever case their address is
\* written, for all users, keys and records (anthropic.ts:342-580, 647-671).
THEOREM AnthropicBooked == MCSpec => []AnthropicLedger
<1>1. AnthropicIInv => AnthropicLedger
  <2>1. SUFFICES ASSUME AnthropicIInv PROVE ChargedOnce /\ KeysMapped /\ CodeCounted
    BY DEF AnthropicLedger
  <2>2. ASSUME vendor = "anthropic", token = None, walks > 0
        PROVE  /\ AnInv
               /\ \A k : AnKeyPassed(k)
               /\ \A d : AnUsagePassed(d) /\ AnCostPassed(d)
               /\ \A x : CodePassed(x)
    BY <2>1, <2>2 DEF AnthropicIInv, AnKeyPassed, AnUsagePassed, AnCostPassed, CodePassed, AnOver
  <2>3. ChargedOnce
    BY <2>2 DEF ChargedOnce, Settled, AnInv, AnStored, AnUsageRead, AnCostsRead, TokenCharge
  <2>4. KeysMapped
    BY <2>2 DEF KeysMapped, Settled, AnInv, AnKeysRead, KeyOnFile
  <2>5. CodeCounted
    <3>1. SUFFICES ASSUME Settled("anthropic", {"code", "people"}), NEW x \in DOMAIN world.code
                   PROVE  /\ CodeRef(x) \in DOMAIN stored.code
                          /\ Alone(x) => stored.code[CodeRef(x)].sessions = world.code[x]
                          /\ \A u \in world.users :
                               x.actor[1] = "user" /\ LowerCase[x.actor[2]] = LowerCase[AnEmail[u]] =>
                                 /\ stored.code[CodeRef(x)].who = <<"user", u>>
                                 /\ x.type = "subscription" => <<"user", u>> \in stored.seats
      BY DEF CodeCounted
    <3>2. Counted(x)
      BY <2>2, <3>1 DEF Settled, AnInv, CodeRead
    <3>3. QED BY <3>2 DEF Counted, Writes
  <2>6. QED BY <2>3, <2>4, <2>5
<1>2. QED BY <1>1, AnthropicInvariance, PTL

-----------------------------------------------------------------------------
(***************************************************************************)
(* Numbers in order.                                                       *)
(***************************************************************************)
Under(S, i) == {k \in S : k < i}
Rank(S, i) == Cardinality(Under(S, i)) + 1

LEMMA RankIs ==
  ASSUME NEW S, S \subseteq Nat, IsFiniteSet(S), NEW i \in S
  PROVE  /\ Cardinality(S) \in Nat /\ Rank(S, i) \in 1 .. Cardinality(S)
         /\ Cardinality(Under(S, i)) \in Nat
<1>1. Under(S, i) \in SUBSET S /\ i \notin Under(S, i) /\ i \in Nat
  BY DEF Under
<1>2. /\ IsFiniteSet(Under(S, i)) /\ Cardinality(Under(S, i)) <= Cardinality(S)
      /\ Cardinality(S) = Cardinality(Under(S, i)) => S = Under(S, i)
  BY <1>1, FS_Subset
<1>3. PICK u, c \in Nat : u = Cardinality(Under(S, i)) /\ c = Cardinality(S)
  BY <1>2, FS_CardinalityType
<1>4. u <= c /\ u # c
  BY <1>1, <1>2, <1>3
<1>5. QED BY <1>3, <1>4 DEF Rank

LEMMA RanksRise ==
  ASSUME NEW S, S \subseteq Nat, IsFiniteSet(S), NEW i \in S, NEW j \in S, i < j
  PROVE  Rank(S, i) < Rank(S, j)
<1>7. i \in Nat /\ j \in Nat /\ \A k \in S : k \in Nat
  OBVIOUS
<1>8. /\ \A k : k \in Under(S, i) <=> k \in S /\ k < i
      /\ \A k : k \in Under(S, j) <=> k \in S /\ k < j
  BY DEF Under
<1>9. \A k \in S : k < i => k < j
  BY <1>7
<1>10. i \notin Under(S, i)
  BY <1>7, <1>8
<1>1. Under(S, i) \cup {i} \in SUBSET Under(S, j) /\ i \notin Under(S, i) /\ Under(S, i) \in SUBSET S
  BY <1>8, <1>9, <1>10, Zenon
<1>2. IsFiniteSet(Under(S, i)) /\ IsFiniteSet(Under(S, j))
  BY FS_Subset DEF Under
<1>3. Cardinality(Under(S, i) \cup {i}) = Cardinality(Under(S, i)) + 1
  BY <1>1, <1>2, FS_AddElement
<1>4. Cardinality(Under(S, i) \cup {i}) <= Cardinality(Under(S, j))
  BY <1>1, <1>2, FS_Subset
<1>5. PICK u, v \in Nat : u = Cardinality(Under(S, i)) /\ v = Cardinality(Under(S, j))
  BY <1>2, FS_CardinalityType
<1>6. QED BY <1>3, <1>4, <1>5 DEF Rank

\* what joins a set moves nobody forward
LEMMA RankStays ==
  ASSUME NEW S, NEW T, S \subseteq T, T \subseteq Nat, IsFiniteSet(T), NEW i
  PROVE  Rank(S, i) \in Nat /\ Rank(T, i) \in Nat /\ Rank(S, i) <= Rank(T, i)
<1>1. Under(S, i) \in SUBSET Under(T, i) /\ Under(T, i) \in SUBSET T
  BY DEF Under
<1>2. IsFiniteSet(Under(T, i)) /\ IsFiniteSet(Under(S, i))
  BY <1>1, FS_Subset
<1>3. Cardinality(Under(S, i)) <= Cardinality(Under(T, i))
  BY <1>1, <1>2, FS_Subset
<1>4. PICK u, v \in Nat : u = Cardinality(Under(S, i)) /\ v = Cardinality(Under(T, i))
  BY <1>2, FS_CardinalityType
<1>5. QED BY <1>3, <1>4 DEF Rank

LEMMA InOrderIs ==
  ASSUME NEW S, S \subseteq Nat, IsFiniteSet(S)
  PROVE  /\ Cardinality(S) \in Nat /\ InOrder(S) \in Seq(S) /\ Len(InOrder(S)) = Cardinality(S)
         /\ ToSet(InOrder(S)) = S
         /\ \A n \in DOMAIN InOrder(S) : Rank(S, InOrder(S)[n]) = n
         /\ \A i \in S : Rank(S, i) \in DOMAIN InOrder(S) /\ InOrder(S)[Rank(S, i)] = i
<1>1. PICK N \in Nat : N = Cardinality(S)
  BY FS_CardinalityType
<1>2. PICK rank : rank = [i \in S |-> Rank(S, i)]
  OBVIOUS
<1>3. rank \in [S -> 1 .. N]
  <2>1. \A i \in S : rank[i] \in 1 .. N
    BY <1>1, <1>2, RankIs
  <2>2. QED BY <1>2, <2>1
<1>4. \A i, j \in S : i < j => rank[i] < rank[j]
  BY <1>2, RanksRise
<1>5. \A i, j \in S : rank[i] = rank[j] => i = j
  <2>1. SUFFICES ASSUME NEW i \in S, NEW j \in S, rank[i] = rank[j] PROVE i = j
    OBVIOUS
  <2>2. i \in Nat /\ j \in Nat /\ rank[i] \in Int /\ rank[j] \in Int
    BY <1>3
  <2>3. ~(i < j) /\ ~(j < i)
    BY <1>4, <2>1, <2>2
  <2>4. QED BY <2>2, <2>3
<1>6. rank \in Injection(S, 1 .. N)
  BY <1>3, <1>5 DEF Injection, IsInjective
<1>7. IsFiniteSet(1 .. N) /\ Cardinality(1 .. N) = N
  BY <1>1, FS_Interval
<1>8. rank \in Surjection(S, 1 .. N)
  BY <1>1, <1>6, <1>7, FS_Injection
<1>9. \A n \in 1 .. N : \E i \in S : rank[i] = n
  BY <1>8 DEF Surjection
<1>10. \A n \in 1 .. N : \E i \in S : Cardinality({k \in S : k < i}) = n - 1
  <2>1. TAKE n \in 1 .. N
  <2>2. PICK i \in S : rank[i] = n
    BY <1>9
  <2>3. Rank(S, i) = n /\ Cardinality(Under(S, i)) \in Nat
    BY <1>2, <2>2, RankIs
  <2>4. Cardinality(Under(S, i)) = n - 1
    BY <2>3 DEF Rank
  <2>5. QED BY <2>4 DEF Under
<1>11. PICK L : L = InOrder(S)
  OBVIOUS
<1>12. ASSUME NEW n \in 1 .. N
       PROVE  L[n] \in S /\ rank[L[n]] = n
  <2>1. L[n] = CHOOSE i \in S : Cardinality({k \in S : k < i}) = n - 1
    BY <1>1, <1>11 DEF InOrder
  <2>2. L[n] \in S /\ Cardinality({k \in S : k < L[n]}) = n - 1
    BY <1>10, <2>1
  <2>3. Cardinality(Under(S, L[n])) = n - 1
    BY <2>2 DEF Under
  <2>4. QED BY <1>2, <2>2, <2>3 DEF Rank
<1>13. DOMAIN L = 1 .. N
  BY <1>1, <1>11 DEF InOrder
<1>14. L \in Seq(S) /\ Len(L) = N
  <2>1. L = [n \in 1 .. N |-> CHOOSE i \in S : Cardinality({k \in S : k < i}) = n - 1]
    BY <1>1, <1>11 DEF InOrder
  <2>2. L \in [1 .. N -> S]
    BY <1>12, <2>1
  <2>3. L \in Seq(S)
    BY <1>1, <2>2
  <2>4. QED BY <1>1, <1>13, <2>3, LenProperties
<1>15. \A i \in S : rank[i] \in DOMAIN L /\ L[rank[i]] = i
  <2>1. TAKE i \in S
  <2>2. rank[i] \in 1 .. N
    BY <1>3
  <2>3. L[rank[i]] \in S /\ rank[L[rank[i]]] = rank[i]
    BY <1>12, <2>2
  <2>4. QED BY <1>5, <1>13, <2>2, <2>3
<1>16. ToSet(L) = S
  <2>1. ToSet(L) = {L[n] : n \in 1 .. N}
    BY <1>13 DEF ToSet
  <2>2. \A n \in 1 .. N : L[n] \in S
    BY <1>12
  <2>3. \A i \in S : \E n \in 1 .. N : L[n] = i
    BY <1>13, <1>15
  <2>4. QED BY <2>1, <2>2, <2>3
<1>17. QED BY <1>1, <1>2, <1>11, <1>12, <1>13, <1>14, <1>15, <1>16

LEMMA OnlyAtIs ==
  ASSUME NEW S, NEW list \in Seq(S), NEW P, P \subseteq DOMAIN list
  PROVE  OnlyAt(list, P) \in Seq(S)
<1>1. PICK L \in Nat : DOMAIN list = 1 .. L
  BY LenProperties
<1>2. P \subseteq Nat /\ IsFiniteSet(P)
  <2>1. IsFiniteSet(1 .. L)
    BY FS_Interval
  <2>2. QED BY <1>1, <2>1, FS_Subset
<1>3. PICK o : o = InOrder(P)
  OBVIOUS
<1>4. o \in Seq(P) /\ Len(o) = Cardinality(P) /\ Cardinality(P) \in Nat
  BY <1>2, <1>3, InOrderIs
<1>5. \A n \in 1 .. Cardinality(P) : o[n] \in P
  BY <1>4, ElementOfSeq
<1>6. \A n \in 1 .. Cardinality(P) : list[o[n]] \in S
  BY <1>1, <1>5, ElementOfSeq, LenProperties
<1>7. OnlyAt(list, P) = [n \in 1 .. Cardinality(P) |-> list[o[n]]]
  BY <1>3 DEF OnlyAt
<1>8. QED BY <1>4, <1>6, <1>7

\* sums of what is not negative
LEMMA SumNat ==
  ASSUME NEW g, NEW F, IsFiniteSet(F), \A f \in F : g[f] \in Nat
  PROVE  SumOf(g, F) \in Nat
<1> DEFINE Sizes == {n \in Nat : \E s \in SUBSET F : Cardinality(s) = n /\ SumOf(g, s) \notin Nat}
<1>1. Sizes = {}
  <2>1. SUFFICES ASSUME Sizes # {} PROVE FALSE
    OBVIOUS
  <2>2. PICK n \in Sizes : \A k \in Sizes : n <= k
    BY <2>1, LeastNat
  <2>3. PICK s \in SUBSET F : Cardinality(s) = n /\ SumOf(g, s) \notin Nat
    BY <2>2
  <2>4. Integral(g, s) /\ IsFiniteSet(s)
    BY FS_Subset DEF Integral
  <2>12. s = {} => SumOf(g, s) = 0
    BY <2>4, SumUnfolds
  <2>5. s # {}
    BY <2>3, <2>12
  <2>6. PICK x, r : x = AnyOf(s) /\ r = s \ {x}
    OBVIOUS
  <2>7. x \in s /\ SumOf(g, s) = g[x] + SumOf(g, r)
    BY <2>4, <2>5, <2>6, AnyIn, SumUnfolds
  <2>8. Cardinality(r) = n - 1 /\ n \in Nat /\ IsFiniteSet(r)
    BY <2>3, <2>4, <2>6, <2>7, FS_RemoveElement
  <2>9. Cardinality(r) \in Nat
    BY <2>8, FS_CardinalityType
  <2>10. SumOf(g, r) \in Nat
    BY <2>2, <2>3, <2>6, <2>8, <2>9
  <2>11. QED BY <2>3, <2>7, <2>10
<1>2. Cardinality(F) \in Nat
  BY FS_CardinalityType
<1>3. QED BY <1>1, <1>2
-----------------------------------------------------------------------------
(***************************************************************************)
(* GitHub's walk.                                                          *)
(***************************************************************************)
GhShape(w) ==
  /\ w = [roster |-> w.roster, bill |-> w.bill, report |-> w.report, pr |-> w.pr]
  /\ w.roster \in Seq(GhUsers)
  /\ w.bill \in [1 .. GhMonths -> Tables(GhUsers, Nat)]
  /\ w.report \in [1 .. GhDays -> Seq(SUBSET GhUsers) \cup {None}]
  /\ w.pr \in [GhNumbers -> 1 .. GhChunks \cup {OpenPR, Lagging, Gone}]

\* an outcome is credited to every tool of its pull request
OutcomeRight(n, s) ==
  /\ s.outcomes[n].tools = GhPRs[n].bot \cup UNION ToSet(GhPRs[n].pages)
  /\ \A r \in GhPRs[n].reverts : <<n, r>> \in s.reverts
\* facts are of users who have been billed, or of nobody
GhStored(s) ==
  /\ s = [people |-> s.people, facts |-> s.facts, totals |-> s.totals, usage |-> s.usage,
          outcomes |-> s.outcomes, reverts |-> s.reverts]
  /\ s.facts \in [1 .. GhMonths -> Tables(GhUsers \cup {Unassigned}, Nat)]
  /\ \A m \in 1 .. GhMonths : DOMAIN s.facts[m] \subseteq DOMAIN world.bill[m] \cup {Unassigned}
  /\ \A n \in DOMAIN s.outcomes : OutcomeRight(n, s)

Once(list) == \A i, k \in DOMAIN list : list[i] = list[k] => i = k
PagesBefore(n, p) == UNION {GhPRs[n].pages[i] : i \in {k \in DOMAIN GhPRs[n].pages : k < p}}
\* what a phase has not begun is empty; what is read of a pull request are the
\* tools of the pages before
GhTokenOK ==
  token # None =>
    /\ token \in GhCursors
    /\ Once(token.left) /\ ToSet(token.left) \subseteq token.users
    /\ token.phase = "seats" => token.left = <<>> /\ token.month = 1
    /\ token.phase \in {"seats", "credits"} => token.links = <<>>
    /\ token.phase = "daily" =>
         token.day \in dailyDays .. GhDays /\ \A i \in DOMAIN token.links : token.links[i].day = token.day
    /\ token.phase # "pr" => token.current = None
    /\ token.phase = "pr" => token.queue # <<>>
    /\ token.current # None =>
         /\ token.current.tools =
              GhPRs[Head(token.queue)].bot \cup PagesBefore(Head(token.queue), token.current.page)
         /\ token.current.page <= Max({1, Len(GhPRs[Head(token.queue)].pages)})

Walking(phases) == token # None /\ token.phase \in phases
GhOver == token = None /\ walks > 0
Still(aspect) == <<aspect, 0>> \notin moved

SeatsRead ==
  Still("roster") /\ token # None =>
    /\ token.users \subseteq ToSet(world.roster)
    /\ \A i \in DOMAIN world.roster :
         (token.phase = "seats" => i <= (token.page - 1) * GhPage) => world.roster[i] \in token.users

\* who has been asked about, of those who have been billed
Asked == token.users \ ToSet(token.left)
AskedBilled == Asked \cap DOMAIN world.bill[token.month]
MonthPassed(m) ==
  \/ GhOver
  \/ Walking({"daily", "prs", "pr"})
  \/ Walking({"credits"}) /\ m < token.month
Holders == ToSet(world.roster) \cup {Unassigned}
MonthBooked(m) ==
  /\ m \in DOMAIN stored.totals /\ stored.totals[m] = OrgCents(m)
  /\ OrgCents(m) # 0 => OrgCents(m) = SumOf(stored.facts[m], DOMAIN stored.facts[m] \cap Holders)
CreditsRead == Still("roster") /\ Still("bill") => \A m \in 1 .. GhMonths : MonthPassed(m) => MonthBooked(m)
MonthAsked ==
  /\ token.month \in DOMAIN stored.totals /\ stored.totals[token.month] = token.org
  /\ token.org = OrgCents(token.month) /\ token.org # 0
  /\ token.attributed = SumOf(world.bill[token.month], AskedBilled)
  /\ \A u \in AskedBilled :
       u \in DOMAIN stored.facts[token.month] /\ stored.facts[token.month][u] = world.bill[token.month][u]
CreditsAsked ==
  Still("roster") /\ Still("bill") /\ Walking({"credits"}) /\ token.left # <<>> => MonthAsked

DayReached(d) == GhOver \/ Walking({"prs", "pr"}) \/ (Walking({"daily"}) /\ d <= token.day)
LinkAhead(d, u) ==
  /\ Walking({"daily"}) /\ d = token.day
  /\ token.links = <<>> \/ \E i \in DOMAIN token.links : u \in token.links[i].users
\* a user of a report is counted, or the report or the link is still to come
ReportsRead ==
  Still("report") =>
    \A d \in dailyDays .. GhDays : world.report[d] # None =>
      \A u \in UNION ToSet(world.report[d]) : DayReached(d) => LinkAhead(d, u) \/ <<d, u>> \in stored.usage

Sought(c) == {n \in GhNumbers : world.pr[n] = c \/ (world.pr[n] = Lagging /\ c = GhChunks)}
\* the search has passed a pull request with its chunk, or with its place in
\* the chunk, which others push back and never forward
PRPassed(n) ==
  \/ GhOver
  \/ Walking({"pr"})
  \/ /\ Walking({"prs"})
     /\ \/ world.pr[n] < token.chunk
        \/ world.pr[n] = token.chunk /\ Rank(Sought(token.chunk), n) <= (token.page - 1) * GhPage
Queued(n) == n \in DOMAIN stored.outcomes \/ (token # None /\ n \in ToSet(token.queue))
PRsRead ==
  Still("gone") =>
    \A n \in GhNumbers :
      world.pr[n] \in 1 .. GhChunks /\ <<"pr", n>> \notin moved /\ PRPassed(n) => Queued(n)

GhInv ==
  /\ GhShape(world) /\ GhStored(stored) /\ GhTokenOK /\ walks \in Nat
  /\ SeatsRead /\ CreditsRead /\ CreditsAsked /\ ReportsRead /\ PRsRead
GithubIInv == vendor = "github" => GhInv

LEMMA GhNoToken ==
  None \notin GhCursors /\ None \notin PRReads /\ None \notin Seq(SUBSET GhUsers)
BY GithubAssumption

LEMMA GhSizes ==
  /\ GhMonths \in Nat \ {0} /\ GhDays \in Nat \ {0} /\ GhReportDays \in Nat \ {0} /\ GhChunks \in Nat \ {0}
  /\ GhPage \in Nat \ {0} /\ GhCap \in Nat \ {0} /\ GhUsers \subseteq Nat \ {0} /\ IsFiniteSet(GhUsers)
  /\ GhNumbers \subseteq Nat \ {0} /\ IsFiniteSet(GhNumbers) /\ Unassigned \notin GhUsers
<1>1. PICK L \in Nat : GhNumbers = 1 .. L
  BY GithubAssumption, LenProperties DEF GhNumbers
<1>2. IsFiniteSet(1 .. L)
  BY FS_Interval
<1>3. Unassigned \notin GhUsers
  BY GithubAssumption DEF Unassigned
<1>4. QED BY <1>1, <1>2, <1>3, GithubAssumption

LEMMA DailyDaysIs == dailyDays \in 1 .. GhDays
<1>1. PICK x \in Int : x = GhDays - GhReportDays + 1
  BY GhSizes
<1>2. x <= GhDays
  BY <1>1, GhSizes
<1>3. \E y \in {1, x} : \A z \in {1, x} : y >= z
  BY <1>1
<1>4. Max({1, x}) \in {1, x} /\ \A z \in {1, x} : Max({1, x}) >= z
  BY <1>3 DEF Max
<1>5. dailyDays = Max({1, x})
  BY <1>1 DEF dailyDays
<1>6. QED BY <1>2, <1>4, <1>5, GhSizes

LEMMA SumOfMonth == ASSUME NEW m PROVE OrgCents(m) = SumOf(world.bill[m], DOMAIN world.bill[m])
BY DEF OrgCents, SumOf, SumFunction

LEMMA GhInitially == GhInit => GhInv
<1> SUFFICES ASSUME GhInit PROVE GhInv
  OBVIOUS
<1>1. PICK r, b, p, n :
        /\ r = <<1, 2>> /\ b = [m \in 1 .. GhMonths |-> IF m % 2 = 1 THEN [u \in GhUsers |-> 1] ELSE NoRows]
        /\ p = [d \in 1 .. GhDays |-> IF d < GhDays THEN <<{1}, {2}>> ELSE None]
        /\ n = [k \in GhNumbers |-> IF k = 1 THEN OpenPR ELSE 1]
  OBVIOUS
<1>2. /\ world = [roster |-> world.roster, bill |-> world.bill, report |-> world.report, pr |-> world.pr]
      /\ world.roster = r /\ world.bill = b /\ world.report = p /\ world.pr = n
      /\ token = None /\ walks = 0
  BY <1>1 DEF GhInit
<1>3. DOMAIN NoRows = {}
  BY DEF NoRows
<1>4. NoRows \in Tables(GhUsers, Nat) /\ NoRows \in Tables(GhUsers \cup {Unassigned}, Nat)
  <2>1. NoRows \in [{} -> Nat] /\ {} \in SUBSET GhUsers /\ {} \in SUBSET (GhUsers \cup {Unassigned})
    BY <1>3 DEF NoRows
  <2>2. QED BY <2>1, Zenon DEF Tables
<1>5. [u \in GhUsers |-> 1] \in Tables(GhUsers, Nat)
  <2>1. [u \in GhUsers |-> 1] \in [GhUsers -> Nat] /\ GhUsers \in SUBSET GhUsers
    OBVIOUS
  <2>2. QED BY <2>1, Zenon DEF Tables
<1>6. GhShape(world)
  <2>1. r \in Seq(GhUsers)
    BY <1>1, GithubAssumption
  <2>2. b \in [1 .. GhMonths -> Tables(GhUsers, Nat)]
    BY <1>1, <1>4, <1>5
  <2>3. <<{1}, {2}>> \in Seq(SUBSET GhUsers)
    BY GithubAssumption
  <2>4. p \in [1 .. GhDays -> Seq(SUBSET GhUsers) \cup {None}]
    BY <1>1, <2>3
  <2>5. n \in [GhNumbers -> 1 .. GhChunks \cup {OpenPR, Lagging, Gone}]
    BY <1>1, GhSizes
  <2>6. QED BY <1>2, <2>1, <2>2, <2>4, <2>5 DEF GhShape
<1>7. GhStored(stored)
  <2>1. stored = [people |-> {}, facts |-> [m \in 1 .. GhMonths |-> NoRows], totals |-> NoRows, usage |-> {},
                  outcomes |-> NoRows, reverts |-> {}]
    BY DEF GhInit
  <2>2. /\ stored = [people |-> stored.people, facts |-> stored.facts, totals |-> stored.totals,
                     usage |-> stored.usage, outcomes |-> stored.outcomes, reverts |-> stored.reverts]
        /\ stored.facts = [m \in 1 .. GhMonths |-> NoRows] /\ stored.outcomes = NoRows
    BY <2>1
  <2>3. stored.facts \in [1 .. GhMonths -> Tables(GhUsers \cup {Unassigned}, Nat)]
    BY <1>4, <2>2
  <2>4. QED BY <1>3, <2>2, <2>3 DEF GhStored
<1>8. \A phases : ~Walking(phases) /\ ~GhOver
  BY <1>2 DEF Walking, GhOver
<1>9. SeatsRead /\ CreditsRead /\ CreditsAsked
  BY <1>2, <1>8 DEF SeatsRead, CreditsRead, CreditsAsked, MonthPassed
<1>10. ReportsRead /\ PRsRead
  BY <1>8 DEF ReportsRead, PRsRead, DayReached, PRPassed
<1>11. QED BY <1>2, <1>6, <1>7, <1>9, <1>10 DEF GhInv, GhTokenOK

LEMMA GhStarts == GhInv /\ Start(GhInitialCursor) => GhInv'
<1> SUFFICES ASSUME GhInv, Start(GhInitialCursor) PROVE GhInv'
  OBVIOUS
<1>1. PICK t : t = GhInitialCursor
  OBVIOUS
<1>2. token' = t /\ walks' = walks + 1 /\ world' = world /\ stored' = stored /\ moved' = {} /\ token = None
  BY <1>1 DEF Start
<1>3. /\ t.phase = "seats" /\ t.page = 1 /\ t.users = {} /\ t.left = <<>> /\ t.links = <<>> /\ t.current = None
      /\ t.month = 1 /\ t \in GhCursors
  <2>1. <<>> \in Seq(GhUsers) /\ <<>> \in Seq(ReportLinks) /\ <<>> \in Seq(GhNumbers) /\ 1 \in 1 .. GhChunks
        /\ 1 \in 1 .. GhMonths
    BY GhSizes, EmptySeq
  <2>2. QED BY <1>1, <2>1 DEF GhInitialCursor, GhCursors
<1>4. t # None
  BY <1>3, GhNoToken
<1>5. GhTokenOK'
  <2>1. DOMAIN t.left = {} /\ ToSet(t.left) = {}
    BY <1>3 DEF ToSet
  <2>2. QED BY <1>2, <1>3, <2>1 DEF GhTokenOK, Once
<1>6. SeatsRead'
  <2>1. ASSUME NEW i \in DOMAIN world.roster PROVE ~(i <= (1 - 1) * GhPage)
    <3>1. i \in Nat \ {0}
      BY LenProperties DEF GhInv, GhShape
    <3>2. (1 - 1) * GhPage = 0
      BY PagesFollow, GhSizes
    <3>3. QED BY <3>1, <3>2
  <2>2. QED BY <1>2, <1>3, <2>1 DEF SeatsRead
<1>7. ~GhOver' /\ \A phases : "seats" \notin phases => ~Walking(phases)'
  BY <1>2, <1>3, <1>4 DEF GhOver, Walking
<1>8. /\ ~Walking({"daily", "prs", "pr"})' /\ ~Walking({"credits"})' /\ ~Walking({"prs", "pr"})'
      /\ ~Walking({"daily"})' /\ ~Walking({"pr"})' /\ ~Walking({"prs"})'
  BY <1>7
<1>9. CreditsRead' /\ CreditsAsked' /\ ReportsRead' /\ PRsRead'
  BY <1>7, <1>8 DEF CreditsRead, CreditsAsked, ReportsRead, PRsRead, MonthPassed, DayReached, PRPassed
<1>10. GhShape(world)' /\ GhStored(stored)'
  BY <1>2 DEF GhInv, GhShape, GhStored, OutcomeRight
<1>11. QED BY <1>2, <1>5, <1>6, <1>9, <1>10 DEF GhInv

\* a page disturbs what it writes; the rest follows the token
LEMMA SeatsStay ==
  ASSUME SeatsRead, world'.roster = world.roster, moved \subseteq moved', token # None, token.phase # "seats",
         \/ token' = None
         \/ token'.users = token.users /\ token'.phase # "seats"
  PROVE  SeatsRead'
BY DEF SeatsRead, Still

LEMMA MonthsStay ==
  ASSUME CreditsRead, world'.roster = world.roster, world'.bill = world.bill, moved \subseteq moved',
         stored'.facts = stored.facts, stored'.totals = stored.totals,
         \A m \in 1 .. GhMonths : MonthPassed(m)' => MonthPassed(m)
  PROVE  CreditsRead'
<1>1. \A m : OrgCents(m)' = OrgCents(m) /\ Holders' = Holders
  BY DEF OrgCents, Holders
<1>2. \A m : MonthBooked(m) => MonthBooked(m)'
  BY <1>1 DEF MonthBooked
<1>3. QED BY <1>2 DEF CreditsRead, Still

LEMMA AskedStays ==
  ASSUME CreditsAsked, world'.roster = world.roster, world'.bill = world.bill, moved \subseteq moved',
         stored'.facts = stored.facts, stored'.totals = stored.totals, token' = token
  PROVE  CreditsAsked'
<1>1. \A m : OrgCents(m)' = OrgCents(m)
  BY DEF OrgCents
<1>2. AskedBilled' = AskedBilled
  BY DEF AskedBilled, Asked
<1>3. MonthAsked => MonthAsked'
  BY <1>1, <1>2 DEF MonthAsked
<1>4. QED BY <1>3 DEF CreditsAsked, Still, Walking

LEMMA ReportsStay ==
  ASSUME ReportsRead, world'.report = world.report, moved \subseteq moved', stored.usage \subseteq stored'.usage,
         \A d \in dailyDays .. GhDays : DayReached(d)' => DayReached(d),
         \A d, u : LinkAhead(d, u) => LinkAhead(d, u)'
  PROVE  ReportsRead'
BY DEF ReportsRead, Still, dailyDays

LEMMA PRsStay ==
  ASSUME PRsRead, world'.pr = world.pr, moved \subseteq moved',
         \A n \in GhNumbers : PRPassed(n)' => PRPassed(n),
         \A n \in GhNumbers : Queued(n) => Queued(n)'
  PROVE  PRsRead'
BY DEF PRsRead, Still

LEMMA StoredStays ==
  ASSUME GhStored(stored), world'.bill = world.bill, NEW s, GhStored(s), stored' = s
  PROVE  GhStored(stored)'
BY DEF GhStored, OutcomeRight

\* a phase that has not come has passed nothing
LEMMA EarlyPhases ==
  ASSUME token # None, token' # None
  PROVE  /\ ~GhOver /\ ~GhOver'
         /\ token'.phase \in {"seats", "credits"} => \A d : ~DayReached(d)'
         /\ token.phase # "daily" => \A d, u : ~LinkAhead(d, u)
         /\ token'.phase \in {"seats", "credits", "daily"} => \A n : ~PRPassed(n)'
         /\ token'.phase = "seats" => \A m : ~MonthPassed(m)'
         /\ token'.phase # "credits" \/ token'.left = <<>> => CreditsAsked'
BY DEF GhOver, DayReached, LinkAhead, PRPassed, MonthPassed, CreditsAsked, Walking

-----------------------------------------------------------------------------
(***************************************************************************)
(* The pages of GitHub: seats and credits.                                 *)
(***************************************************************************)
LEMMA SeatsKeep == GhInv /\ SeatsPage => GhInv'
<1> SUFFICES ASSUME GhInv, SeatsPage PROVE GhInv'
  OBVIOUS
<1>1. PICK found, more, next :
        /\ found = ToSet(PageOf(world.roster, token.page, GhPage))
        /\ more = MorePages(world.roster, token.page, GhPage)
        /\ next = [token EXCEPT !.users = @ \cup found]
  OBVIOUS
<1>2. PICK t, s : /\ t = (IF more THEN [next EXCEPT !.page = @ + 1]
                          ELSE [next EXCEPT !.phase = "credits", !.page = 1])
                  /\ s = [stored EXCEPT !.people = @ \cup found]
  OBVIOUS
<1>3. CommitPage(t, s)
  BY <1>1, <1>2 DEF SeatsPage, seatsPage
<1>4. /\ token' = t /\ stored' = s /\ world' = world /\ moved' = moved /\ walks' = walks
      /\ token # None /\ token.phase = "seats"
  BY <1>3 DEF CommitPage, SeatsPage, InPhase
<1>5. PICK list, n : list = world.roster /\ n = token.page
  OBVIOUS
<1>6. list \in Seq(GhUsers) /\ n \in Nat \ {0} /\ token \in GhCursors /\ GhPage \in Nat \ {0}
  BY <1>4, <1>5, GhSizes DEF GhInv, GhShape, GhTokenOK, GhCursors
<1>7. /\ found \subseteq ToSet(list)
      /\ \A i \in DOMAIN list : (n - 1) * GhPage < i /\ i <= n * GhPage => list[i] \in found
  <2>1. PICK pg : pg = PageOf(list, n, GhPage)
    OBVIOUS
  <2>2. /\ ToSet(pg) \subseteq ToSet(list)
        /\ \A i \in DOMAIN list : (n - 1) * GhPage < i /\ i <= n * GhPage => list[i] \in ToSet(pg)
    BY <1>6, <2>1, PageIs
  <2>3. found = ToSet(pg)
    BY <1>1, <1>5, <2>1
  <2>4. QED BY <2>2, <2>3
<1>8. found \subseteq GhUsers
  BY <1>6, <1>7, ElementOfSeq, LenProperties DEF ToSet
<1>9. token.users \subseteq GhUsers
  BY <1>6 DEF GhCursors
<1>10. next \in GhCursors /\ next.users = token.users \cup found /\ next.left = token.left /\ next.links = token.links
       /\ next.current = token.current /\ next.month = token.month
  BY <1>1, <1>6, <1>8, <1>9 DEF GhCursors
<1>11. /\ t \in GhCursors /\ t.users = token.users \cup found /\ t.left = token.left /\ t.links = token.links
       /\ t.current = token.current /\ t.month = token.month
       /\ IF more THEN t.phase = "seats" /\ t.page = n + 1 ELSE t.phase = "credits" /\ t.page = 1
  <2>1. n + 1 \in Nat \ {0} /\ next.page = n /\ next.phase = "seats"
    BY <1>1, <1>4, <1>5, <1>6 DEF GhCursors
  <2>2. CASE more
    BY <1>2, <1>10, <2>1, <2>2 DEF GhCursors
  <2>3. CASE ~more
    <3>1. t = [next EXCEPT !.phase = "credits", !.page = 1]
      BY <1>2, <2>3
    <3>2. t \in GhCursors
      <4>1. PICK u : u = [next EXCEPT !.phase = "credits"]
        OBVIOUS
      <4>2. u \in GhCursors
        BY <1>10, <4>1 DEF GhCursors
      <4>3. PICK o : o = 1
        OBVIOUS
      <4>4. o \in Nat \ {0}
        BY <4>3
      <4>5. t = [u EXCEPT !.page = o]
        BY <3>1, <4>1, <4>3
      <4>6. QED BY <4>2, <4>4, <4>5 DEF GhCursors
    <3>3. /\ t.users = next.users /\ t.left = next.left /\ t.links = next.links
          /\ t.current = next.current /\ t.month = next.month /\ t.phase = "credits" /\ t.page = 1
      BY <1>10, <3>1 DEF GhCursors
    <3>4. QED BY <1>10, <2>3, <3>2, <3>3
  <2>4. QED BY <2>2, <2>3
<1>12. t # None /\ token.month = 1 /\ token.left = <<>> /\ token.links = <<>> /\ token.current = None
  BY <1>4, <1>11, GhNoToken DEF GhInv, GhTokenOK
<1>13. GhTokenOK'
  <2>1. DOMAIN t.left = {} /\ ToSet(t.left) = {}
    BY <1>11, <1>12 DEF ToSet
  <2>2. QED BY <1>4, <1>11, <1>12, <2>1 DEF GhTokenOK, Once
<1>14. SeatsRead'
  <2>1. SUFFICES ASSUME Still("roster"), NEW i \in DOMAIN list, more => i <= n * GhPage
                 PROVE  t.users \subseteq ToSet(list) /\ list[i] \in t.users
    <3>1. more => (t.page - 1) * GhPage = n * GhPage
      BY <1>6, <1>11, PagesFollow
    <3>2. ASSUME Still("roster") PROVE t.users \subseteq ToSet(list)
      BY <1>4, <1>5, <1>7, <1>11, <3>2 DEF GhInv, SeatsRead
    <3>3. QED BY <1>4, <1>5, <1>11, <2>1, <3>1, <3>2 DEF SeatsRead, Still
  <2>2. t.users \subseteq ToSet(list)
    BY <1>4, <1>5, <1>7, <1>11, <2>1 DEF GhInv, SeatsRead
  <2>3. PICK a, z \in Nat : a = (n - 1) * GhPage /\ z = n * GhPage
    BY <1>6, PagesFollow
  <2>4. i \in Nat /\ Len(list) \in Nat /\ i <= Len(list)
    BY <1>6, LenProperties
  <2>5. i <= z
    <3>1. more <=> z < Len(list)
      BY <1>1, <1>5, <2>3 DEF MorePages
    <3>2. more => i <= z
      BY <2>1, <2>3
    <3>3. QED BY <2>3, <2>4, <3>1, <3>2
  <2>6. i <= a => list[i] \in token.users
    BY <1>4, <1>5, <2>1, <2>3 DEF GhInv, SeatsRead
  <2>7. QED BY <1>7, <1>11, <2>2, <2>3, <2>4, <2>5, <2>6
<1>15. CreditsRead' /\ CreditsAsked' /\ ReportsRead' /\ PRsRead'
  <2>1. t.phase \in {"seats", "credits"} /\ t.left = <<>> /\ t.month = 1
    BY <1>11, <1>12
  <2>2. (\A d : ~DayReached(d)') /\ (\A k : ~PRPassed(k)') /\ CreditsAsked' /\ ~GhOver'
    BY <1>4, <1>12, <2>1, EarlyPhases
  <2>3. ASSUME NEW m \in 1 .. GhMonths, MonthPassed(m)' PROVE FALSE
    <3>1. m < 1
      BY <1>4, <1>12, <2>1, <2>2, <2>3 DEF MonthPassed, Walking
    <3>2. QED BY <3>1, GhSizes
  <2>4. QED BY <2>2, <2>3 DEF CreditsRead, ReportsRead, PRsRead
<1>16. GhShape(world)' /\ GhStored(stored)'
  <2>1. GhStored(s) /\ GhStored(stored)
    BY <1>2 DEF GhInv, GhStored, OutcomeRight
  <2>2. QED BY <1>4, <2>1, StoredStays DEF GhInv, GhShape
<1>17. QED BY <1>4, <1>13, <1>14, <1>15, <1>16 DEF GhInv

LEMMA AfterMonthIs ==
  ASSUME NEW t \in GhCursors, t.phase = "credits"
  PROVE  /\ AfterMonth(t) \in GhCursors
         /\ AfterMonth(t).left = <<>> /\ AfterMonth(t).links = t.links /\ AfterMonth(t).current = t.current
         /\ AfterMonth(t).users = t.users
         /\ IF t.month < GhMonths
              THEN AfterMonth(t).phase = "credits" /\ AfterMonth(t).month = t.month + 1
              ELSE AfterMonth(t).phase = "daily" /\ AfterMonth(t).day = dailyDays
<1>1. <<>> \in Seq(GhUsers) /\ dailyDays \in Nat /\ t.month \in 1 .. GhMonths
  BY DailyDaysIs, GhSizes, EmptySeq DEF GhCursors
<1>2. PICK u, z, e, k : z = 0 /\ e = <<>> /\ k = t.month + 1 /\ u = [t EXCEPT !.left = e, !.org = z, !.attributed = z]
  OBVIOUS
<1>3. z \in Nat /\ e \in Seq(GhUsers) /\ (t.month < GhMonths => k \in 1 .. GhMonths)
  BY <1>1, <1>2, GhSizes
<1>4. /\ u \in GhCursors /\ u.left = <<>> /\ u.links = t.links /\ u.current = t.current /\ u.users = t.users
      /\ u.phase = t.phase
  <2>1. u = [t EXCEPT !.left = e, !.org = z, !.attributed = z]
    BY <1>2
  <2>2. u \in GhCursors
    BY <1>3, <2>1 DEF GhCursors
  <2>3. QED BY <1>2, <2>1, <2>2 DEF GhCursors
<1>5. CASE t.month < GhMonths
  <2>1. AfterMonth(t) = [u EXCEPT !.month = k]
    BY <1>2, <1>5 DEF AfterMonth, GhCursors
  <2>2. PICK d : d = AfterMonth(t)
    OBVIOUS
  <2>3. d \in GhCursors /\ d.month = k /\ d.phase = u.phase
    BY <1>3, <1>4, <1>5, <2>1, <2>2 DEF GhCursors
  <2>4. d.left = u.left /\ d.links = u.links /\ d.current = u.current /\ d.users = u.users
    BY <2>1, <2>2
  <2>5. QED BY <1>2, <1>4, <1>5, <2>2, <2>3, <2>4
<1>6. CASE ~(t.month < GhMonths)
  <2>1. PICK d, p, y : p = "daily" /\ y = dailyDays /\ d = [u EXCEPT !.phase = p, !.day = y]
    OBVIOUS
  <2>2. d = AfterMonth(t)
    BY <1>2, <1>6, <2>1 DEF AfterMonth, GhCursors
  <2>3. p \in {"seats", "credits", "daily", "prs", "pr"} /\ y \in Nat
    BY <1>1, <2>1
  <2>4. d \in GhCursors /\ d.phase = p /\ d.day = y
    BY <1>4, <2>1, <2>3 DEF GhCursors
  <2>5. d.left = u.left /\ d.links = u.links /\ d.current = u.current /\ d.users = u.users
    BY <2>1
  <2>6. QED BY <1>4, <1>6, <2>1, <2>2, <2>4, <2>5
<1>7. QED BY <1>5, <1>6

LEMMA HoldersRead ==
  ASSUME GhInv, token # None, token.phase # "seats", Still("roster")
  PROVE  ToSet(world.roster) = token.users
<1>1. \A i \in DOMAIN world.roster : world.roster[i] \in token.users
  BY DEF GhInv, SeatsRead
<1>2. QED BY <1>1 DEF GhInv, SeatsRead, ToSet

LEMMA MonthBill ==
  ASSUME GhInv, NEW m \in 1 .. GhMonths
  PROVE  /\ DOMAIN world.bill[m] \subseteq GhUsers /\ IsFiniteSet(DOMAIN world.bill[m])
         /\ \A u \in DOMAIN world.bill[m] : world.bill[m][u] \in Nat
         /\ OrgCents(m) \in Nat
<1>1. PICK b : b = world.bill[m]
  OBVIOUS
<1>2. b \in Tables(GhUsers, Nat)
  BY <1>1 DEF GhInv, GhShape
<1>3. DOMAIN b \subseteq GhUsers /\ \A u \in DOMAIN b : b[u] \in Nat
  BY <1>2 DEF Tables
<1>4. IsFiniteSet(DOMAIN b)
  BY <1>3, GhSizes, FS_Subset
<1>5. SumOf(b, DOMAIN b) \in Nat
  BY <1>3, <1>4, SumNat
<1>6. QED BY <1>1, <1>3, <1>4, <1>5, SumOfMonth

Bookable(m, rows) ==
  rows \in Tables(GhUsers \cup {Unassigned}, Nat) /\ DOMAIN rows \subseteq DOMAIN world.bill[m] \cup {Unassigned}
Booking(w, m, rows) == [w EXCEPT !.facts[m] = Upsert(@, rows)]

LEMMA FactsWritten ==
  ASSUME NEW w, GhStored(w), NEW m \in 1 .. GhMonths, NEW rows, Bookable(m, rows), NEW s, s = Booking(w, m, rows)
  PROVE  /\ GhStored(s)
         /\ s.facts[m] = Upsert(w.facts[m], rows) /\ s.totals = w.totals /\ s.usage = w.usage
         /\ s.outcomes = w.outcomes
         /\ \A k \in 1 .. GhMonths : k # m => s.facts[k] = w.facts[k]
<1>1. PICK table, f : table = Upsert(w.facts[m], rows) /\ f = [w.facts EXCEPT ![m] = table]
  OBVIOUS
<1>2. w.facts \in [1 .. GhMonths -> Tables(GhUsers \cup {Unassigned}, Nat)]
  BY DEF GhStored
<1>3. table \in Tables(GhUsers \cup {Unassigned}, Nat) /\ DOMAIN table = DOMAIN w.facts[m] \cup DOMAIN rows
  BY <1>1, <1>2, TablesUpsert, UpsertIs DEF Bookable
<1>4. /\ f \in [1 .. GhMonths -> Tables(GhUsers \cup {Unassigned}, Nat)] /\ f[m] = table
      /\ \A k \in 1 .. GhMonths : k # m => f[k] = w.facts[k]
  BY <1>1, <1>2, <1>3
<1>5. s = [w EXCEPT !.facts = f]
  BY <1>1 DEF GhStored, Booking
<1>6. /\ s = [people |-> s.people, facts |-> s.facts, totals |-> s.totals, usage |-> s.usage,
              outcomes |-> s.outcomes, reverts |-> s.reverts]
      /\ s.facts = f /\ s.totals = w.totals /\ s.usage = w.usage /\ s.outcomes = w.outcomes
      /\ s.reverts = w.reverts
  BY <1>5 DEF GhStored
<1>7. \A k \in 1 .. GhMonths : DOMAIN f[k] \subseteq DOMAIN world.bill[k] \cup {Unassigned}
  BY <1>3, <1>4 DEF GhStored, Bookable
<1>8. GhStored(s)
  BY <1>4, <1>6, <1>7 DEF GhStored, OutcomeRight
<1>9. QED BY <1>1, <1>4, <1>6, <1>8

\* a month's books are closed
LEMMA MonthEnds ==
  ASSUME GhInv, token # None, token.phase = "credits", token' = AfterMonth(token), NEW b, b = token.month, NEW s, stored' = s, GhStored(s),
         world' = world, moved' = moved, walks' = walks,
         s.usage = stored.usage, s.outcomes = stored.outcomes,
         \A m \in 1 .. GhMonths : m # b =>
           /\ s.facts[m] = stored.facts[m]
           /\ m \in DOMAIN stored.totals => m \in DOMAIN s.totals /\ s.totals[m] = stored.totals[m],
         Still("roster") /\ Still("bill") => MonthBooked(b)'
  PROVE  GhInv'
<1>1. PICK a : a = AfterMonth(token)
  OBVIOUS
<1>2. token \in GhCursors /\ token.links = <<>> /\ token.current = None /\ token.month \in 1 .. GhMonths
  BY DEF GhInv, GhTokenOK, GhCursors
<1>3. /\ a \in GhCursors /\ a.left = <<>> /\ a.links = <<>> /\ a.current = None /\ a.users = token.users
      /\ IF token.month < GhMonths THEN a.phase = "credits" /\ a.month = token.month + 1
         ELSE a.phase = "daily" /\ a.day = dailyDays
  BY <1>1, <1>2, AfterMonthIs
<1>4. token' = a /\ a # None /\ a.phase \in {"credits", "daily"}
  BY <1>1, <1>3, GhNoToken
<1>5. GhTokenOK'
  <2>1. DOMAIN a.left = {} /\ ToSet(a.left) = {} /\ DOMAIN a.links = {}
    BY <1>3 DEF ToSet
  <2>2. a.phase = "daily" => a.day \in dailyDays' .. GhDays
    BY <1>3, DailyDaysIs DEF dailyDays
  <2>3. QED BY <1>3, <1>4, <2>1, <2>2 DEF GhTokenOK, Once
<1>6. SeatsRead'
  <2>1. a.phase # "seats"
    BY <1>4
  <2>2. QED BY <1>3, <1>4, <2>1, SeatsStay DEF GhInv
<1>7. CreditsRead'
  <2>1. SUFFICES ASSUME Still("roster"), Still("bill"), NEW m \in 1 .. GhMonths, MonthPassed(m)' PROVE MonthBooked(m)'
    BY DEF CreditsRead, Still
  <2>2. m = b \/ m < b
    <3>1. CASE token.month < GhMonths
      <4>1. m < token.month + 1
        BY <1>3, <1>4, <2>1, <3>1 DEF MonthPassed, Walking, GhOver
      <4>2. QED BY <1>2, <4>1
    <3>2. CASE ~(token.month < GhMonths)
      BY <1>2, <3>2, GhSizes
    <3>3. QED BY <3>1, <3>2
  <2>3. CASE m = b
    BY <2>1, <2>3
  <2>4. CASE m < b
    <3>1. MonthPassed(m) /\ m # b
      BY <1>2, <2>4 DEF MonthPassed, Walking
    <3>2. MonthBooked(m)
      BY <2>1, <3>1 DEF GhInv, CreditsRead
    <3>3. OrgCents(m)' = OrgCents(m) /\ Holders' = Holders
      BY DEF OrgCents, Holders
    <3>4. QED BY <3>1, <3>2, <3>3 DEF MonthBooked
  <2>5. QED BY <2>2, <2>3, <2>4
<1>8. CreditsAsked' /\ PRsRead'
  <2>1. CreditsAsked' /\ \A n : ~PRPassed(n)'
    BY <1>3, <1>4, EarlyPhases
  <2>2. QED BY <2>1 DEF PRsRead
<1>9. ReportsRead'
  <2>1. CASE a.phase = "credits"
    <3>1. \A d : ~DayReached(d)'
      BY <1>4, <2>1, EarlyPhases
    <3>2. QED BY <3>1 DEF ReportsRead
  <2>2. CASE a.phase = "daily"
    <3>1. a.day = dailyDays /\ dailyDays' = dailyDays /\ dailyDays \in Nat
      BY <1>3, <2>2, DailyDaysIs DEF dailyDays
    <3>2. \A d \in dailyDays .. GhDays : DayReached(d)' => d = a.day
      BY <1>3, <1>4, <2>2, <3>1 DEF DayReached, GhOver, Walking
    <3>3. \A u : LinkAhead(a.day, u)'
      BY <1>3, <1>4, <2>2 DEF LinkAhead, Walking
    <3>4. QED BY <3>1, <3>2, <3>3 DEF ReportsRead
  <2>3. QED BY <1>4, <2>1, <2>2
<1>10. GhShape(world)' /\ GhStored(stored)'
  BY StoredStays DEF GhInv, GhShape
<1>11. QED BY <1>5, <1>6, <1>7, <1>8, <1>9, <1>10 DEF GhInv

LEMMA RowIn == ASSUME NEW K, NEW k \in K, NEW R, NEW r \in R PROVE Row(k, r) \in Tables(K, R) /\ DOMAIN Row(k, r) = {k}
<1>1. Row(k, r) \in [{k} -> R] /\ {k} \in SUBSET K
  BY DEF Row
<1>2. QED BY <1>1, Zenon DEF Tables, Row

LEMMA CreditsTotalKeeps == GhInv /\ CreditsTotal => GhInv'
<1> SUFFICES ASSUME GhInv, CreditsTotal PROVE GhInv'
  OBVIOUS
<1>1. PICK m, total : m = token.month /\ total = OrgCents(m)
  OBVIOUS
<1>2. PICK wrote : wrote = [stored EXCEPT !.totals = Upsert(@, Row(m, total))]
  OBVIOUS
<1>3. token # None /\ token.phase = "credits" /\ token.left = <<>>
  BY DEF CreditsTotal, InPhase
<1>4. token \in GhCursors /\ m \in 1 .. GhMonths /\ total \in Nat /\ token.users \subseteq GhUsers
  BY <1>1, <1>3, MonthBill DEF GhInv, GhTokenOK, GhCursors
<1>5. /\ GhStored(wrote) /\ wrote.totals = Upsert(stored.totals, Row(m, total)) /\ wrote.facts = stored.facts
      /\ wrote.usage = stored.usage /\ wrote.outcomes = stored.outcomes
  BY <1>2 DEF GhInv, GhStored, OutcomeRight
<1>6. /\ m \in DOMAIN wrote.totals /\ wrote.totals[m] = total
      /\ \A k \in DOMAIN stored.totals : k # m => k \in DOMAIN wrote.totals /\ wrote.totals[k] = stored.totals[k]
  BY <1>5 DEF Upsert, Row
<1>7. CASE total = 0
  <2>1. CommitPage(AfterMonth(token), wrote)
    BY <1>1, <1>2, <1>7 DEF CreditsTotal
  <2>2. token' = AfterMonth(token) /\ stored' = wrote /\ world' = world /\ moved' = moved /\ walks' = walks
    BY <2>1 DEF CommitPage
  <2>3. MonthBooked(m)'
    <3>1. OrgCents(m)' = total
      BY <1>1, <2>2 DEF OrgCents
    <3>2. QED BY <1>6, <1>7, <2>2, <3>1 DEF MonthBooked
  <2>4. QED BY <1>1, <1>3, <1>5, <1>6, <2>2, <2>3, MonthEnds
<1>8. CASE total # 0 /\ token.users = {}
  <2>1. PICK rows, s : rows = Row(Unassigned, total) /\ s = Booking(wrote, m, rows)
    OBVIOUS
  <2>2. CommitPage(AfterMonth(token), s)
    BY <1>1, <1>2, <1>8, <2>1 DEF CreditsTotal, remainderFact, Booking
  <2>3. token' = AfterMonth(token) /\ stored' = s /\ world' = world /\ moved' = moved /\ walks' = walks
    BY <2>2 DEF CommitPage
  <2>4. rows \in Tables(GhUsers \cup {Unassigned}, Nat) /\ DOMAIN rows = {Unassigned} /\ rows[Unassigned] = total
    BY <1>4, <2>1, RowIn DEF Row
  <2>8. Bookable(m, rows)
    BY <2>4 DEF Bookable
  <2>5. /\ GhStored(s) /\ s.facts[m] = Upsert(wrote.facts[m], rows) /\ s.totals = wrote.totals
        /\ s.usage = wrote.usage /\ s.outcomes = wrote.outcomes
        /\ \A k \in 1 .. GhMonths : k # m => s.facts[k] = wrote.facts[k]
    BY <1>4, <1>5, <2>1, <2>8, FactsWritten
  <2>6. ASSUME Still("roster") PROVE MonthBooked(m)'
    <3>1. ToSet(world.roster) = {}
      BY <1>3, <1>8, <2>6, HoldersRead
    <3>2. PICK f : f = s.facts[m]
      OBVIOUS
    <3>3. DOMAIN f \cap Holders' = {Unassigned} /\ f[Unassigned] = total
      <4>1. Holders' = {Unassigned}
        BY <2>3, <3>1 DEF Holders
      <4>2. DOMAIN f = DOMAIN wrote.facts[m] \cup {Unassigned}
        BY <2>4, <2>5, <3>2 DEF Upsert
      <4>3. f[Unassigned] = total
        BY <2>4, <2>5, <3>2 DEF Upsert
      <4>4. QED BY <4>1, <4>2, <4>3
    <3>4. Integral(f, {}) /\ SumOf(f, {}) = 0
      BY FS_EmptySet, SumUnfolds DEF Integral
    <3>5. SumOf(f, {} \cup {Unassigned}) = 0 + total
      BY <1>4, <3>3, <3>4, SumAdds
    <3>6. {} \cup {Unassigned} = {Unassigned}
      OBVIOUS
    <3>7. OrgCents(m)' = total
      BY <1>1, <2>3 DEF OrgCents
    <3>8. SumOf(f, DOMAIN f \cap Holders') = total
      BY <1>4, <3>3, <3>5, <3>6
    <3>9. stored'.facts[m] = f /\ m \in DOMAIN stored'.totals /\ stored'.totals[m] = total
      BY <1>6, <2>3, <2>5, <3>2
    <3>10. QED BY <3>7, <3>8, <3>9 DEF MonthBooked
  <2>7. QED BY <1>1, <1>3, <1>5, <1>6, <2>3, <2>5, <2>6, MonthEnds
<1>9. CASE total # 0 /\ token.users # {}
  <2>1. PICK left, z : left = InOrder(token.users) /\ z = 0
    OBVIOUS
  <2>2. PICK t : t = [token EXCEPT !.org = total, !.attributed = z, !.left = left]
    OBVIOUS
  <2>3. CommitPage(t, wrote)
    BY <1>1, <1>2, <1>9, <2>1, <2>2 DEF CreditsTotal
  <2>4. token' = t /\ stored' = wrote /\ world' = world /\ moved' = moved /\ walks' = walks
    BY <2>3 DEF CommitPage
  <2>5. token.users \subseteq Nat /\ IsFiniteSet(token.users)
    BY <1>4, GhSizes, FS_Subset
  <2>6. left \in Seq(token.users) /\ ToSet(left) = token.users /\ Once(left)
    BY <2>1, <2>5, InOrderIs DEF Once
  <2>7. left \in Seq(GhUsers) /\ left # <<>> /\ z \in Nat
    <3>1. left # <<>>
      BY <1>9, <2>6 DEF ToSet
    <3>2. QED BY <1>4, <2>1, <2>6, <3>1
  <2>8. /\ t \in GhCursors /\ t.org = total /\ t.attributed = 0 /\ t.left = left /\ t.users = token.users
        /\ t.phase = "credits" /\ t.links = <<>> /\ t.current = None /\ t.month = m
    <3>1. t \in GhCursors
      BY <1>4, <2>2, <2>7 DEF GhCursors
    <3>2. token.links = <<>> /\ token.current = None
      BY <1>3 DEF GhInv, GhTokenOK
    <3>3. QED BY <1>1, <1>3, <1>4, <2>1, <2>2, <3>1, <3>2 DEF GhCursors
  <2>9. t # None
    BY <2>8, GhNoToken
  <2>10. GhTokenOK'
    BY <2>4, <2>6, <2>8 DEF GhTokenOK
  <2>11. SeatsRead'
    BY <1>3, <2>4, <2>8, SeatsStay DEF GhInv
  <2>12. CreditsRead'
    <3>1. SUFFICES ASSUME Still("roster"), Still("bill"), NEW k \in 1 .. GhMonths, MonthPassed(k)' PROVE MonthBooked(k)'
      BY <2>4 DEF CreditsRead, Still
    <3>2. k < m /\ k # m
      BY <1>4, <2>4, <2>8, <2>9, <3>1 DEF MonthPassed, Walking, GhOver
    <3>3. MonthPassed(k)
      BY <1>1, <1>3, <3>2 DEF MonthPassed, Walking
    <3>4. MonthBooked(k)
      BY <3>1, <3>3 DEF GhInv, CreditsRead
    <3>5. OrgCents(k)' = OrgCents(k) /\ Holders' = Holders
      BY <2>4 DEF OrgCents, Holders
    <3>6. QED BY <1>5, <1>6, <2>4, <3>2, <3>4, <3>5 DEF MonthBooked
  <2>13. CreditsAsked'
    <3>1. AskedBilled' = {}
      BY <2>4, <2>6, <2>8 DEF AskedBilled, Asked
    <3>2. SumOf(world.bill[m], {}) = 0
      BY FS_EmptySet, SumUnfolds DEF Integral
    <3>3. OrgCents(m)' = total
      BY <1>1, <2>4 DEF OrgCents
    <3>4. MonthAsked'
      BY <1>6, <1>9, <2>4, <2>8, <3>1, <3>2, <3>3 DEF MonthAsked
    <3>5. QED BY <3>4 DEF CreditsAsked
  <2>14. ReportsRead' /\ PRsRead'
    <3>1. (\A d : ~DayReached(d)') /\ \A n : ~PRPassed(n)'
      BY <1>3, <2>4, <2>8, <2>9, EarlyPhases
    <3>2. QED BY <3>1 DEF ReportsRead, PRsRead
  <2>15. GhShape(world)' /\ GhStored(stored)'
    BY <1>5, <2>4, StoredStays DEF GhInv, GhShape
  <2>16. QED BY <2>4, <2>10, <2>11, <2>12, <2>13, <2>14, <2>15 DEF GhInv
<1>10. QED BY <1>7, <1>8, <1>9

LEMMA TailOnce ==
  ASSUME NEW S, NEW list \in Seq(S), Once(list), list # <<>>
  PROVE  /\ Head(list) \in S /\ Head(list) \in ToSet(list) /\ Tail(list) \in Seq(S) /\ Once(Tail(list))
         /\ ToSet(Tail(list)) = ToSet(list) \ {Head(list)}
         /\ Len(list) > 1 <=> Tail(list) # <<>>
<1>1. PICK L \in Nat : L = Len(list) /\ DOMAIN list = 1 .. L
  BY LenProperties
<1>2. L > 0
  BY <1>1, EmptySeq, LenProperties
<1>3. Head(list) = list[1] /\ list[1] \in S
  BY <1>1, <1>2, ElementOfSeq
<1>4. PICK q : q = Tail(list)
  OBVIOUS
<1>5. q \in Seq(S) /\ Len(q) = L - 1 /\ \A i \in 1 .. L - 1 : q[i] = list[i + 1]
  BY <1>1, <1>2, <1>4
<1>6. DOMAIN q = 1 .. L - 1
  BY <1>5, LenProperties
<1>7. Once(q)
  <2>1. SUFFICES ASSUME NEW i \in 1 .. L - 1, NEW k \in 1 .. L - 1, q[i] = q[k] PROVE i = k
    BY <1>6 DEF Once
  <2>2. list[i + 1] = list[k + 1] /\ i + 1 \in DOMAIN list /\ k + 1 \in DOMAIN list
    BY <1>1, <1>5, <2>1
  <2>3. i + 1 = k + 1
    BY <2>2 DEF Once
  <2>4. QED BY <1>1, <2>3
<1>8. ASSUME NEW x PROVE x \in ToSet(q) <=> x \in ToSet(list) /\ x # list[1]
  <2>1. ASSUME NEW i \in 1 .. L - 1, x = q[i] PROVE x \in ToSet(list) /\ x # list[1]
    <3>1. x = list[i + 1] /\ i + 1 \in DOMAIN list /\ 1 \in DOMAIN list /\ i + 1 # 1
      BY <1>1, <1>2, <1>5, <2>1
    <3>2. QED BY <3>1 DEF Once, ToSet
  <2>2. ASSUME NEW j \in DOMAIN list, x = list[j], x # list[1] PROVE x \in ToSet(q)
    <3>1. PICK i : i = j - 1
      OBVIOUS
    <3>2. i \in 1 .. L - 1 /\ i + 1 = j
      BY <1>1, <2>2, <3>1
    <3>3. QED BY <1>5, <1>6, <2>2, <3>2 DEF ToSet
  <2>3. QED BY <1>6, <2>1, <2>2 DEF ToSet
<1>9. Len(list) > 1 <=> q # <<>>
  BY <1>1, <1>5, <1>6, EmptySeq, LenProperties
<1>10. ToSet(q) = ToSet(list) \ {list[1]}
  BY <1>8
<1>11. list[1] \in ToSet(list)
  BY <1>1, <1>2 DEF ToSet
<1>12. QED BY <1>3, <1>4, <1>5, <1>7, <1>9, <1>10, <1>11

LEMMA CreditsOfUserKeeps == GhInv /\ CreditsOfUser => GhInv'
<1> SUFFICES ASSUME GhInv, CreditsOfUser PROVE GhInv'
  OBVIOUS
<1>1. PICK m, u, list, rows, cents :
        /\ m = token.month /\ u = Head(token.left) /\ list = token.left
        /\ rows = creditItems(m, u) /\ cents = token.attributed + Spent(m, u)
  OBVIOUS
<1>2. PICK w : w = Booking(stored, m, rows)
  OBVIOUS
<1>3. token # None /\ token.phase = "credits" /\ list # <<>>
  BY <1>1 DEF CreditsOfUser, InPhase
<1>4. /\ token \in GhCursors /\ m \in 1 .. GhMonths /\ list \in Seq(GhUsers) /\ token.attributed \in Nat
      /\ token.org \in Nat /\ token.users \subseteq GhUsers /\ Once(list) /\ ToSet(list) \subseteq token.users
      /\ token.links = <<>> /\ token.current = None
  BY <1>1, <1>3 DEF GhInv, GhTokenOK, GhCursors
<1>5. PICK bill, D : bill = world.bill[m] /\ D = DOMAIN bill
  OBVIOUS
<1>6. D \subseteq GhUsers /\ IsFiniteSet(D) /\ \A x \in D : bill[x] \in Nat
  BY <1>4, <1>5, MonthBill
<1>7. u \in GhUsers /\ u \in ToSet(list) /\ cents \in Nat
  <2>1. u \in GhUsers /\ u \in ToSet(list)
    BY <1>1, <1>3, <1>4, TailOnce
  <2>2. Spent(m, u) \in Nat
    BY <1>5, <1>6 DEF Spent
  <2>3. QED BY <1>1, <1>4, <2>1, <2>2
<1>8. /\ u \in D => rows = Row(u, bill[u])
      /\ u \notin D => rows = NoRows
      /\ Bookable(m, rows)
  <2>1. CASE u \in D
    <3>1. rows = Row(u, bill[u]) /\ bill[u] \in Nat /\ u \in GhUsers \cup {Unassigned}
      BY <1>1, <1>5, <1>6, <2>1 DEF creditItems
    <3>2. rows \in Tables(GhUsers \cup {Unassigned}, Nat) /\ DOMAIN rows = {u}
      BY <3>1, RowIn
    <3>3. QED BY <1>5, <2>1, <3>1, <3>2 DEF Bookable
  <2>2. CASE u \notin D
    <3>1. rows = NoRows
      BY <1>1, <1>5, <2>2 DEF creditItems
    <3>2. NoRows \in [{} -> Nat] /\ {} \in SUBSET (GhUsers \cup {Unassigned}) /\ DOMAIN NoRows = {}
      BY DEF NoRows
    <3>3. NoRows \in Tables(GhUsers \cup {Unassigned}, Nat)
      BY <3>2, Zenon DEF Tables
    <3>4. QED BY <2>2, <3>1, <3>2, <3>3 DEF Bookable
  <2>3. QED BY <2>1, <2>2
<1>9. /\ GhStored(w) /\ w.facts[m] = Upsert(stored.facts[m], rows) /\ w.totals = stored.totals
      /\ w.usage = stored.usage /\ w.outcomes = stored.outcomes
      /\ \A k \in 1 .. GhMonths : k # m => w.facts[k] = stored.facts[k]
  <2>1. GhStored(stored)
    BY DEF GhInv
  <2>2. QED BY <1>2, <1>4, <1>8, <2>1, FactsWritten
<1>10. PICK asked, B : asked = token.users \ (ToSet(list) \ {u}) /\ B = asked \cap D
  OBVIOUS
<1>11. ASSUME Still("roster"), Still("bill")
       PROVE  /\ m \in DOMAIN stored.totals /\ stored.totals[m] = token.org
              /\ token.org = OrgCents(m) /\ token.org # 0
              /\ cents = SumOf(bill, B)
              /\ \A x \in B : x \in DOMAIN w.facts[m] /\ w.facts[m][x] = bill[x]
  <2>1. MonthAsked
    BY <1>1, <1>3, <1>11 DEF GhInv, CreditsAsked, Walking
  <2>2. PICK A : A = (token.users \ ToSet(list)) \cap D
    OBVIOUS
  <2>3. AskedBilled = A
    BY <1>1, <1>5, <2>2 DEF AskedBilled, Asked
  <2>4. /\ m \in DOMAIN stored.totals /\ stored.totals[m] = token.org /\ token.org = OrgCents(m) /\ token.org # 0
        /\ token.attributed = SumOf(bill, A)
        /\ \A x \in A : x \in DOMAIN stored.facts[m] /\ stored.facts[m][x] = bill[x]
    BY <1>1, <1>5, <2>1, <2>3 DEF MonthAsked
  <2>5. u \notin A /\ B = IF u \in D THEN A \cup {u} ELSE A
    BY <1>4, <1>7, <1>10, <2>2
  <2>6. CASE u \in D
    <3>1. Integral(bill, A)
      <4>1. A \subseteq D
        BY <2>2
      <4>2. QED BY <1>6, <4>1, FS_Subset DEF Integral
    <3>2. SumOf(bill, A \cup {u}) = SumOf(bill, A) + bill[u]
      BY <1>6, <2>5, <2>6, <3>1, SumAdds
    <3>3. Spent(m, u) = bill[u]
      BY <1>5, <2>6 DEF Spent
    <3>4. \A x \in B : x \in DOMAIN w.facts[m] /\ w.facts[m][x] = bill[x]
      BY <1>8, <1>9, <2>4, <2>5, <2>6 DEF Upsert, Row
    <3>5. QED BY <1>1, <2>4, <2>5, <2>6, <3>2, <3>3, <3>4
  <2>7. CASE u \notin D
    <3>1. Spent(m, u) = 0
      BY <1>5, <2>7 DEF Spent
    <3>2. \A x \in B : x \in DOMAIN w.facts[m] /\ w.facts[m][x] = bill[x]
      BY <1>8, <1>9, <2>4, <2>5, <2>7 DEF Upsert, NoRows
    <3>3. QED BY <1>1, <1>4, <2>4, <2>5, <2>7, <3>1, <3>2
  <2>8. QED BY <2>6, <2>7
<1>12. CASE Len(list) > 1
  <2>1. PICK t : t = [token EXCEPT !.left = Tail(list), !.attributed = cents]
    OBVIOUS
  <2>2. CommitPage(t, w)
    BY <1>1, <1>2, <1>12, <2>1 DEF CreditsOfUser, Booking
  <2>3. token' = t /\ stored' = w /\ world' = world /\ moved' = moved /\ walks' = walks
    BY <2>2 DEF CommitPage
  <2>4. PICK q : q = Tail(list)
    OBVIOUS
  <2>5. q \in Seq(GhUsers) /\ Once(q) /\ ToSet(q) = ToSet(list) \ {u}
    BY <1>1, <1>3, <1>4, <2>4, TailOnce
  <2>6. /\ t \in GhCursors /\ t.left = q /\ t.attributed = cents /\ t.users = token.users /\ t.month = m
        /\ t.org = token.org /\ t.phase = "credits" /\ t.links = <<>> /\ t.current = None
    <3>1. t = [token EXCEPT !.left = q, !.attributed = cents]
      BY <2>1, <2>4
    <3>2. t \in GhCursors
      BY <1>4, <1>7, <2>5, <3>1 DEF GhCursors
    <3>3. QED BY <1>1, <1>3, <1>4, <3>1, <3>2 DEF GhCursors
  <2>7. t # None
    BY <2>6, GhNoToken
  <2>8. GhTokenOK'
    BY <1>4, <2>3, <2>5, <2>6 DEF GhTokenOK
  <2>9. SeatsRead'
    BY <1>3, <2>3, <2>6, SeatsStay DEF GhInv
  <2>10. CreditsRead'
    <3>1. SUFFICES ASSUME Still("roster"), Still("bill"), NEW k \in 1 .. GhMonths, MonthPassed(k)' PROVE MonthBooked(k)'
      BY <2>3 DEF CreditsRead, Still
    <3>2. k < m /\ k # m
      BY <1>4, <2>3, <2>6, <2>7, <3>1 DEF MonthPassed, Walking, GhOver
    <3>3. MonthPassed(k)
      BY <1>1, <1>3, <3>2 DEF MonthPassed, Walking
    <3>4. MonthBooked(k)
      BY <3>1, <3>3 DEF GhInv, CreditsRead
    <3>5. OrgCents(k)' = OrgCents(k) /\ Holders' = Holders
      BY <2>3 DEF OrgCents, Holders
    <3>6. QED BY <1>9, <2>3, <3>2, <3>4, <3>5 DEF MonthBooked
  <2>11. CreditsAsked'
    <3>1. SUFFICES ASSUME Still("roster"), Still("bill") PROVE MonthAsked'
      BY <2>3 DEF CreditsAsked, Still
    <3>2. AskedBilled' = B
      BY <1>5, <1>10, <2>3, <2>5, <2>6 DEF AskedBilled, Asked
    <3>3. OrgCents(m)' = OrgCents(m)
      BY <2>3 DEF OrgCents
    <3>4. QED BY <1>5, <1>9, <1>11, <2>3, <2>6, <3>1, <3>2, <3>3 DEF MonthAsked
  <2>12. ReportsRead' /\ PRsRead'
    <3>1. (\A d : ~DayReached(d)') /\ \A n : ~PRPassed(n)'
      BY <1>3, <2>3, <2>6, <2>7, EarlyPhases
    <3>2. QED BY <3>1 DEF ReportsRead, PRsRead
  <2>13. GhShape(world)' /\ GhStored(stored)'
    BY <1>9, <2>3, StoredStays DEF GhInv, GhShape
  <2>14. QED BY <2>3, <2>8, <2>9, <2>10, <2>11, <2>12, <2>13 DEF GhInv
<1>13. CASE ~(Len(list) > 1)
  <2>1. PICK rest, last, s : /\ rest = Max({0, token.org - cents}) /\ last = Row(Unassigned, rest)
                             /\ s = Booking(w, m, last)
    OBVIOUS
  <2>2. s = [stored EXCEPT !.facts[m] = Upsert(Upsert(stored.facts[m], rows), last)]
    BY <1>2, <1>4, <2>1 DEF Booking, GhInv, GhStored
  <2>3. CommitPage(AfterMonth(token), s)
    BY <1>1, <1>13, <2>1, <2>2 DEF CreditsOfUser, remainderFact
  <2>4. token' = AfterMonth(token) /\ stored' = s /\ world' = world /\ moved' = moved /\ walks' = walks
    BY <2>3 DEF CommitPage
  <2>5. rest \in Nat /\ (cents <= token.org => rest = token.org - cents)
    <3>1. PICK x \in Int : x = token.org - cents
      BY <1>4, <1>7
    <3>2. \E y \in {0, x} : \A z \in {0, x} : y >= z
      BY <3>1
    <3>3. Max({0, x}) \in {0, x} /\ \A z \in {0, x} : Max({0, x}) >= z
      BY <3>2 DEF Max
    <3>4. QED BY <1>4, <1>7, <2>1, <3>1, <3>3
  <2>6. last \in Tables(GhUsers \cup {Unassigned}, Nat) /\ DOMAIN last = {Unassigned} /\ last[Unassigned] = rest
    BY <2>1, <2>5, RowIn DEF Row
  <2>7. Bookable(m, last)
    BY <2>6 DEF Bookable
  <2>8. /\ GhStored(s) /\ s.facts[m] = Upsert(w.facts[m], last) /\ s.totals = w.totals
        /\ s.usage = w.usage /\ s.outcomes = w.outcomes
        /\ \A k \in 1 .. GhMonths : k # m => s.facts[k] = w.facts[k]
    <3>1. s = Booking(w, m, last)
      BY <2>1
    <3>2. QED BY <1>4, <1>9, <2>7, <3>1, FactsWritten
  <2>9. ASSUME Still("roster"), Still("bill") PROVE MonthBooked(m)'
    <3>1. ToSet(world.roster) = token.users
      BY <1>3, <2>9, HoldersRead
    <3>2. ToSet(list) \ {u} = {}
      <4>1. Tail(list) = <<>> /\ ToSet(Tail(list)) = ToSet(list) \ {u}
        BY <1>1, <1>3, <1>4, <1>13, TailOnce
      <4>2. QED BY <4>1 DEF ToSet
    <3>3. asked = token.users /\ B = token.users \cap D
      BY <1>10, <3>2
    <3>4. PICK f, H : f = s.facts[m] /\ H = token.users \cup {Unassigned}
      OBVIOUS
    <3>5. Holders' = H
      BY <2>4, <3>1, <3>4 DEF Holders
    <3>6. DOMAIN f \cap H = B \cup {Unassigned}
      <4>1. DOMAIN f = DOMAIN w.facts[m] \cup {Unassigned}
        BY <2>6, <2>8, <3>4 DEF Upsert
      <4>2. DOMAIN w.facts[m] \subseteq D \cup {Unassigned}
        BY <1>4, <1>5, <1>9 DEF GhStored
      <4>3. B \subseteq DOMAIN w.facts[m]
        BY <1>11, <2>9
      <4>4. QED BY <3>3, <3>4, <4>1, <4>2, <4>3
    <3>7. Unassigned \notin B /\ f[Unassigned] = rest /\ \A x \in B : f[x] = bill[x]
      <4>1. Unassigned \notin B
        BY <1>4, <3>3, GhSizes
      <4>2. f[Unassigned] = rest
        BY <2>6, <2>8, <3>4 DEF Upsert
      <4>3. \A x \in B : f[x] = w.facts[m][x]
        BY <1>11, <2>6, <2>8, <2>9, <3>4, <4>1 DEF Upsert
      <4>4. QED BY <1>11, <2>9, <4>1, <4>2, <4>3
    <3>8. Integral(bill, B) /\ Integral(bill, D) /\ Integral(f, B) /\ B \subseteq D
      <4>1. B \subseteq D
        BY <3>3
      <4>2. IsFiniteSet(B)
        BY <1>6, <4>1, FS_Subset
      <4>3. QED BY <1>6, <3>7, <4>1, <4>2 DEF Integral
    <3>9. SumOf(f, B) = SumOf(bill, B)
      BY <3>7, <3>8, SumSame
    <3>10. SumOf(f, B \cup {Unassigned}) = SumOf(f, B) + rest
      BY <2>5, <3>7, <3>8, SumAdds
    <3>11. SumOf(bill, D \ B) \in Nat
      <4>1. IsFiniteSet(D \ B) /\ \A x \in D \ B : bill[x] \in Nat
        BY <1>6, FS_Subset
      <4>2. QED BY <4>1, SumNat
    <3>12. SumOf(bill, D) = SumOf(bill, B) + SumOf(bill, D \ B)
      BY <3>8, SumSplits
    <3>13. SumOf(bill, D) = token.org /\ cents = SumOf(bill, B)
      BY <1>5, <1>11, <2>9, SumOfMonth
    <3>14. SumOf(f, DOMAIN f \cap H) = token.org
      <4>1. PICK x \in Nat : x = SumOf(bill, D \ B)
        BY <3>11
      <4>2. token.org = cents + x
        BY <3>12, <3>13, <4>1
      <4>3. rest = token.org - cents
        BY <1>4, <1>7, <2>5, <4>1, <4>2
      <4>4. SumOf(f, B \cup {Unassigned}) = cents + rest
        BY <3>9, <3>10, <3>13
      <4>5. cents + rest = token.org
        BY <1>4, <1>7, <4>3
      <4>6. QED BY <3>6, <4>4, <4>5
    <3>15. OrgCents(m)' = token.org
      BY <1>11, <2>4, <2>9 DEF OrgCents
    <3>16. stored'.facts[m] = f /\ m \in DOMAIN stored'.totals /\ stored'.totals[m] = token.org
      BY <1>9, <1>11, <2>4, <2>8, <2>9, <3>4
    <3>17. QED BY <3>5, <3>14, <3>15, <3>16 DEF MonthBooked
  <2>10. \A k \in 1 .. GhMonths : k # m => s.facts[k] = stored.facts[k]
    BY <1>9, <2>8
  <2>11. s.totals = stored.totals /\ s.usage = stored.usage /\ s.outcomes = stored.outcomes
    BY <1>9, <2>8
  <2>12. QED BY <1>1, <1>3, <2>4, <2>8, <2>9, <2>10, <2>11, MonthEnds
<1>14. QED BY <1>12, <1>13

-----------------------------------------------------------------------------
(***************************************************************************)
(* The pages of GitHub: reports and pull requests.                         *)
(***************************************************************************)
LEMMA AfterDayIs ==
  ASSUME NEW t \in GhCursors, t.phase = "daily", t.day \in dailyDays .. GhDays
  PROVE  /\ AfterDay(t) \in GhCursors
         /\ AfterDay(t).left = t.left /\ AfterDay(t).links = <<>> /\ AfterDay(t).current = t.current
         /\ AfterDay(t).users = t.users
         /\ IF t.day < GhDays
              THEN AfterDay(t).phase = "daily" /\ AfterDay(t).day = t.day + 1
              ELSE AfterDay(t).phase = "prs" /\ AfterDay(t).chunk = 1 /\ AfterDay(t).page = 1
<1>1. PICK e, o, z, k : e = <<>> /\ o = 1 /\ z = 0 /\ k = t.day + 1
  OBVIOUS
<1>2. /\ e \in Seq(ReportLinks) /\ o \in Nat \ {0} /\ o \in 1 .. GhChunks /\ z \in Nat /\ k \in Nat
  BY <1>1, EmptySeq, DailyDaysIs, GhSizes
<1>3. PICK u : u = [t EXCEPT !.links = e]
  OBVIOUS
<1>4. /\ u \in GhCursors /\ u.left = t.left /\ u.links = e /\ u.current = t.current /\ u.users = t.users
      /\ u.phase = "daily" /\ u.day = t.day
  BY <1>2, <1>3 DEF GhCursors
<1>5. CASE t.day < GhDays
  <2>1. AfterDay(t) = [u EXCEPT !.day = k]
    BY <1>1, <1>3, <1>5 DEF AfterDay, GhCursors
  <2>2. PICK d : d = AfterDay(t)
    OBVIOUS
  <2>3. d \in GhCursors /\ d.day = k /\ d.phase = u.phase
    BY <1>2, <1>4, <2>1, <2>2 DEF GhCursors
  <2>4. d.left = u.left /\ d.links = u.links /\ d.current = u.current /\ d.users = u.users
    BY <2>1, <2>2
  <2>5. QED BY <1>1, <1>4, <1>5, <2>2, <2>3, <2>4
<1>6. CASE ~(t.day < GhDays)
  <2>1. PICK v, p : p = "prs" /\ v = [u EXCEPT !.chunk = o, !.page = o]
    OBVIOUS
  <2>2. /\ v \in GhCursors /\ v.left = t.left /\ v.links = e /\ v.current = t.current /\ v.users = t.users
        /\ v.chunk = o /\ v.page = o
    BY <1>2, <1>4, <2>1 DEF GhCursors
  <2>3. AfterDay(t) = [v EXCEPT !.phase = p, !.day = z]
    BY <1>1, <1>3, <1>6, <2>1 DEF AfterDay, GhCursors
  <2>4. p \in {"seats", "credits", "daily", "prs", "pr"}
    BY <2>1
  <2>5. PICK d : d = AfterDay(t) /\ d = [v EXCEPT !.phase = p, !.day = z]
    BY <2>3
  <2>6. d \in GhCursors /\ d.phase = p
    BY <1>2, <2>2, <2>4, <2>5 DEF GhCursors
  <2>7. d.left = v.left /\ d.links = v.links /\ d.current = v.current /\ d.users = v.users
    BY <2>5
  <2>8. d.chunk = o /\ d.page = o
    BY <2>2, <2>5
  <2>9. QED BY <1>1, <1>6, <2>1, <2>2, <2>5, <2>6, <2>7, <2>8
<1>7. QED BY <1>5, <1>6

\* a day's report is read
LEMMA DayEnds ==
  ASSUME GhInv, token # None, token.phase = "daily", token' = AfterDay(token), NEW s, stored' = s, GhStored(s),
         world' = world, moved' = moved, walks' = walks, NEW d, d = token.day,
         s.facts = stored.facts, s.totals = stored.totals, s.outcomes = stored.outcomes,
         stored.usage \subseteq s.usage,
         Still("report") /\ world.report[d] # None => \A u \in UNION ToSet(world.report[d]) : <<d, u>> \in s.usage
  PROVE  GhInv'
<1>1. PICK a : a = AfterDay(token)
  OBVIOUS
<1>2. token \in GhCursors /\ token.current = None /\ d \in dailyDays .. GhDays
      /\ Once(token.left) /\ ToSet(token.left) \subseteq token.users /\ dailyDays' = dailyDays
  BY DEF GhInv, GhTokenOK, dailyDays
<1>3. /\ a \in GhCursors /\ a.left = token.left /\ a.links = <<>> /\ a.current = None /\ a.users = token.users
      /\ IF d < GhDays THEN a.phase = "daily" /\ a.day = d + 1
         ELSE a.phase = "prs" /\ a.chunk = 1 /\ a.page = 1
  BY <1>1, <1>2, AfterDayIs
<1>4. token' = a /\ a # None /\ a.phase \in {"daily", "prs"} /\ DOMAIN a.links = {}
      /\ d \in Nat /\ dailyDays \in Nat /\ GhDays \in Nat
  BY <1>1, <1>2, <1>3, GhNoToken, DailyDaysIs, GhSizes
<1>5. GhTokenOK'
  <2>1. a.phase = "daily" => a.day \in dailyDays' .. GhDays
    BY <1>2, <1>3, <1>4
  <2>2. QED BY <1>2, <1>3, <1>4, <2>1 DEF GhTokenOK
<1>6. SeatsRead'
  BY <1>3, <1>4, SeatsStay DEF GhInv
<1>7. CreditsRead'
  <2>1. \A m \in 1 .. GhMonths : MonthPassed(m)
    BY DEF MonthPassed, Walking
  <2>2. QED BY <2>1, MonthsStay DEF GhInv
<1>8. CreditsAsked'
  BY <1>4 DEF CreditsAsked, Walking
<1>9. PRsRead'
  <2>1. CASE a.phase = "daily"
    <3>1. \A n : ~PRPassed(n)'
      BY <1>4, <2>1, EarlyPhases
    <3>2. QED BY <3>1 DEF PRsRead
  <2>2. CASE a.phase = "prs"
    <3>1. a.chunk = 1 /\ a.page = 1 /\ (1 - 1) * GhPage = 0
      BY <1>3, <1>4, <2>2, PagesFollow, GhSizes
    <3>2. ASSUME NEW n \in GhNumbers, world.pr[n] \in 1 .. GhChunks, PRPassed(n)' PROVE FALSE
      <4>1. world.pr[n] = 1 /\ Rank(Sought(1), n) <= 0
        <5>1. Sought(1)' = Sought(1)
          BY DEF Sought
        <5>2. world.pr[n] \in Nat /\ ~(world.pr[n] < 1)
          BY <3>2, GhSizes
        <5>3. QED BY <1>4, <2>2, <3>1, <3>2, <5>1, <5>2 DEF PRPassed, Walking, GhOver
      <4>2. n \in Sought(1) /\ Sought(1) \subseteq GhNumbers
        BY <4>1 DEF Sought
      <4>3. Sought(1) \subseteq Nat /\ IsFiniteSet(Sought(1))
        BY <4>2, GhSizes, FS_Subset
      <4>4. Rank(Sought(1), n) \in 1 .. Cardinality(Sought(1)) /\ Cardinality(Sought(1)) \in Nat
        BY <4>2, <4>3, RankIs
      <4>5. QED BY <4>1, <4>4
    <3>3. QED BY <3>2 DEF PRsRead
  <2>3. QED BY <1>4, <2>1, <2>2
<1>10. ReportsRead'
  <2>1. SUFFICES ASSUME Still("report"), NEW k \in dailyDays .. GhDays, world.report[k] # None,
                        NEW u \in UNION ToSet(world.report[k]), DayReached(k)', ~LinkAhead(k, u)'
                 PROVE  <<k, u>> \in s.usage
    BY <1>2 DEF ReportsRead, Still
  <2>2. k <= d
    <3>1. CASE d < GhDays
      <4>1. k <= d + 1 /\ k # d + 1
        BY <1>3, <1>4, <2>1, <3>1 DEF DayReached, GhOver, Walking, LinkAhead
      <4>2. QED BY <1>4, <2>1, <4>1
    <3>2. CASE ~(d < GhDays)
      BY <1>2, <1>4, <2>1, <3>2
    <3>3. QED BY <3>1, <3>2
  <2>3. CASE k = d
    BY <2>1, <2>3
  <2>4. CASE k # d
    <3>1. DayReached(k) /\ ~LinkAhead(k, u)
      BY <2>2, <2>4 DEF DayReached, Walking, LinkAhead
    <3>2. QED BY <2>1, <3>1 DEF GhInv, ReportsRead
  <2>5. QED BY <2>3, <2>4
<1>11. GhShape(world)' /\ GhStored(stored)'
  BY StoredStays DEF GhInv, GhShape
<1>12. QED BY <1>5, <1>6, <1>7, <1>8, <1>9, <1>10, <1>11 DEF GhInv

LEMMA DailyReportKeeps == GhInv /\ DailyReport => GhInv'
<1> SUFFICES ASSUME GhInv, DailyReport PROVE GhInv'
  OBVIOUS
<1>1. PICK d, r, links : d = token.day /\ r = world.report[d] /\ links = reportLinks(d)
  OBVIOUS
<1>2. token # None /\ token.phase = "daily" /\ token.links = <<>>
  BY DEF DailyReport, InPhase
<1>3. token \in GhCursors /\ token.current = None /\ d \in dailyDays .. GhDays /\ d \in Nat
      /\ d \in 1 .. GhDays
      /\ Once(token.left) /\ ToSet(token.left) \subseteq token.users /\ dailyDays' = dailyDays
  BY <1>1, <1>2, DailyDaysIs, GhSizes DEF GhInv, GhTokenOK, dailyDays
<1>4. r \in Seq(SUBSET GhUsers) \cup {None}
  BY <1>1, <1>3 DEF GhInv, GhShape
<1>5. /\ r = None => links = <<>>
      /\ r # None => /\ DOMAIN links = DOMAIN r /\ links \in Seq(ReportLinks)
                     /\ \A i \in DOMAIN r : links[i].day = d /\ links[i].users = r[i]
  <2>1. CASE r = None
    BY <1>1, <2>1 DEF reportLinks
  <2>2. CASE r # None
    <3>1. r \in Seq(SUBSET GhUsers)
      BY <1>4, <2>2
    <3>2. PICK L \in Nat : DOMAIN r = 1 .. L
      BY <3>1, LenProperties
    <3>3. links = [i \in 1 .. L |-> [day |-> d, users |-> r[i]]]
      BY <1>1, <2>2, <3>2 DEF reportLinks
    <3>4. \A i \in 1 .. L : r[i] \in SUBSET GhUsers
      BY <3>1, <3>2, ElementOfSeq, LenProperties
    <3>5. links \in [1 .. L -> ReportLinks]
      BY <1>3, <3>3, <3>4 DEF ReportLinks
    <3>6. QED BY <2>2, <3>2, <3>3, <3>5
  <2>3. QED BY <2>1, <2>2
<1>6. CASE links = <<>>
  <2>1. CommitPage(AfterDay(token), stored)
    BY <1>1, <1>6 DEF DailyReport
  <2>2. token' = AfterDay(token) /\ stored' = stored /\ world' = world /\ moved' = moved /\ walks' = walks
    BY <2>1 DEF CommitPage
  <2>3. r # None => UNION ToSet(r) = {}
    <3>1. DOMAIN links = {}
      BY <1>6
    <3>2. QED BY <1>5, <3>1 DEF ToSet
  <2>4. GhStored(stored)
    BY DEF GhInv
  <2>5. QED BY <1>1, <1>2, <2>2, <2>3, <2>4, DayEnds
<1>7. CASE links # <<>>
  <2>1. PICK t : t = [token EXCEPT !.links = links]
    OBVIOUS
  <2>2. CommitPage(t, stored)
    BY <1>1, <1>7, <2>1 DEF DailyReport
  <2>3. token' = t /\ stored' = stored /\ world' = world /\ moved' = moved /\ walks' = walks
    BY <2>2 DEF CommitPage
  <2>4. links \in Seq(ReportLinks)
    BY <1>5, <1>7
  <2>5. /\ t \in GhCursors /\ t.left = token.left /\ t.links = links /\ t.current = None /\ t.users = token.users
        /\ t.phase = "daily" /\ t.day = d
    <3>1. t \in GhCursors
      BY <1>3, <2>1, <2>4 DEF GhCursors
    <3>2. QED BY <1>1, <1>2, <1>3, <2>1, <3>1 DEF GhCursors
  <2>6. t # None
    BY <2>5, GhNoToken
  <2>7. GhTokenOK'
    BY <1>3, <1>5, <1>7, <2>3, <2>5 DEF GhTokenOK
  <2>8. SeatsRead'
    BY <1>2, <2>3, <2>5, SeatsStay DEF GhInv
  <2>9. CreditsRead'
    <3>1. \A m \in 1 .. GhMonths : MonthPassed(m)
      BY <1>2 DEF MonthPassed, Walking
    <3>2. QED BY <2>3, <3>1, MonthsStay DEF GhInv
  <2>10. CreditsAsked' /\ PRsRead'
    <3>1. CreditsAsked' /\ \A n : ~PRPassed(n)'
      BY <1>2, <2>3, <2>5, <2>6, EarlyPhases
    <3>2. QED BY <3>1 DEF PRsRead
  <2>11. ReportsRead'
    <3>1. SUFFICES ASSUME Still("report"), NEW k \in dailyDays .. GhDays, world.report[k] # None,
                          NEW u \in UNION ToSet(world.report[k]), DayReached(k)', ~LinkAhead(k, u)'
                   PROVE  <<k, u>> \in stored.usage
      BY <1>3, <2>3 DEF ReportsRead, Still
    <3>2. CASE k = d
      <4>1. PICK i \in DOMAIN r : u \in r[i]
        BY <1>1, <3>1, <3>2 DEF ToSet
      <4>2. i \in DOMAIN t.links /\ u \in t.links[i].users
        BY <1>1, <1>5, <2>5, <3>1, <3>2, <4>1
      <4>3. LinkAhead(k, u)'
        BY <2>3, <2>5, <2>6, <3>2, <4>2 DEF LinkAhead, Walking
      <4>4. QED BY <3>1, <4>3
    <3>3. CASE k # d
      <4>1. DayReached(k) /\ ~LinkAhead(k, u)
        BY <1>1, <1>2, <2>3, <2>5, <2>6, <3>1, <3>3 DEF DayReached, GhOver, Walking, LinkAhead
      <4>2. QED BY <3>1, <4>1 DEF GhInv, ReportsRead
    <3>4. QED BY <3>2, <3>3
  <2>12. GhShape(world)' /\ GhStored(stored)'
    BY <2>3 DEF GhInv, GhShape, GhStored, OutcomeRight
  <2>13. QED BY <2>3, <2>7, <2>8, <2>9, <2>10, <2>11, <2>12 DEF GhInv
<1>8. QED BY <1>6, <1>7

LEMMA TailIs ==
  ASSUME NEW S, NEW list \in Seq(S), list # <<>>
  PROVE  /\ Head(list) \in S /\ Tail(list) \in Seq(S)
         /\ Len(list) > 1 <=> Tail(list) # <<>>
         /\ ToSet(list) = ToSet(Tail(list)) \cup {Head(list)}
<1>1. PICK L \in Nat : L = Len(list) /\ DOMAIN list = 1 .. L
  BY LenProperties
<1>2. L > 0
  BY <1>1, EmptySeq, LenProperties
<1>3. Head(list) = list[1] /\ list[1] \in S
  BY <1>1, <1>2, ElementOfSeq
<1>4. PICK q : q = Tail(list)
  OBVIOUS
<1>5. q \in Seq(S) /\ Len(q) = L - 1 /\ \A i \in 1 .. L - 1 : q[i] = list[i + 1]
  BY <1>1, <1>2, <1>4
<1>6. DOMAIN q = 1 .. L - 1
  BY <1>5, LenProperties
<1>7. \A i \in 1 .. L - 1 : q[i] \in ToSet(list)
  <2>1. TAKE i \in 1 .. L - 1
  <2>2. i + 1 \in 1 .. L
    BY <1>1
  <2>3. QED BY <1>1, <1>5, <2>2 DEF ToSet
<1>8. \A i \in 1 .. L : list[i] \in ToSet(q) \cup {list[1]}
  <2>1. TAKE i \in 1 .. L
  <2>2. CASE i = 1
    BY <2>2
  <2>3. CASE i # 1
    <3>1. PICK j : j = i - 1
      OBVIOUS
    <3>2. j \in 1 .. L - 1 /\ j + 1 = i
      BY <1>1, <2>3, <3>1
    <3>3. QED BY <1>5, <1>6, <3>2 DEF ToSet
  <2>4. QED BY <2>2, <2>3
<1>9. list[1] \in ToSet(list)
  BY <1>1, <1>2 DEF ToSet
<1>10. ToSet(list) = ToSet(q) \cup {list[1]}
  <2>1. ToSet(list) \subseteq ToSet(q) \cup {list[1]}
    BY <1>1, <1>8 DEF ToSet
  <2>2. ToSet(q) \subseteq ToSet(list)
    BY <1>6, <1>7 DEF ToSet
  <2>3. QED BY <1>9, <2>1, <2>2
<1>11. Len(list) > 1 <=> q # <<>>
  BY <1>1, <1>5, <1>6, EmptySeq, LenProperties
<1>12. QED BY <1>3, <1>4, <1>5, <1>10, <1>11

LEMMA DailyRowsKeep == GhInv /\ DailyRows => GhInv'
<1> SUFFICES ASSUME GhInv, DailyRows PROVE GhInv'
  OBVIOUS
<1>1. PICK d, links, link, q : d = token.day /\ links = token.links /\ link = Head(links) /\ q = Tail(links)
  OBVIOUS
<1>2. PICK s : s = [stored EXCEPT !.usage = @ \cup usageRows(link), !.people = @ \cup link.users]
  OBVIOUS
<1>3. token # None /\ token.phase = "daily" /\ links # <<>>
  BY <1>1 DEF DailyRows, InPhase
<1>4. /\ token \in GhCursors /\ token.current = None /\ d \in dailyDays .. GhDays /\ links \in Seq(ReportLinks)
      /\ Once(token.left) /\ ToSet(token.left) \subseteq token.users /\ dailyDays' = dailyDays
      /\ \A i \in DOMAIN links : links[i].day = d
  BY <1>1, <1>3 DEF GhInv, GhTokenOK, dailyDays, GhCursors
<1>5. q \in Seq(ReportLinks) /\ (Len(links) > 1 <=> q # <<>>) /\ ToSet(links) = ToSet(q) \cup {link}
  BY <1>1, <1>3, <1>4, TailIs
<1>6. \A l \in ToSet(links) : l.day = d
  BY <1>4 DEF ToSet
<1>7. link.day = d /\ \A i \in DOMAIN q : q[i].day = d
  <2>1. \A i \in DOMAIN q : q[i] \in ToSet(links)
    BY <1>5 DEF ToSet
  <2>2. QED BY <1>5, <1>6, <2>1
<1>8. /\ s.usage = stored.usage \cup usageRows(link) /\ s.facts = stored.facts /\ s.totals = stored.totals
      /\ s.outcomes = stored.outcomes /\ GhStored(s)
  BY <1>2 DEF GhInv, GhStored, OutcomeRight
<1>9. ASSUME Still("report"), world.report[d] # None, NEW u \in UNION ToSet(world.report[d])
      PROVE  <<d, u>> \in s.usage \/ \E i \in DOMAIN q : u \in q[i].users
  <2>1. DayReached(d) /\ d \in Nat
    BY <1>1, <1>3, <1>4, DailyDaysIs DEF DayReached, Walking
  <2>2. LinkAhead(d, u) \/ <<d, u>> \in stored.usage
    BY <1>4, <1>9, <2>1 DEF GhInv, ReportsRead
  <2>3. CASE LinkAhead(d, u)
    <3>1. PICK i \in DOMAIN links : u \in links[i].users
      BY <1>1, <1>3, <2>3 DEF LinkAhead
    <3>2. links[i] \in ToSet(q) \cup {link}
      BY <1>5 DEF ToSet
    <3>3. CASE links[i] = link
      BY <1>7, <1>8, <3>1, <3>3 DEF usageRows
    <3>4. CASE links[i] \in ToSet(q)
      BY <3>1, <3>4 DEF ToSet
    <3>5. QED BY <3>2, <3>3, <3>4
  <2>4. QED BY <1>8, <2>2, <2>3
<1>10. CASE Len(links) > 1
  <2>1. PICK t : t = [token EXCEPT !.links = q]
    OBVIOUS
  <2>2. CommitPage(t, s)
    BY <1>1, <1>2, <1>10, <2>1 DEF DailyRows
  <2>3. token' = t /\ stored' = s /\ world' = world /\ moved' = moved /\ walks' = walks
    BY <2>2 DEF CommitPage
  <2>4. /\ t \in GhCursors /\ t.left = token.left /\ t.links = q /\ t.current = None /\ t.users = token.users
        /\ t.phase = "daily" /\ t.day = d
    <3>1. t \in GhCursors
      BY <1>4, <1>5, <2>1 DEF GhCursors
    <3>2. QED BY <1>1, <1>3, <1>4, <2>1, <3>1 DEF GhCursors
  <2>5. t # None
    BY <2>4, GhNoToken
  <2>6. GhTokenOK'
    BY <1>4, <1>7, <2>3, <2>4 DEF GhTokenOK
  <2>7. SeatsRead'
    BY <1>3, <2>3, <2>4, SeatsStay DEF GhInv
  <2>8. CreditsRead'
    <3>1. \A m \in 1 .. GhMonths : MonthPassed(m)
      BY <1>3 DEF MonthPassed, Walking
    <3>2. QED BY <1>8, <2>3, <3>1, MonthsStay DEF GhInv
  <2>9. CreditsAsked' /\ PRsRead'
    <3>1. CreditsAsked' /\ \A n : ~PRPassed(n)'
      BY <1>3, <2>3, <2>4, <2>5, EarlyPhases
    <3>2. QED BY <3>1 DEF PRsRead
  <2>10. ReportsRead'
    <3>1. SUFFICES ASSUME Still("report"), NEW k \in dailyDays .. GhDays, world.report[k] # None,
                          NEW u \in UNION ToSet(world.report[k]), DayReached(k)', ~LinkAhead(k, u)'
                   PROVE  <<k, u>> \in s.usage
      BY <1>4, <2>3 DEF ReportsRead, Still
    <3>2. CASE k = d
      <4>1. ~\E i \in DOMAIN q : u \in q[i].users
        BY <2>3, <2>4, <2>5, <3>1, <3>2 DEF LinkAhead, Walking
      <4>2. QED BY <1>9, <3>1, <3>2, <4>1
    <3>3. CASE k # d
      <4>1. DayReached(k) /\ ~LinkAhead(k, u)
        BY <1>1, <1>3, <2>3, <2>4, <2>5, <3>1, <3>3 DEF DayReached, GhOver, Walking, LinkAhead
      <4>2. QED BY <1>8, <3>1, <4>1 DEF GhInv, ReportsRead
    <3>4. QED BY <3>2, <3>3
  <2>11. GhShape(world)' /\ GhStored(stored)'
    BY <1>8, <2>3, StoredStays DEF GhInv, GhShape
  <2>12. QED BY <2>3, <2>6, <2>7, <2>8, <2>9, <2>10, <2>11 DEF GhInv
<1>11. CASE ~(Len(links) > 1)
  <2>1. CommitPage(AfterDay(token), s)
    BY <1>1, <1>2, <1>11 DEF DailyRows
  <2>2. token' = AfterDay(token) /\ stored' = s /\ world' = world /\ moved' = moved /\ walks' = walks
    BY <2>1 DEF CommitPage
  <2>3. Still("report") /\ world.report[d] # None => \A u \in UNION ToSet(world.report[d]) : <<d, u>> \in s.usage
    <3>1. q = <<>> /\ DOMAIN q = {}
      BY <1>5, <1>11
    <3>2. QED BY <1>9, <3>1
  <2>4. stored.usage \subseteq s.usage
    BY <1>8
  <2>5. QED BY <1>1, <1>3, <1>8, <2>2, <2>3, <2>4, DayEnds
<1>12. QED BY <1>10, <1>11

LEMMA RankPositive ==
  ASSUME NEW c, NEW n \in Sought(c)
  PROVE  /\ Sought(c) \subseteq GhNumbers /\ Sought(c) \subseteq Nat /\ IsFiniteSet(Sought(c))
         /\ Rank(Sought(c), n) \in Nat \ {0}
<1>1. Sought(c) \subseteq GhNumbers
  BY DEF Sought
<1>2. Sought(c) \subseteq Nat /\ IsFiniteSet(Sought(c))
  BY <1>1, GhSizes, FS_Subset
<1>3. Rank(Sought(c), n) \in 1 .. Cardinality(Sought(c)) /\ Cardinality(Sought(c)) \in Nat
  BY <1>2, RankIs
<1>4. QED BY <1>1, <1>2, <1>3

LEMMA SearchPageKeeps == GhInv /\ SearchPage => GhInv'
<1> SUFFICES ASSUME GhInv, SearchPage PROVE GhInv'
  OBVIOUS
<1>1. PICK c, n, f, pg, queue :
        /\ c = token.chunk /\ n = token.page /\ f = Found(c) /\ pg = PageOf(f, n, GhPage)
        /\ queue = token.queue \o pg
  OBVIOUS
<1>2. PICK more, u, t :
        /\ more = MorePages(f, n, GhPage) /\ u = [token EXCEPT !.queue = queue]
        /\ t = (IF more THEN [u EXCEPT !.page = @ + 1]
                ELSE IF c < GhChunks THEN [u EXCEPT !.chunk = @ + 1, !.page = 1]
                ELSE IF u.queue # <<>> THEN [u EXCEPT !.phase = "pr"]
                ELSE None)
  OBVIOUS
<1>3. CommitPage(t, stored)
  BY <1>1, <1>2 DEF SearchPage
<1>4. /\ token' = t /\ stored' = stored /\ world' = world /\ moved' = moved /\ walks' = walks
      /\ token # None /\ token.phase = "prs"
  BY <1>3 DEF CommitPage, SearchPage, InPhase
<1>5. /\ token \in GhCursors /\ token.current = None
      /\ Once(token.left) /\ ToSet(token.left) \subseteq token.users
      /\ c \in 1 .. GhChunks /\ n \in Nat \ {0} /\ token.queue \in Seq(GhNumbers) /\ GhPage \in Nat \ {0}
      /\ GhChunks \in Nat
  BY <1>1, <1>4, GhSizes DEF GhInv, GhTokenOK, GhCursors
<1>6. PICK S : S = Sought(c)
  OBVIOUS
<1>7. S \subseteq GhNumbers /\ S \subseteq Nat /\ IsFiniteSet(S)
  <2>1. S \subseteq GhNumbers
    BY <1>6 DEF Sought
  <2>2. QED BY <2>1, GhSizes, FS_Subset
<1>8. f = InOrder(S)
  BY <1>1, <1>6 DEF Found, Sought
<1>9. /\ f \in Seq(S) /\ \A i \in S : Rank(S, i) \in DOMAIN f /\ f[Rank(S, i)] = i
  BY <1>7, <1>8, InOrderIs
<1>10. f \in Seq(GhNumbers)
  <2>1. PICK L \in Nat : L = Len(f) /\ DOMAIN f = 1 .. L
    BY <1>9, LenProperties
  <2>2. \A i \in 1 .. L : f[i] \in GhNumbers
    BY <1>7, <1>9, <2>1, ElementOfSeq
  <2>3. f = [i \in 1 .. L |-> f[i]]
    BY <1>9, <2>1
  <2>4. f \in [1 .. L -> GhNumbers]
    BY <2>2, <2>3
  <2>5. QED BY <2>1, <2>4
<1>11. /\ pg \in Seq(GhNumbers)
       /\ \A i \in DOMAIN f : (n - 1) * GhPage < i /\ i <= n * GhPage => f[i] \in ToSet(pg)
  <2>1. pg = PageOf(f, n, GhPage)
    BY <1>1
  <2>2. n \in Nat \ {0} /\ GhPage \in Nat \ {0}
    BY <1>5
  <2>3. QED BY <1>10, <2>1, <2>2, PageIs
<1>12. queue \in Seq(GhNumbers) /\ ToSet(queue) = ToSet(token.queue) \cup ToSet(pg)
  BY <1>1, <1>5, <1>11, ConcatIs
<1>13. /\ u \in GhCursors /\ u.queue = queue /\ u.left = token.left /\ u.users = token.users /\ u.links = token.links
       /\ u.current = None /\ u.phase = "prs" /\ u.chunk = c /\ u.page = n
  BY <1>1, <1>2, <1>4, <1>5, <1>12 DEF GhCursors
<1>14. IF more \/ c < GhChunks \/ queue # <<>>
         THEN /\ t \in GhCursors /\ t.queue = queue /\ t.left = token.left /\ t.users = token.users
              /\ t.current = None
              /\ t.phase = IF ~more /\ ~(c < GhChunks) THEN "pr" ELSE "prs"
              /\ more => t.chunk = c /\ t.page = n + 1
              /\ ~more /\ c < GhChunks => t.chunk = c + 1 /\ t.page = 1
         ELSE t = None
  <2>1. CASE more
    <3>1. PICK k \in Nat \ {0} : k = n + 1
      BY <1>5
    <3>2. t = [u EXCEPT !.page = k]
      BY <1>2, <1>13, <2>1, <3>1
    <3>3. QED BY <1>13, <2>1, <3>1, <3>2 DEF GhCursors
  <2>2. CASE ~more /\ c < GhChunks
    <3>1. PICK k \in 1 .. GhChunks : k = c + 1
      BY <1>5, <2>2
    <3>2. PICK o \in Nat \ {0} : o = 1
      OBVIOUS
    <3>3. t = [u EXCEPT !.chunk = k, !.page = o]
      BY <1>2, <1>13, <2>2, <3>1, <3>2
    <3>4. QED BY <1>13, <2>2, <3>1, <3>2, <3>3 DEF GhCursors
  <2>3. CASE ~more /\ ~(c < GhChunks)
    BY <1>2, <1>13, <2>3 DEF GhCursors
  <2>4. QED BY <2>1, <2>2, <2>3
<1>15. t # None => t \in GhCursors /\ t.queue = queue /\ t.left = token.left /\ t.users = token.users
                   /\ t.current = None /\ t.phase \in {"prs", "pr"} /\ (t.phase = "pr" => queue # <<>>)
  BY <1>14
<1>16. GhTokenOK'
  BY <1>4, <1>5, <1>15 DEF GhTokenOK
<1>17. SeatsRead'
  BY <1>4, <1>15, SeatsStay DEF GhInv
<1>18. CreditsRead' /\ CreditsAsked' /\ ReportsRead'
  <2>1. /\ \A m \in 1 .. GhMonths : MonthPassed(m)
        /\ \A d \in dailyDays .. GhDays : DayReached(d)
        /\ \A d, k : ~LinkAhead(d, k)
    BY <1>4 DEF MonthPassed, DayReached, LinkAhead, Walking
  <2>2. CreditsAsked'
    BY <1>4, <1>15 DEF CreditsAsked, Walking
  <2>3. QED BY <1>4, <2>1, <2>2, MonthsStay, ReportsStay DEF GhInv
<1>19. PRsRead'
  <2>1. SUFFICES ASSUME Still("gone"), NEW k \in GhNumbers, world.pr[k] \in 1 .. GhChunks,
                        <<"pr", k>> \notin moved, PRPassed(k)'
                 PROVE  k \in DOMAIN stored.outcomes \cup ToSet(token.queue) \cup ToSet(pg)
    <3>1. t = None => ToSet(queue) = {}
      <4>1. t = None => queue = <<>>
        BY <1>14, GhNoToken
      <4>2. DOMAIN <<>> = {} /\ ToSet(<<>>) = {}
        BY DEF ToSet
      <4>3. QED BY <4>1, <4>2
    <3>2. ASSUME NEW k \in GhNumbers, k \in DOMAIN stored.outcomes \cup ToSet(token.queue) \cup ToSet(pg)
          PROVE  Queued(k)'
      BY <1>4, <1>12, <1>15, <3>1, <3>2 DEF Queued
    <3>3. QED BY <1>4, <2>1, <3>2 DEF PRsRead, Still
  <2>2. PICK a, z, r : a = (n - 1) * GhPage /\ z = n * GhPage /\ r = Rank(S, k)
    OBVIOUS
  <2>3. a \in Nat /\ z \in Nat /\ world.pr[k] \in Nat
    BY <1>5, <2>1, <2>2, PagesFollow
  <2>4. world.pr[k] < c \/ (world.pr[k] = c /\ (more => r <= z))
    <3>1. CASE more
      <4>1. t # None /\ t.phase = "prs" /\ t.chunk = c /\ (t.page - 1) * GhPage = z
        BY <1>5, <1>14, <2>2, <3>1, GhNoToken, PagesFollow
      <4>2. PRPassed(k)' <=> world.pr[k] < c \/ (world.pr[k] = c /\ Rank(S, k) <= z)
        <5>1. Sought(c)' = S
          BY <1>4, <1>6 DEF Sought
        <5>2. QED BY <1>4, <4>1, <5>1 DEF PRPassed, GhOver, Walking
      <4>3. QED BY <2>1, <2>2, <4>2
    <3>2. CASE ~more /\ c < GhChunks
      <4>1. t # None /\ t.phase = "prs" /\ t.chunk = c + 1 /\ t.page = 1 /\ (1 - 1) * GhPage = 0
        BY <1>5, <1>14, <3>2, GhNoToken, PagesFollow
      <4>2. PICK e : e = c + 1
        OBVIOUS
      <4>3. PRPassed(k)' <=> world.pr[k] < e \/ (world.pr[k] = e /\ Rank(Sought(e), k) <= 0)
        <5>1. Sought(e)' = Sought(e)
          BY <1>4 DEF Sought
        <5>2. QED BY <1>4, <4>1, <4>2, <5>1 DEF PRPassed, GhOver, Walking
      <4>4. world.pr[k] = e => Rank(Sought(e), k) \in Nat \ {0}
        <5>1. world.pr[k] = e => k \in Sought(e)
          BY DEF Sought
        <5>2. QED BY <5>1, RankPositive
      <4>5. world.pr[k] < e
        BY <2>1, <4>3, <4>4
      <4>6. QED BY <1>5, <2>3, <3>2, <4>2, <4>5
    <3>3. CASE ~more /\ ~(c < GhChunks)
      BY <1>5, <2>1, <2>3, <3>3
    <3>4. QED BY <3>1, <3>2, <3>3
  <2>5. CASE world.pr[k] < c
    <3>1. PRPassed(k)
      BY <1>1, <1>4, <2>5 DEF PRPassed, Walking
    <3>2. QED BY <1>4, <2>1, <3>1 DEF GhInv, PRsRead, Queued
  <2>6. CASE world.pr[k] = c
    <3>1. k \in S
      BY <1>6, <2>6 DEF Sought
    <3>2. r \in DOMAIN f /\ f[r] = k /\ r \in Nat /\ r <= Len(f) /\ Len(f) \in Nat
      BY <1>9, <2>2, <3>1, LenProperties
    <3>3. CASE r <= a
      <4>1. PRPassed(k)
        BY <1>1, <1>4, <1>6, <2>2, <2>6, <3>3 DEF PRPassed, Walking
      <4>2. QED BY <1>4, <2>1, <4>1 DEF GhInv, PRsRead, Queued
    <3>4. CASE ~(r <= a)
      <4>1. more <=> z < Len(f)
        BY <1>2, <2>2 DEF MorePages
      <4>2. r <= z
        BY <1>5, <2>3, <2>4, <2>6, <3>2, <4>1
      <4>3. f[r] \in ToSet(pg)
        BY <1>11, <2>2, <2>3, <3>2, <3>4, <4>2
      <4>4. QED BY <3>2, <4>3
    <3>5. QED BY <3>3, <3>4
  <2>7. QED BY <2>4, <2>5, <2>6
<1>20. GhShape(world)' /\ GhStored(stored)'
  BY <1>4, StoredStays DEF GhInv, GhShape
<1>21. QED BY <1>4, <1>16, <1>17, <1>18, <1>19, <1>20 DEF GhInv

\* the pull request at the head of the queue is done with
LEMMA NextPRKeeps ==
  ASSUME GhInv, token # None, token.phase = "pr", token' = NextPR(token), world' = world, moved' = moved,
         walks' = walks, NEW s, stored' = s, GhStored(s), s.facts = stored.facts, s.totals = stored.totals,
         s.usage = stored.usage, DOMAIN stored.outcomes \subseteq DOMAIN s.outcomes,
         NEW n, n = Head(token.queue), n \in DOMAIN s.outcomes \/ world.pr[n] \notin 1 .. GhChunks
  PROVE  GhInv'
<1>1. PICK q, t : q = Tail(token.queue) /\ t = NextPR(token)
  OBVIOUS
<1>2. /\ token \in GhCursors /\ Once(token.left) /\ ToSet(token.left) \subseteq token.users
      /\ token.queue \in Seq(GhNumbers) /\ token.queue # <<>>
  BY DEF GhInv, GhTokenOK, GhCursors
<1>3. /\ q \in Seq(GhNumbers)
      /\ Len(token.queue) > 1 <=> q # <<>>
      /\ ToSet(token.queue) = ToSet(q) \cup {n}
  BY <1>1, <1>2, TailIs
<1>4. IF q # <<>>
        THEN /\ t \in GhCursors /\ t.queue = q /\ t.current = None /\ t.phase = "pr"
             /\ t.left = token.left /\ t.users = token.users
        ELSE t = None
  <2>1. CASE q # <<>>
    <3>1. PICK e \in PRReads \cup {None} : e = None
      OBVIOUS
    <3>2. t = [token EXCEPT !.queue = q, !.current = e]
      BY <1>1, <1>3, <2>1, <3>1 DEF NextPR
    <3>3. QED BY <1>2, <1>3, <2>1, <3>1, <3>2 DEF GhCursors
  <2>2. CASE ~(q # <<>>)
    BY <1>1, <1>3, <2>2 DEF NextPR
  <2>3. QED BY <2>1, <2>2
<1>5. token' = t /\ (t # None => q # <<>>)
  BY <1>1, <1>4
<1>6. GhTokenOK'
  BY <1>2, <1>4, <1>5 DEF GhTokenOK
<1>7. SeatsRead'
  BY <1>4, <1>5, SeatsStay DEF GhInv
<1>8. CreditsRead' /\ CreditsAsked' /\ ReportsRead'
  <2>1. /\ \A m \in 1 .. GhMonths : MonthPassed(m)
        /\ \A d \in dailyDays .. GhDays : DayReached(d)
        /\ \A d, k : ~LinkAhead(d, k)
    BY DEF MonthPassed, DayReached, LinkAhead, Walking
  <2>2. CreditsAsked'
    BY <1>4, <1>5 DEF CreditsAsked, Walking
  <2>3. QED BY <2>1, <2>2, MonthsStay, ReportsStay DEF GhInv
<1>9. PRsRead'
  <2>1. ASSUME Still("gone"), NEW k \in GhNumbers, world.pr[k] \in 1 .. GhChunks, <<"pr", k>> \notin moved
        PROVE  Queued(k)'
    <3>1. Queued(k)
      <4>1. PRPassed(k)
        BY DEF PRPassed, Walking
      <4>2. QED BY <2>1, <4>1 DEF GhInv, PRsRead
    <3>2. k \in DOMAIN s.outcomes \/ k \in ToSet(q)
      BY <1>3, <2>1, <3>1 DEF Queued
    <3>3. q = <<>> => ToSet(q) = {}
      <4>1. DOMAIN <<>> = {} /\ ToSet(<<>>) = {}
        BY DEF ToSet
      <4>2. QED BY <4>1
    <3>4. q # <<>> => t # None /\ t.queue = q
      BY <1>4, GhNoToken
    <3>5. QED BY <1>5, <3>2, <3>3, <3>4 DEF Queued
  <2>2. QED BY <2>1 DEF PRsRead, Still
<1>10. GhShape(world)' /\ GhStored(stored)'
  BY StoredStays DEF GhInv, GhShape
<1>11. QED BY <1>6, <1>7, <1>8, <1>9, <1>10 DEF GhInv

\* more is read of the pull request at the head of the queue
LEMMA PRReadOn ==
  ASSUME GhInv, token # None, token.phase = "pr", NEW t, token' = t, t # None, t.phase = "pr",
         t.queue = token.queue, t.users = token.users, GhTokenOK',
         stored' = stored, world' = world, moved' = moved, walks' = walks
  PROVE  GhInv'
<1>1. SeatsRead'
  BY SeatsStay DEF GhInv
<1>2. CreditsRead' /\ CreditsAsked' /\ ReportsRead'
  <2>1. /\ \A m \in 1 .. GhMonths : MonthPassed(m)
        /\ \A d \in dailyDays .. GhDays : DayReached(d)
        /\ \A d, k : ~LinkAhead(d, k)
    BY DEF MonthPassed, DayReached, LinkAhead, Walking
  <2>2. CreditsAsked'
    BY DEF CreditsAsked, Walking
  <2>3. QED BY <2>1, <2>2, MonthsStay, ReportsStay DEF GhInv
<1>3. PRsRead'
  <2>1. \A n : PRPassed(n)
    BY DEF PRPassed, Walking
  <2>2. \A n : Queued(n) => Queued(n)'
    BY DEF Queued
  <2>3. QED BY <2>1, <2>2, PRsStay DEF GhInv
<1>4. GhShape(world)' /\ GhStored(stored)'
  BY StoredStays DEF GhInv, GhShape
<1>5. QED BY <1>1, <1>2, <1>3, <1>4 DEF GhInv

LEMMA PRDetailKeeps == GhInv /\ PRDetail => GhInv'
<1> SUFFICES ASSUME GhInv, PRDetail PROVE GhInv'
  OBVIOUS
<1>1. PICK n, r : n = Head(token.queue) /\ r = prDetail(n)
  OBVIOUS
<1>2. /\ token # None /\ token.phase = "pr" /\ token.current = None
      /\ CommitPage(IF r = None THEN NextPR(token) ELSE [token EXCEPT !.current = r], stored)
  BY <1>1 DEF PRDetail, InPhase
<1>3. /\ token \in GhCursors /\ Once(token.left) /\ ToSet(token.left) \subseteq token.users
      /\ token.queue \in Seq(GhNumbers) /\ token.queue # <<>>
  BY <1>2 DEF GhInv, GhTokenOK, GhCursors
<1>4. n \in GhNumbers
  BY <1>1, <1>3, TailIs
<1>5. stored' = stored /\ world' = world /\ moved' = moved /\ walks' = walks /\ GhStored(stored)
  BY <1>2 DEF CommitPage, GhInv
<1>6. CASE r = None
  <2>1. token' = NextPR(token)
    BY <1>2, <1>6 DEF CommitPage
  <2>2. world.pr[n] \in {OpenPR, Lagging}
    <3>1. ASSUME world.pr[n] \notin {OpenPR, Lagging} PROVE FALSE
      <4>1. r = [page |-> 1, tools |-> GhPRs[n].bot]
        BY <1>1, <3>1 DEF prDetail
      <4>2. r \in PRReads
        BY <1>4, <4>1 DEF PRReads, GhTools
      <4>3. QED BY <1>6, <4>2, GhNoToken
    <3>2. QED BY <3>1
  <2>3. world.pr[n] \notin 1 .. GhChunks
    BY <2>2, GhSizes DEF OpenPR, Lagging
  <2>4. QED BY <1>1, <1>2, <1>5, <2>1, <2>3, NextPRKeeps
<1>7. CASE r # None
  <2>1. r = [page |-> 1, tools |-> GhPRs[n].bot]
    BY <1>1, <1>7 DEF prDetail
  <2>2. r \in PRReads /\ r.page = 1 /\ r.tools = GhPRs[n].bot
    BY <1>4, <2>1 DEF PRReads, GhTools
  <2>3. PICK t : t = [token EXCEPT !.current = r]
    OBVIOUS
  <2>4. token' = t
    BY <1>2, <1>7, <2>3 DEF CommitPage
  <2>5. /\ t \in GhCursors /\ t.current = r /\ t.queue = token.queue /\ t.phase = "pr" /\ t.left = token.left
        /\ t.users = token.users
    BY <1>2, <1>3, <2>2, <2>3 DEF GhCursors
  <2>6. t # None
    BY <2>5, GhNoToken
  <2>7. PagesBefore(n, 1) = {}
    <3>1. \A k \in DOMAIN GhPRs[n].pages : ~(k < 1)
      <4>1. GhPRs[n].pages \in Seq(SUBSET GhTools)
        BY <1>4, GithubAssumption
      <4>2. QED BY <4>1, LenProperties
    <3>2. QED BY <3>1 DEF PagesBefore
  <2>8. 1 <= Max({1, Len(GhPRs[n].pages)})
    <3>1. PICK L \in Nat : L = Len(GhPRs[n].pages)
      BY <1>4, GithubAssumption, LenProperties
    <3>2. \E y \in {1, L} : \A z \in {1, L} : y >= z
      BY <3>1
    <3>3. Max({1, L}) \in {1, L} /\ \A z \in {1, L} : Max({1, L}) >= z
      BY <3>2 DEF Max
    <3>4. QED BY <3>1, <3>3
  <2>9. GhTokenOK'
    BY <1>1, <1>3, <2>2, <2>4, <2>5, <2>7, <2>8 DEF GhTokenOK, PagesBefore
  <2>10. QED BY <1>2, <1>5, <2>4, <2>5, <2>6, <2>9, PRReadOn
<1>8. QED BY <1>6, <1>7

LEMMA PagesGrow ==
  ASSUME NEW n \in GhNumbers, NEW p \in Nat \ {0}, NEW L, L = Len(GhPRs[n].pages)
  PROVE  /\ L \in Nat /\ commitsPage(n, p) \in SUBSET GhTools
         /\ PagesBefore(n, p + 1) = PagesBefore(n, p) \cup commitsPage(n, p)
         /\ p >= L => PagesBefore(n, p + 1) = UNION ToSet(GhPRs[n].pages)
<1>1. PICK pages : pages = GhPRs[n].pages
  OBVIOUS
<1>2. pages \in Seq(SUBSET GhTools) /\ L \in Nat /\ DOMAIN pages = 1 .. L
  BY <1>1, GithubAssumption, LenProperties
<1>3. \A i \in 1 .. L : pages[i] \in SUBSET GhTools
  BY <1>1, <1>2, ElementOfSeq
<1>4. commitsPage(n, p) = IF p \in 1 .. L THEN pages[p] ELSE {}
  BY <1>1, <1>2 DEF commitsPage
<1>5. ASSUME NEW q \in {p, p + 1}
      PROVE  \A x : x \in PagesBefore(n, q) <=> \E i \in 1 .. L : i < q /\ x \in pages[i]
  BY <1>1, <1>2 DEF PagesBefore
<1>6. \A i \in 1 .. L : i < p + 1 <=> i < p \/ i = p
  BY <1>2
<1>7. \A x : x \in PagesBefore(n, p + 1) <=> x \in PagesBefore(n, p) \/ x \in commitsPage(n, p)
  BY <1>4, <1>5, <1>6, Zenon
<1>8. PagesBefore(n, p + 1) = PagesBefore(n, p) \cup commitsPage(n, p)
  BY <1>7
<1>9. ASSUME p >= L PROVE PagesBefore(n, p + 1) = UNION ToSet(pages)
  <2>1. \A i \in 1 .. L : i < p + 1
    BY <1>2, <1>9
  <2>2. \A x : x \in UNION ToSet(pages) <=> \E i \in 1 .. L : x \in pages[i]
    BY <1>2 DEF ToSet
  <2>3. QED BY <1>5, <2>1, <2>2
<1>10. commitsPage(n, p) \in SUBSET GhTools
  BY <1>3, <1>4
<1>11. QED BY <1>1, <1>2, <1>8, <1>9, <1>10

LEMMA PRCommitsKeep == GhInv /\ PRCommits => GhInv'
<1> SUFFICES ASSUME GhInv, PRCommits PROVE GhInv'
  OBVIOUS
<1>1. PICK n, cur, p, L, tools :
        /\ n = Head(token.queue) /\ cur = token.current /\ p = cur.page /\ L = Len(GhPRs[n].pages)
        /\ tools = Tools(cur, commitsPage(n, cur.page))
  OBVIOUS
<1>2. PICK r, s : /\ r = [page |-> p + 1, tools |-> tools]
                  /\ s = [stored EXCEPT !.outcomes = Upsert(@, finalizePr(n, tools)),
                                        !.reverts = @ \cup {<<n, x>> : x \in GhPRs[n].reverts}]
  OBVIOUS
<1>3. /\ token # None /\ token.phase = "pr" /\ cur # None
      /\ IF p < L THEN CommitPage([token EXCEPT !.current = r], stored) ELSE CommitPage(NextPR(token), s)
  BY <1>1, <1>2 DEF PRCommits, InPhase
<1>4. /\ token \in GhCursors /\ Once(token.left) /\ ToSet(token.left) \subseteq token.users
      /\ token.queue \in Seq(GhNumbers) /\ token.queue # <<>> /\ cur \in PRReads
      /\ cur.tools = GhPRs[n].bot \cup PagesBefore(n, p)
  BY <1>1, <1>3 DEF GhInv, GhTokenOK, GhCursors
<1>5. n \in GhNumbers /\ p \in Nat \ {0}
  <2>1. n \in GhNumbers
    BY <1>1, <1>4, TailIs
  <2>2. QED BY <1>1, <1>4, <2>1 DEF PRReads
<1>6. /\ L \in Nat /\ commitsPage(n, p) \in SUBSET GhTools
      /\ PagesBefore(n, p + 1) = PagesBefore(n, p) \cup commitsPage(n, p)
      /\ p >= L => PagesBefore(n, p + 1) = UNION ToSet(GhPRs[n].pages)
  <2>1. L = Len(GhPRs[n].pages)
    BY <1>1
  <2>2. QED BY <1>5, <2>1, PagesGrow
<1>7. tools = GhPRs[n].bot \cup PagesBefore(n, p + 1) /\ tools \in SUBSET GhTools
  <2>1. tools = cur.tools \cup commitsPage(n, p)
    BY <1>1 DEF Tools
  <2>2. QED BY <1>4, <1>6, <2>1 DEF PRReads
<1>8. CASE p < L
  <2>1. PICK t : t = [token EXCEPT !.current = r]
    OBVIOUS
  <2>2. token' = t /\ stored' = stored /\ world' = world /\ moved' = moved /\ walks' = walks
    BY <1>3, <1>8, <2>1 DEF CommitPage
  <2>3. r \in PRReads /\ r.page = p + 1 /\ r.tools = tools
    BY <1>2, <1>5, <1>7 DEF PRReads
  <2>4. /\ t \in GhCursors /\ t.current = r /\ t.queue = token.queue /\ t.phase = "pr" /\ t.left = token.left
        /\ t.users = token.users
    BY <1>3, <1>4, <2>1, <2>3 DEF GhCursors
  <2>5. t # None
    BY <2>4, GhNoToken
  <2>6. p + 1 <= Max({1, L})
    <3>1. \E y \in {1, L} : \A z \in {1, L} : y >= z
      BY <1>6
    <3>2. Max({1, L}) \in {1, L} /\ \A z \in {1, L} : Max({1, L}) >= z
      BY <3>1 DEF Max
    <3>3. QED BY <1>5, <1>6, <1>8, <3>2
  <2>7. GhTokenOK'
    BY <1>1, <1>4, <1>7, <2>2, <2>3, <2>4, <2>6 DEF GhTokenOK, PagesBefore
  <2>8. QED BY <1>3, <2>2, <2>4, <2>5, <2>7, PRReadOn
<1>9. CASE ~(p < L)
  <2>1. token' = NextPR(token) /\ stored' = s /\ world' = world /\ moved' = moved /\ walks' = walks
    BY <1>3, <1>9 DEF CommitPage
  <2>2. /\ stored = [people |-> stored.people, facts |-> stored.facts, totals |-> stored.totals,
                     usage |-> stored.usage, outcomes |-> stored.outcomes, reverts |-> stored.reverts]
        /\ GhStored(stored)
    BY DEF GhInv, GhStored
  <2>3. PICK o : o = Upsert(stored.outcomes, finalizePr(n, tools))
    OBVIOUS
  <2>4. /\ s = [people |-> s.people, facts |-> s.facts, totals |-> s.totals, usage |-> s.usage,
                outcomes |-> s.outcomes, reverts |-> s.reverts]
        /\ s.facts = stored.facts /\ s.totals = stored.totals /\ s.usage = stored.usage /\ s.outcomes = o
        /\ s.reverts = stored.reverts \cup {<<n, x>> : x \in GhPRs[n].reverts}
    BY <1>2, <2>2, <2>3
  <2>5. /\ DOMAIN o = DOMAIN stored.outcomes \cup {n}
        /\ o[n].tools = tools
        /\ \A k \in DOMAIN stored.outcomes : k # n => o[k] = stored.outcomes[k]
    BY <2>3 DEF Upsert, finalizePr, Row
  <2>6. tools = GhPRs[n].bot \cup UNION ToSet(GhPRs[n].pages)
    BY <1>5, <1>6, <1>7, <1>9
  <2>7. OutcomeRight(n, s)
    BY <2>4, <2>5, <2>6 DEF OutcomeRight
  <2>8. ASSUME NEW k \in DOMAIN o, k # n PROVE OutcomeRight(k, s)
    <3>1. OutcomeRight(k, stored) /\ o[k] = stored.outcomes[k]
      BY <2>2, <2>5, <2>8 DEF GhStored
    <3>2. QED BY <2>4, <3>1 DEF OutcomeRight
  <2>9. GhStored(s)
    BY <2>2, <2>4, <2>7, <2>8 DEF GhStored
  <2>10. n \in DOMAIN s.outcomes /\ DOMAIN stored.outcomes \subseteq DOMAIN s.outcomes
    BY <2>4, <2>5
  <2>11. QED BY <1>1, <1>3, <2>1, <2>4, <2>9, <2>10, NextPRKeeps
<1>10. QED BY <1>8, <1>9

-----------------------------------------------------------------------------
\* the vendor's data moves
MergesOnly(w) ==
  \A n \in GhNumbers : w.pr[n] # world.pr[n] => w.pr[n] \in {Lagging, GhChunks} /\ world.pr[n] \in {OpenPR, Lagging}
ItemsStay(w) == \A m \in 1 .. GhMonths : DOMAIN world.bill[m] \subseteq DOMAIN w.bill[m]

LEMMA GhMoved ==
  ASSUME GhInv, NEW w, NEW what, Move(w, what), GhShape(w), ItemsStay(w),
         <<"roster", 0>> \in what \/ w.roster = world.roster,
         <<"bill", 0>> \in what \/ w.bill = world.bill,
         <<"report", 0>> \in what \/ w.report = world.report,
         <<"gone", 0>> \in what \/ MergesOnly(w),
         \A n \in GhNumbers : <<"pr", n>> \in what \/ w.pr[n] = world.pr[n]
  PROVE  GhInv'
<1>1. /\ world' = w /\ token' = token /\ stored' = stored /\ walks' = walks /\ moved' = moved \cup what
      /\ moved \subseteq moved'
  BY DEF Move
<1>2. GhShape(world)' /\ GhTokenOK' /\ walks' \in Nat
  <2>1. GhTokenOK
    BY DEF GhInv
  <2>2. GhTokenOK'
    BY <1>1, <2>1 DEF GhTokenOK, dailyDays, PagesBefore
  <2>3. GhShape(w)
    OBVIOUS
  <2>4. QED BY <1>1, <2>2, <2>3 DEF GhInv, GhShape
<1>3. GhStored(stored)'
  BY <1>1 DEF GhInv, GhStored, OutcomeRight, ItemsStay
<1>4. SeatsRead'
  BY <1>1 DEF GhInv, SeatsRead, Still
<1>5. /\ \A m : MonthPassed(m)' <=> MonthPassed(m)
      /\ \A d : DayReached(d)' <=> DayReached(d)
      /\ \A d, u : LinkAhead(d, u)' <=> LinkAhead(d, u)
  BY <1>1 DEF MonthPassed, DayReached, LinkAhead, Walking, GhOver
<1>6. CreditsRead' /\ CreditsAsked'
  <2>1. CASE w.roster = world.roster /\ w.bill = world.bill
    BY <1>1, <1>5, <2>1, MonthsStay, AskedStays DEF GhInv
  <2>2. CASE ~(w.roster = world.roster /\ w.bill = world.bill)
    BY <1>1, <2>2 DEF CreditsRead, CreditsAsked, Still
  <2>3. QED BY <2>1, <2>2
<1>7. ReportsRead'
  <2>1. CASE w.report = world.report
    BY <1>1, <1>5, <2>1, ReportsStay DEF GhInv
  <2>2. CASE ~(w.report = world.report)
    BY <1>1, <2>2 DEF ReportsRead, Still
  <2>3. QED BY <2>1, <2>2
<1>8. PRsRead'
  <2>1. SUFFICES ASSUME MergesOnly(w), Still("gone"), NEW k \in GhNumbers, w.pr[k] \in 1 .. GhChunks,
                        w.pr[k] = world.pr[k], <<"pr", k>> \notin moved, PRPassed(k)'
                 PROVE  Queued(k)
    <3>1. \A k \in GhNumbers : <<"pr", k>> \notin moved' => w.pr[k] = world.pr[k] /\ <<"pr", k>> \notin moved
      BY <1>1
    <3>2. Still("gone")' => MergesOnly(w) /\ Still("gone")
      BY <1>1 DEF Still
    <3>3. \A k : Queued(k) => Queued(k)'
      BY <1>1 DEF Queued
    <3>4. QED BY <1>1, <2>1, <3>1, <3>2, <3>3 DEF PRsRead
  <2>2. PRPassed(k)
    <3>1. CASE token # None /\ token.phase = "prs"
      <4>1. PICK c, S, T, z : /\ c = token.chunk /\ S = Sought(c) /\ z = (token.page - 1) * GhPage
                              /\ T = {n \in GhNumbers : w.pr[n] = c \/ (w.pr[n] = Lagging /\ c = GhChunks)}
        OBVIOUS
      <4>2. Sought(c)' = T
        BY <1>1, <4>1 DEF Sought
      <4>3. w.pr[k] < c \/ (w.pr[k] = c /\ Rank(T, k) <= z)
        BY <1>1, <3>1, <4>1, <4>2, <2>1 DEF PRPassed, Walking, GhOver
      <4>4. c \in 1 .. GhChunks /\ token.page \in Nat \ {0}
        BY <3>1, <4>1 DEF GhInv, GhTokenOK, GhCursors
      <4>5. S \subseteq T
        <5>1. ASSUME NEW n \in GhNumbers, n \in S PROVE n \in T
          <6>1. world.pr[n] = c \/ (world.pr[n] = Lagging /\ c = GhChunks)
            BY <4>1, <5>1 DEF Sought
          <6>2. CASE w.pr[n] = world.pr[n]
            BY <4>1, <6>1, <6>2
          <6>3. CASE w.pr[n] # world.pr[n]
            <7>1. w.pr[n] \in {Lagging, GhChunks} /\ world.pr[n] \in {OpenPR, Lagging}
              BY <2>1, <6>3 DEF MergesOnly
            <7>2. world.pr[n] # c
              BY <4>4, <7>1 DEF OpenPR, Lagging
            <7>3. QED BY <4>1, <6>1, <7>1, <7>2
          <6>4. QED BY <6>2, <6>3
        <5>2. QED BY <4>1, <5>1 DEF Sought
      <4>6. T \subseteq Nat /\ IsFiniteSet(T)
        <5>1. T \subseteq GhNumbers
          BY <4>1
        <5>2. QED BY <5>1, GhSizes, FS_Subset
      <4>7. Rank(S, k) \in Nat /\ Rank(T, k) \in Nat /\ Rank(S, k) <= Rank(T, k)
        BY <4>5, <4>6, RankStays
      <4>8. z \in Nat
        BY <4>1, <4>4, GhSizes, PagesFollow
      <4>9. w.pr[k] = c => Rank(S, k) <= z
        <5>1. w.pr[k] = c => ~(w.pr[k] < c)
          BY <4>4
        <5>2. w.pr[k] = c => Rank(T, k) <= z
          BY <4>3, <5>1
        <5>3. QED BY <4>7, <4>8, <5>2
      <4>10. world.pr[k] < c \/ (world.pr[k] = c /\ Rank(S, k) <= z)
        BY <2>1, <4>3, <4>9
      <4>11. QED BY <3>1, <4>1, <4>10 DEF PRPassed, Walking
    <3>2. CASE ~(token # None /\ token.phase = "prs")
      BY <1>1, <2>1, <3>2 DEF PRPassed, Walking, GhOver
    <3>3. QED BY <3>1, <3>2
  <2>3. QED BY <2>1, <2>2 DEF GhInv, PRsRead
<1>9. QED BY <1>2, <1>3, <1>4, <1>6, <1>7, <1>8 DEF GhInv

LEMMA GhMovesKeep == GhInv /\ GhMoves => GhInv'
<1> SUFFICES ASSUME GhInv, GhMoves PROVE GhInv'
  OBVIOUS
<1>1. PICK ro, bi, re, pr : ro = <<"roster", 0>> /\ bi = <<"bill", 0>> /\ re = <<"report", 0>> /\ pr = world.pr
  OBVIOUS
<1>2. GhShape(world)
  BY DEF GhInv
<1>3. ASSUME NEW roster \in Seq(GhUsers), Move([world EXCEPT !.roster = roster], {<<"roster", 0>>})
      PROVE  GhInv'
  <2>1. PICK w : w = [world EXCEPT !.roster = roster]
    OBVIOUS
  <2>2. GhShape(w) /\ w.bill = world.bill /\ w.report = world.report /\ w.pr = world.pr
    BY <1>2, <2>1 DEF GhShape
  <2>3. ItemsStay(w) /\ MergesOnly(w)
    BY <2>2 DEF ItemsStay, MergesOnly
  <2>4. Move(w, {<<"roster", 0>>})
    BY <1>3, <2>1
  <2>5. QED BY <2>2, <2>3, <2>4, GhMoved
<1>4. ASSUME NEW u \in GhUsers, addCopilotSeat(u) \/ removeCopilotSeat(u) PROVE GhInv'
  <2>1. world.roster \in Seq(GhUsers)
    BY <1>2 DEF GhShape
  <2>2. CASE addCopilotSeat(u)
    <3>1. Append(world.roster, u) \in Seq(GhUsers)
      BY <2>1
    <3>2. Move([world EXCEPT !.roster = Append(world.roster, u)], {<<"roster", 0>>})
      BY <2>2 DEF addCopilotSeat
    <3>3. QED BY <1>3, <3>1, <3>2
  <2>3. CASE removeCopilotSeat(u)
    <3>1. PICK list, P : list = world.roster /\ P = {i \in DOMAIN list : list[i] # u}
      OBVIOUS
    <3>2. list \in Seq(GhUsers) /\ P \subseteq DOMAIN list
      BY <2>1, <3>1
    <3>3. PICK o : o = OnlyAt(list, P)
      OBVIOUS
    <3>4. o \in Seq(GhUsers)
      BY <3>2, <3>3, OnlyAtIs
    <3>5. Move([world EXCEPT !.roster = o], {<<"roster", 0>>})
      BY <2>3, <3>1, <3>3 DEF removeCopilotSeat
    <3>6. QED BY <1>3, <3>4, <3>5
  <2>4. QED BY <1>4, <2>2, <2>3
<1>5. ASSUME NEW u \in GhUsers, NEW cents \in GhCents, NEW m, m = GhMonths, Billed(m, u, cents) PROVE GhInv'
  <2>1. PICK b, f : b = Upsert(world.bill[m], Row(u, cents)) /\ f = [world.bill EXCEPT ![m] = b]
    OBVIOUS
  <2>2. m \in 1 .. GhMonths /\ world.bill \in [1 .. GhMonths -> Tables(GhUsers, Nat)] /\ cents \in Nat
    BY <1>2, <1>5, GhSizes, GithubAssumption DEF GhShape
  <2>3. b \in Tables(GhUsers, Nat)
    <3>1. PICK row, table : row = Row(u, cents) /\ table = world.bill[m]
      OBVIOUS
    <3>2. row \in Tables(GhUsers, Nat)
      BY <2>2, <3>1, RowIn
    <3>3. table \in Tables(GhUsers, Nat)
      BY <2>2, <3>1
    <3>4. b = Upsert(table, row)
      BY <2>1, <3>1
    <3>5. QED BY <3>2, <3>3, <3>4, TablesUpsert
  <2>4. f \in [1 .. GhMonths -> Tables(GhUsers, Nat)]
    BY <2>1, <2>2, <2>3
  <2>5. PICK w : w = [world EXCEPT !.bill = f]
    OBVIOUS
  <2>6. GhShape(w) /\ w.roster = world.roster /\ w.report = world.report /\ w.pr = world.pr /\ w.bill = f
    BY <1>2, <2>4, <2>5 DEF GhShape
  <2>7. ItemsStay(w) /\ MergesOnly(w)
    <3>1. DOMAIN world.bill[m] \subseteq DOMAIN b
      BY <2>1 DEF Upsert
    <3>2. \A k \in 1 .. GhMonths : DOMAIN world.bill[k] \subseteq DOMAIN f[k]
      BY <2>1, <2>2, <3>1
    <3>3. QED BY <2>6, <3>2 DEF ItemsStay, MergesOnly
  <2>8. Move(w, {<<"bill", 0>>})
    BY <1>5, <2>1, <2>5 DEF Billed
  <2>9. QED BY <2>6, <2>7, <2>8, GhMoved
<1>6. ASSUME NEW d \in 1 .. GhDays, ReportBuilt(d) PROVE GhInv'
  <2>1. PICK r, f : r = <<{1, 2}>> /\ f = [world.report EXCEPT ![d] = r]
    OBVIOUS
  <2>2. r \in Seq(SUBSET GhUsers)
    BY <2>1, GithubAssumption
  <2>3. f \in [1 .. GhDays -> Seq(SUBSET GhUsers) \cup {None}]
    BY <1>2, <2>1, <2>2 DEF GhShape
  <2>4. PICK w : w = [world EXCEPT !.report = f]
    OBVIOUS
  <2>5. GhShape(w) /\ w.roster = world.roster /\ w.bill = world.bill /\ w.pr = world.pr
    BY <1>2, <2>3, <2>4 DEF GhShape
  <2>6. ItemsStay(w) /\ MergesOnly(w)
    BY <2>5 DEF ItemsStay, MergesOnly
  <2>7. Move(w, {<<"report", 0>>})
    BY <1>6, <2>1, <2>4 DEF ReportBuilt
  <2>8. QED BY <2>5, <2>6, <2>7, GhMoved
<1>7. ASSUME NEW n \in GhNumbers, NEW status \in 1 .. GhChunks \cup {OpenPR, Lagging, Gone}, NEW what,
             Move([world EXCEPT !.pr[n] = status], what), <<"pr", n>> \in what,
             \/ <<"gone", 0>> \in what
             \/ status \in {Lagging, GhChunks} /\ world.pr[n] \in {OpenPR, Lagging}
      PROVE  GhInv'
  <2>1. PICK f : f = [world.pr EXCEPT ![n] = status]
    OBVIOUS
  <2>2. f \in [GhNumbers -> 1 .. GhChunks \cup {OpenPR, Lagging, Gone}]
    BY <1>2, <1>7, <2>1 DEF GhShape
  <2>3. \A k \in GhNumbers : f[k] = IF k = n THEN status ELSE world.pr[k]
    BY <1>2, <1>7, <2>1 DEF GhShape
  <2>4. PICK w : w = [world EXCEPT !.pr = f]
    OBVIOUS
  <2>5. GhShape(w) /\ w.roster = world.roster /\ w.bill = world.bill /\ w.report = world.report /\ w.pr = f
    BY <1>2, <2>2, <2>4 DEF GhShape
  <2>6. ItemsStay(w)
    BY <2>5 DEF ItemsStay
  <2>7. <<"gone", 0>> \in what \/ MergesOnly(w)
    BY <1>7, <2>3, <2>5 DEF MergesOnly
  <2>8. \A k \in GhNumbers : <<"pr", k>> \in what \/ w.pr[k] = world.pr[k]
    BY <1>7, <2>3, <2>5
  <2>9. Move(w, what)
    BY <1>7, <2>1, <2>4
  <2>10. QED BY <2>5, <2>6, <2>7, <2>8, <2>9, GhMoved
<1>8. ASSUME NEW n \in GhNumbers, Vanish(n) PROVE GhInv'
  <2>1. PICK g : g = Gone
    OBVIOUS
  <2>2. Move([world EXCEPT !.pr[n] = g], {<<"pr", n>>, <<"gone", 0>>})
    BY <1>8, <2>1 DEF Vanish
  <2>3. g \in 1 .. GhChunks \cup {OpenPR, Lagging, Gone}
    BY <2>1
  <2>4. PICK what : what = {<<"pr", n>>, <<"gone", 0>>}
    OBVIOUS
  <2>5. <<"pr", n>> \in what /\ <<"gone", 0>> \in what /\ Move([world EXCEPT !.pr[n] = g], what)
    BY <2>2, <2>4
  <2>6. QED BY <1>7, <2>3, <2>5
<1>9. ASSUME NEW n \in GhNumbers, NEW status \in {Lagging, GhChunks}, Merge(n, status) PROVE GhInv'
  <2>1. status \in 1 .. GhChunks \cup {OpenPR, Lagging, Gone}
    BY GhSizes
  <2>2. PICK what : what = {<<"pr", n>>}
    OBVIOUS
  <2>3. <<"pr", n>> \in what /\ Move([world EXCEPT !.pr[n] = status], what) /\ world.pr[n] \in {OpenPR, Lagging}
    BY <1>9, <2>2 DEF Merge
  <2>4. QED BY <1>7, <2>1, <2>3
<1>10. QED BY <1>4, <1>5, <1>6, <1>8, <1>9 DEF GhMoves

LEMMA GhStutters == GhInv /\ UNCHANGED walkVars => GhInv'
<1> SUFFICES ASSUME GhInv, UNCHANGED walkVars PROVE GhInv'
  OBVIOUS
<1>1. UNCHANGED <<world, token, stored, moved, walks>>
  BY DEF walkVars
<1>2. /\ \A m : MonthPassed(m)' <=> MonthPassed(m)
      /\ \A d : DayReached(d)' <=> DayReached(d)
      /\ \A d, u : LinkAhead(d, u)' <=> LinkAhead(d, u)
      /\ \A n : PRPassed(n)' <=> PRPassed(n)
      /\ \A n : Queued(n)' <=> Queued(n)
  <2>1. \A c : Sought(c)' = Sought(c)
    BY <1>1 DEF Sought
  <2>2. token.chunk' = token.chunk
    BY <1>1
  <2>3. Sought(token.chunk)' = Sought(token.chunk)
    BY <1>1 DEF Sought
  <2>4. QED BY <1>1, <2>3 DEF MonthPassed, DayReached, LinkAhead, PRPassed, Queued, Walking, GhOver
<1>3. CreditsRead' /\ CreditsAsked' /\ ReportsRead' /\ PRsRead'
  BY <1>1, <1>2, MonthsStay, AskedStays, ReportsStay, PRsStay DEF GhInv
<1>4. SeatsRead'
  BY <1>1 DEF GhInv, SeatsRead, Still
<1>5. GhTokenOK'
  BY <1>1 DEF GhInv, GhTokenOK, dailyDays, PagesBefore
<1>6. GhShape(world)' /\ GhStored(stored)'
  BY <1>1, StoredStays DEF GhInv, GhShape
<1>7. QED BY <1>1, <1>3, <1>4, <1>5, <1>6 DEF GhInv

LEMMA GithubInductive == GithubIInv /\ [MCNext]_walkVars => GithubIInv'
<1> SUFFICES ASSUME GithubIInv, [MCNext]_walkVars, vendor' = "github" PROVE GhInv'
  BY DEF GithubIInv
<1>1. vendor' = vendor
  BY GithubStays, CursorStays, OpenAiStays, AnthropicStays, IssuesStay DEF MCNext, walkVars
<1>2. GhInv
  BY <1>1 DEF GithubIInv
<1>3. GhNext \/ UNCHANGED walkVars
  BY <1>1 DEF MCNext
<1>4. QED BY <1>2, <1>3, GhStarts, SeatsKeep, CreditsTotalKeeps, CreditsOfUserKeeps, DailyReportKeeps, DailyRowsKeep,
          SearchPageKeeps, PRDetailKeeps, PRCommitsKeep, GhMovesKeep, GhStutters DEF GhNext, GhPages

\* At every moment of a GitHub walk, what the token has passed is stored or
\* still in the token, unless it moved at the vendor (github.ts:797-1014).
THEOREM GithubInvariance == MCSpec => []GithubIInv
<1>1. MCInit => GithubIInv
  BY GhInitially DEF MCInit, GithubIInv, CuInit, OaInit, AnInit, IbInit
<1>2. GithubIInv /\ [MCNext]_walkVars => GithubIInv'
  BY GithubInductive
<1>3. QED BY <1>1, <1>2, PTL DEF MCSpec

\* Every finished walk has booked the dollars GitHub bills, whichever users
\* hold no seat, has counted every daily report, and has the outcome of every
\* merged pull request, credited to the tools of all its commits, whatever
\* else merged while the search was paged, for all rosters, bills, reports and
\* pull requests (github.ts:868-1014).
THEOREM GithubBooked == MCSpec => []GithubLedger
<1>1. GithubIInv => GithubLedger
  <2>1. SUFFICES ASSUME GithubIInv PROVE CreditsBalance /\ ReportsCounted /\ PRsCounted
    BY DEF GithubLedger
  <2>2. ASSUME vendor = "github", token = None, walks > 0
        PROVE  /\ GhInv
               /\ \A m : MonthPassed(m)
               /\ \A d : DayReached(d)
               /\ \A d, u : ~LinkAhead(d, u)
               /\ \A n : PRPassed(n) /\ (Queued(n) => n \in DOMAIN stored.outcomes)
    BY <2>1, <2>2 DEF GithubIInv, MonthPassed, DayReached, LinkAhead, PRPassed, Queued, GhOver, Walking
  <2>3. CreditsBalance
    <3>1. SUFFICES ASSUME Settled("github", {<<"roster", 0>>, <<"bill", 0>>}), NEW m \in 1 .. GhMonths
                   PROVE  /\ stored.totals[m] = OrgCents(m)
                          /\ OrgCents(m) # 0 => OrgCents(m) = SumOf(stored.facts[m], DOMAIN stored.facts[m] \cap Holders)
      BY DEF CreditsBalance, SumOf, Holders
    <3>2. Still("roster") /\ Still("bill")
      BY <3>1 DEF Settled, Still
    <3>3. MonthBooked(m)
      BY <2>2, <3>1, <3>2 DEF Settled, GhInv, CreditsRead
    <3>4. QED BY <3>3 DEF MonthBooked
  <2>4. ReportsCounted
    <3>1. SUFFICES ASSUME Settled("github", {<<"report", 0>>}), NEW d \in dailyDays .. GhDays, world.report[d] # None,
                          NEW u \in UNION ToSet(world.report[d])
                   PROVE  <<d, u>> \in stored.usage
      BY DEF ReportsCounted
    <3>2. Still("report")
      BY <3>1 DEF Settled, Still
    <3>3. QED BY <2>2, <3>1, <3>2 DEF Settled, GhInv, ReportsRead
  <2>5. PRsCounted
    <3>1. SUFFICES ASSUME Settled("github", {<<"gone", 0>>}), NEW n \in GhNumbers, world.pr[n] \in 1 .. GhChunks,
                          <<"pr", n>> \notin moved
                   PROVE  n \in DOMAIN stored.outcomes /\ OutcomeRight(n, stored)
      BY DEF PRsCounted, OutcomeRight
    <3>2. Still("gone")
      BY <3>1 DEF Settled, Still
    <3>3. n \in DOMAIN stored.outcomes
      BY <2>2, <3>1, <3>2 DEF Settled, GhInv, PRsRead
    <3>4. QED BY <2>2, <3>1, <3>3 DEF Settled, GhInv, GhStored
  <2>6. QED BY <2>3, <2>4, <2>5
<1>2. QED BY <1>1, GithubInvariance, PTL

-----------------------------------------------------------------------------
(***************************************************************************)
(* What a chunk serves, and how often it has been served.                  *)
(***************************************************************************)
\* pg is page n, after the place a and up to the place z
IsPage(pg, list, n, size, a, z) == pg = PageOf(list, n, size) /\ a = (n - 1) * size /\ z = n * size

LEMMA PagePlaces ==
  ASSUME NEW S, NEW list \in Seq(S), NEW n \in Nat \ {0}, NEW size \in Nat \ {0}, NEW a, NEW z, NEW pg,
         IsPage(pg, list, n, size, a, z), a <= Len(list)
  PROVE  /\ pg \in Seq(S) /\ a \in Nat /\ z \in Nat /\ a <= z /\ Len(pg) \in Nat
         /\ a + Len(pg) = IF z < Len(list) THEN z ELSE Len(list)
         /\ \A j \in 1 .. Len(pg) : pg[j] = list[a + j]
<1>0. pg = PageOf(list, n, size) /\ a = (n - 1) * size /\ z = n * size
  BY DEF IsPage
<1>1. PICK L, m, e : L = Len(list) /\ m = Min({z, L}) /\ e = a + 1
  OBVIOUS
<1>2. a \in Nat /\ z \in Nat /\ L \in Nat /\ DOMAIN list = 1 .. L /\ z = a + size
  <2>1. PICK k \in Nat : k = n - 1
    OBVIOUS
  <2>2. k * size + size = (k + 1) * size /\ k + 1 = n
    BY <2>1, OneMore
  <2>3. QED BY <1>0, <1>1, <2>1, <2>2, TimesNat, LenProperties
<1>3. m \in {z, L} /\ m <= z /\ m <= L
  BY <1>1, <1>2, MinIs
<1>4. pg = SubSeq(list, e, m)
  BY <1>0, <1>1 DEF PageOf
<1>5. /\ Len(pg) = IF e <= m THEN m - e + 1 ELSE 0
      /\ pg \in Seq(S) /\ \A i \in 1 .. m - e + 1 : pg[i] = list[e + i - 1]
  <2>1. \A i \in e .. m : list[i] \in S
    <3>1. \A i \in e .. m : i \in 1 .. L
      BY <1>1, <1>2, <1>3
    <3>2. QED BY <1>1, <3>1, ElementOfSeq
  <2>2. e \in Int /\ m \in Int
    BY <1>1, <1>2, <1>3
  <2>3. PICK q : q = SubSeq(list, e, m)
    OBVIOUS
  <2>4. /\ Len(q) = IF e <= m THEN m - e + 1 ELSE 0
        /\ q \in Seq(S) /\ \A i \in 1 .. m - e + 1 : q[i] = list[e + i - 1]
    BY <2>1, <2>2, <2>3, SubSeqProperties
  <2>5. QED BY <1>4, <2>3, <2>4
<1>6. a <= m /\ m \in Nat /\ m = IF z < L THEN z ELSE L
  BY <1>1, <1>2, <1>3
<1>7. Len(pg) = m - a
  BY <1>1, <1>2, <1>5, <1>6
<1>8. \A j \in 1 .. m - a : pg[j] = list[a + j]
  <2>1. \A j \in 1 .. m - a : j \in 1 .. m - e + 1 /\ e + j - 1 = a + j
    BY <1>1, <1>2, <1>6
  <2>2. QED BY <1>5, <2>1
<1>9. Len(pg) \in Nat /\ a + Len(pg) = m /\ a <= z
  BY <1>2, <1>6, <1>7
<1>10. \A j \in 1 .. Len(pg) : pg[j] = list[a + j]
  BY <1>7, <1>8
<1>11. QED BY <1>1, <1>2, <1>5, <1>6, <1>9, <1>10

Occurs(es, k, e) == Cardinality({i \in 1 .. k : es[i] = e})

LEMMA OccursStep ==
  ASSUME NEW es, NEW k \in Nat, NEW e
  PROVE  /\ Occurs(es, k, e) \in Nat /\ Occurs(es, 0, e) = 0
         /\ Occurs(es, k + 1, e) = IF es[k + 1] = e THEN Occurs(es, k, e) + 1 ELSE Occurs(es, k, e)
<1>1. PICK S, T : S = {i \in 1 .. k : es[i] = e} /\ T = {i \in 1 .. k + 1 : es[i] = e}
  OBVIOUS
<1>2. IsFiniteSet(S)
  <2>1. IsFiniteSet(1 .. k)
    BY FS_Interval
  <2>2. QED BY <1>1, <2>1, FS_Subset
<1>3. Cardinality(S) \in Nat
  BY <1>2, FS_CardinalityType
<1>4. T = IF es[k + 1] = e THEN S \cup {k + 1} ELSE S
  BY <1>1
<1>5. k + 1 \notin S
  BY <1>1
<1>6. Cardinality(S \cup {k + 1}) = Cardinality(S) + 1
  BY <1>2, <1>5, FS_AddElement
<1>7. Occurs(es, 0, e) = 0
  <2>1. {i \in 1 .. 0 : es[i] = e} = {}
    OBVIOUS
  <2>2. QED BY <2>1, FS_EmptySet DEF Occurs
<1>8. QED BY <1>1, <1>3, <1>4, <1>6, <1>7 DEF Occurs

LEMMA OccursRises ==
  ASSUME NEW es, NEW e, NEW i \in Nat, NEW k \in Nat, i <= k
  PROVE  Occurs(es, i, e) \in Nat /\ Occurs(es, k, e) \in Nat /\ Occurs(es, i, e) <= Occurs(es, k, e)
<1>1. PICK S, T : S = {x \in 1 .. i : es[x] = e} /\ T = {x \in 1 .. k : es[x] = e}
  OBVIOUS
<1>2. IsFiniteSet(T)
  <2>1. IsFiniteSet(1 .. k)
    BY FS_Interval
  <2>2. QED BY <1>1, <2>1, FS_Subset
<1>3. S \subseteq T
  BY <1>1
<1>4. Cardinality(S) <= Cardinality(T) /\ Cardinality(S) \in Nat /\ Cardinality(T) \in Nat
  BY <1>2, <1>3, FS_Subset, FS_CardinalityType
<1>5. QED BY <1>1, <1>4 DEF Occurs

\* the n-th one is somewhere
LEMMA OccursNth ==
  ASSUME NEW es, NEW e, NEW k \in Nat, NEW n \in 1 .. Occurs(es, k, e)
  PROVE  \E i \in 1 .. k : es[i] = e /\ Occurs(es, i, e) = n
<1>1. PICK S : S = {i \in 1 .. k : es[i] = e}
  OBVIOUS
<1>2. S \subseteq Nat /\ IsFiniteSet(S)
  <2>1. IsFiniteSet(1 .. k)
    BY FS_Interval
  <2>2. QED BY <1>1, <2>1, FS_Subset
<1>3. n \in 1 .. Cardinality(S)
  BY <1>1 DEF Occurs
<1>4. PICK L : L = InOrder(S)
  OBVIOUS
<1>5. /\ Cardinality(S) \in Nat /\ L \in Seq(S) /\ Len(L) = Cardinality(S)
      /\ \A x \in DOMAIN L : Rank(S, L[x]) = x
  BY <1>2, <1>4, InOrderIs
<1>6. n \in DOMAIN L /\ L[n] \in S
  BY <1>3, <1>5, ElementOfSeq, LenProperties
<1>7. PICK i \in S : Rank(S, i) = n
  BY <1>5, <1>6
<1>8. i \in 1 .. k /\ es[i] = e
  BY <1>1
<1>9. {x \in 1 .. i : es[x] = e} = Under(S, i) \cup {i}
  BY <1>1, <1>8 DEF Under
<1>10. i \notin Under(S, i) /\ Under(S, i) \subseteq S
  BY <1>8 DEF Under
<1>11. IsFiniteSet(Under(S, i))
  BY <1>2, <1>10, FS_Subset
<1>12. Cardinality(Under(S, i) \cup {i}) = Cardinality(Under(S, i)) + 1
  BY <1>10, <1>11, FS_AddElement
<1>13. QED BY <1>7, <1>8, <1>9, <1>12 DEF Occurs, Rank

LEMMA OccursSame ==
  ASSUME NEW es, NEW fs, NEW k, \A i \in 1 .. k : es[i] = fs[i], NEW e
  PROVE  Occurs(es, k, e) = Occurs(fs, k, e)
<1>1. {i \in 1 .. k : es[i] = e} = {i \in 1 .. k : fs[i] = e}
  OBVIOUS
<1>2. QED BY <1>1 DEF Occurs

\* es is what the events of chunk c are served as: the L ones after place a
ServedAt(events, newest, c, es, a, L) ==
  /\ es \in Seq(CuUsage) /\ Len(es) = L /\ a + L <= Len(events)
  /\ \A i \in DOMAIN events : events[i].ts \div 10 = c <=> a < i /\ i <= a + L
  /\ \A j \in 1 .. L : es[j] = events[IF newest THEN a + L + 1 - j ELSE a + j]

LEMMA ReverseIs ==
  ASSUME NEW S, NEW list \in Seq(S), NEW L, L = Len(list)
  PROVE  /\ L \in Nat /\ Reverse(list) \in Seq(S) /\ Len(Reverse(list)) = L
         /\ \A j \in 1 .. L : Reverse(list)[j] = list[L + 1 - j]
<1>1. L \in Nat
  BY LenProperties
<1>2. Reverse(list) = [i \in 1 .. L |-> list[(L - i) + 1]]
  BY DEF Reverse
<1>3. \A i \in 1 .. L : (L - i) + 1 \in 1 .. L /\ (L - i) + 1 = L + 1 - i
  BY <1>1
<1>4. \A i \in 1 .. L : list[(L - i) + 1] \in S
  BY <1>1, <1>3, ElementOfSeq
<1>5. Reverse(list) \in [1 .. L -> S]
  BY <1>2, <1>4
<1>6. Reverse(list) \in Seq(S) /\ Len(Reverse(list)) = L
  BY <1>1, <1>5
<1>7. QED BY <1>1, <1>2, <1>3, <1>6

\* es is what is served of a chunk of these events
IsServed(events, newest, chunk, es) ==
  LET P == {i \in DOMAIN events : events[i].ts \div 10 = chunk}
      fs == IF P = {} THEN <<>> ELSE SubSeq(events, Min(P), Max(P)) IN
  es = IF newest THEN Reverse(fs) ELSE fs

LEMMA ChunkIsServed ==
  ASSUME NEW events \in Seq(CuUsage), InTime(events), NEW newest, NEW c, NEW es, IsServed(events, newest, c, es)
  PROVE  \E a \in Nat, L \in Nat : ServedAt(events, newest, c, es, a, L)
<1>1. PICK N \in Nat : N = Len(events) /\ DOMAIN events = 1 .. N
  BY LenProperties
<1>2. PICK P : P = {i \in DOMAIN events : events[i].ts \div 10 = c}
  OBVIOUS
<1>3. \A i \in 1 .. N : events[i] \in CuUsage /\ events[i].ts \in Nat
  <2>1. \A i \in 1 .. N : events[i] \in CuUsage
    BY <1>1, ElementOfSeq
  <2>2. QED BY <2>1 DEF CuUsage, CuInstants
<1>4. PICK fs : fs = IF P = {} THEN <<>> ELSE SubSeq(events, Min(P), Max(P))
  OBVIOUS
<1>5. es = IF newest THEN Reverse(fs) ELSE fs
  BY <1>2, <1>4 DEF IsServed
<1>6. PICK a \in Nat, L \in Nat :
         /\ fs \in Seq(CuUsage) /\ Len(fs) = L /\ a + L <= N
         /\ \A i \in DOMAIN events : events[i].ts \div 10 = c <=> a < i /\ i <= a + L
         /\ \A j \in 1 .. L : fs[j] = events[a + j]
  <2>1. CASE P = {}
    <3>1. fs \in Seq(CuUsage) /\ Len(fs) = 0
      BY <1>4, <2>1
    <3>2. \A i \in DOMAIN events : ~(events[i].ts \div 10 = c)
      BY <1>2, <2>1
    <3>3. PICK o \in Nat : o = 0
      OBVIOUS
    <3>4. /\ \A i \in DOMAIN events : events[i].ts \div 10 = c <=> o < i /\ i <= o + o
          /\ o + o <= N /\ \A j \in 1 .. o : FALSE
      BY <1>1, <3>2, <3>3
    <3>5. QED BY <3>1, <3>3, <3>4
  <2>2. CASE P # {}
    <3>1. PICK lo, hi : lo = Min(P) /\ hi = Max(P)
      OBVIOUS
    <3>2. P \subseteq Nat /\ P \subseteq 0 .. N
      BY <1>1, <1>2
    <3>3. lo \in P /\ \A i \in P : lo <= i
      BY <2>2, <3>1, <3>2, MinIs
    <3>4. hi \in P /\ \A i \in P : hi >= i
      BY <2>2, <3>1, <3>2, MaxIs
    <3>5. lo \in 1 .. N /\ hi \in 1 .. N /\ lo <= hi /\ events[lo].ts \div 10 = c /\ events[hi].ts \div 10 = c
      BY <1>1, <1>2, <3>3, <3>4
    <3>6. ASSUME NEW i \in 1 .. N PROVE events[i].ts \div 10 = c <=> lo <= i /\ i <= hi
      <4>1. ASSUME lo <= i, i <= hi PROVE events[i].ts \div 10 = c
        <5>1. events[lo].ts <= events[i].ts
          <6>1. lo = i \/ lo < i
            BY <3>5, <4>1
          <6>2. lo < i => events[lo].ts <= events[i].ts
            BY <1>1, <3>5 DEF InTime
          <6>3. events[lo].ts \in Nat
            BY <1>3, <3>5
          <6>4. QED BY <6>1, <6>2, <6>3
        <5>2. events[i].ts <= events[hi].ts
          <6>1. hi = i \/ i < hi
            BY <3>5, <4>1
          <6>2. i < hi => events[i].ts <= events[hi].ts
            BY <1>1, <3>5 DEF InTime
          <6>3. events[hi].ts \in Nat
            BY <1>3, <3>5
          <6>4. QED BY <6>1, <6>2, <6>3
        <5>3. PICK x \in Nat, y \in Nat, v \in Nat : x = events[lo].ts /\ y = events[i].ts /\ v = events[hi].ts
          BY <1>3, <3>5
        <5>4. x <= y /\ y <= v /\ x \div 10 = c /\ v \div 10 = c
          BY <3>5, <5>1, <5>2, <5>3
        <5>5. y \div 10 = c
          BY <5>4
        <5>6. QED BY <5>3, <5>5
      <4>2. ASSUME events[i].ts \div 10 = c PROVE lo <= i /\ i <= hi
        <5>1. i \in P
          BY <1>1, <1>2, <4>2
        <5>2. hi >= i /\ hi \in Int
          BY <3>4, <3>5, <5>1
        <5>3. QED BY <3>3, <5>1, <5>2
      <4>3. QED BY <4>1, <4>2
    <3>7. PICK b \in Nat, M \in Nat : b = lo - 1 /\ M = hi - lo + 1
      BY <3>5
    <3>8. fs = SubSeq(events, lo, hi)
      BY <1>4, <2>2, <3>1
    <3>9. fs \in Seq(CuUsage) /\ Len(fs) = M /\ \A j \in 1 .. M : fs[j] = events[lo + j - 1]
      <4>1. \A i \in lo .. hi : events[i] \in CuUsage
        BY <1>3, <3>5
      <4>2. lo \in Int /\ hi \in Int
        BY <3>5
      <4>3. /\ fs \in Seq(CuUsage) /\ Len(fs) = IF lo <= hi THEN hi - lo + 1 ELSE 0
            /\ \A j \in 1 .. hi - lo + 1 : fs[j] = events[lo + j - 1]
        BY <3>8, <4>1, <4>2, SubSeqProperties
      <4>4. QED BY <3>5, <3>7, <4>3
    <3>10. \A i \in DOMAIN events : events[i].ts \div 10 = c <=> b < i /\ i <= b + M
      <4>1. \A i \in 1 .. N : (b < i /\ i <= b + M) <=> (lo <= i /\ i <= hi)
        BY <3>5, <3>7
      <4>2. QED BY <1>1, <3>6, <4>1
    <3>11. b + M <= N /\ \A j \in 1 .. M : lo + j - 1 = b + j
      BY <3>5, <3>7
    <3>12. \A j \in 1 .. M : fs[j] = events[b + j]
      BY <3>9, <3>11
    <3>13. QED BY <3>9, <3>10, <3>11, <3>12
  <2>3. QED BY <2>1, <2>2
<1>7. CASE ~newest
  BY <1>1, <1>5, <1>6, <1>7 DEF ServedAt
<1>8. CASE newest
  <2>1. PICK rs : rs = Reverse(fs)
    OBVIOUS
  <2>2. rs \in Seq(CuUsage) /\ Len(rs) = L /\ \A j \in 1 .. L : rs[j] = fs[L + 1 - j]
    <3>1. fs \in Seq(CuUsage) /\ L = Len(fs)
      BY <1>6
    <3>2. /\ Reverse(fs) \in Seq(CuUsage) /\ Len(Reverse(fs)) = L
          /\ \A j \in 1 .. L : Reverse(fs)[j] = fs[L + 1 - j]
      BY <3>1, ReverseIs
    <3>3. QED BY <2>1, <3>2
  <2>3. \A j \in 1 .. L : L + 1 - j \in 1 .. L /\ a + (L + 1 - j) = a + L + 1 - j
    OBVIOUS
  <2>4. \A j \in 1 .. L : rs[j] = events[a + L + 1 - j]
    BY <1>6, <2>2, <2>3
  <2>5. es = rs /\ a + L <= Len(events)
    BY <1>1, <1>5, <1>6, <1>8, <2>1
  <2>6. \A j \in 1 .. L : es[j] = events[IF newest THEN a + L + 1 - j ELSE a + j]
    BY <1>8, <2>4, <2>5
  <2>7. ServedAt(events, newest, c, es, a, L)
    BY <1>6, <2>2, <2>5, <2>6 DEF ServedAt
  <2>8. QED BY <2>7
<1>9. QED BY <1>7, <1>8

LEMMA ChunkServed ==
  ASSUME NEW events, events = world.events, events \in Seq(CuUsage), InTime(events), NEW c, NEW es, es = Served(c)
  PROVE  \E a \in Nat, L \in Nat : ServedAt(events, world.newest, c, es, a, L)
<1>1. PICK newest : newest = world.newest
  OBVIOUS
<1>2. IsServed(events, newest, c, es)
  BY <1>1 DEF IsServed, Served
<1>3. QED BY <1>1, <1>2, ChunkIsServed

ServedInOrder(es, newest) ==
  \A i, k \in DOMAIN es : i < k => IF newest THEN es[k].ts <= es[i].ts ELSE es[i].ts <= es[k].ts

ServesAll(events, c, es, L) ==
  /\ \A j \in 1 .. L : es[j] \in ToSet(events) /\ es[j].ts \div 10 = c
  /\ \A e : e.ts \div 10 = c => Occurs(es, L, e) = Cardinality({i \in DOMAIN events : events[i] = e})

\* a chunk's events are all there, in order, each as often as it happened
LEMMA ServedAll ==
  ASSUME NEW events \in Seq(CuUsage), InTime(events), NEW newest \in BOOLEAN, NEW c, NEW es, NEW a \in Nat, NEW L \in Nat,
         ServedAt(events, newest, c, es, a, L)
  PROVE  ServedInOrder(es, newest) /\ ServesAll(events, c, es, L)
<1>1. PICK N \in Nat : N = Len(events) /\ DOMAIN events = 1 .. N
  BY LenProperties
<1>2. PICK f : f = [j \in 1 .. L |-> IF newest THEN a + L + 1 - j ELSE a + j]
  OBVIOUS
<1>3. a + L <= N /\ DOMAIN es = 1 .. L
  BY <1>1, LenProperties DEF ServedAt
<1>4. /\ \A j \in 1 .. L : f[j] \in 1 .. N /\ a < f[j] /\ f[j] <= a + L
      /\ \A i, j \in 1 .. L : i < j => IF newest THEN f[j] < f[i] ELSE f[i] < f[j]
      /\ \A i, j \in 1 .. L : f[i] = f[j] => i = j
      /\ \A k \in 1 .. N : a < k /\ k <= a + L => \E j \in 1 .. L : f[j] = k
  <2>1. CASE newest
    <3>1. \A j \in 1 .. L : f[j] = a + L + 1 - j
      BY <1>2, <2>1
    <3>2. \A k \in 1 .. N : a < k /\ k <= a + L => a + L + 1 - k \in 1 .. L /\ a + L + 1 - (a + L + 1 - k) = k
      BY <1>3
    <3>3. ASSUME NEW k \in 1 .. N, a < k, k <= a + L PROVE \E j \in 1 .. L : f[j] = k
      <4>1. PICK j \in 1 .. L : j = a + L + 1 - k
        BY <3>2, <3>3
      <4>2. f[j] = k
        BY <3>1, <3>2, <3>3, <4>1
      <4>3. QED BY <4>2
    <3>4. QED BY <1>3, <2>1, <3>1, <3>3
  <2>2. CASE ~newest
    <3>1. \A j \in 1 .. L : f[j] = a + j
      BY <1>2, <2>2
    <3>2. \A k \in 1 .. N : a < k /\ k <= a + L => k - a \in 1 .. L /\ a + (k - a) = k
      BY <1>3
    <3>3. ASSUME NEW k \in 1 .. N, a < k, k <= a + L PROVE \E j \in 1 .. L : f[j] = k
      <4>1. PICK j \in 1 .. L : j = k - a
        BY <3>2, <3>3
      <4>2. f[j] = k
        BY <3>1, <3>2, <3>3, <4>1
      <4>3. QED BY <4>2
    <3>4. QED BY <1>3, <2>2, <3>1, <3>3
  <2>3. QED BY <2>1, <2>2
<1>5. \A j \in 1 .. L : es[j] = events[f[j]]
  BY <1>2 DEF ServedAt
<1>6. \A i \in 1 .. N : events[i].ts \div 10 = c <=> a < i /\ i <= a + L
  BY <1>1 DEF ServedAt
<1>7. \A j \in 1 .. L : es[j] \in ToSet(events) /\ es[j].ts \div 10 = c
  <2>1. TAKE j \in 1 .. L
  <2>2. PICK k \in 1 .. N : k = f[j] /\ a < k /\ k <= a + L
    BY <1>4
  <2>3. es[j] = events[k] /\ events[k].ts \div 10 = c
    BY <1>5, <1>6, <2>2
  <2>4. events[k] \in ToSet(events)
    BY <1>1 DEF ToSet
  <2>5. QED BY <2>3, <2>4
<1>8. ServedInOrder(es, newest)
  <2>1. ASSUME NEW i \in 1 .. L, NEW k \in 1 .. L, i < k
        PROVE  IF newest THEN es[k].ts <= es[i].ts ELSE es[i].ts <= es[k].ts
    <3>1. PICK p, q : p = f[i] /\ q = f[k]
      OBVIOUS
    <3>2. p \in DOMAIN events /\ q \in DOMAIN events /\ es[i] = events[p] /\ es[k] = events[q]
      BY <1>1, <1>4, <1>5, <3>1
    <3>3. IF newest THEN q < p ELSE p < q
      BY <1>4, <2>1, <3>1
    <3>4. (p < q => events[p].ts <= events[q].ts) /\ (q < p => events[q].ts <= events[p].ts)
      BY <3>2 DEF InTime
    <3>5. QED BY <3>2, <3>3, <3>4
  <2>2. QED BY <1>3, <2>1 DEF ServedInOrder
<1>9. ASSUME NEW e, e.ts \div 10 = c
      PROVE  Occurs(es, L, e) = Cardinality({i \in DOMAIN events : events[i] = e})
  <2>1. PICK S, T : S = {j \in 1 .. L : es[j] = e} /\ T = {i \in 1 .. N : events[i] = e}
    OBVIOUS
  <2>2. PICK g : g = [j \in S |-> f[j]]
    OBVIOUS
  <2>3. g \in [S -> T]
    BY <1>4, <1>5, <2>1, <2>2
  <2>4. \A i, j \in S : g[i] = g[j] => i = j
    BY <1>4, <2>1, <2>2
  <2>5. \A t \in T : \E j \in S : g[j] = t
    <3>1. TAKE t \in T
    <3>2. a < t /\ t <= a + L /\ t \in 1 .. N /\ events[t] = e
      BY <1>6, <1>9, <2>1
    <3>3. PICK j \in 1 .. L : f[j] = t
      BY <1>4, <3>2
    <3>4. QED BY <1>5, <2>1, <2>2, <3>2, <3>3
  <2>6. g \in Bijection(S, T)
    BY <2>3, <2>4, <2>5 DEF Bijection, Injection, Surjection, IsInjective
  <2>7. IsFiniteSet(S)
    <3>1. IsFiniteSet(1 .. L)
      BY FS_Interval
    <3>2. QED BY <2>1, <3>1, FS_Subset
  <2>8. Cardinality(S) = Cardinality(T)
    BY <2>6, <2>7, FS_Bijection DEF ExistsBijection
  <2>9. QED BY <1>1, <2>1, <2>8 DEF Occurs
<1>10. QED BY <1>7, <1>8, <1>9 DEF ServesAll

-----------------------------------------------------------------------------
(***************************************************************************)
(* The facts of a page of events.                                          *)
(***************************************************************************)
ChargeOf(ts, who) == [ts |-> ts, who |-> who, charged |-> TRUE]
FactKey(es, i) == <<es[i].ts, es[i].who, Occurs(es, i, es[i])>>

\* the keys of the charges like e
KeysOf(e) ==
  {<<e.ts, e.who, n>> : n \in 1 .. Cardinality({i \in DOMAIN world.events : world.events[i] = e})}

LEMMA DeservedIs ==
  ASSUME world.events \in Seq(CuUsage), InTime(world.events), world.newest \in BOOLEAN, NEW k
  PROVE  k \in Deserved <=>
           \E c \in 1 .. CuChunks : \E i \in 1 .. Len(Served(c)) : Served(c)[i].charged /\ k = FactKey(Served(c), i)
<1>1. PICK events, newest : events = world.events /\ newest = world.newest
  OBVIOUS
<1>8. events \in Seq(CuUsage) /\ InTime(events) /\ newest \in BOOLEAN
  BY <1>1
<1>2. k \in Deserved <=> \E e \in ToSet(events) : /\ e.charged
                            /\ \E n \in 1 .. Cardinality({i \in DOMAIN events : events[i] = e}) : k = <<e.ts, e.who, n>>
  <2>1. Deserved = UNION {KeysOf(e) : e \in {x \in ToSet(world.events) : x.charged}}
    BY DEF Deserved, KeysOf
  <2>2. k \in Deserved <=> \E e \in ToSet(world.events) : e.charged /\ k \in KeysOf(e)
    BY <2>1
  <2>3. \A e : k \in KeysOf(e) <=> \E n \in 1 .. Cardinality({i \in DOMAIN world.events : world.events[i] = e}) :
                                    k = <<e.ts, e.who, n>>
    BY DEF KeysOf
  <2>4. QED BY <1>1, <2>2, <2>3
<1>3. \A e \in ToSet(events) : e \in CuUsage /\ e.ts \div 10 \in 1 .. CuChunks
  <2>1. \A i \in DOMAIN events : events[i] \in CuUsage
    BY <1>1, ElementOfSeq, LenProperties
  <2>2. QED BY <2>1 DEF ToSet, CuUsage, CuInstants
<1>4. ASSUME NEW c, NEW es, es = Served(c)
      PROVE  /\ Len(es) \in Nat
             /\ \A j \in 1 .. Len(es) : es[j] \in ToSet(events) /\ es[j].ts \div 10 = c
             /\ \A e : e.ts \div 10 = c => Occurs(es, Len(es), e) = Cardinality({i \in DOMAIN events : events[i] = e})
  <2>1. PICK a \in Nat, L \in Nat : ServedAt(events, newest, c, es, a, L)
    BY <1>1, <1>4, ChunkServed
  <2>2. Len(es) = L
    BY <2>1 DEF ServedAt
  <2>3. ServesAll(events, c, es, L)
    BY <1>8, <2>1, ServedAll
  <2>4. QED BY <2>2, <2>3 DEF ServesAll
<1>5. ASSUME NEW e \in ToSet(events), e.charged,
             NEW n \in 1 .. Cardinality({i \in DOMAIN events : events[i] = e}), k = <<e.ts, e.who, n>>
      PROVE  \E c \in 1 .. CuChunks : \E i \in 1 .. Len(Served(c)) : Served(c)[i].charged /\ k = FactKey(Served(c), i)
  <2>1. PICK c, es : c = e.ts \div 10 /\ es = Served(c)
    OBVIOUS
  <2>2. c \in 1 .. CuChunks /\ Len(es) \in Nat /\ n \in 1 .. Occurs(es, Len(es), e)
    BY <1>3, <1>4, <2>1
  <2>3. PICK i \in 1 .. Len(es) : es[i] = e /\ Occurs(es, i, e) = n
    BY <2>2, OccursNth
  <2>4. es[i].charged /\ k = FactKey(es, i)
    BY <1>5, <2>3 DEF FactKey
  <2>5. QED BY <2>1, <2>2, <2>4
<1>6. ASSUME NEW c \in 1 .. CuChunks, NEW i \in 1 .. Len(Served(c)), Served(c)[i].charged, k = FactKey(Served(c), i)
      PROVE  \E e \in ToSet(events) : /\ e.charged
                /\ \E n \in 1 .. Cardinality({j \in DOMAIN events : events[j] = e}) : k = <<e.ts, e.who, n>>
  <2>1. PICK es, e, n : es = Served(c) /\ e = es[i] /\ n = Occurs(es, i, e)
    OBVIOUS
  <2>2. PICK L \in Nat : L = Len(es)
    BY <1>4, <2>1
  <2>3. e \in ToSet(events) /\ e.charged /\ k = <<e.ts, e.who, n>>
        /\ Occurs(es, L, e) = Cardinality({j \in DOMAIN events : events[j] = e})
    BY <1>4, <1>6, <2>1, <2>2 DEF FactKey
  <2>4. PICK h \in Nat : h = i - 1 /\ i = h + 1
    BY <2>1, <2>2
  <2>5. Occurs(es, h + 1, e) = Occurs(es, h, e) + 1 /\ Occurs(es, h, e) \in Nat
    <3>1. es[h + 1] = e
      BY <2>1, <2>4
    <3>2. QED BY <3>1, OccursStep
  <2>6. n \in Nat /\ n >= 1
    BY <2>1, <2>4, <2>5
  <2>7. Occurs(es, i, e) <= Occurs(es, L, e) /\ Occurs(es, L, e) \in Nat
    BY <2>1, <2>2, OccursRises
  <2>8. n \in 1 .. Occurs(es, L, e)
    BY <2>1, <2>6, <2>7
  <2>9. QED BY <2>3, <2>8
<1>7. QED BY <1>2, <1>5, <1>6

Counters == [ts : Nat, n : Tables(CuEmails, Nat)]
\* how often a charge has been counted, as far as the counts remember
Num(c, ts, who) == IF ts = c.ts /\ who \in DOMAIN c.n THEN c.n[who] ELSE 0
\* an instant that may still come after k events
MayCome(es, k, ts, newest) == \A i \in 1 .. k : IF newest THEN ts <= es[i].ts ELSE es[i].ts <= ts
Tally(c, es, k, newest) ==
  \A ts \in Nat, who \in CuEmails : MayCome(es, k, ts, newest) => Num(c, ts, who) = Occurs(es, k, ChargeOf(ts, who))
Batch(b, members) ==
  /\ b = [counts |-> b.counts, facts |-> b.facts] /\ b.counts \in Counters
  /\ \A x \in DOMAIN b.facts : b.facts[x] = Spender(x[2], members)

\* the counts once e is booked
Recount(b, e) ==
  LET c == IF e.ts # b.counts.ts THEN [ts |-> e.ts, n |-> NoRows] ELSE b.counts IN
  [ts |-> e.ts, n |-> Upsert(c.n, Row(e.who, 1 + Num(b.counts, e.ts, e.who)))]

LEMMA NoRowsIs == DOMAIN NoRows = {} /\ \A K, R : NoRows \in Tables(K, R)
<1>1. DOMAIN NoRows = {}
  BY DEF NoRows
<1>2. ASSUME NEW K, NEW R PROVE NoRows \in Tables(K, R)
  <2>1. NoRows \in [{} -> R] /\ {} \in SUBSET K
    BY <1>1 DEF NoRows
  <2>2. QED BY <2>1, Zenon DEF Tables
<1>3. QED BY <1>1, <1>2

LEMMA BookOneIs ==
  ASSUME NEW b, NEW members, Batch(b, members), NEW e \in CuUsage
  PROVE  LET r == BookOne(b, e, members) IN
         IF e.charged
           THEN r = [counts |-> Recount(b, e),
                     facts |-> Upsert(b.facts, Row(<<e.ts, e.who, 1 + Num(b.counts, e.ts, e.who)>>, Spender(e.who, members)))]
           ELSE r = b
<1>1. CASE ~e.charged
  BY <1>1 DEF BookOne
<1>2. CASE e.charged
  <2>1. PICK c : c = IF e.ts # b.counts.ts THEN [ts |-> e.ts, n |-> NoRows] ELSE b.counts
    OBVIOUS
  <2>2. PICK n : n = 1 + (IF e.who \in DOMAIN c.n THEN c.n[e.who] ELSE 0)
    OBVIOUS
  <2>3. BookOne(b, e, members) = [counts |-> [ts |-> c.ts, n |-> Upsert(c.n, Row(e.who, n))],
                                  facts |-> Upsert(b.facts, Row(<<e.ts, e.who, n>>, Spender(e.who, members)))]
    BY <1>2, <2>1, <2>2 DEF BookOne
  <2>4. c.ts = e.ts /\ n = 1 + Num(b.counts, e.ts, e.who)
    BY <2>1, <2>2, NoRowsIs DEF Num
  <2>5. QED BY <1>2, <2>1, <2>3, <2>4 DEF Recount
<1>3. QED BY <1>1, <1>2

LEMMA RecountIs ==
  ASSUME NEW b, NEW members, Batch(b, members), NEW e \in CuUsage
  PROVE  /\ Recount(b, e) \in Counters /\ Num(b.counts, e.ts, e.who) \in Nat
         /\ \A ts, who : Num(Recount(b, e), ts, who) =
              IF ts # e.ts THEN 0
              ELSE IF who = e.who THEN 1 + Num(b.counts, e.ts, e.who) ELSE Num(b.counts, ts, who)
<1>1. b.counts \in Counters
  BY DEF Batch
<1>2. PICK c : c = IF e.ts # b.counts.ts THEN [ts |-> e.ts, n |-> NoRows] ELSE b.counts
  OBVIOUS
<1>3. e.ts \in Nat /\ e.who \in CuEmails
  BY DEF CuUsage, CuInstants
<1>4. c.n \in Tables(CuEmails, Nat) /\ b.counts.n \in Tables(CuEmails, Nat)
  BY <1>1, <1>2, NoRowsIs DEF Counters
<1>5. PICK x : x = Num(b.counts, e.ts, e.who)
  OBVIOUS
<1>6. x \in Nat
  <2>1. \A k \in DOMAIN b.counts.n : b.counts.n[k] \in Nat
    BY <1>4, Zenon DEF Tables
  <2>2. QED BY <1>5, <2>1 DEF Num
<1>7. PICK y, row, t : y = 1 + x /\ row = Row(e.who, y) /\ t = Upsert(c.n, row)
  OBVIOUS
<1>8. row \in Tables(CuEmails, Nat) /\ y \in Nat
  <2>1. y \in Nat
    BY <1>6, <1>7
  <2>2. QED BY <1>3, <1>7, <2>1, RowIn
<1>9. t \in Tables(CuEmails, Nat)
  BY <1>4, <1>7, <1>8, TablesUpsert
<1>10. Recount(b, e) = [ts |-> e.ts, n |-> t]
  BY <1>2, <1>5, <1>7 DEF Recount
<1>11. Recount(b, e) \in Counters
  BY <1>3, <1>9, <1>10 DEF Counters
<1>12. DOMAIN t = DOMAIN c.n \cup {e.who} /\ t[e.who] = y /\ \A k \in DOMAIN c.n : k # e.who => t[k] = c.n[k]
  BY <1>7 DEF Upsert, Row
<1>13. ASSUME NEW ts, NEW who
       PROVE  Num(Recount(b, e), ts, who) =
                IF ts # e.ts THEN 0 ELSE IF who = e.who THEN y ELSE Num(b.counts, ts, who)
  <2>1. PICK R : R = Recount(b, e)
    OBVIOUS
  <2>2. R.ts = e.ts /\ R.n = t
    BY <1>10, <2>1
  <2>3. Num(R, ts, who) = IF ts = e.ts /\ who \in DOMAIN t THEN t[who] ELSE 0
    BY <2>2 DEF Num
  <2>4. Num(b.counts, ts, who) = IF ts = b.counts.ts /\ who \in DOMAIN b.counts.n THEN b.counts.n[who] ELSE 0
    BY DEF Num
  <2>5. CASE ts # e.ts
    BY <2>1, <2>3, <2>5
  <2>6. CASE ts = e.ts /\ who = e.who
    BY <1>12, <2>1, <2>3, <2>6
  <2>7. CASE ts = e.ts /\ who # e.who
    <3>1. CASE e.ts # b.counts.ts
      BY <1>2, <1>12, <2>1, <2>3, <2>4, <2>7, <3>1, NoRowsIs
    <3>2. CASE e.ts = b.counts.ts
      BY <1>2, <1>12, <2>1, <2>3, <2>4, <2>7, <3>2
    <3>3. QED BY <3>1, <3>2
  <2>8. QED BY <2>5, <2>6, <2>7
<1>14. QED BY <1>5, <1>6, <1>7, <1>11, <1>13

LEMMA BookOneKeeps ==
  ASSUME NEW b, NEW members, Batch(b, members), NEW e \in CuUsage
  PROVE  Batch(BookOne(b, e, members), members)
<1>1. PICK r, f : /\ r = BookOne(b, e, members)
                  /\ f = Upsert(b.facts, Row(<<e.ts, e.who, 1 + Num(b.counts, e.ts, e.who)>>, Spender(e.who, members)))
  OBVIOUS
<1>2. IF e.charged THEN r = [counts |-> Recount(b, e), facts |-> f] ELSE r = b
  BY <1>1, BookOneIs
<1>3. Recount(b, e) \in Counters
  BY RecountIs
<1>4. \A x \in DOMAIN f : f[x] = Spender(x[2], members)
  BY <1>1 DEF Batch, Upsert, Row
<1>5. QED BY <1>1, <1>2, <1>3, <1>4 DEF Batch

\* one more event booked
LEMMA BookOneCounts ==
  ASSUME NEW b, NEW members, Batch(b, members), NEW es \in Seq(CuUsage), NEW newest \in BOOLEAN,
         ServedInOrder(es, newest), NEW k \in Nat, k < Len(es), Tally(b.counts, es, k, newest),
         NEW r, r = BookOne(b, es[k + 1], members)
  PROVE  /\ Tally(r.counts, es, k + 1, newest)
         /\ DOMAIN r.facts = DOMAIN b.facts \cup (IF es[k + 1].charged THEN {FactKey(es, k + 1)} ELSE {})
<1>1. PICK e : e = es[k + 1]
  OBVIOUS
<1>2. Len(es) \in Nat /\ DOMAIN es = 1 .. Len(es)
  BY LenProperties
<1>3. e \in CuUsage
  <2>1. k + 1 \in 1 .. Len(es)
    BY <1>2
  <2>2. QED BY <1>1, <2>1, ElementOfSeq
<1>4. /\ e.ts \in Nat /\ e.who \in CuEmails /\ e.charged \in BOOLEAN
      /\ e = [ts |-> e.ts, who |-> e.who, charged |-> e.charged]
  BY <1>3 DEF CuUsage, CuInstants
<1>5. /\ \A i \in 1 .. k : es[i] \in CuUsage /\ es[i].ts \in Nat
      /\ \A i \in 1 .. k : IF newest THEN e.ts <= es[i].ts ELSE es[i].ts <= e.ts
  <2>1. \A i \in 1 .. k : i \in 1 .. Len(es) /\ i < k + 1 /\ k + 1 \in 1 .. Len(es)
    BY <1>2
  <2>2. \A i \in 1 .. k : es[i] \in CuUsage
    BY <2>1, ElementOfSeq
  <2>3. QED BY <1>1, <1>2, <2>1, <2>2 DEF ServedInOrder, CuUsage, CuInstants
<1>6. \A ts, who : e = ChargeOf(ts, who) <=> e.charged /\ ts = e.ts /\ who = e.who
  BY <1>4 DEF ChargeOf
<1>7. ASSUME NEW c
      PROVE  /\ Occurs(es, k, c) \in Nat
             /\ Occurs(es, k + 1, c) = IF e = c THEN Occurs(es, k, c) + 1 ELSE Occurs(es, k, c)
  BY <1>1, OccursStep
<1>8. \A ts : MayCome(es, k + 1, ts, newest) => MayCome(es, k, ts, newest) /\ (IF newest THEN ts <= e.ts ELSE e.ts <= ts)
  BY <1>1 DEF MayCome
<1>9. CASE ~e.charged
  <2>1. r = b
    BY <1>1, <1>3, <1>9, BookOneIs
  <2>2. ASSUME NEW ts \in Nat, NEW who \in CuEmails, MayCome(es, k + 1, ts, newest)
        PROVE  Num(b.counts, ts, who) = Occurs(es, k + 1, ChargeOf(ts, who))
    <3>1. Num(b.counts, ts, who) = Occurs(es, k, ChargeOf(ts, who))
      BY <1>8, <2>2 DEF Tally
    <3>2. e # ChargeOf(ts, who)
      BY <1>6, <1>9
    <3>3. QED BY <1>7, <3>1, <3>2
  <2>3. QED BY <1>1, <1>9, <2>1, <2>2 DEF Tally
<1>10. CASE e.charged
  <2>1. e = ChargeOf(e.ts, e.who)
    BY <1>6, <1>10
  <2>2. Num(b.counts, e.ts, e.who) = Occurs(es, k, e)
    <3>1. MayCome(es, k, e.ts, newest)
      BY <1>5 DEF MayCome
    <3>2. QED BY <1>4, <2>1, <3>1 DEF Tally
  <2>3. Occurs(es, k + 1, e) = 1 + Num(b.counts, e.ts, e.who) /\ Num(b.counts, e.ts, e.who) \in Nat
    BY <1>7, <2>2
  <2>4. /\ r.counts = Recount(b, e)
        /\ r.facts = Upsert(b.facts, Row(<<e.ts, e.who, 1 + Num(b.counts, e.ts, e.who)>>, Spender(e.who, members)))
    BY <1>1, <1>3, <1>10, BookOneIs
  <2>5. FactKey(es, k + 1) = <<e.ts, e.who, 1 + Num(b.counts, e.ts, e.who)>>
    BY <1>1, <2>3 DEF FactKey
  <2>6. DOMAIN r.facts = DOMAIN b.facts \cup {FactKey(es, k + 1)}
    BY <2>4, <2>5 DEF Upsert, Row
  <2>7. ASSUME NEW ts \in Nat, NEW who \in CuEmails, MayCome(es, k + 1, ts, newest)
        PROVE  Num(r.counts, ts, who) = Occurs(es, k + 1, ChargeOf(ts, who))
    <3>1. Num(r.counts, ts, who) =
            IF ts # e.ts THEN 0
            ELSE IF who = e.who THEN 1 + Num(b.counts, e.ts, e.who) ELSE Num(b.counts, ts, who)
      BY <1>3, <2>4, RecountIs
    <3>2. CASE ts # e.ts
      <4>1. \A i \in 1 .. k + 1 : es[i] # ChargeOf(ts, who)
        <5>1. ASSUME NEW i \in 1 .. k + 1, es[i].ts = ts PROVE FALSE
          <6>1. CASE i = k + 1
            BY <1>1, <3>2, <5>1, <6>1
          <6>2. CASE i \in 1 .. k
            BY <1>4, <1>5, <1>8, <2>7, <3>2, <5>1, <6>2
          <6>3. QED BY <5>1, <6>1, <6>2
        <5>2. QED BY <5>1 DEF ChargeOf
      <4>2. {i \in 1 .. k + 1 : es[i] = ChargeOf(ts, who)} = {}
        BY <4>1
      <4>3. QED BY <3>1, <3>2, <4>2, FS_EmptySet DEF Occurs
    <3>3. CASE ts = e.ts /\ who = e.who
      BY <2>1, <2>3, <3>1, <3>3
    <3>4. CASE ts = e.ts /\ who # e.who
      <4>1. Num(b.counts, ts, who) = Occurs(es, k, ChargeOf(ts, who))
        BY <1>8, <2>7 DEF Tally
      <4>2. QED BY <1>6, <1>7, <3>1, <3>4, <4>1
    <3>5. QED BY <3>2, <3>3, <3>4
  <2>8. QED BY <1>1, <1>10, <2>6, <2>7 DEF Tally
<1>11. QED BY <1>4, <1>9, <1>10

\* the steps of a page, from the counts it begins with
BookStep(f, n, events, members, counts) ==
  IF n = 0 THEN [counts |-> counts, facts |-> NoRows] ELSE BookOne(f[n - 1], events[n], members)
StepsTo(f, m, events, members, counts) == f = [n \in 0 .. m |-> BookStep(f, n, events, members, counts)]
Steps(events, members, counts) ==
  CHOOSE f : f = [n \in 0 .. Len(events) |-> BookStep(f, n, events, members, counts)]

LEMMA StepsExist ==
  ASSUME NEW events, NEW members, NEW counts, NEW N \in Nat
  PROVE  \E f : StepsTo(f, N, events, members, counts)
<1> DEFINE Bad == {m \in Nat : ~\E f : StepsTo(f, m, events, members, counts)}
<1>1. SUFFICES ASSUME Bad # {} PROVE FALSE
  OBVIOUS
<1>2. PICK m \in Bad : \A k \in Bad : m <= k
  BY <1>1, LeastNat
<1>3. m \in Nat /\ ~\E f : StepsTo(f, m, events, members, counts)
  OBVIOUS
<1>4. CASE m = 0
  <2>1. PICK f : f = [n \in 0 .. 0 |-> [counts |-> counts, facts |-> NoRows]]
    OBVIOUS
  <2>2. \A n \in 0 .. 0 : BookStep(f, n, events, members, counts) = [counts |-> counts, facts |-> NoRows]
    BY DEF BookStep
  <2>3. f = [n \in 0 .. 0 |-> BookStep(f, n, events, members, counts)]
    BY <2>1, <2>2
  <2>4. QED BY <1>3, <1>4, <2>3 DEF StepsTo
<1>5. CASE m # 0
  <2>1. m - 1 \in Nat /\ m - 1 \notin Bad
    BY <1>2, <1>3, <1>5
  <2>2. PICK f : StepsTo(f, m - 1, events, members, counts)
    BY <2>1
  <2>3. PICK g : g = [n \in 0 .. m |-> BookStep(f, n, events, members, counts)]
    OBVIOUS
  <2>4. \A n \in 0 .. m - 1 : f[n] = g[n]
    <3>1. \A n \in 0 .. m - 1 : f[n] = BookStep(f, n, events, members, counts)
      BY <2>2, Zenon DEF StepsTo
    <3>2. \A n \in 0 .. m - 1 : n \in 0 .. m
      BY <1>3
    <3>3. QED BY <2>3, <3>1, <3>2
  <2>5. ASSUME NEW n \in 0 .. m
        PROVE  BookStep(f, n, events, members, counts) = BookStep(g, n, events, members, counts)
    <3>1. n # 0 => n - 1 \in 0 .. m - 1
      BY <1>3
    <3>2. QED BY <2>4, <3>1 DEF BookStep
  <2>6. g = [n \in 0 .. m |-> BookStep(g, n, events, members, counts)]
    BY <2>3, <2>5
  <2>7. QED BY <1>3, <2>6 DEF StepsTo
<1>6. QED BY <1>4, <1>5

LEMMA BookedIs ==
  ASSUME NEW events \in Seq(CuUsage), NEW members, NEW counts, NEW N, N = Len(events)
  PROVE  /\ N \in Nat
         /\ \E f : /\ Booked(events, members, counts) = f[N]
                   /\ f[0] = [counts |-> counts, facts |-> NoRows]
                   /\ \A n \in 0 .. N - 1 : f[n + 1] = BookOne(f[n], events[n + 1], members)
<1>1. N \in Nat
  BY LenProperties
<1>2. PICK g : StepsTo(g, N, events, members, counts)
  BY <1>1, StepsExist
<1>3. g = [n \in 0 .. Len(events) |-> BookStep(g, n, events, members, counts)]
  BY <1>2 DEF StepsTo
<1>4. PICK f : f = Steps(events, members, counts)
  OBVIOUS
<1>5. f = [n \in 0 .. N |-> BookStep(f, n, events, members, counts)]
  BY <1>3, <1>4, Zenon DEF Steps
<1>6. \A n \in 0 .. N : f[n] = BookStep(f, n, events, members, counts)
  BY <1>5, Zenon
<1>7. Booked(events, members, counts) = f[N]
  BY <1>4 DEF Booked, Steps, BookStep
<1>8. f[0] = [counts |-> counts, facts |-> NoRows]
  BY <1>1, <1>6 DEF BookStep
<1>9. ASSUME NEW n \in 0 .. N - 1 PROVE f[n + 1] = BookOne(f[n], events[n + 1], members)
  <2>1. n + 1 \in 0 .. N /\ n + 1 # 0 /\ (n + 1) - 1 = n
    BY <1>1
  <2>2. f[n + 1] = BookStep(f, n + 1, events, members, counts)
    BY <1>6, <2>1
  <2>3. QED BY <2>1, <2>2 DEF BookStep
<1>10. QED BY <1>1, <1>7, <1>8, <1>9

\* f are the batches of the events, one after the other
Goes(f, events, members, counts) ==
  /\ Booked(events, members, counts) = f[Len(events)]
  /\ f[0] = [counts |-> counts, facts |-> NoRows]
  /\ \A n \in 0 .. Len(events) - 1 : f[n + 1] = BookOne(f[n], events[n + 1], members)

LEMMA BookedGoes ==
  ASSUME NEW events \in Seq(CuUsage), NEW members, NEW counts
  PROVE  \E f : Goes(f, events, members, counts)
<1>1. PICK N : N = Len(events)
  OBVIOUS
<1>2. PICK f : /\ Booked(events, members, counts) = f[N] /\ f[0] = [counts |-> counts, facts |-> NoRows]
               /\ \A n \in 0 .. N - 1 : f[n + 1] = BookOne(f[n], events[n + 1], members)
  BY <1>1, BookedIs
<1>3. Goes(f, events, members, counts)
  BY <1>1, <1>2, Zenon DEF Goes
<1>4. QED BY <1>3

LEMMA EmptyBatch ==
  ASSUME NEW counts \in Counters, NEW members, NEW b, b = [counts |-> counts, facts |-> NoRows]
  PROVE  Batch(b, members)
BY NoRowsIs DEF Batch

LEMMA BatchesKeep ==
  ASSUME NEW events \in Seq(CuUsage), NEW members, NEW counts \in Counters, NEW N, N = Len(events), NEW f,
         f[0] = [counts |-> counts, facts |-> NoRows],
         \A n \in 0 .. N - 1 : f[n + 1] = BookOne(f[n], events[n + 1], members)
  PROVE  \A n \in 0 .. N : Batch(f[n], members)
<1> DEFINE Bad == {n \in Nat : n <= N /\ ~Batch(f[n], members)}
<1>1. SUFFICES Bad = {}
  BY LenProperties
<1>2. SUFFICES ASSUME Bad # {} PROVE FALSE
  OBVIOUS
<1>3. PICK m \in Bad : \A k \in Bad : m <= k
  BY <1>2, LeastNat
<1>4. m \in Nat /\ m <= N /\ ~Batch(f[m], members) /\ N \in Nat
  BY LenProperties
<1>5. m # 0
  BY <1>4, EmptyBatch
<1>6. PICK h \in Nat : h = m - 1 /\ h + 1 = m
  BY <1>4, <1>5
<1>7. h \notin Bad /\ h <= N /\ h \in 0 .. N - 1
  BY <1>3, <1>4, <1>6
<1>8. Batch(f[h], members) /\ f[m] = BookOne(f[h], events[h + 1], members)
  BY <1>6, <1>7
<1>9. events[h + 1] \in CuUsage
  <2>1. h + 1 \in 1 .. N
    BY <1>4, <1>6
  <2>2. QED BY <2>1, ElementOfSeq
<1>10. QED BY <1>4, <1>8, <1>9, BookOneKeeps

PageKeys(es, a, n) == {FactKey(es, i) : i \in {x \in Nat : a < x /\ x <= a + n /\ es[x].charged}}

LEMMA NoPageKeys == ASSUME NEW es, NEW a \in Nat PROVE PageKeys(es, a, 0) = {}
<1>1. {i \in Nat : a < i /\ i <= a + 0 /\ es[i].charged} = {}
  OBVIOUS
<1>2. QED BY <1>1 DEF PageKeys

KeyAt(es, x) == IF es[x].charged THEN {FactKey(es, x)} ELSE {}

NextPlace(a, n, m, x) == m = n + 1 /\ x = a + m

LEMMA PageKeysGrow ==
  ASSUME NEW es, NEW a \in Nat, NEW n \in Nat, NEW m, NEW x, NextPlace(a, n, m, x)
  PROVE  PageKeys(es, a, m) = PageKeys(es, a, n) \cup KeyAt(es, x)
<1>2. {i \in Nat : a < i /\ i <= a + m /\ es[i].charged} =
        {i \in Nat : a < i /\ i <= a + n /\ es[i].charged} \cup (IF es[x].charged THEN {x} ELSE {})
  BY DEF NextPlace
<1>3. QED BY <1>2 DEF PageKeys, KeyAt

\* body is the N places after a; r is what it books
PlacesAfter(body, es, a, N) == N = Len(body) /\ a + N <= Len(es) /\ \A j \in 1 .. N : body[j] = es[a + j]
Books(r, body, members, counts) == r = Booked(body, members, counts)

\* a page counts on where the one before ended, and its facts are its events
LEMMA BookedCounts ==
  ASSUME NEW es \in Seq(CuUsage), NEW newest \in BOOLEAN, ServedInOrder(es, newest), NEW a \in Nat,
         NEW body \in Seq(CuUsage), NEW N, PlacesAfter(body, es, a, N),
         NEW counts \in Counters, Tally(counts, es, a, newest), NEW members, NEW r, Books(r, body, members, counts)
  PROVE  /\ Tally(r.counts, es, a + N, newest)
         /\ DOMAIN r.facts = PageKeys(es, a, N)
<1>0. N = Len(body) /\ a + N <= Len(es) /\ (\A j \in 1 .. N : body[j] = es[a + j]) /\ r = Booked(body, members, counts)
  BY DEF PlacesAfter, Books
<1>1. N \in Nat /\ Len(es) \in Nat
  BY <1>0, LenProperties
<1>2. PICK f : /\ r = f[N] /\ f[0] = [counts |-> counts, facts |-> NoRows]
               /\ \A n \in 0 .. N - 1 : f[n + 1] = BookOne(f[n], body[n + 1], members)
  <2>1. PICK f : Goes(f, body, members, counts)
    BY BookedGoes
  <2>2. /\ Booked(body, members, counts) = f[N] /\ f[0] = [counts |-> counts, facts |-> NoRows]
        /\ \A n \in 0 .. N - 1 : f[n + 1] = BookOne(f[n], body[n + 1], members)
    BY <1>0, <2>1, Zenon DEF Goes
  <2>3. QED BY <1>0, <2>2
<1>3. \A n \in 0 .. N : Batch(f[n], members)
  BY <1>0, <1>2, BatchesKeep
<1> DEFINE Right(n) == Tally(f[n].counts, es, a + n, newest) /\ DOMAIN f[n].facts = PageKeys(es, a, n)
           Bad == {n \in Nat : n <= N /\ ~Right(n)}
<1>4. SUFFICES ASSUME Bad # {} PROVE FALSE
  <2>1. SUFFICES Right(N)
    BY <1>2
  <2>2. QED BY <1>1, <1>4
<1>5. PICK m : m \in Bad /\ \A k \in Bad : m <= k
  BY <1>4, LeastNat
<1>6. m \in Nat /\ m <= N /\ ~Right(m)
  BY <1>5
<1> HIDE DEF Bad
<1>7. CASE m = 0
  <2>1. f[0].counts = counts /\ f[0].facts = NoRows /\ a + 0 = a
    BY <1>2
  <2>2. DOMAIN f[0].facts = {} /\ PageKeys(es, a, 0) = {}
    <3>1. 0 \in Nat
      OBVIOUS
    <3>2. PageKeys(es, a, 0) = {}
      BY <3>1, NoPageKeys
    <3>3. QED BY <2>1, <3>2, NoRowsIs
  <2>3. Tally(f[0].counts, es, a + 0, newest)
    BY <2>1
  <2>4. QED BY <1>6, <1>7, <2>2, <2>3
<1>8. CASE m # 0
  <2>1. PICK h \in Nat : h = m - 1 /\ h + 1 = m
    BY <1>6, <1>8
  <2>2. h \notin Bad /\ h <= N /\ h \in 0 .. N - 1 /\ h \in 0 .. N
    BY <1>1, <1>5, <1>6, <2>1
  <2>3. Right(h)
    BY <2>2 DEF Bad
  <2>4. PICK k \in Nat : k = a + h
    BY <2>1
  <2>5. k < Len(es) /\ k + 1 = a + m /\ body[h + 1] = es[k + 1] /\ a + h + 1 = k + 1
    <3>1. h + 1 \in 1 .. N /\ a + (h + 1) = k + 1
      BY <1>0, <1>1, <2>1, <2>2, <2>4
    <3>2. QED BY <1>0, <1>1, <1>6, <2>1, <2>4, <3>1
  <2>6. Batch(f[h], members) /\ Tally(f[h].counts, es, k, newest) /\ f[m] = BookOne(f[h], es[k + 1], members)
    BY <1>2, <1>3, <2>1, <2>2, <2>3, <2>4, <2>5
  <2>7. /\ Tally(f[m].counts, es, k + 1, newest)
        /\ DOMAIN f[m].facts = DOMAIN f[h].facts \cup (IF es[k + 1].charged THEN {FactKey(es, k + 1)} ELSE {})
    <3>1. PICK b, g : b = f[h] /\ g = f[m]
      OBVIOUS
    <3>2. Batch(b, members) /\ Tally(b.counts, es, k, newest) /\ g = BookOne(b, es[k + 1], members)
      BY <2>6, <3>1
    <3>3. /\ Tally(g.counts, es, k + 1, newest)
          /\ DOMAIN g.facts = DOMAIN b.facts \cup (IF es[k + 1].charged THEN {FactKey(es, k + 1)} ELSE {})
      BY <2>5, <3>2, BookOneCounts
    <3>4. QED BY <3>1, <3>3
  <2>8. PageKeys(es, a, m) = PageKeys(es, a, h) \cup (IF es[k + 1].charged THEN {FactKey(es, k + 1)} ELSE {})
    <3>1. PICK x : x = k + 1
      OBVIOUS
    <3>2. NextPlace(a, h, m, x)
      BY <2>1, <2>5, <3>1 DEF NextPlace
    <3>3. PageKeys(es, a, m) = PageKeys(es, a, h) \cup KeyAt(es, x)
      BY <2>1, <3>2, PageKeysGrow
    <3>4. QED BY <3>1, <3>3 DEF KeyAt
  <2>9. QED BY <1>6, <2>3, <2>5, <2>7, <2>8
<1>9. QED BY <1>7, <1>8

LEMMA BookedBatch ==
  ASSUME NEW events \in Seq(CuUsage), NEW members, NEW counts \in Counters, NEW r, r = Booked(events, members, counts)
  PROVE  Batch(r, members)
<1>1. PICK N : N = Len(events)
  OBVIOUS
<1>2. N \in Nat
  BY <1>1, LenProperties
<1>3. PICK f : /\ r = f[N] /\ f[0] = [counts |-> counts, facts |-> NoRows]
               /\ \A n \in 0 .. N - 1 : f[n + 1] = BookOne(f[n], events[n + 1], members)
  BY <1>1, BookedIs
<1>4. \A n \in 0 .. N : Batch(f[n], members)
  BY <1>1, <1>3, BatchesKeep
<1>5. QED BY <1>2, <1>3, <1>4

-----------------------------------------------------------------------------
(***************************************************************************)
(* Cursor's walk.                                                          *)
(***************************************************************************)
CuShape(w) ==
  /\ w = [roster |-> w.roster, cycle |-> w.cycle, cents |-> w.cents, limit |-> w.limit, active |-> w.active,
          events |-> w.events, newest |-> w.newest, waived |-> w.waived]
  /\ w.roster \in Seq(CuEmails) /\ w.active \subseteq (1 .. CuChunks) \X ToSet(w.roster)
  /\ w.events \in Seq(CuUsage) /\ InTime(w.events)
  /\ w.newest \in BOOLEAN /\ w.waived \in BOOLEAN
CuStored(s) ==
  /\ s = [people |-> s.people, cycles |-> s.cycles, active |-> s.active, facts |-> s.facts]
  /\ s.active \subseteq world.active

Calm(aspect) == aspect \notin moved
CuOver == token = None /\ walks > 0
\* what the list or the chunk has served before this page
Behind == (token.page - 1) * CuPage

\* the spenders of a walk are the members its roster answered
CuTokenOK ==
  token # None =>
    /\ token \in CuCursors
    /\ token.phase \in {"members", "spend"} => token.chunk = 1
    /\ token.phase = "members" => token.page = 1
    /\ token.phase # "events" => token.tsCounts = NoCounts
    /\ token.phase # "members" /\ Calm("roster") => token.members = ToSet(world.roster)

SpendPassed(i) == CuOver \/ Walking({"daily", "events"}) \/ (Walking({"spend"}) /\ i <= Behind)
CycleRead(u) ==
  /\ <<world.cycle, u>> \in DOMAIN stored.cycles
  /\ stored.cycles[<<world.cycle, u>>] = [cents |-> world.cents[u], limit |-> world.limit[u]]
CyclesRead ==
  Calm("roster") /\ Calm("cycle") => \A i \in DOMAIN world.roster : SpendPassed(i) => CycleRead(world.roster[i])

\* place i of chunk d's list is passed
ChunkPassed(d, i) == d < token.chunk \/ (d = token.chunk /\ i <= Behind)
DailyPassed(d, i) == CuOver \/ Walking({"events"}) \/ (Walking({"daily"}) /\ ChunkPassed(d, i))
ActiveRead ==
  Calm("roster") /\ Calm("active") =>
    \A d \in 1 .. CuChunks, i \in DOMAIN world.roster :
      DailyPassed(d, i) /\ <<d, world.roster[i]>> \in world.active => <<d, world.roster[i]>> \in stored.active

\* events served oldest first only come at the end
Steady == Calm("events") \/ (~world.newest /\ ~world.waived)
EventsTallied ==
  Steady /\ Walking({"events"}) =>
    Behind <= Len(Served(token.chunk)) /\ Tally(token.tsCounts, Served(token.chunk), Behind, world.newest)

EventPassed(c, i) == CuOver \/ (Walking({"events"}) /\ ChunkPassed(c, i))
FactBooked(k) ==
  k \in DOMAIN stored.facts /\ (Calm("roster") => stored.facts[k] = Spender(k[2], ToSet(world.roster)))
EventsRead ==
  Calm("events") =>
    \A c \in 1 .. CuChunks : \A i \in 1 .. Len(Served(c)) :
      Served(c)[i].charged /\ EventPassed(c, i) => FactBooked(FactKey(Served(c), i))
NoStray == ~world.newest /\ ~world.waived => DOMAIN stored.facts \subseteq Deserved

CuInv ==
  /\ CuShape(world) /\ CuStored(stored) /\ CuTokenOK /\ walks \in Nat
  /\ CyclesRead /\ ActiveRead /\ EventsTallied /\ EventsRead /\ NoStray
CursorIInv == vendor = "cursor" => CuInv

LEMMA CuSizes == CuChunks \in Nat \ {0} /\ CuPage \in Nat \ {0} /\ None \notin CuCursors
BY CursorAssumption

LEMMA NoCountsIs == NoCounts \in Counters /\ \A ts, who : Num(NoCounts, ts, who) = 0
<1>1. NoRows \in Tables(CuEmails, Nat) /\ DOMAIN NoRows = {}
  BY NoRowsIs
<1>2. NoCounts \in Counters
  BY <1>1 DEF NoCounts, Counters
<1>3. NoCounts.n = NoRows
  BY DEF NoCounts
<1>4. QED BY <1>1, <1>2, <1>3 DEF Num

\* before the first event of a chunk nothing is counted
LEMMA NothingTallied == ASSUME NEW es, NEW newest PROVE Tally(NoCounts, es, 0, newest)
<1>1. \A e : Occurs(es, 0, e) = 0
  <2>1. 0 \in Nat
    OBVIOUS
  <2>2. QED BY <2>1, OccursStep
<1>2. QED BY <1>1, NoCountsIs DEF Tally

LEMMA CuInitially == CuInit => CuInv
<1> SUFFICES ASSUME CuInit PROVE CuInv
  OBVIOUS
<1>1. /\ token = None /\ moved = {} /\ walks = 0
      /\ stored = [people |-> {}, cycles |-> NoRows, active |-> {}, facts |-> NoRows]
  BY DEF CuInit
<1>2. PICK roster, active : roster = CuMembers /\ active = {<<1, Head(CuMembers)>>}
  OBVIOUS
<1>3. /\ world = [roster |-> roster, cycle |-> world.cycle, cents |-> world.cents, limit |-> world.limit,
                  active |-> active, events |-> CuEvents, newest |-> world.newest, waived |-> world.waived]
      /\ world.newest \in BOOLEAN /\ world.waived \in BOOLEAN
  BY <1>2 DEF CuInit
<1>4. roster \in Seq(CuEmails) /\ roster # <<>> /\ CuEvents \in Seq(CuUsage) /\ InTime(CuEvents)
  BY <1>2, CursorAssumption
<1>5. active \subseteq (1 .. CuChunks) \X ToSet(roster)
  <2>1. 1 \in DOMAIN roster /\ Head(roster) = roster[1]
    BY <1>4, LenProperties, EmptySeq
  <2>2. Head(roster) \in ToSet(roster) /\ 1 \in 1 .. CuChunks
    BY <2>1, CuSizes DEF ToSet
  <2>3. QED BY <1>2, <2>2
<1>6. /\ world.roster = roster /\ world.active = active /\ world.events = CuEvents
  BY <1>3
<1>7. CuShape(world)
  BY <1>3, <1>4, <1>5, <1>6 DEF CuShape
<1>8. stored.active = {} /\ stored.facts = NoRows /\ CuStored(stored)
  BY <1>1 DEF CuStored
<1>9. NoStray
  BY <1>8, NoRowsIs DEF NoStray
<1>10. QED BY <1>1, <1>7, <1>8, <1>9 DEF CuInv, CuTokenOK, CyclesRead, ActiveRead, EventsTallied, EventsRead,
           SpendPassed, DailyPassed, EventPassed, CuOver, Walking

-----------------------------------------------------------------------------
\* what a step leaves alone stays as read as it was
LEMMA CyclesStay ==
  ASSUME CyclesRead, world' = world, moved \subseteq moved', stored'.cycles = stored.cycles,
         \A i \in DOMAIN world.roster : SpendPassed(i)' => SpendPassed(i)
  PROVE  CyclesRead'
<1>1. \A u : CycleRead(u) => CycleRead(u)'
  BY DEF CycleRead
<1>2. QED BY <1>1 DEF CyclesRead, Calm

LEMMA ActiveStays ==
  ASSUME ActiveRead, world' = world, moved \subseteq moved', stored'.active = stored.active,
         \A d \in 1 .. CuChunks, i \in DOMAIN world.roster : DailyPassed(d, i)' => DailyPassed(d, i)
  PROVE  ActiveRead'
BY DEF ActiveRead, Calm

LEMMA CuServedStays ==
  ASSUME world'.events = world.events, world'.newest = world.newest, NEW c PROVE Served(c)' = Served(c)
BY DEF Served

LEMMA EventsStay ==
  ASSUME EventsRead, world'.events = world.events, world'.newest = world.newest, moved \subseteq moved',
         \A k : FactBooked(k) => FactBooked(k)',
         \A c \in 1 .. CuChunks : \A i \in 1 .. Len(Served(c)) : EventPassed(c, i)' => EventPassed(c, i)
  PROVE  EventsRead'
<1>1. SUFFICES ASSUME Calm("events")', NEW c \in 1 .. CuChunks, NEW i \in 1 .. Len(Served(c)'), Served(c)'[i].charged,
                      EventPassed(c, i)', NEW k, k = FactKey(Served(c), i)'
               PROVE  FactBooked(k)'
  BY DEF EventsRead
<1>2. Served(c)' = Served(c)
  BY CuServedStays
<1>3. Calm("events") /\ i \in 1 .. Len(Served(c)) /\ Served(c)[i].charged /\ EventPassed(c, i)
  BY <1>1, <1>2 DEF Calm
<1>4. FactBooked(FactKey(Served(c), i))
  BY <1>1, <1>3 DEF EventsRead
<1>5. k = FactKey(Served(c), i)
  BY <1>1, <1>2 DEF FactKey, Occurs
<1>6. QED BY <1>4, <1>5

LEMMA CuStarts == CuInv /\ Start(CuInitialCursor) => CuInv'
<1> SUFFICES ASSUME CuInv, Start(CuInitialCursor) PROVE CuInv'
  OBVIOUS
<1>1. PICK t : t = CuInitialCursor
  OBVIOUS
<1>2. token' = t /\ walks' = walks + 1 /\ moved' = {} /\ world' = world /\ stored' = stored
  BY <1>1 DEF Start
<1>3. t \in CuCursors
  <2>1. PICK one, none, counts : one = 1 /\ none = {} /\ counts = NoCounts
    OBVIOUS
  <2>2. one \in Nat \ {0} /\ one \in 1 .. CuChunks /\ none \in SUBSET CuEmails /\ counts \in Counters
    BY <2>1, CuSizes, NoCountsIs
  <2>3. t = [phase |-> "members", page |-> one, chunk |-> one, members |-> none, tsCounts |-> counts]
    BY <1>1, <2>1 DEF CuInitialCursor
  <2>4. QED BY <2>2, <2>3 DEF CuCursors, Counters
<1>4. t # None /\ t.phase = "members" /\ t.chunk = 1 /\ t.page = 1 /\ t.tsCounts = NoCounts
  BY <1>1, <1>3, CuSizes DEF CuInitialCursor
<1>5. CuTokenOK'
  BY <1>2, <1>3, <1>4 DEF CuTokenOK
<1>6. CyclesRead' /\ ActiveRead' /\ EventsTallied' /\ EventsRead'
  BY <1>2, <1>4 DEF CyclesRead, ActiveRead, EventsTallied, EventsRead, SpendPassed, DailyPassed, EventPassed, CuOver, Walking
<1>7. NoStray'
  BY <1>2 DEF CuInv, NoStray, Deserved
<1>8. CuShape(world)' /\ CuStored(stored)' /\ walks' \in Nat
  BY <1>2 DEF CuInv, CuShape, CuStored
<1>9. QED BY <1>5, <1>6, <1>7, <1>8 DEF CuInv

-----------------------------------------------------------------------------
\* the page after this one, of the same list or chunk
NextPage(t) == t # None /\ t.phase = token.phase /\ t.chunk = token.chunk /\ t.page = token.page + 1

LEMMA AfterChunkIs ==
  ASSUME token \in CuCursors, token.phase \in {"daily", "events"}, NEW t, t = afterChunk(token)
  PROVE  /\ token.chunk < CuChunks =>
              /\ t \in CuCursors /\ t # None /\ t.phase = token.phase /\ t.chunk = token.chunk + 1 /\ t.page = 1
              /\ t.members = token.members /\ t.tsCounts = NoCounts
         /\ token.chunk >= CuChunks /\ token.phase = "daily" =>
              /\ t \in CuCursors /\ t # None /\ t.phase = "events" /\ t.chunk = 1 /\ t.page = 1
              /\ t.members = token.members /\ t.tsCounts = token.tsCounts
         /\ token.chunk >= CuChunks /\ token.phase = "events" => t = None
<1>1. PICK one, next, counts : one = 1 /\ next = token.chunk + 1 /\ counts = NoCounts
  OBVIOUS
<1>2. one \in Nat \ {0} /\ counts \in Counters /\ token.chunk \in 1 .. CuChunks /\ one \in 1 .. CuChunks
  BY <1>1, CuSizes, NoCountsIs DEF CuCursors
<1>3. CASE token.chunk < CuChunks
  <2>1. next \in 1 .. CuChunks
    BY <1>1, <1>2, <1>3, CuSizes
  <2>2. PICK a, b : a = [token EXCEPT !.chunk = next] /\ b = [a EXCEPT !.page = one]
    OBVIOUS
  <2>3. a \in CuCursors /\ a.phase = token.phase /\ a.chunk = next /\ a.members = token.members
    BY <2>1, <2>2 DEF CuCursors
  <2>4. b \in CuCursors /\ b.phase = token.phase /\ b.chunk = next /\ b.members = token.members /\ b.page = one
    BY <1>2, <2>2, <2>3 DEF CuCursors
  <2>5. t = [b EXCEPT !.tsCounts = counts]
    BY <1>1, <1>3, <2>2, <2>4 DEF afterChunk, CuCursors
  <2>6. /\ t \in CuCursors /\ t.phase = token.phase /\ t.chunk = next /\ t.members = token.members /\ t.page = one
        /\ t.tsCounts = counts
    BY <1>2, <2>4, <2>5 DEF CuCursors, Counters
  <2>7. QED BY <1>1, <1>2, <1>3, <2>6, CuSizes
<1>4. CASE ~(token.chunk < CuChunks)
  <2>1. CASE token.phase = "daily"
    <3>1. PICK a, b : a = [token EXCEPT !.phase = "events"] /\ b = [a EXCEPT !.chunk = one]
      OBVIOUS
    <3>2. a \in CuCursors /\ a.phase = "events" /\ a.members = token.members /\ a.tsCounts = token.tsCounts
      BY <3>1 DEF CuCursors
    <3>3. b \in CuCursors /\ b.phase = "events" /\ b.members = token.members /\ b.tsCounts = token.tsCounts /\ b.chunk = one
      BY <1>2, <3>1, <3>2 DEF CuCursors
    <3>4. t = [b EXCEPT !.page = one]
      BY <1>1, <1>4, <2>1, <3>1, <3>3 DEF afterChunk, CuCursors
    <3>5. /\ t \in CuCursors /\ t.phase = "events" /\ t.members = token.members /\ t.tsCounts = token.tsCounts
          /\ t.chunk = one /\ t.page = one
      BY <1>2, <3>3, <3>4 DEF CuCursors
    <3>6. QED BY <1>1, <1>4, <2>1, <3>5, CuSizes
  <2>2. CASE token.phase = "events"
    BY <1>4, <2>2 DEF afterChunk
  <2>3. QED BY <2>1, <2>2
<1>5. QED BY <1>2, <1>3, <1>4, CuSizes

\* a page passes its places and no others
LEMMA PassedAfter ==
  ASSUME token \in CuCursors, token.phase \in {"daily", "events"}, NEW L \in Nat, NEW z, z = token.page * CuPage,
         NEW t, IF z < L THEN NextPage(t) ELSE t = afterChunk(token), NEW d \in 1 .. CuChunks, NEW i \in Nat \ {0},
         d = token.chunk => i <= L,
         t = None \/ t.phase # token.phase \/ d < t.chunk \/ (d = t.chunk /\ i <= (t.page - 1) * CuPage)
  PROVE  ChunkPassed(d, i) \/ (d = token.chunk /\ Behind < i /\ i <= z)
<1>1. PICK n, c : n = token.page /\ c = token.chunk
  OBVIOUS
<1>2. n \in Nat \ {0} /\ c \in 1 .. CuChunks /\ CuPage \in Nat \ {0} /\ CuChunks \in Nat
  BY <1>1, CuSizes DEF CuCursors
<1>3. PICK a \in Nat : a = (n - 1) * CuPage /\ z \in Nat /\ ((n + 1) - 1) * CuPage = z /\ (1 - 1) * CuPage = 0
  BY <1>1, <1>2, PagesFollow
<1>4. d <= c /\ (d = c => i <= z)
  <2>1. CASE z < L
    <3>1. t # None /\ t.phase = token.phase /\ t.chunk = c /\ t.page = n + 1
      BY <1>1, <2>1 DEF NextPage
    <3>2. (t.page - 1) * CuPage = z
      BY <1>3, <3>1
    <3>3. d < c \/ (d = c /\ i <= z)
      BY <3>1, <3>2
    <3>4. QED BY <1>2, <3>3
  <2>2. CASE ~(z < L) /\ c < CuChunks
    <3>1. t # None /\ t.phase = token.phase /\ t.chunk = c + 1 /\ t.page = 1
      BY <1>1, <2>2, AfterChunkIs
    <3>2. (t.page - 1) * CuPage = 0
      BY <1>3, <3>1
    <3>3. d < c + 1
      BY <3>1, <3>2
    <3>4. d = c => i <= L
      BY <1>1
    <3>5. QED BY <1>2, <1>3, <2>2, <3>3, <3>4
  <2>3. CASE ~(z < L) /\ ~(c < CuChunks)
    <3>1. d = c => i <= L
      BY <1>1
    <3>2. QED BY <1>2, <1>3, <2>3, <3>1
  <2>4. QED BY <2>1, <2>2, <2>3
<1>5. Behind = a
  BY <1>1, <1>3 DEF Behind
<1>6. d < c \/ d = c
  BY <1>2, <1>4
<1>7. QED BY <1>1, <1>3, <1>4, <1>5, <1>6 DEF ChunkPassed

-----------------------------------------------------------------------------
(***************************************************************************)
(* The pages of Cursor: the roster, the cycle and the activity.            *)
(***************************************************************************)
LEMMA MembersKeep == CuInv /\ membersPage => CuInv'
<1> SUFFICES ASSUME CuInv, membersPage PROVE CuInv'
  OBVIOUS
<1>1. PICK all, a, t, s : /\ all = ToSet(world.roster) /\ a = [token EXCEPT !.phase = "spend"]
                          /\ t = [token EXCEPT !.phase = "spend", !.members = ToSet(world.roster)]
                          /\ s = [stored EXCEPT !.people = @ \cup ToSet(world.roster)]
  OBVIOUS
<1>2. /\ token' = t /\ stored' = s /\ world' = world /\ moved' = moved /\ walks' = walks
      /\ token # None /\ token.phase = "members"
  BY <1>1 DEF membersPage, CommitPage, InPhase
<1>3. token \in CuCursors /\ token.chunk = 1 /\ token.page = 1 /\ token.tsCounts = NoCounts
  BY <1>2 DEF CuInv, CuTokenOK
<1>4. all \in SUBSET CuEmails
  <2>1. world.roster \in Seq(CuEmails)
    BY DEF CuInv, CuShape
  <2>2. QED BY <1>1, <2>1, ElementOfSeq, LenProperties DEF ToSet
<1>5. /\ t \in CuCursors /\ t.phase = "spend" /\ t.members = all /\ t.chunk = 1 /\ t.page = 1 /\ t.tsCounts = NoCounts
  <2>1. a \in CuCursors /\ a.phase = "spend" /\ a.chunk = 1 /\ a.page = 1 /\ a.tsCounts = NoCounts
    BY <1>1, <1>3 DEF CuCursors
  <2>2. t = [a EXCEPT !.members = all]
    BY <1>1
  <2>3. QED BY <1>4, <2>1, <2>2 DEF CuCursors
<1>6. t # None
  BY <1>5, CuSizes
<1>7. CuTokenOK'
  BY <1>1, <1>2, <1>5 DEF CuTokenOK
<1>8. CyclesRead' /\ ActiveRead' /\ EventsTallied' /\ EventsRead'
  <2>1. ASSUME NEW i \in DOMAIN world.roster, SpendPassed(i)' PROVE FALSE
    <3>1. i <= (t.page - 1) * CuPage
      BY <1>2, <1>5, <1>6, <2>1 DEF SpendPassed, CuOver, Walking, Behind
    <3>2. (t.page - 1) * CuPage = 0
      BY <1>5, CuSizes, PagesFollow
    <3>3. i \in Nat /\ i >= 1
      <4>1. world.roster \in Seq(CuEmails)
        BY DEF CuInv, CuShape
      <4>2. QED BY <4>1, LenProperties
    <3>4. QED BY <3>1, <3>2, <3>3
  <2>2. CyclesRead'
    BY <1>2, <2>1 DEF CyclesRead
  <2>3. QED BY <1>2, <1>5, <1>6, <2>2 DEF ActiveRead, EventsTallied, EventsRead, DailyPassed, EventPassed, CuOver, Walking
<1>9. /\ s = [people |-> s.people, cycles |-> s.cycles, active |-> s.active, facts |-> s.facts]
      /\ s.active = stored.active /\ s.facts = stored.facts /\ stored.active \subseteq world.active
  BY <1>1 DEF CuInv, CuStored
<1>10. NoStray'
  BY <1>2, <1>9 DEF CuInv, NoStray, Deserved
<1>11. CuShape(world)' /\ CuStored(stored)' /\ walks' \in Nat
  BY <1>2, <1>9 DEF CuInv, CuShape, CuStored
<1>12. QED BY <1>7, <1>8, <1>10, <1>11 DEF CuInv

LEMMA SpendKeeps == CuInv /\ spendMetrics => CuInv'
<1> SUFFICES ASSUME CuInv, spendMetrics PROVE CuInv'
  OBVIOUS
<1>1. PICK list, n, pg, found, more :
        /\ list = world.roster /\ n = token.page /\ pg = PageOf(list, n, CuPage) /\ found = ToSet(pg)
        /\ more = MorePages(list, n, CuPage)
  OBVIOUS
<1>2. PICK rows, t, s :
        /\ rows = [k \in {world.cycle} \X found |-> [cents |-> world.cents[k[2]], limit |-> world.limit[k[2]]]]
        /\ t = (IF more THEN [token EXCEPT !.page = @ + 1] ELSE [token EXCEPT !.phase = "daily", !.page = 1])
        /\ s = [stored EXCEPT !.people = @ \cup found, !.cycles = Upsert(@, rows)]
  OBVIOUS
<1>3. /\ token' = t /\ stored' = s /\ world' = world /\ moved' = moved /\ walks' = walks
      /\ token # None /\ token.phase = "spend"
  BY <1>1, <1>2 DEF spendMetrics, CommitPage, InPhase
<1>4. token \in CuCursors /\ token.chunk = 1 /\ token.tsCounts = NoCounts /\ n \in Nat \ {0}
  BY <1>1, <1>3 DEF CuInv, CuTokenOK, CuCursors
<1>5. list \in Seq(CuEmails) /\ Len(list) \in Nat /\ DOMAIN list = 1 .. Len(list) /\ CuPage \in Nat \ {0}
  <2>1. list \in Seq(CuEmails)
    BY <1>1 DEF CuInv, CuShape
  <2>2. QED BY <2>1, LenProperties, CuSizes
<1>6. PICK a, z \in Nat : a = (n - 1) * CuPage /\ z = n * CuPage /\ ((n + 1) - 1) * CuPage = z
  BY <1>4, <1>5, PagesFollow
<1>7. found \subseteq ToSet(list) /\ \A i \in DOMAIN list : a < i /\ i <= z => list[i] \in found
  <2>1. pg = PageOf(list, n, CuPage)
    BY <1>1
  <2>2. /\ ToSet(pg) \subseteq ToSet(list)
        /\ \A i \in DOMAIN list : (n - 1) * CuPage < i /\ i <= n * CuPage => list[i] \in ToSet(pg)
    BY <1>4, <1>5, <2>1, PageIs
  <2>3. QED BY <1>1, <1>6, <2>2
<1>8. more <=> z < Len(list)
  BY <1>1, <1>6 DEF MorePages
<1>9. /\ t \in CuCursors /\ t.chunk = 1 /\ t.tsCounts = NoCounts /\ t.members = token.members
      /\ IF more THEN t.phase = "spend" /\ t.page = n + 1 ELSE t.phase = "daily" /\ t.page = 1
  <2>1. CASE more
    <3>1. PICK y : y = n + 1
      OBVIOUS
    <3>2. y \in Nat \ {0} /\ t = [token EXCEPT !.page = y]
      BY <1>1, <1>2, <1>4, <2>1, <3>1
    <3>3. QED BY <1>3, <1>4, <2>1, <3>1, <3>2 DEF CuCursors
  <2>2. CASE ~more
    <3>1. PICK b, one : b = [token EXCEPT !.phase = "daily"] /\ one = 1
      OBVIOUS
    <3>2. b \in CuCursors /\ b.phase = "daily" /\ b.chunk = 1 /\ b.tsCounts = NoCounts /\ b.members = token.members
      BY <1>4, <3>1 DEF CuCursors
    <3>3. t = [b EXCEPT !.page = one] /\ one \in Nat \ {0}
      BY <1>2, <2>2, <3>1
    <3>4. QED BY <2>2, <3>1, <3>2, <3>3 DEF CuCursors
  <2>3. QED BY <2>1, <2>2
<1>10. t # None
  BY <1>9, CuSizes
<1>11. CuTokenOK'
  BY <1>3, <1>9, Zenon DEF CuInv, CuTokenOK, Calm
<1>12. /\ s = [people |-> s.people, cycles |-> s.cycles, active |-> s.active, facts |-> s.facts]
       /\ s.active = stored.active /\ s.facts = stored.facts /\ s.cycles = Upsert(stored.cycles, rows)
       /\ stored.active \subseteq world.active
  BY <1>2 DEF CuInv, CuStored
<1>13. CyclesRead'
  <2>1. SUFFICES ASSUME Calm("roster"), Calm("cycle"), NEW i \in DOMAIN list, SpendPassed(i)' PROVE CycleRead(list[i])'
    BY <1>1, <1>3 DEF CyclesRead, Calm
  <2>2. i \in Nat /\ i <= Len(list)
    BY <1>5
  <2>3. i <= z
    <3>1. CASE more
      <4>1. i <= (t.page - 1) * CuPage
        BY <1>3, <1>9, <1>10, <2>1, <3>1 DEF SpendPassed, CuOver, Walking, Behind
      <4>2. (t.page - 1) * CuPage = z
        BY <1>6, <1>9, <3>1
      <4>3. QED BY <4>1, <4>2
    <3>2. CASE ~more
      BY <1>5, <1>8, <2>2, <3>2
    <3>3. QED BY <3>1, <3>2
  <2>4. PICK u, k : u = list[i] /\ k = <<world.cycle, u>>
    OBVIOUS
  <2>5. CASE i <= a
    <3>1. SpendPassed(i)
      BY <1>1, <1>3, <1>6, <2>5 DEF SpendPassed, Walking, Behind
    <3>2. CycleRead(u)
      BY <1>1, <2>1, <2>4, <3>1 DEF CuInv, CyclesRead
    <3>3. k \in DOMAIN s.cycles /\ s.cycles[k] = [cents |-> world.cents[u], limit |-> world.limit[u]]
      <4>1. k \in DOMAIN stored.cycles /\ stored.cycles[k] = [cents |-> world.cents[u], limit |-> world.limit[u]]
        BY <2>4, <3>2 DEF CycleRead
      <4>2. k \in DOMAIN rows => rows[k] = [cents |-> world.cents[u], limit |-> world.limit[u]]
        BY <1>2, <2>4
      <4>3. QED BY <1>12, <4>1, <4>2 DEF Upsert
    <3>4. QED BY <1>3, <2>4, <3>3 DEF CycleRead
  <2>6. CASE ~(i <= a)
    <3>1. u \in found
      BY <1>6, <1>7, <2>2, <2>3, <2>4, <2>6
    <3>2. k \in DOMAIN rows /\ rows[k] = [cents |-> world.cents[u], limit |-> world.limit[u]]
      BY <1>2, <2>4, <3>1
    <3>3. k \in DOMAIN s.cycles /\ s.cycles[k] = [cents |-> world.cents[u], limit |-> world.limit[u]]
      BY <1>12, <3>2 DEF Upsert
    <3>4. QED BY <1>3, <2>4, <3>3 DEF CycleRead
  <2>7. QED BY <2>5, <2>6
<1>14. ActiveRead' /\ EventsTallied' /\ EventsRead'
  <2>1. ASSUME NEW d \in 1 .. CuChunks, NEW i \in DOMAIN list, DailyPassed(d, i)' PROVE FALSE
    <3>1. t.phase = "daily" /\ t.page = 1 /\ (d < 1 \/ i <= (t.page - 1) * CuPage)
      BY <1>3, <1>9, <1>10, <2>1 DEF DailyPassed, ChunkPassed, CuOver, Walking, Behind
    <3>2. (t.page - 1) * CuPage = 0
      BY <1>5, <3>1, PagesFollow
    <3>3. QED BY <1>5, <3>1, <3>2
  <2>2. ActiveRead'
    BY <1>1, <1>3, <2>1 DEF ActiveRead
  <2>3. t.phase # "events"
    BY <1>9
  <2>4. QED BY <1>3, <1>10, <2>2, <2>3 DEF EventsTallied, EventsRead, EventPassed, CuOver, Walking
<1>15. NoStray'
  BY <1>3, <1>12 DEF CuInv, NoStray, Deserved
<1>16. CuShape(world)' /\ CuStored(stored)' /\ walks' \in Nat
  BY <1>3, <1>12 DEF CuInv, CuShape, CuStored
<1>17. QED BY <1>11, <1>13, <1>14, <1>15, <1>16 DEF CuInv

LEMMA ServedSeq ==
  ASSUME CuShape(world), NEW c, NEW es, es = Served(c)
  PROVE  /\ es \in Seq(CuUsage) /\ Len(es) \in Nat /\ DOMAIN es = 1 .. Len(es)
         /\ ServedInOrder(es, world.newest)
<1>1. PICK events, newest : events = world.events /\ newest = world.newest
  OBVIOUS
<1>2. events \in Seq(CuUsage) /\ InTime(events) /\ newest \in BOOLEAN
  BY <1>1 DEF CuShape
<1>3. PICK a \in Nat, L \in Nat : ServedAt(events, newest, c, es, a, L)
  BY <1>1, <1>2, ChunkServed
<1>4. es \in Seq(CuUsage)
  BY <1>3 DEF ServedAt
<1>5. ServedInOrder(es, newest)
  BY <1>2, <1>3, ServedAll
<1>6. QED BY <1>1, <1>4, <1>5, LenProperties

LEMMA DailyKeeps == CuInv /\ dailyMetrics => CuInv'
<1> SUFFICES ASSUME CuInv, dailyMetrics PROVE CuInv'
  OBVIOUS
<1>1. PICK list, n, pg, found, more, c :
        /\ list = world.roster /\ n = token.page /\ pg = PageOf(list, n, CuPage) /\ found = ToSet(pg)
        /\ more = MorePages(list, n, CuPage) /\ c = token.chunk
  OBVIOUS
<1>2. PICK t, s :
        /\ t = (IF more THEN [token EXCEPT !.page = @ + 1] ELSE afterChunk(token))
        /\ s = [stored EXCEPT !.active = @ \cup (world.active \cap ({c} \X found))]
  OBVIOUS
<1>3. /\ token' = t /\ stored' = s /\ world' = world /\ moved' = moved /\ walks' = walks
      /\ token # None /\ token.phase = "daily"
  BY <1>1, <1>2 DEF dailyMetrics, CommitPage, InPhase
<1>4. token \in CuCursors /\ token.tsCounts = NoCounts /\ n \in Nat \ {0} /\ c \in 1 .. CuChunks
  BY <1>1, <1>3 DEF CuInv, CuTokenOK, CuCursors
<1>5. list \in Seq(CuEmails) /\ Len(list) \in Nat /\ DOMAIN list = 1 .. Len(list) /\ CuPage \in Nat \ {0}
  <2>1. list \in Seq(CuEmails)
    BY <1>1 DEF CuInv, CuShape
  <2>2. QED BY <2>1, LenProperties, CuSizes
<1>6. PICK a, z \in Nat : a = (n - 1) * CuPage /\ z = n * CuPage /\ ((n + 1) - 1) * CuPage = z
  BY <1>4, <1>5, PagesFollow
<1>7. found \subseteq ToSet(list) /\ \A i \in DOMAIN list : a < i /\ i <= z => list[i] \in found
  <2>1. pg = PageOf(list, n, CuPage)
    BY <1>1
  <2>2. /\ ToSet(pg) \subseteq ToSet(list)
        /\ \A i \in DOMAIN list : (n - 1) * CuPage < i /\ i <= n * CuPage => list[i] \in ToSet(pg)
    BY <1>4, <1>5, <2>1, PageIs
  <2>3. QED BY <1>1, <1>6, <2>2
<1>8. more <=> z < Len(list)
  BY <1>1, <1>6 DEF MorePages
<1>9. /\ t \in CuCursors /\ t # None /\ t.tsCounts = NoCounts /\ t.members = token.members
      /\ t.phase \in {"daily", "events"} /\ (t.phase = "events" => t.chunk = 1 /\ t.page = 1)
      /\ IF more THEN NextPage(t) ELSE t = afterChunk(token)
  <2>1. CASE more
    <3>1. PICK y : y = n + 1
      OBVIOUS
    <3>2. y \in Nat \ {0} /\ t = [token EXCEPT !.page = y]
      BY <1>1, <1>2, <1>4, <2>1, <3>1
    <3>3. t \in CuCursors /\ t.page = y /\ t.phase = "daily" /\ t.chunk = c /\ t.members = token.members
          /\ t.tsCounts = NoCounts
      BY <1>1, <1>3, <1>4, <3>2 DEF CuCursors
    <3>4. QED BY <1>1, <1>3, <2>1, <3>1, <3>3, CuSizes DEF NextPage
  <2>2. CASE ~more
    <3>1. t = afterChunk(token)
      BY <1>2, <2>2
    <3>2. CASE c < CuChunks
      BY <1>1, <1>3, <1>4, <2>2, <3>1, <3>2, AfterChunkIs
    <3>3. CASE ~(c < CuChunks)
      <4>1. token.chunk >= CuChunks
        BY <1>1, <1>4, <3>3, CuSizes
      <4>2. QED BY <1>3, <1>4, <2>2, <3>1, <4>1, AfterChunkIs
    <3>4. QED BY <3>2, <3>3
  <2>3. QED BY <2>1, <2>2
<1>10. CuTokenOK'
  <2>1. token.members = t.members /\ t.phase # "members" /\ t.phase # "spend"
    BY <1>9
  <2>2. Calm("roster") => token.members = ToSet(world.roster)
    BY <1>3 DEF CuInv, CuTokenOK
  <2>3. QED BY <1>3, <1>9, <2>1, <2>2, Zenon DEF CuTokenOK, Calm
<1>11. /\ s = [people |-> s.people, cycles |-> s.cycles, active |-> s.active, facts |-> s.facts]
       /\ s.active = stored.active \cup (world.active \cap ({c} \X found))
       /\ s.facts = stored.facts /\ s.cycles = stored.cycles /\ stored.active \subseteq world.active
  BY <1>2 DEF CuInv, CuStored
<1>12. ActiveRead'
  <2>1. SUFFICES ASSUME Calm("roster"), Calm("active"), NEW d \in 1 .. CuChunks, NEW i \in DOMAIN list, DailyPassed(d, i)',
                        NEW k, k = <<d, list[i]>>, k \in world.active
                 PROVE  k \in s.active
    BY <1>1, <1>3 DEF ActiveRead, Calm
  <2>2. i \in Nat \ {0} /\ i <= Len(list)
    BY <1>5
  <2>3. t = None \/ t.phase # token.phase \/ d < t.chunk \/ (d = t.chunk /\ i <= (t.page - 1) * CuPage)
    BY <1>3, <1>9, <2>1 DEF DailyPassed, CuOver, Walking, ChunkPassed, Behind
  <2>4. ChunkPassed(d, i) \/ (d = c /\ a < i /\ i <= z)
    <3>1. z = token.page * CuPage
      BY <1>1, <1>6
    <3>2. PICK L \in Nat : L = Len(list)
      BY <1>5
    <3>3. IF z < L THEN NextPage(t) ELSE t = afterChunk(token)
      BY <1>8, <1>9, <3>2
    <3>4. ChunkPassed(d, i) \/ (d = token.chunk /\ Behind < i /\ i <= z)
      <4>1. token.phase \in {"daily", "events"} /\ (d = token.chunk => i <= L)
        BY <1>3, <2>2, <3>2
      <4>2. QED BY <1>4, <2>2, <2>3, <3>1, <3>3, <4>1, PassedAfter
    <3>5. QED BY <1>1, <1>6, <3>4 DEF Behind
  <2>5. CASE ChunkPassed(d, i)
    <3>1. DailyPassed(d, i)
      BY <1>3, <2>5 DEF DailyPassed, Walking
    <3>2. k \in stored.active
      BY <1>1, <2>1, <3>1 DEF CuInv, ActiveRead
    <3>3. QED BY <1>11, <3>2
  <2>6. CASE d = c /\ a < i /\ i <= z
    <3>1. list[i] \in found
      BY <1>7, <2>6
    <3>2. QED BY <1>11, <2>1, <2>6, <3>1
  <2>7. QED BY <2>4, <2>5, <2>6
<1>13. CyclesRead'
  <2>1. \A i : SpendPassed(i)
    BY <1>3 DEF SpendPassed, Walking
  <2>2. QED BY <1>3, <1>11, <2>1, CyclesStay DEF CuInv
<1>14. EventsTallied'
  <2>1. SUFFICES ASSUME t.phase = "events"
                 PROVE  (Behind <= Len(Served(token.chunk)) /\ Tally(token.tsCounts, Served(token.chunk), Behind, world.newest))'
    BY <1>3, <1>9 DEF EventsTallied, Walking
  <2>2. PICK es, h : es = Served(t.chunk) /\ h = (t.page - 1) * CuPage
    OBVIOUS
  <2>3. h = 0
    BY <1>5, <1>9, <2>1, <2>2, PagesFollow
  <2>4. CuShape(world)
    BY DEF CuInv
  <2>5. Len(es) \in Nat /\ Tally(NoCounts, es, 0, world.newest)
    BY <2>2, <2>4, ServedSeq, NothingTallied
  <2>6. Served(token.chunk)' = es
    <3>1. \A x : Served(x)' = Served(x)
      BY <1>3, CuServedStays
    <3>2. Served(token.chunk)' = Served(t.chunk)
      BY <1>3 DEF Served
    <3>3. QED BY <2>2, <3>2
  <2>7. Behind' = h
    BY <1>3, <2>2 DEF Behind
  <2>8. QED BY <1>3, <1>9, <2>3, <2>5, <2>6, <2>7
<1>15. EventsRead'
  <2>1. ASSUME NEW d \in 1 .. CuChunks, NEW i \in Nat \ {0}, EventPassed(d, i)' PROVE FALSE
    <3>1. t.page = 1 /\ (d < 1 \/ i <= (t.page - 1) * CuPage)
      BY <1>3, <1>9, <2>1 DEF EventPassed, ChunkPassed, CuOver, Walking, Behind
    <3>2. (t.page - 1) * CuPage = 0
      BY <1>5, <3>1, PagesFollow
    <3>3. QED BY <1>5, <3>1, <3>2
  <2>2. \A d \in 1 .. CuChunks : \A i \in 1 .. Len(Served(d)') : i \in Nat \ {0}
    <3>1. TAKE d \in 1 .. CuChunks
    <3>2. CuShape(world) /\ Served(d)' = Served(d)
      BY <1>3, CuServedStays DEF CuInv
    <3>3. Len(Served(d)) \in Nat
      BY <3>2, ServedSeq
    <3>4. QED BY <3>2, <3>3
  <2>3. QED BY <2>1, <2>2 DEF EventsRead
<1>16. NoStray'
  BY <1>3, <1>11 DEF CuInv, NoStray, Deserved
<1>17. CuShape(world)' /\ CuStored(stored)' /\ walks' \in Nat
  BY <1>3, <1>11 DEF CuInv, CuShape, CuStored
<1>18. QED BY <1>10, <1>12, <1>13, <1>14, <1>15, <1>16, <1>17 DEF CuInv

-----------------------------------------------------------------------------
(***************************************************************************)
(* The pages of Cursor: the events.                                        *)
(***************************************************************************)
LEMMA PageBooked ==
  ASSUME CuInv, token # None, token.phase = "events", NEW es, es = Served(token.chunk), NEW L, L = Len(es),
         NEW z, z = token.page * CuPage, NEW r, r = Booked(PageOf(es, token.page, CuPage), token.members, token.tsCounts)
  PROVE  /\ Batch(r, token.members)
         /\ Steady => \E N \in Nat : /\ Behind + N = IF z < L THEN z ELSE L
                                     /\ Tally(r.counts, es, Behind + N, world.newest)
                                     /\ DOMAIN r.facts = PageKeys(es, Behind, N)
<1>1. PICK n, a, body, counts, members, newest :
        /\ n = token.page /\ a = Behind /\ body = PageOf(es, n, CuPage) /\ counts = token.tsCounts
        /\ members = token.members /\ newest = world.newest
  OBVIOUS
<1>2. n \in Nat \ {0} /\ counts \in Counters /\ CuPage \in Nat \ {0}
  BY <1>1, CuSizes DEF CuInv, CuTokenOK, CuCursors, Counters
<1>3. es \in Seq(CuUsage) /\ L \in Nat /\ ServedInOrder(es, newest) /\ newest \in BOOLEAN
  <2>1. CuShape(world)
    BY DEF CuInv
  <2>2. QED BY <1>1, <2>1, ServedSeq DEF CuShape
<1>4. a = (n - 1) * CuPage /\ z = n * CuPage
  BY <1>1 DEF Behind
<1>5. body \in Seq(CuUsage)
  BY <1>1, <1>2, <1>3, PageIs
<1>6. Batch(r, members)
  <2>1. r = Booked(body, members, counts)
    BY <1>1
  <2>2. QED BY <1>2, <1>5, <2>1, BookedBatch
<1>7. ASSUME Steady
      PROVE  \E N \in Nat : /\ a + N = IF z < L THEN z ELSE L
                            /\ Tally(r.counts, es, a + N, newest) /\ DOMAIN r.facts = PageKeys(es, a, N)
  <2>1. a <= L /\ Tally(counts, es, a, newest)
    BY <1>1, <1>7 DEF CuInv, EventsTallied, Walking
  <2>2. PICK N : N = Len(body)
    OBVIOUS
  <2>3. /\ a \in Nat /\ z \in Nat /\ N \in Nat /\ a + N = IF z < L THEN z ELSE L
        /\ \A j \in 1 .. N : body[j] = es[a + j]
    <3>1. a <= Len(es)
      BY <2>1
    <3>2. body = PageOf(es, n, CuPage)
      BY <1>1
    <3>3. n \in Nat \ {0} /\ CuPage \in Nat \ {0} /\ es \in Seq(CuUsage) /\ IsPage(body, es, n, CuPage, a, z)
      BY <1>2, <1>3, <1>4, <3>2 DEF IsPage
    <3>4. /\ a \in Nat /\ z \in Nat /\ Len(body) \in Nat /\ a + Len(body) = IF z < Len(es) THEN z ELSE Len(es)
          /\ \A j \in 1 .. Len(body) : body[j] = es[a + j]
      BY <3>1, <3>3, PagePlaces
    <3>5. QED BY <2>2, <3>4
  <2>4. a + N <= Len(es)
    BY <1>3, <2>3
  <2>5. Tally(r.counts, es, a + N, newest) /\ DOMAIN r.facts = PageKeys(es, a, N)
    <3>1. Books(r, body, members, counts)
      BY <1>1 DEF Books
    <3>2. PlacesAfter(body, es, a, N)
      BY <2>2, <2>3, <2>4 DEF PlacesAfter
    <3>3. /\ es \in Seq(CuUsage) /\ newest \in BOOLEAN /\ ServedInOrder(es, newest) /\ a \in Nat
          /\ body \in Seq(CuUsage) /\ counts \in Counters /\ Tally(counts, es, a, newest)
      BY <1>2, <1>3, <1>5, <2>1, <2>3
    <3>4. QED BY <3>1, <3>2, <3>3, BookedCounts
  <2>6. QED BY <2>3, <2>5
<1>8. QED BY <1>1, <1>6, <1>7

\* the places of a page, each with its key
LEMMA PageKeysAre ==
  ASSUME NEW es, NEW a \in Nat, NEW N \in Nat
  PROVE  /\ \A i \in Nat : a < i /\ i <= a + N /\ es[i].charged => FactKey(es, i) \in PageKeys(es, a, N)
         /\ \A k \in PageKeys(es, a, N) : \E i \in Nat : a < i /\ i <= a + N /\ es[i].charged /\ k = FactKey(es, i)
BY DEF PageKeys

LEMMA EventFactsKeep == CuInv /\ eventFacts => CuInv'
<1> SUFFICES ASSUME CuInv, eventFacts PROVE CuInv'
  OBVIOUS
<1>1. PICK es, L, n, a, z, c, r, members :
        /\ es = Served(token.chunk) /\ L = Len(es) /\ n = token.page /\ a = Behind /\ z = token.page * CuPage
        /\ c = token.chunk /\ members = token.members
        /\ r = Booked(PageOf(es, token.page, CuPage), token.members, token.tsCounts)
  OBVIOUS
<1>2. PICK more, t, s :
        /\ more = MorePages(es, token.page, CuPage)
        /\ t = (IF more THEN [token EXCEPT !.page = @ + 1, !.tsCounts = r.counts] ELSE afterChunk(token))
        /\ s = [stored EXCEPT !.facts = Upsert(@, r.facts)]
  OBVIOUS
<1>3. /\ token' = t /\ stored' = s /\ world' = world /\ moved' = moved /\ walks' = walks
      /\ token # None /\ token.phase = "events"
  BY <1>1, <1>2 DEF eventFacts, CommitPage, InPhase, Counts
<1>4. token \in CuCursors /\ n \in Nat \ {0} /\ c \in 1 .. CuChunks /\ CuPage \in Nat \ {0}
  BY <1>1, <1>3, CuSizes DEF CuInv, CuTokenOK, CuCursors
<1>5. L \in Nat /\ a \in Nat /\ z \in Nat /\ ((n + 1) - 1) * CuPage = z /\ (1 - 1) * CuPage = 0
  <2>1. CuShape(world)
    BY DEF CuInv
  <2>2. L \in Nat
    BY <1>1, <2>1, ServedSeq
  <2>3. QED BY <1>1, <1>4, <2>2, PagesFollow DEF Behind
<1>6. /\ Batch(r, members)
      /\ Steady => \E N \in Nat : /\ a + N = IF z < L THEN z ELSE L
                                  /\ Tally(r.counts, es, a + N, world.newest)
                                  /\ DOMAIN r.facts = PageKeys(es, a, N)
  BY <1>1, <1>3, PageBooked
<1>7. more <=> z < L
  BY <1>1, <1>2 DEF MorePages
<1>8. /\ more => /\ t \in CuCursors /\ NextPage(t) /\ t.tsCounts = r.counts /\ t.page = n + 1
                 /\ t.members = members /\ t.phase = "events" /\ t.chunk = c
      /\ ~more /\ c < CuChunks => /\ t \in CuCursors /\ t # None /\ t.tsCounts = NoCounts /\ t.page = 1
                                  /\ t.members = members /\ t.phase = "events"
      /\ ~more /\ ~(c < CuChunks) => t = None
      /\ IF more THEN NextPage(t) ELSE t = afterChunk(token)
  <2>1. CASE more
    <3>1. PICK y, counts : y = n + 1 /\ counts = r.counts
      OBVIOUS
    <3>2. y \in Nat \ {0} /\ counts \in Counters
      BY <1>4, <1>6, <3>1 DEF Batch
    <3>3. PICK b : b = [token EXCEPT !.page = y]
      OBVIOUS
    <3>4. /\ b \in CuCursors /\ b.page = y /\ b.phase = "events" /\ b.chunk = c /\ b.members = members
      BY <1>1, <1>3, <1>4, <3>2, <3>3 DEF CuCursors
    <3>5. t = [b EXCEPT !.tsCounts = counts]
      BY <1>1, <1>2, <2>1, <3>1, <3>3
    <3>6. /\ t \in CuCursors /\ t.page = y /\ t.phase = "events" /\ t.chunk = c /\ t.members = members
          /\ t.tsCounts = counts
      BY <3>2, <3>4, <3>5 DEF CuCursors, Counters
    <3>7. QED BY <1>1, <1>3, <2>1, <3>1, <3>6, CuSizes DEF NextPage
  <2>2. CASE ~more
    <3>1. t = afterChunk(token)
      BY <1>2, <2>2
    <3>2. CASE c < CuChunks
      BY <1>1, <1>3, <1>4, <2>2, <3>1, <3>2, AfterChunkIs
    <3>3. CASE ~(c < CuChunks)
      <4>1. token.chunk >= CuChunks
        BY <1>1, <1>4, <3>3, CuSizes
      <4>2. QED BY <1>1, <1>3, <1>4, <2>2, <3>1, <3>3, <4>1, AfterChunkIs
    <3>4. QED BY <3>2, <3>3
  <2>3. QED BY <2>1, <2>2
<1>9. CuTokenOK'
  <2>1. CASE t = None
    BY <1>3, <2>1 DEF CuTokenOK
  <2>2. CASE t # None
    <3>1. t \in CuCursors /\ t.phase = "events" /\ t.members = token.members
      BY <1>1, <1>8, <2>2
    <3>2. Calm("roster") => token.members = ToSet(world.roster)
      BY <1>3 DEF CuInv, CuTokenOK
    <3>3. QED BY <1>3, <3>1, <3>2, Zenon DEF CuTokenOK, Calm
  <2>3. QED BY <2>1, <2>2
<1>10. /\ s = [people |-> s.people, cycles |-> s.cycles, active |-> s.active, facts |-> s.facts]
       /\ s.facts = Upsert(stored.facts, r.facts)
       /\ s.active = stored.active /\ s.cycles = stored.cycles /\ stored.active \subseteq world.active
  BY <1>2 DEF CuInv, CuStored
<1>11. \A x : Served(x)' = Served(x)
  BY <1>3, CuServedStays
<1>12. Served(token.chunk)' = Served(t.chunk)
  BY <1>3 DEF Served
<1>13. /\ \A k \in DOMAIN r.facts : FactBooked(k)'
       /\ \A k : FactBooked(k) => FactBooked(k)'
  <2>1. Calm("roster") => members = ToSet(world.roster)
    BY <1>1, <1>3 DEF CuInv, CuTokenOK
  <2>2. \A k \in DOMAIN r.facts : r.facts[k] = Spender(k[2], members)
    BY <1>6 DEF Batch
  <2>3. \A k : FactBooked(k)' <=>
                 k \in DOMAIN s.facts /\ (Calm("roster") => s.facts[k] = Spender(k[2], ToSet(world.roster)))
    BY <1>3 DEF FactBooked, Calm
  <2>4. \A k \in DOMAIN r.facts : k \in DOMAIN s.facts /\ s.facts[k] = Spender(k[2], members)
    BY <1>10, <2>2 DEF Upsert
  <2>5. \A k \in DOMAIN r.facts : FactBooked(k)'
    BY <2>1, <2>3, <2>4
  <2>6. \A k : k \in DOMAIN stored.facts /\ k \notin DOMAIN r.facts =>
                 k \in DOMAIN s.facts /\ s.facts[k] = stored.facts[k]
    BY <1>10 DEF Upsert
  <2>7. \A k : FactBooked(k) /\ k \notin DOMAIN r.facts => FactBooked(k)'
    BY <2>3, <2>6 DEF FactBooked
  <2>8. QED BY <2>5, <2>7
<1>14. EventsTallied'
  <2>1. Steady' <=> Steady
    BY <1>3 DEF Steady, Calm
  <2>2. SUFFICES ASSUME Steady, t # None
                 PROVE  (Behind <= Len(Served(token.chunk)) /\ Tally(token.tsCounts, Served(token.chunk), Behind, world.newest))'
    BY <1>3, <2>1 DEF EventsTallied, Walking
  <2>3. PICK fs, h : fs = Served(t.chunk) /\ h = (t.page - 1) * CuPage
    OBVIOUS
  <2>4. h <= Len(fs) /\ Tally(t.tsCounts, fs, h, world.newest)
    <3>1. CASE more
      <4>1. fs = es /\ h = z /\ t.tsCounts = r.counts
        BY <1>1, <1>5, <1>8, <2>3, <3>1
      <4>2. PICK N \in Nat : /\ a + N = IF z < L THEN z ELSE L
                             /\ Tally(r.counts, es, a + N, world.newest)
        BY <1>6, <2>2
      <4>3. z < L /\ a + N = z
        BY <1>7, <3>1, <4>2
      <4>4. Tally(r.counts, es, z, world.newest)
        BY <4>2, <4>3
      <4>5. QED BY <1>1, <1>5, <4>1, <4>3, <4>4
    <3>2. CASE ~more
      <4>1. t.tsCounts = NoCounts /\ t.page = 1
        BY <1>8, <2>2, <3>2
      <4>2. h = 0
        BY <1>5, <2>3, <4>1
      <4>3. CuShape(world)
        BY DEF CuInv
      <4>4. Len(fs) \in Nat /\ Tally(NoCounts, fs, 0, world.newest)
        BY <2>3, <4>3, ServedSeq, NothingTallied
      <4>5. QED BY <4>1, <4>2, <4>4
    <3>3. QED BY <3>1, <3>2
  <2>5. Behind' = h
    BY <1>3, <2>3 DEF Behind
  <2>6. QED BY <1>3, <1>12, <2>3, <2>4, <2>5
<1>15. EventsRead'
  <2>1. SUFFICES ASSUME Calm("events")', NEW d \in 1 .. CuChunks, NEW i \in 1 .. Len(Served(d)'), Served(d)'[i].charged,
                        EventPassed(d, i)', NEW k, k = FactKey(Served(d), i)'
                 PROVE  FactBooked(k)'
    BY DEF EventsRead
  <2>2. PICK fs : fs = Served(d) /\ Served(d)' = fs
    BY <1>11
  <2>3. k = FactKey(fs, i) /\ Calm("events") /\ i \in 1 .. Len(fs) /\ fs[i].charged
    <3>1. k = FactKey(fs, i)
      BY <2>1, <2>2 DEF FactKey, Occurs
    <3>2. QED BY <1>3, <2>1, <2>2, <3>1 DEF Calm
  <2>4. Len(fs) \in Nat
    <3>1. CuShape(world)
      BY DEF CuInv
    <3>2. QED BY <2>2, <3>1, ServedSeq
  <2>5. i \in Nat \ {0} /\ i <= Len(fs)
    BY <2>3, <2>4
  <2>6. t = None \/ t.phase # token.phase \/ d < t.chunk \/ (d = t.chunk /\ i <= (t.page - 1) * CuPage)
    BY <1>3, <2>1 DEF EventPassed, CuOver, Walking, ChunkPassed, Behind
  <2>7. d = c => fs = es
    BY <1>1, <2>2
  <2>8. ChunkPassed(d, i) \/ (d = c /\ a < i /\ i <= z)
    <3>1. IF z < L THEN NextPage(t) ELSE t = afterChunk(token)
      BY <1>7, <1>8
    <3>2. token.phase \in {"daily", "events"} /\ (d = token.chunk => i <= L) /\ z = token.page * CuPage
      BY <1>1, <1>3, <2>5, <2>7
    <3>3. ChunkPassed(d, i) \/ (d = token.chunk /\ Behind < i /\ i <= z)
      BY <1>4, <1>5, <2>5, <2>6, <3>1, <3>2, PassedAfter
    <3>4. QED BY <1>1, <3>3
  <2>9. CASE ChunkPassed(d, i)
    <3>1. EventPassed(d, i)
      BY <1>3, <2>9 DEF EventPassed, Walking
    <3>2. FactBooked(k)
      BY <2>2, <2>3, <3>1 DEF CuInv, EventsRead
    <3>3. QED BY <1>13, <3>2
  <2>10. CASE d = c /\ a < i /\ i <= z
    <3>1. Steady
      BY <2>3 DEF Steady
    <3>2. PICK N \in Nat : a + N = (IF z < L THEN z ELSE L) /\ DOMAIN r.facts = PageKeys(es, a, N)
      BY <1>6, <3>1
    <3>3. fs = es /\ i <= L
      BY <1>1, <2>5, <2>7, <2>10
    <3>4. i <= a + N
      BY <1>5, <2>5, <2>10, <3>2, <3>3
    <3>5. k \in PageKeys(es, a, N)
      BY <1>5, <2>3, <2>5, <2>10, <3>3, <3>4, PageKeysAre
    <3>6. QED BY <1>13, <3>2, <3>5
  <2>11. QED BY <2>8, <2>9, <2>10
<1>16. NoStray'
  <2>1. SUFFICES ASSUME ~world.newest, ~world.waived PROVE DOMAIN s.facts \subseteq Deserved
    BY <1>3 DEF NoStray, Deserved
  <2>2. Steady
    BY <2>1 DEF Steady
  <2>3. PICK N \in Nat : a + N = (IF z < L THEN z ELSE L) /\ DOMAIN r.facts = PageKeys(es, a, N)
    BY <1>6, <2>2
  <2>4. ASSUME NEW k \in DOMAIN r.facts PROVE k \in Deserved
    <3>1. PICK i \in Nat : a < i /\ i <= a + N /\ es[i].charged /\ k = FactKey(es, i)
      BY <1>5, <2>3, <2>4, PageKeysAre
    <3>2. i \in 1 .. L
      BY <1>5, <2>3, <3>1
    <3>3. \E d \in 1 .. CuChunks : \E j \in 1 .. Len(Served(d)) : Served(d)[j].charged /\ k = FactKey(Served(d), j)
      <4>1. i \in 1 .. Len(Served(c)) /\ Served(c)[i].charged /\ k = FactKey(Served(c), i)
        BY <1>1, <3>1, <3>2
      <4>2. QED BY <1>4, <4>1
    <3>4. world.events \in Seq(CuUsage) /\ InTime(world.events) /\ world.newest \in BOOLEAN
      BY DEF CuInv, CuShape
    <3>5. QED BY <3>3, <3>4, DeservedIs
  <2>5. DOMAIN stored.facts \subseteq Deserved
    BY <2>1 DEF CuInv, NoStray
  <2>6. DOMAIN s.facts = DOMAIN r.facts \cup DOMAIN stored.facts
    BY <1>10 DEF Upsert
  <2>7. QED BY <2>4, <2>5, <2>6
<1>17. CyclesRead' /\ ActiveRead'
  <2>1. (\A i : SpendPassed(i)) /\ (\A d, i : DailyPassed(d, i))
    BY <1>3 DEF SpendPassed, DailyPassed, Walking
  <2>2. QED BY <1>3, <1>10, <2>1, CyclesStay, ActiveStays DEF CuInv
<1>18. CuShape(world)' /\ CuStored(stored)' /\ walks' \in Nat
  BY <1>3, <1>10 DEF CuInv, CuShape, CuStored
<1>19. QED BY <1>9, <1>14, <1>15, <1>16, <1>17, <1>18 DEF CuInv

-----------------------------------------------------------------------------
(***************************************************************************)
(* Cursor's data moves.                                                    *)
(***************************************************************************)
LEMMA TallyStays ==
  ASSUME NEW es, NEW fs, NEW k \in Nat, \A i \in 1 .. k : fs[i] = es[i], NEW c, NEW newest, Tally(c, es, k, newest)
  PROVE  Tally(c, fs, k, newest)
<1>1. \A e : {i \in 1 .. k : fs[i] = e} = {i \in 1 .. k : es[i] = e}
  OBVIOUS
<1>2. \A e : Occurs(fs, k, e) = Occurs(es, k, e)
  BY <1>1 DEF Occurs
<1>3. \A ts : MayCome(fs, k, ts, newest) <=> MayCome(es, k, ts, newest)
  BY DEF MayCome
<1>4. QED BY <1>2, <1>3 DEF Tally

OldestFirst(events, chunk, es) == IsServed(events, FALSE, chunk, es)
Comes(events, e, grown) == grown = Append(events, e)

\* an event that comes is served after those of its chunk
LEMMA ServedExtends ==
  ASSUME NEW events \in Seq(CuUsage), InTime(events), NEW e \in CuUsage, NEW grown, Comes(events, e, grown), InTime(grown),
         NEW c, NEW es, OldestFirst(events, c, es), NEW fs, OldestFirst(grown, c, fs)
  PROVE  Len(es) <= Len(fs) /\ \A i \in 1 .. Len(es) : fs[i] = es[i]
<1>1. PICK N \in Nat : N = Len(events) /\ DOMAIN events = 1 .. N
  BY LenProperties
<1>2. grown \in Seq(CuUsage) /\ Len(grown) = N + 1 /\ DOMAIN grown = 1 .. N + 1 /\ \A i \in 1 .. N : grown[i] = events[i]
  BY <1>1, AppendProperties, LenProperties DEF Comes
<1>3. PICK a \in Nat, L \in Nat : ServedAt(events, FALSE, c, es, a, L)
  BY ChunkIsServed DEF OldestFirst
<1>4. PICK b \in Nat, M \in Nat : ServedAt(grown, FALSE, c, fs, b, M)
  BY <1>2, ChunkIsServed DEF OldestFirst
<1>5. /\ Len(es) = L /\ a + L <= N /\ \A j \in 1 .. L : es[j] = events[a + j]
      /\ \A i \in 1 .. N : events[i].ts \div 10 = c <=> a < i /\ i <= a + L
  BY <1>1, <1>3 DEF ServedAt
<1>6. /\ Len(fs) = M /\ b + M <= N + 1 /\ \A j \in 1 .. M : fs[j] = grown[b + j]
      /\ \A i \in 1 .. N + 1 : grown[i].ts \div 10 = c <=> b < i /\ i <= b + M
  BY <1>2, <1>4 DEF ServedAt
<1>7. CASE L = 0
  BY <1>5, <1>6, <1>7
<1>8. CASE L # 0
  <2>1. \A i \in 1 .. N : (a < i /\ i <= a + L) <=> (b < i /\ i <= b + M)
    <3>1. TAKE i \in 1 .. N
    <3>2. PICK at : at = (events[i].ts \div 10 = c)
      OBVIOUS
    <3>3. i \in 1 .. N + 1 /\ grown[i] = events[i]
      BY <1>2
    <3>4. at <=> (b < i /\ i <= b + M)
      BY <1>6, <3>2, <3>3
    <3>5. at <=> (a < i /\ i <= a + L)
      BY <1>5, <3>2
    <3>6. QED BY <3>4, <3>5
  <2>2. a + 1 \in 1 .. N /\ a + L \in 1 .. N
    BY <1>5, <1>8
  <2>3. b < a + 1 /\ a + L <= b + M
    <3>1. a < a + 1 /\ a + 1 <= a + L /\ a < a + L /\ a + L <= a + L
      BY <1>8
    <3>2. b < a + 1
      BY <2>1, <2>2, <3>1
    <3>3. QED BY <2>1, <2>2, <3>1, <3>2
  <2>4. b + 1 \in 1 .. N /\ b < b + 1 /\ b + 1 <= b + M
    BY <1>5, <1>6, <1>8, <2>2, <2>3
  <2>5. a < b + 1
    BY <2>1, <2>4
  <2>6. a = b /\ L <= M
    BY <2>3, <2>5
  <2>7. \A j \in 1 .. L : fs[j] = es[j]
    <3>1. TAKE j \in 1 .. L
    <3>2. j \in 1 .. M /\ a + j \in 1 .. N
      BY <1>5, <2>6
    <3>3. QED BY <1>2, <1>5, <1>6, <2>6, <3>2
  <2>8. QED BY <1>5, <1>6, <2>6, <2>7
<1>9. QED BY <1>7, <1>8

LEMMA DeservedGrows ==
  ASSUME world.events \in Seq(CuUsage), NEW e \in CuUsage, world'.events = Append(world.events, e)
  PROVE  Deserved \subseteq Deserved'
<1>1. PICK events, grown : events = world.events /\ grown = world'.events
  OBVIOUS
<1>2. PICK N \in Nat : N = Len(events) /\ DOMAIN events = 1 .. N
  BY <1>1, LenProperties
<1>3. DOMAIN grown = 1 .. N + 1 /\ \A i \in 1 .. N : grown[i] = events[i]
  BY <1>1, <1>2, AppendProperties, LenProperties
<1>4. ASSUME NEW x, NEW S, S = {i \in DOMAIN events : events[i] = x}, NEW T, T = {i \in DOMAIN grown : grown[i] = x}
      PROVE  Cardinality(S) \in Nat /\ Cardinality(T) \in Nat /\ Cardinality(S) <= Cardinality(T)
  <2>1. S \subseteq T /\ T \subseteq 1 .. N + 1
    BY <1>2, <1>3, <1>4
  <2>2. IsFiniteSet(T)
    <3>1. IsFiniteSet(1 .. N + 1)
      BY FS_Interval
    <3>2. QED BY <2>1, <3>1, FS_Subset
  <2>3. QED BY <2>1, <2>2, FS_Subset, FS_CardinalityType
<1>5. SUFFICES ASSUME NEW k \in Deserved PROVE k \in Deserved'
  OBVIOUS
<1>6. k \in UNION {KeysOf(x) : x \in {y \in ToSet(world.events) : y.charged}}
  BY DEF Deserved, KeysOf
<1>7. PICK x \in ToSet(events) : x.charged /\ k \in KeysOf(x)
  BY <1>1, <1>6
<1>8. PICK n \in 1 .. Cardinality({i \in DOMAIN events : events[i] = x}) : k = <<x.ts, x.who, n>>
  BY <1>1, <1>7 DEF KeysOf
<1>9. n \in 1 .. Cardinality({i \in DOMAIN grown : grown[i] = x})
  <2>1. PICK S, T : S = {i \in DOMAIN events : events[i] = x} /\ T = {i \in DOMAIN grown : grown[i] = x}
    OBVIOUS
  <2>2. Cardinality(S) \in Nat /\ Cardinality(T) \in Nat /\ Cardinality(S) <= Cardinality(T)
    BY <1>4, <2>1
  <2>3. n \in 1 .. Cardinality(S)
    BY <1>8, <2>1
  <2>4. n \in 1 .. Cardinality(T)
    BY <2>2, <2>3
  <2>5. QED BY <2>1, <2>4
<1>10. k \in KeysOf(x)'
  BY <1>1, <1>8, <1>9 DEF KeysOf
<1>11. x \in ToSet(grown)
  BY <1>2, <1>3, <1>7 DEF ToSet
<1>12. k \in UNION {KeysOf(y)' : y \in {v \in ToSet(grown) : v.charged}}
  BY <1>7, <1>10, <1>11
<1>13. QED BY <1>1, <1>12 DEF Deserved, KeysOf

DeservedBy(es) ==
  UNION {{<<e.ts, e.who, n>> : n \in 1 .. Cardinality({i \in DOMAIN es : es[i] = e})} :
         e \in {x \in ToSet(es) : x.charged}}

\* events come, or a charge is taken back
EventsMove(w) ==
  w.waived \/ (~world.waived /\ (w.events = world.events \/ \E e \in CuUsage : w.events = Append(world.events, e)))

LEMMA CuMoved ==
  ASSUME CuInv, NEW w, NEW what, Move(w, what), CuShape(w), EventsMove(w), w.newest = world.newest,
         world.active \subseteq w.active,
         "roster" \in what \/ w.roster = world.roster,
         "active" \in what \/ w.active = world.active,
         "cycle" \in what \/ (w.cycle = world.cycle /\ w.cents = world.cents /\ w.limit = world.limit),
         "events" \in what \/ w.events = world.events
  PROVE  CuInv'
<1>1. /\ world' = w /\ token' = token /\ stored' = stored /\ walks' = walks /\ moved' = moved \cup what
      /\ moved \subseteq moved'
  BY DEF Move
<1>2. CuShape(world)' /\ walks' \in Nat
  <2>1. CuShape(w)
    OBVIOUS
  <2>2. QED BY <1>1, <2>1 DEF CuInv, CuShape
<1>3. CuStored(stored)'
  BY <1>1 DEF CuInv, CuStored
<1>4. CuTokenOK'
  <2>1. Calm("roster")' => Calm("roster") /\ w.roster = world.roster
    BY <1>1 DEF Calm
  <2>2. CuTokenOK
    BY DEF CuInv
  <2>3. QED BY <1>1, <2>1, <2>2, Zenon DEF CuTokenOK
<1>5. /\ \A i : SpendPassed(i)' <=> SpendPassed(i)
      /\ \A d, i : DailyPassed(d, i)' <=> DailyPassed(d, i)
      /\ \A c, i : EventPassed(c, i)' <=> EventPassed(c, i)
      /\ Behind' = Behind
  BY <1>1 DEF SpendPassed, DailyPassed, EventPassed, ChunkPassed, CuOver, Walking, Behind
<1>6. CyclesRead'
  <2>1. SUFFICES ASSUME Calm("roster")', Calm("cycle")', NEW i \in DOMAIN w.roster, SpendPassed(i)'
                 PROVE  CycleRead(w.roster[i])'
    BY <1>1 DEF CyclesRead
  <2>2. /\ Calm("roster") /\ Calm("cycle") /\ w.roster = world.roster
        /\ w.cycle = world.cycle /\ w.cents = world.cents /\ w.limit = world.limit
    BY <1>1, <2>1 DEF Calm
  <2>3. CycleRead(w.roster[i])
    BY <1>5, <2>1, <2>2 DEF CuInv, CyclesRead
  <2>4. QED BY <1>1, <2>2, <2>3 DEF CycleRead
<1>7. ActiveRead'
  <2>1. CASE w.roster = world.roster /\ w.active = world.active
    BY <1>1, <1>5, <2>1 DEF CuInv, ActiveRead, Calm
  <2>2. CASE ~(w.roster = world.roster /\ w.active = world.active)
    BY <1>1, <2>2 DEF ActiveRead, Calm
  <2>3. QED BY <2>1, <2>2
<1>8. EventsRead'
  <2>1. CASE w.events = world.events
    <3>1. \A k : FactBooked(k) => FactBooked(k)'
      BY <1>1 DEF FactBooked, Calm
    <3>2. QED BY <1>1, <1>5, <2>1, <3>1, EventsStay DEF CuInv
  <2>2. CASE w.events # world.events
    BY <1>1, <2>2 DEF EventsRead, Calm
  <2>3. QED BY <2>1, <2>2
<1>9. NoStray'
  <2>1. SUFFICES ASSUME ~w.newest, ~w.waived PROVE DOMAIN stored.facts \subseteq Deserved'
    BY <1>1 DEF NoStray
  <2>2. DOMAIN stored.facts \subseteq Deserved
    BY <2>1 DEF CuInv, NoStray, EventsMove
  <2>3. CASE w.events = world.events
    <3>1. world.events = world'.events
      BY <1>1, <2>3
    <3>2. Deserved = DeservedBy(world.events)
      BY DEF Deserved, DeservedBy
    <3>3. Deserved' = DeservedBy(world'.events)
      BY DEF Deserved, DeservedBy
    <3>4. QED BY <1>1, <2>2, <3>1, <3>2, <3>3
  <2>4. ASSUME NEW e \in CuUsage, w.events = Append(world.events, e) PROVE DOMAIN stored.facts \subseteq Deserved'
    <3>1. world.events \in Seq(CuUsage)
      BY DEF CuInv, CuShape
    <3>2. QED BY <1>1, <2>2, <2>4, <3>1, DeservedGrows
  <2>5. QED BY <2>1, <2>3, <2>4 DEF EventsMove
<1>10. EventsTallied'
  <2>1. SUFFICES ASSUME Steady', token # None, token.phase = "events"
                 PROVE  (Behind <= Len(Served(token.chunk)) /\ Tally(token.tsCounts, Served(token.chunk), Behind, world.newest))'
    BY <1>1 DEF EventsTallied, Walking
  <2>2. PICK c, es, fs, h, counts, newest :
          /\ c = token.chunk /\ es = Served(c) /\ fs = Served(c)' /\ h = Behind /\ counts = token.tsCounts
          /\ newest = world.newest
    OBVIOUS
  <2>3. Served(token.chunk)' = fs
    BY <1>1, <2>2 DEF Served
  <2>4. SUFFICES h <= Len(fs) /\ Tally(counts, fs, h, newest)
    BY <1>1, <1>5, <2>2, <2>3
  <2>5. Steady
    BY <1>1, <2>1 DEF Steady, Calm, EventsMove
  <2>6. h <= Len(es) /\ Tally(counts, es, h, newest)
    BY <2>1, <2>2, <2>5 DEF CuInv, EventsTallied, Walking
  <2>7. CASE w.events = world.events
    <3>1. fs = es
      BY <1>1, <2>2, <2>7, CuServedStays
    <3>2. QED BY <2>6, <3>1
  <2>8. CASE w.events # world.events
    <3>1. ~w.newest /\ ~w.waived /\ newest = FALSE
      <4>1. ~Calm("events")'
        BY <1>1, <2>8 DEF Calm
      <4>2. ~w.newest /\ ~w.waived
        BY <1>1, <2>1, <4>1 DEF Steady
      <4>3. world.newest \in BOOLEAN
        BY DEF CuInv, CuShape
      <4>4. QED BY <2>2, <4>2, <4>3
    <3>2. PICK e \in CuUsage : w.events = Append(world.events, e)
      BY <2>8, <3>1 DEF EventsMove
    <3>3. PICK events, grown : events = world.events /\ grown = w.events
      OBVIOUS
    <3>4. events \in Seq(CuUsage) /\ InTime(events) /\ InTime(grown) /\ grown = Append(events, e)
      BY <3>2, <3>3 DEF CuInv, CuShape
    <3>5. IsServed(events, FALSE, c, es) /\ IsServed(grown, FALSE, c, fs)
      <4>1. world.newest = FALSE /\ world'.newest = FALSE
        BY <1>1, <2>2, <3>1
      <4>2. IsServed(events, FALSE, c, es)
        BY <2>2, <3>3, <4>1 DEF Served, IsServed
      <4>3. IsServed(grown, FALSE, c, fs)
        BY <1>1, <2>2, <3>3, <4>1 DEF Served, IsServed
      <4>4. QED BY <4>2, <4>3
    <3>6. Len(es) <= Len(fs) /\ \A i \in 1 .. Len(es) : fs[i] = es[i]
      <4>1. Comes(events, e, grown) /\ e \in CuUsage
        BY <3>2, <3>4 DEF Comes
      <4>2. OldestFirst(events, c, es) /\ OldestFirst(grown, c, fs)
        BY <3>5 DEF OldestFirst
      <4>3. QED BY <3>4, <4>1, <4>2, ServedExtends
    <3>7. Len(es) \in Nat /\ Len(fs) \in Nat /\ h \in Nat
      <4>1. CuShape(world) /\ token.page \in Nat \ {0}
        BY <2>1 DEF CuInv, CuTokenOK, CuCursors
      <4>2. Len(es) \in Nat
        BY <2>2, <4>1, ServedSeq
      <4>3. h \in Nat
        <5>1. h = (token.page - 1) * CuPage
          BY <2>2 DEF Behind
        <5>2. QED BY <4>1, <5>1, CuSizes, PagesFollow
      <4>4. grown \in Seq(CuUsage)
        BY <3>3 DEF CuShape
      <4>5. PICK a \in Nat, L \in Nat : ServedAt(grown, FALSE, c, fs, a, L)
        BY <3>4, <3>5, <4>4, ChunkIsServed
      <4>6. Len(fs) \in Nat
        BY <4>5 DEF ServedAt
      <4>7. QED BY <4>2, <4>3, <4>6
    <3>8. h <= Len(fs) /\ \A i \in 1 .. h : fs[i] = es[i]
      BY <2>6, <3>6, <3>7
    <3>9. Tally(counts, fs, h, newest)
      BY <2>6, <3>7, <3>8, TallyStays
    <3>10. QED BY <3>8, <3>9
  <2>9. QED BY <2>7, <2>8
<1>11. QED BY <1>2, <1>3, <1>4, <1>6, <1>7, <1>8, <1>9, <1>10 DEF CuInv

LEMMA EventComes ==
  ASSUME NEW events \in Seq(CuUsage), InTime(events), NEW e \in CuUsage, events # <<>> => e.ts >= Last(events).ts
  PROVE  Append(events, e) \in Seq(CuUsage) /\ InTime(Append(events, e))
<1>1. PICK grown, N : grown = Append(events, e) /\ N = Len(events)
  OBVIOUS
<1>2. N \in Nat /\ DOMAIN events = 1 .. N /\ \A i \in 1 .. N : events[i] \in CuUsage
  BY <1>1, LenProperties, ElementOfSeq
<1>3. /\ grown \in Seq(CuUsage) /\ DOMAIN grown = 1 .. N + 1
      /\ \A i \in 1 .. N : grown[i] = events[i]
      /\ grown[N + 1] = e
  BY <1>1, <1>2, AppendProperties, LenProperties
<1>4. \A i \in 1 .. N : events[i].ts \in Nat
  BY <1>2 DEF CuUsage, CuInstants
<1>5. e.ts \in Nat
  BY DEF CuUsage, CuInstants
<1>6. \A i \in 1 .. N : events[i].ts <= e.ts
  <2>1. TAKE i \in 1 .. N
  <2>2. events # <<>> /\ N \in 1 .. N
    BY <1>1, <1>2, EmptySeq
  <2>3. Last(events) = events[N]
    BY <1>1 DEF Last
  <2>4. events[i].ts <= events[N].ts
    <3>1. i = N \/ i < N
      BY <1>2
    <3>2. i < N => events[i].ts <= events[N].ts
      BY <1>2, <2>2 DEF InTime
    <3>3. QED BY <1>4, <2>2, <3>1, <3>2
  <2>5. QED BY <1>4, <1>5, <2>2, <2>3, <2>4
<1>7. ASSUME NEW i \in 1 .. N + 1, NEW k \in 1 .. N + 1, i < k PROVE grown[i].ts <= grown[k].ts
  <2>1. i \in 1 .. N
    BY <1>2, <1>7
  <2>2. CASE k = N + 1
    BY <1>3, <1>6, <2>1, <2>2
  <2>3. CASE k # N + 1
    <3>1. k \in 1 .. N
      BY <1>2, <2>3
    <3>2. events[i].ts <= events[k].ts
      BY <1>2, <1>7, <2>1, <3>1 DEF InTime
    <3>3. QED BY <1>3, <2>1, <3>1, <3>2
  <2>4. QED BY <2>2, <2>3
<1>8. InTime(grown)
  BY <1>3, <1>7 DEF InTime
<1>9. QED BY <1>1, <1>3, <1>8

LEMMA CuMovesKeep == CuInv /\ CuMoves => CuInv'
<1> SUFFICES ASSUME CuInv, CuMoves PROVE CuInv'
  OBVIOUS
<1>1. CuShape(world)
  BY DEF CuInv
<1>2. PICK roster, active, events : roster = world.roster /\ active = world.active /\ events = world.events
  OBVIOUS
<1>3. /\ roster \in Seq(CuEmails) /\ active \subseteq (1 .. CuChunks) \X ToSet(roster)
      /\ events \in Seq(CuUsage) /\ InTime(events)
  BY <1>1, <1>2 DEF CuShape
<1>4. ASSUME NextCycle PROVE CuInv'
  <2>1. PICK w : w = [world EXCEPT !.cycle = 2, !.cents = [u \in CuEmails |-> 0]]
    OBVIOUS
  <2>2. /\ CuShape(w) /\ w.roster = roster /\ w.active = active /\ w.events = events /\ w.newest = world.newest
        /\ w.waived = world.waived
    BY <1>1, <1>2, <2>1 DEF CuShape
  <2>3. Move(w, {"cycle"})
    BY <1>4, <2>1 DEF NextCycle
  <2>4. EventsMove(w)
    BY <1>1, <1>2, <2>2 DEF EventsMove, CuShape
  <2>5. QED BY <1>2, <2>2, <2>3, <2>4, CuMoved
<1>5. ASSUME NEW u, NEW cents, setCursorUserSpendLimit(u, cents) PROVE CuInv'
  <2>1. PICK w : w = [world EXCEPT !.limit[u] = cents]
    OBVIOUS
  <2>2. /\ CuShape(w) /\ w.roster = roster /\ w.active = active /\ w.events = events /\ w.newest = world.newest
        /\ w.waived = world.waived
    BY <1>1, <1>2, <2>1 DEF CuShape
  <2>3. Move(w, {"cycle"})
    BY <1>5, <2>1 DEF setCursorUserSpendLimit
  <2>4. EventsMove(w)
    BY <1>1, <1>2, <2>2 DEF EventsMove, CuShape
  <2>5. QED BY <1>2, <2>2, <2>3, <2>4, CuMoved
<1>6. ASSUME NEW u \in CuEmails, Join(u) PROVE CuInv'
  <2>1. PICK w, grown : grown = Append(roster, u) /\ w = [world EXCEPT !.roster = grown]
    OBVIOUS
  <2>2. grown \in Seq(CuEmails) /\ ToSet(roster) \subseteq ToSet(grown)
    <3>1. /\ grown \in Seq(CuEmails) /\ Len(grown) = Len(roster) + 1 /\ Len(roster) \in Nat
          /\ \A i \in 1 .. Len(roster) : grown[i] = roster[i]
      BY <1>3, <2>1, AppendProperties, LenProperties
    <3>2. DOMAIN roster = 1 .. Len(roster) /\ DOMAIN grown = 1 .. Len(roster) + 1
      BY <1>3, <3>1, LenProperties
    <3>3. QED BY <3>1, <3>2 DEF ToSet
  <2>3. /\ w.roster = grown /\ w.active = active /\ w.events = events /\ w.newest = world.newest
        /\ w.waived = world.waived /\ w.cycle = world.cycle /\ w.cents = world.cents /\ w.limit = world.limit
    BY <1>1, <1>2, <2>1 DEF CuShape
  <2>4. CuShape(w)
    <3>1. active \subseteq (1 .. CuChunks) \X ToSet(grown)
      BY <1>3, <2>2
    <3>2. QED BY <1>1, <1>2, <2>1, <2>2, <2>3, <3>1 DEF CuShape
  <2>5. Move(w, {"roster"})
    BY <1>2, <1>6, <2>1 DEF Join
  <2>6. EventsMove(w)
    BY <1>1, <1>2, <2>3 DEF EventsMove, CuShape
  <2>7. QED BY <1>2, <2>3, <2>4, <2>5, <2>6, CuMoved
<1>7. ASSUME NEW u \in CuEmails, Work(u) PROVE CuInv'
  <2>1. PICK w, more : more = active \cup {<<CuChunks, u>>} /\ w = [world EXCEPT !.active = more]
    OBVIOUS
  <2>2. more \subseteq (1 .. CuChunks) \X ToSet(roster)
    BY <1>2, <1>3, <1>7, <2>1, CuSizes DEF Work
  <2>3. /\ w.roster = roster /\ w.active = more /\ w.events = events /\ w.newest = world.newest
        /\ w.waived = world.waived /\ w.cycle = world.cycle /\ w.cents = world.cents /\ w.limit = world.limit
    BY <1>1, <1>2, <2>1 DEF CuShape
  <2>4. CuShape(w)
    BY <1>1, <1>2, <2>1, <2>2, <2>3 DEF CuShape
  <2>5. Move(w, {"active"})
    BY <1>2, <1>7, <2>1 DEF Work
  <2>6. EventsMove(w)
    BY <1>1, <1>2, <2>3 DEF EventsMove, CuShape
  <2>7. active \subseteq more
    BY <2>1
  <2>8. QED BY <1>2, <2>3, <2>4, <2>5, <2>6, <2>7, CuMoved
<1>8. ASSUME NEW u \in CuEmails, NEW ts \in CuTimes, NEW charged \in BOOLEAN, UsageEvent(ts, u, charged) PROVE CuInv'
  <2>1. PICK e, grown, cents :
          /\ e = [ts |-> ts, who |-> u, charged |-> charged] /\ grown = Append(events, e)
          /\ cents = [world.cents EXCEPT ![u] = IF charged THEN @ + 1 ELSE @]
    OBVIOUS
  <2>2. PICK w : w = [world EXCEPT !.events = grown, !.cents = cents]
    OBVIOUS
  <2>3. e \in CuUsage /\ e.ts = ts
    BY <2>1, CursorAssumption DEF CuUsage
  <2>4. grown \in Seq(CuUsage) /\ InTime(grown)
    <3>1. events # <<>> => e.ts >= Last(events).ts
      BY <1>2, <1>8, <2>3 DEF UsageEvent
    <3>2. QED BY <1>3, <2>1, <2>3, <3>1, EventComes
  <2>5. /\ w.roster = roster /\ w.active = active /\ w.events = grown /\ w.newest = world.newest
        /\ w.waived = world.waived
    BY <1>1, <1>2, <2>2 DEF CuShape
  <2>6. CuShape(w)
    BY <1>1, <1>2, <2>2, <2>4, <2>5 DEF CuShape
  <2>7. Move(w, {"events", "cycle"})
    <3>1. w = [world EXCEPT !.events = Append(@, [ts |-> ts, who |-> u, charged |-> charged]),
                            !.cents[u] = IF charged THEN @ + 1 ELSE @]
      BY <1>2, <2>1, <2>2
    <3>2. QED BY <1>8, <3>1 DEF UsageEvent
  <2>8. EventsMove(w)
    BY <1>1, <1>2, <2>1, <2>3, <2>5 DEF EventsMove, CuShape
  <2>9. QED BY <1>2, <2>5, <2>6, <2>7, <2>8, CuMoved
<1>9. ASSUME NEW i \in DOMAIN world.events, Waive(i) PROVE CuInv'
  <2>1. PICK N : N = Len(events)
    OBVIOUS
  <2>2. N \in Nat /\ DOMAIN events = 1 .. N /\ \A k \in 1 .. N : events[k] \in CuUsage
    BY <1>3, <2>1, LenProperties, ElementOfSeq
  <2>3. PICK x, free : x = [events[i] EXCEPT !.charged = FALSE] /\ free = [events EXCEPT ![i] = x]
    OBVIOUS
  <2>4. i \in 1 .. N /\ events[i] \in CuUsage
    BY <1>2, <1>9, <2>2
  <2>5. x \in CuUsage /\ x.ts = events[i].ts
    BY <2>3, <2>4 DEF CuUsage
  <2>6. events \in [1 .. N -> CuUsage]
    BY <1>3, <2>1, <2>2, LenProperties
  <2>7. free \in [1 .. N -> CuUsage] /\ \A k \in 1 .. N : free[k] = IF k = i THEN x ELSE events[k]
    BY <2>3, <2>4, <2>5, <2>6
  <2>8. free \in Seq(CuUsage) /\ DOMAIN free = 1 .. N
    BY <2>2, <2>7, SeqDef
  <2>9. InTime(free)
    <3>1. \A k \in 1 .. N : free[k].ts = events[k].ts
      BY <2>5, <2>7
    <3>2. QED BY <1>3, <2>2, <2>8, <3>1 DEF InTime
  <2>10. PICK w : w = [world EXCEPT !.events = free, !.waived = TRUE]
    OBVIOUS
  <2>11. /\ w.roster = roster /\ w.active = active /\ w.events = free /\ w.newest = world.newest /\ w.waived = TRUE
         /\ w.cycle = world.cycle /\ w.cents = world.cents /\ w.limit = world.limit
    BY <1>1, <1>2, <2>10 DEF CuShape
  <2>12. CuShape(w)
    BY <1>1, <1>2, <2>8, <2>9, <2>10, <2>11 DEF CuShape
  <2>13. Move(w, {"events"})
    <3>1. w = [world EXCEPT !.events[i].charged = FALSE, !.waived = TRUE]
      BY <1>2, <2>3, <2>10
    <3>2. QED BY <1>9, <3>1 DEF Waive
  <2>14. EventsMove(w)
    BY <2>11 DEF EventsMove
  <2>15. QED BY <1>2, <2>11, <2>12, <2>13, <2>14, CuMoved
<1>10. QED BY <1>4, <1>5, <1>6, <1>7, <1>8, <1>9 DEF CuMoves

LEMMA CuStutters == CuInv /\ UNCHANGED walkVars => CuInv'
<1> SUFFICES ASSUME CuInv, UNCHANGED walkVars PROVE CuInv'
  OBVIOUS
<1>1. UNCHANGED <<world, token, stored, moved, walks>>
  BY DEF walkVars
<1>2. /\ \A i : SpendPassed(i)' <=> SpendPassed(i)
      /\ \A d, i : DailyPassed(d, i)' <=> DailyPassed(d, i)
      /\ \A c, i : EventPassed(c, i)' <=> EventPassed(c, i)
      /\ \A k : FactBooked(k)' <=> FactBooked(k)
  BY <1>1 DEF SpendPassed, DailyPassed, EventPassed, ChunkPassed, CuOver, Walking, Behind, FactBooked, Calm
<1>3. CyclesRead' /\ ActiveRead' /\ EventsRead'
  BY <1>1, <1>2, CyclesStay, ActiveStays, EventsStay DEF CuInv
<1>4. EventsTallied'
  <2>1. Served(token.chunk)' = Served(token.chunk)
    BY <1>1 DEF Served
  <2>2. Behind' = Behind /\ (Steady' <=> Steady)
    BY <1>1 DEF Behind, Steady, Calm
  <2>3. QED BY <1>1, <2>1, <2>2 DEF CuInv, EventsTallied, Walking
<1>5. NoStray'
  BY <1>1 DEF CuInv, NoStray, Deserved
<1>6. CuTokenOK'
  BY <1>1 DEF CuInv, CuTokenOK, Calm
<1>7. CuShape(world)' /\ CuStored(stored)'
  BY <1>1 DEF CuInv, CuShape, CuStored
<1>8. QED BY <1>1, <1>3, <1>4, <1>5, <1>6, <1>7 DEF CuInv

LEMMA CursorInductive == CursorIInv /\ [MCNext]_walkVars => CursorIInv'
<1> SUFFICES ASSUME CursorIInv, [MCNext]_walkVars, vendor' = "cursor" PROVE CuInv'
  BY DEF CursorIInv
<1>1. vendor' = vendor
  BY GithubStays, CursorStays, OpenAiStays, AnthropicStays, IssuesStay DEF MCNext, walkVars
<1>2. CuInv
  BY <1>1 DEF CursorIInv
<1>3. CuNext \/ UNCHANGED walkVars
  BY <1>1 DEF MCNext
<1>4. QED BY <1>2, <1>3, CuStarts, MembersKeep, SpendKeeps, DailyKeeps, EventFactsKeep, CuMovesKeep, CuStutters
          DEF CuNext, CuPages

\* At every moment of a Cursor walk, what the token has passed is stored, and
\* while no page can shift the token's counts are how often each charge has
\* been served (cursor.ts:371-515, 611-683).
THEOREM CursorInvariance == MCSpec => []CursorIInv
<1>1. MCInit => CursorIInv
  BY CuInitially DEF MCInit, CursorIInv, GhInit, OaInit, AnInit, IbInit
<1>2. CursorIInv /\ [MCNext]_walkVars => CursorIInv'
  BY CursorInductive
<1>3. QED BY <1>1, <1>2, PTL DEF MCSpec

\* Every finished walk has a fact of its own for every charged event, the n-th
\* of one millisecond too, and none without an event while pages cannot shift;
\* and the running cycle's cents and limits and the days of activity are the
\* vendor's, for all rosters and events (cursor.ts:371-515, 611-683).
THEOREM CursorBooked == MCSpec => []CursorLedger
<1>1. CursorIInv => CursorLedger
  <2>1. SUFFICES ASSUME CursorIInv PROVE EventsBooked /\ CycleMirrored
    BY DEF CursorLedger
  <2>2. vendor = "cursor" => CuInv
    BY <2>1 DEF CursorIInv
  <2>3. EventsBooked
    <3>1. SUFFICES ASSUME Settled("cursor", {"events"})
                   PROVE  /\ Deserved \subseteq DOMAIN stored.facts
                          /\ ~world.newest /\ ~world.waived => DOMAIN stored.facts = Deserved
                          /\ "roster" \notin moved =>
                               \A k \in Deserved : stored.facts[k] = Spender(k[2], ToSet(world.roster))
      BY DEF EventsBooked
    <3>2. CuInv /\ Calm("events") /\ CuOver
      BY <2>2, <3>1 DEF Settled, Calm, CuOver
    <3>3. ASSUME NEW k \in Deserved PROVE FactBooked(k)
      <4>1. world.events \in Seq(CuUsage) /\ InTime(world.events) /\ world.newest \in BOOLEAN
        BY <3>2 DEF CuInv, CuShape
      <4>2. PICK c \in 1 .. CuChunks : \E i \in 1 .. Len(Served(c)) : Served(c)[i].charged /\ k = FactKey(Served(c), i)
        BY <3>3, <4>1, DeservedIs
      <4>3. PICK i \in 1 .. Len(Served(c)) : Served(c)[i].charged /\ k = FactKey(Served(c), i)
        BY <4>2
      <4>4. EventPassed(c, i)
        BY <3>2 DEF EventPassed
      <4>5. QED BY <3>2, <4>3, <4>4 DEF CuInv, EventsRead
    <3>4. Deserved \subseteq DOMAIN stored.facts
      BY <3>3 DEF FactBooked
    <3>5. ~world.newest /\ ~world.waived => DOMAIN stored.facts \subseteq Deserved
      BY <3>2 DEF CuInv, NoStray
    <3>6. QED BY <3>3, <3>4, <3>5 DEF FactBooked, Calm
  <2>4. CycleMirrored
    <3>1. SUFFICES ASSUME Settled("cursor", {"cycle", "roster"})
                   PROVE  /\ \A u \in ToSet(world.roster) :
                               stored.cycles[<<world.cycle, u>>] = [cents |-> world.cents[u], limit |-> world.limit[u]]
                          /\ stored.active \subseteq world.active
                          /\ "active" \notin moved => stored.active = world.active
      BY DEF CycleMirrored
    <3>2. CuInv /\ Calm("roster") /\ Calm("cycle") /\ CuOver
      BY <2>2, <3>1 DEF Settled, Calm, CuOver
    <3>3. \A i \in DOMAIN world.roster : CycleRead(world.roster[i])
      BY <3>2 DEF CuInv, CyclesRead, SpendPassed
    <3>4. stored.active \subseteq world.active /\ world.active \subseteq (1 .. CuChunks) \X ToSet(world.roster)
      BY <3>2 DEF CuInv, CuStored, CuShape
    <3>5. ASSUME "active" \notin moved, NEW x \in world.active PROVE x \in stored.active
      <4>1. PICK d \in 1 .. CuChunks, i \in DOMAIN world.roster : x = <<d, world.roster[i]>>
        BY <3>4 DEF ToSet
      <4>2. DailyPassed(d, i) /\ Calm("active")
        BY <3>2, <3>5 DEF DailyPassed, Calm
      <4>3. QED BY <3>2, <4>1, <4>2 DEF CuInv, ActiveRead
    <3>6. QED BY <3>3, <3>4, <3>5 DEF CycleRead, ToSet
  <2>5. QED BY <2>3, <2>4
<1>2. QED BY <1>1, CursorInvariance, PTL

\* Whichever vendor is walked, its ledger is the vendor's when the walk is over
\* (fetchPage of github.ts, cursor.ts, openai.ts and anthropic.ts).
THEOREM VendorLedgersHold == MCSpec => []VendorLedgers
<1>1. GithubLedger /\ CursorLedger /\ OpenAiLedger /\ AnthropicLedger => VendorLedgers
  BY DEF VendorLedgers
<1>2. QED BY <1>1, GithubBooked, CursorBooked, OpenAiBooked, AnthropicBooked, PTL
====
