------------------------- MODULE TableMetrics_proofs -------------------------
(***************************************************************************)
(* Theorems about what a run measures of a table that others write to, for *)
(* tables of any size, any numbers and any number of writes; and about the *)
(* source: its pool, its buckets.                                          *)
(***************************************************************************)
EXTENDS TableMetrics, SumLemmas

-----------------------------------------------------------------------------
(* The source                                                              *)

\* Whatever the environment holds, a pool has a connection and keeps no more idle
\* ones than it may open: MaxOpenConns(env) meets what ColumnProfiler assumes of
\* MaxConns (Open, envInt).
THEOREM PoolLimits ==
  ASSUME NEW env \in [open : Int, idle : Int]
  PROVE  /\ MaxOpenConns(env) \in Nat \ {0}
         /\ MaxIdleConns(env) \in 1 .. MaxOpenConns(env)
BY DEF MaxOpenConns, MaxIdleConns, EnvInt

\* The bucket a value between the ends of the range falls into is one of the ten,
\* and the value lies between the bounds addNumericHistogram gives that bin: the
\* queries and the labels, computed apart, agree (NumericHistogramQuery).
THEOREM BucketHolds ==
  ASSUME NEW lo \in Int, NEW hi \in Int, NEW x \in Int, lo <= x, x <= hi
  PROVE  /\ Bucket(x, lo, hi) \in 0 .. 9
         /\ 10 * lo + Bucket(x, lo, hi) * (hi - lo) <= 10 * x
         /\ 10 * x <= 10 * lo + (Bucket(x, lo, hi) + 1) * (hi - lo)
<1> DEFINE w == hi - lo
           d == x - lo
           i == (10 * d) \div w
<1>1. CASE lo = hi
  BY <1>1 DEF Bucket
<1>2. CASE lo # hi
  <2>1. w \in Nat /\ w > 0 /\ d \in Nat /\ d <= w
    BY <1>2
  <2>2. i \in Int /\ w * i <= 10 * d /\ 10 * d < w * (i + 1)
    <3> HIDE DEF w, d
    <3> QED BY <2>1
  <2>3. i >= 0
    <3> HIDE DEF w, d, i
    <3> QED BY <2>1, <2>2
  <2>4. i <= 10
    <3>1. SUFFICES ASSUME i >= 11 PROVE FALSE
      BY <2>2
    <3>2. w * i >= w * 11
      <4> HIDE DEF w, d, i
      <4> QED BY <2>1, <2>2, <3>1
    <3> QED BY <2>1, <2>2, <3>2
  <2>5. Bucket(x, lo, hi) = IF i > 9 THEN 9 ELSE i
    BY <1>2 DEF Bucket
  <2>6. CASE i > 9
    <3>1. i = 10 /\ w * 10 <= 10 * d
      BY <2>2, <2>4, <2>6
    <3>2. d = w
      BY <2>1, <3>1
    <3> QED BY <2>1, <2>5, <2>6, <3>2
  <2>7. CASE i <= 9
    <3>1. Bucket(x, lo, hi) = i /\ i \in 0 .. 9
      BY <2>2, <2>3, <2>5, <2>7
    <3>2. 10 * lo + i * w <= 10 * x /\ 10 * x <= 10 * lo + (i + 1) * w
      <4>1. 10 * x = 10 * lo + 10 * d
        OBVIOUS
      <4> HIDE DEF w, d, i
      <4> QED BY <2>1, <2>2, <4>1
    <3> QED BY <3>1, <3>2
  <2>8. QED BY <2>2, <2>6, <2>7
<1>3. QED BY <1>1, <1>2

\* A value strictly between the bounds of a bin is in its bucket.
LEMMA BucketBetween ==
  ASSUME NEW lo \in Int, NEW hi \in Int, NEW x \in Int, lo <= x, x <= hi, NEW i \in 0 .. 9,
         10 * lo + i * (hi - lo) < 10 * x, 10 * x < 10 * lo + (i + 1) * (hi - lo)
  PROVE  Bucket(x, lo, hi) = i
<1> DEFINE j == Bucket(x, lo, hi)
           w == hi - lo
<1>1. j \in 0 .. 9 /\ 10 * lo + j * w <= 10 * x /\ 10 * x <= 10 * lo + (j + 1) * w
  BY BucketHolds
<1>2. w \in Nat
  OBVIOUS
<1>3. 10 * lo + i * w < 10 * x /\ 10 * x < 10 * lo + (i + 1) * w
  OBVIOUS
<1> HIDE DEF j, w
<1>4. CASE j < i
  <2>1. PICK d \in Nat : i = j + 1 + d
    BY <1>1, <1>4
  <2>2. i * w = (j + 1) * w + d * w /\ d * w \in Nat /\ (j + 1) * w \in Int
    BY <1>1, <1>2, <2>1
  <2>3. QED BY <1>1, <1>3, <2>2
<1>5. CASE i < j
  <2>1. PICK d \in Nat : j = i + 1 + d
    BY <1>1, <1>5
  <2>2. j * w = (i + 1) * w + d * w /\ d * w \in Nat /\ (i + 1) * w \in Int
    BY <1>1, <1>2, <2>1
  <2>3. QED BY <1>1, <1>3, <2>2
<1>6. QED BY <1>1, <1>4, <1>5 DEF j

-----------------------------------------------------------------------------
(* Functions and sets                                                      *)

LEMMA LeastExists ==
  ASSUME NEW S, IsFiniteSet(S), S \subseteq Int
  PROVE  S # {} => \E x \in S : \A y \in S : x <= y
<1> DEFINE A == {T \in SUBSET S : T # {} => \E x \in T : \A y \in T : x <= y}
<1>1. ASSUME NEW T \in SUBSET S, \A U \in SUBSET T : U # T => U \in A
      PROVE  T \in A
  <2>1. SUFFICES ASSUME T # {}
                 PROVE  \E x \in T : \A y \in T : x <= y
    OBVIOUS
  <2>2. PICK w \in T : TRUE
    BY <2>1
  <2> DEFINE U == T \ {w}
  <2>3. U \in A
    <3>1. U \in SUBSET T /\ U # T
      OBVIOUS
    <3> HIDE DEF A, U
    <3>2. QED BY <1>1, <3>1
  <2>4. CASE U = {}
    BY <2>4
  <2>5. CASE U # {}
    <3>1. PICK x \in U : \A y \in U : x <= y
      BY <2>3, <2>5
    <3>2. QED BY <3>1
  <2>6. QED BY <2>4, <2>5
<1> HIDE DEF A
<1>2. S \in A
  BY <1>1, SubsetInduction
<1>3. QED BY <1>2 DEF A

LEMMA MinOf ==
  ASSUME NEW S, IsFiniteSet(S), S \subseteq Int, S # {}
  PROVE  Min(S) \in S /\ \A y \in S : Min(S) <= y
BY LeastExists DEF Min

LEMMA GreatestExists ==
  ASSUME NEW S, IsFiniteSet(S), S \subseteq Int
  PROVE  S # {} => \E x \in S : \A y \in S : y <= x
<1> DEFINE A == {T \in SUBSET S : T # {} => \E x \in T : \A y \in T : y <= x}
<1>1. ASSUME NEW T \in SUBSET S, \A U \in SUBSET T : U # T => U \in A
      PROVE  T \in A
  <2>1. SUFFICES ASSUME T # {}
                 PROVE  \E x \in T : \A y \in T : y <= x
    OBVIOUS
  <2>2. PICK w \in T : TRUE
    BY <2>1
  <2> DEFINE U == T \ {w}
  <2>3. U \in A
    <3>1. U \in SUBSET T /\ U # T
      OBVIOUS
    <3> HIDE DEF A, U
    <3>2. QED BY <1>1, <3>1
  <2>4. CASE U = {}
    BY <2>4
  <2>5. CASE U # {}
    <3>1. PICK x \in U : \A y \in U : y <= x
      BY <2>3, <2>5
    <3>2. QED BY <3>1
  <2>6. QED BY <2>4, <2>5
<1> HIDE DEF A
<1>2. S \in A
  BY <1>1, SubsetInduction
<1>3. QED BY <1>2 DEF A

LEMMA MaxOf ==
  ASSUME NEW S, IsFiniteSet(S), S \subseteq Int, S # {}
  PROVE  Max(S) \in S /\ \A y \in S : y <= Max(S)
BY GreatestExists DEF Max

\* A set with at most one more element.
LEMMA OneElementMore ==
  ASSUME NEW A, IsFiniteSet(A), NEW B, A \subseteq B, NEW x, B \subseteq A \cup {x}
  PROVE  /\ IsFiniteSet(B) /\ Cardinality(A) \in Nat /\ Cardinality(B) \in Nat
         /\ \/ B = A /\ Cardinality(B) = Cardinality(A)
            \/ x \in B /\ x \notin A /\ Cardinality(B) = Cardinality(A) + 1
<1>1. CASE x \in A \/ x \notin B
  <2>1. A = B
    BY <1>1
  <2>2. QED BY <2>1, FS_CardinalityType
<1>2. CASE x \notin A /\ x \in B
  <2>1. B = A \cup {x}
    BY <1>2
  <2>2. QED BY <1>2, <2>1, FS_AddElement, FS_CardinalityType
<1>3. QED BY <1>1, <1>2

-----------------------------------------------------------------------------
(* What a write does to what a query counts                                *)

\* What is found of the rows D of a table t.
FilledOf(t, D) == {r \in D : t[r] # Null}
ZerosOf(t, D)  == {r \in FilledOf(t, D) : t[r] = 0}
FoundOf(t, D)  == {t[r] : r \in FilledOf(t, D)}
ValuesOf(t, D) == {t[r] : r \in D}

\* The counts, of which all others are made; the last one is that of the rows
\* beyond the first of each group.
Sizes(t, D) == << Cardinality(D), Cardinality(FilledOf(t, D)), Cardinality(ZerosOf(t, D)),
                  Cardinality(FoundOf(t, D)), Cardinality(D) - Cardinality(ValuesOf(t, D)) >>

LEMMA PartsFinite ==
  ASSUME NEW t, NEW D, IsFiniteSet(D)
  PROVE  /\ IsFiniteSet(FilledOf(t, D)) /\ IsFiniteSet(ZerosOf(t, D))
         /\ IsFiniteSet(FoundOf(t, D)) /\ IsFiniteSet(ValuesOf(t, D))
         /\ Cardinality(FoundOf(t, D)) \in Nat /\ Cardinality(FoundOf(t, D)) <= Cardinality(FilledOf(t, D))
         /\ Cardinality(FilledOf(t, D)) \in Nat /\ Cardinality(FilledOf(t, D)) <= Cardinality(D)
         /\ Cardinality(D) \in Nat /\ Cardinality(ValuesOf(t, D)) \in Nat
         /\ Cardinality(ZerosOf(t, D)) \in Nat
<1>1. /\ IsFiniteSet(FilledOf(t, D)) /\ Cardinality(FilledOf(t, D)) <= Cardinality(D)
      /\ Cardinality(FilledOf(t, D)) \in Nat /\ Cardinality(D) \in Nat
  BY FS_Subset, FS_CardinalityType DEF FilledOf
<1>2. IsFiniteSet(ZerosOf(t, D)) /\ Cardinality(ZerosOf(t, D)) \in Nat
  BY <1>1, FS_Subset, FS_CardinalityType DEF ZerosOf
<1>3. ASSUME NEW S, IsFiniteSet(S)
      PROVE  IsFiniteSet({t[r] : r \in S}) /\ Cardinality({t[r] : r \in S}) <= Cardinality(S)
  <2> DEFINE T == {t[r] : r \in S}
             f == [r \in S |-> t[r]]
  <2>1. f \in Surjection(S, T)
    BY DEF Surjection
  <2>2. QED BY <1>3, <2>1, FS_Surjection
<1>4. QED BY <1>1, <1>2, <1>3, FS_CardinalityType DEF FoundOf, ValuesOf

\* Of the same rows with the same values the same is found.
LEMMA SameRows ==
  ASSUME NEW t, NEW u, NEW D, \A r \in D : t[r] = u[r]
  PROVE  Sizes(t, D) = Sizes(u, D)
<1>1. FilledOf(t, D) = FilledOf(u, D)
  BY DEF FilledOf
<1>2. ZerosOf(t, D) = ZerosOf(u, D) /\ FoundOf(t, D) = FoundOf(u, D)
  BY <1>1 DEF ZerosOf, FoundOf, FilledOf
<1>3. ValuesOf(t, D) = ValuesOf(u, D)
  BY DEF ValuesOf
<1>4. QED BY <1>1, <1>2, <1>3 DEF Sizes

\* One row more adds at most one to every count.
LEMMA RowMore ==
  ASSUME NEW t, NEW D, IsFiniteSet(D), NEW r
  PROVE  \A i \in 1 .. 5 : /\ Sizes(t, D)[i] \in Int /\ Sizes(t, D \ {r})[i] \in Int
                           /\ Sizes(t, D)[i] - Sizes(t, D \ {r})[i] \in {0, 1}
<1> DEFINE E == D \ {r}
           a == Sizes(t, D)
           b == Sizes(t, E)
<1>1. IsFiniteSet(E) /\ E \subseteq D /\ D \subseteq E \cup {r}
  BY FS_Subset
<1>2. /\ FilledOf(t, E) \subseteq FilledOf(t, D) /\ FilledOf(t, D) \subseteq FilledOf(t, E) \cup {r}
      /\ ZerosOf(t, E) \subseteq ZerosOf(t, D) /\ ZerosOf(t, D) \subseteq ZerosOf(t, E) \cup {r}
      /\ FoundOf(t, E) \subseteq FoundOf(t, D) /\ FoundOf(t, D) \subseteq FoundOf(t, E) \cup {t[r]}
      /\ ValuesOf(t, E) \subseteq ValuesOf(t, D) /\ ValuesOf(t, D) \subseteq ValuesOf(t, E) \cup {t[r]}
  BY DEF FilledOf, ZerosOf, FoundOf, ValuesOf
<1>3. /\ IsFiniteSet(FilledOf(t, E)) /\ IsFiniteSet(ZerosOf(t, E))
      /\ IsFiniteSet(FoundOf(t, E)) /\ IsFiniteSet(ValuesOf(t, E))
  BY <1>1, PartsFinite
<1> HIDE DEF E
<1>4. a[1] \in Nat /\ b[1] \in Nat /\ a[1] - b[1] \in {0, 1}
  BY <1>1, OneElementMore DEF Sizes
<1>5. a[2] \in Nat /\ b[2] \in Nat /\ a[2] - b[2] \in {0, 1}
  BY <1>2, <1>3, OneElementMore DEF Sizes
<1>6. a[3] \in Nat /\ b[3] \in Nat /\ a[3] - b[3] \in {0, 1}
  BY <1>2, <1>3, OneElementMore DEF Sizes
<1>7. a[4] \in Nat /\ b[4] \in Nat /\ a[4] - b[4] \in {0, 1}
  <2> DEFINE c == Cardinality(FoundOf(t, D))
             d == Cardinality(FoundOf(t, E))
  <2>1. c \in Nat /\ d \in Nat /\ (c = d \/ c = d + 1)
    BY <1>2, <1>3, OneElementMore
  <2>2. a[4] = c /\ b[4] = d
    BY DEF Sizes
  <2> HIDE DEF a, b, c, d
  <2>3. QED BY <2>1, <2>2
<1>8. a[5] \in Int /\ b[5] \in Int /\ a[5] - b[5] \in {0, 1}
  <2> DEFINE vd == Cardinality(ValuesOf(t, D))
             ve == Cardinality(ValuesOf(t, E))
  <2>1. vd \in Nat /\ ve \in Nat /\ (vd = ve \/ vd = ve + 1)
    BY <1>2, <1>3, OneElementMore
  <2>2. r \notin D => E = D
    BY DEF E
  <2>3. r \in D => Cardinality(D) = Cardinality(E) + 1
    BY <1>1, OneElementMore DEF E
  <2>4. Cardinality(D) \in Nat /\ Cardinality(E) \in Nat
    BY <1>1, FS_CardinalityType
  <2>5. a[5] = Cardinality(D) - vd /\ b[5] = Cardinality(E) - ve
    BY DEF Sizes
  <2> HIDE DEF vd, ve, a, b
  <2>6. CASE r \in D
    BY <2>1, <2>3, <2>4, <2>5, <2>6
  <2>7. CASE r \notin D
    <3>1. D = E /\ vd = ve
      BY <2>2, <2>7 DEF vd, ve
    <3>2. QED BY <2>1, <2>4, <2>5, <3>1
  <2>8. QED BY <2>6, <2>7
<1> HIDE DEF a, b
<1>9. \A i \in 1 .. 5 : a[i] \in Int /\ b[i] \in Int /\ a[i] - b[i] \in {0, 1}
  BY <1>4, <1>5, <1>6, <1>7, <1>8
<1>10. QED BY <1>9 DEF a, b, E

\* Two tables that differ in one row differ by at most one in every count.
LEMMA RowWritten ==
  ASSUME NEW t, NEW u, IsFiniteSet(DOMAIN t), IsFiniteSet(DOMAIN u), NEW r,
         DOMAIN t \ {r} = DOMAIN u \ {r}, \A k \in DOMAIN t \ {r} : t[k] = u[k],
         NEW i \in 1 .. 5
  PROVE  /\ Sizes(t, DOMAIN t)[i] \in Int /\ Sizes(u, DOMAIN u)[i] \in Int
         /\ Sizes(t, DOMAIN t)[i] <= Sizes(u, DOMAIN u)[i] + 1
         /\ Sizes(u, DOMAIN u)[i] <= Sizes(t, DOMAIN t)[i] + 1
<1> DEFINE E == DOMAIN t \ {r}
<1>1. Sizes(t, E)[i] = Sizes(u, E)[i]
  BY SameRows
<1>2. /\ Sizes(t, DOMAIN t)[i] \in Int /\ Sizes(t, E)[i] \in Int
      /\ Sizes(t, DOMAIN t)[i] - Sizes(t, E)[i] \in {0, 1}
  BY RowMore
<1>3. /\ Sizes(u, DOMAIN u)[i] \in Int /\ Sizes(u, E)[i] \in Int
      /\ Sizes(u, DOMAIN u)[i] - Sizes(u, E)[i] \in {0, 1}
  BY RowMore
<1> HIDE DEF E
<1>4. QED BY <1>1, <1>2, <1>3

-----------------------------------------------------------------------------
(* What one query finds                                                    *)

\* NULL is one value more, if a row holds it.
LEMMA NullIsAValue ==
  ASSUME NEW t, NEW D, IsFiniteSet(D)
  PROVE  /\ Cardinality(D \ FilledOf(t, D)) \in Nat
         /\ Cardinality(D \ FilledOf(t, D)) = Cardinality(D) - Cardinality(FilledOf(t, D))
         /\ Cardinality(ValuesOf(t, D)) =
              Cardinality(FoundOf(t, D)) + (IF Cardinality(D \ FilledOf(t, D)) > 0 THEN 1 ELSE 0)
<1> DEFINE N == D \ FilledOf(t, D)
<1>1. IsFiniteSet(N) /\ Cardinality(N) \in Nat
  BY FS_Subset, FS_CardinalityType
<1>2. Cardinality(N) = Cardinality(D) - Cardinality(FilledOf(t, D))
  <2>1. D \cap FilledOf(t, D) = FilledOf(t, D)
    BY DEF FilledOf
  <2>2. Cardinality(N) = Cardinality(D) - Cardinality(D \cap FilledOf(t, D))
    BY PartsFinite, FS_Difference
  <2>3. QED BY <2>1, <2>2
<1>3. FoundOf(t, D) \subseteq ValuesOf(t, D) /\ Null \notin FoundOf(t, D)
  BY DEF FoundOf, FilledOf, ValuesOf
<1>4. CASE N = {}
  <2>1. ValuesOf(t, D) = FoundOf(t, D)
    BY <1>4 DEF FoundOf, FilledOf, ValuesOf
  <2>2. Cardinality(N) = 0
    BY <1>4, FS_EmptySet
  <2>3. QED BY <1>1, <1>2, <2>1, <2>2, PartsFinite
<1>5. CASE N # {}
  <2>1. ValuesOf(t, D) = FoundOf(t, D) \cup {Null}
    BY <1>5 DEF FoundOf, FilledOf, ValuesOf
  <2>2. Cardinality(N) # 0
    BY <1>1, <1>5, FS_EmptySet
  <2>3. Cardinality(ValuesOf(t, D)) = Cardinality(FoundOf(t, D)) + 1
    BY <1>3, <2>1, PartsFinite, FS_AddElement
  <2>4. QED BY <1>1, <1>2, <2>2, <2>3, PartsFinite
<1>6. QED BY <1>4, <1>5

\* The numbers of rows of all values add up to the rows that are filled.
LEMMA AllValues ==
  ASSUME NEW t, NEW D, IsFiniteSet(D), NEW c, DOMAIN c = FoundOf(t, D),
         \A v \in FoundOf(t, D) : c[v] = Cardinality({r \in FilledOf(t, D) : t[r] = v})
  PROVE  SumFunction(c) = Cardinality(FilledOf(t, D))
<1> DEFINE R == FilledOf(t, D)
           S == FoundOf(t, D)
           h == [r \in R |-> t[r]]
<1>1. IsFiniteSet(R) /\ IsFiniteSet(S)
  BY PartsFinite
<1>2. \A r \in R : h[r] \in S
  BY DEF FoundOf
<1>3. \A v \in S : c[v] = Cardinality({r \in R : h[r] = v})
  <2>1. \A v : {r \in R : h[r] = v} = {r \in R : t[r] = v}
    OBVIOUS
  <2> HIDE DEF R, S, h
  <2>2. QED BY <2>1 DEF R, S
<1>4. SumFunction(c) = SumFunctionOnSet(c, S)
  BY DEF SumFunction
<1> HIDE DEF R, S, h
<1>5. SumFunctionOnSet(c, S) = Cardinality(R)
  BY <1>1, <1>2, <1>3, SumFibers
<1>6. QED BY <1>4, <1>5 DEF R

\* A part that is as large as the whole is the whole.
LEMMA WholeSet ==
  ASSUME NEW S, IsFiniteSet(S), NEW T \in SUBSET S, Cardinality(T) = Cardinality(S)
  PROVE  T = S
BY FS_Subset

-----------------------------------------------------------------------------
(* The buckets of one query                                                *)

\* The bins that the histogram query finds of the rows D of a table t, with the
\* range of the aggregates; BucketOf(t, D, r) is the bucket of a row.
BucketOf(t, D, r) == Bucket(t[r], Min(FoundOf(t, D)), Max(FoundOf(t, D)))
InBucket(t, D, i) == {r \in FilledOf(t, D) : BucketOf(t, D, r) = i}

\* The values found are numbers between the least and the greatest of them.
LEMMA FoundBetween ==
  ASSUME NEW S \in SUBSET RowIds, NEW t \in [S -> Numbers \cup {Null}], NEW D \in SUBSET S
  PROVE  /\ IsFiniteSet(D) /\ FoundOf(t, D) \subseteq Int /\ IsFiniteSet(FoundOf(t, D))
         /\ FoundOf(t, D) # {} =>
              /\ Min(FoundOf(t, D)) \in FoundOf(t, D) /\ Max(FoundOf(t, D)) \in FoundOf(t, D)
              /\ \A r \in FilledOf(t, D) : /\ t[r] \in Int
                                           /\ Min(FoundOf(t, D)) <= t[r] /\ t[r] <= Max(FoundOf(t, D))
         /\ (FoundOf(t, D) = {}) = (FilledOf(t, D) = {})
<1>1. IsFiniteSet(D)
  BY RowsAssumption, FS_Subset
<1>2. FoundOf(t, D) \subseteq Int /\ \A r \in FilledOf(t, D) : t[r] \in FoundOf(t, D)
  BY ValuesAssumption DEF FoundOf, FilledOf
<1>3. IsFiniteSet(FoundOf(t, D))
  BY <1>1, PartsFinite
<1>4. FoundOf(t, D) # {} =>
        /\ Min(FoundOf(t, D)) \in FoundOf(t, D) /\ Max(FoundOf(t, D)) \in FoundOf(t, D)
        /\ \A v \in FoundOf(t, D) : Min(FoundOf(t, D)) <= v /\ v <= Max(FoundOf(t, D))
  BY <1>2, <1>3, MinOf, MaxOf
<1>5. (FoundOf(t, D) = {}) = (FilledOf(t, D) = {})
  BY DEF FoundOf
<1>6. QED BY <1>1, <1>2, <1>3, <1>4, <1>5

\* A bin and a row: the row's value is between the bounds, or strictly between.
Closed(t, D, b) == {r \in FilledOf(t, D) : b.lower <= 10 * t[r] /\ 10 * t[r] <= b.upper}
Open(t, D, b)   == {r \in FilledOf(t, D) : b.lower < 10 * t[r] /\ 10 * t[r] < b.upper}

\* A bin counts at least the values strictly between its bounds, and at most those
\* between them.
Holds(t, D, b) == b.count <= Cardinality(Closed(t, D, b)) /\ b.count >= Cardinality(Open(t, D, b))

LEMMA BinHolds ==
  ASSUME NEW S \in SUBSET RowIds, NEW t \in [S -> Numbers \cup {Null}], NEW D \in SUBSET S,
         FoundOf(t, D) # {}, NEW i \in 0 .. 9, NEW b,
         b.count = Cardinality(InBucket(t, D, i)),
         b.lower = 10 * Min(FoundOf(t, D)) + i * (Max(FoundOf(t, D)) - Min(FoundOf(t, D))),
         b.upper = 10 * Min(FoundOf(t, D)) + (i + 1) * (Max(FoundOf(t, D)) - Min(FoundOf(t, D)))
  PROVE  Holds(t, D, b)
<1> DEFINE lo == Min(FoundOf(t, D))
           hi == Max(FoundOf(t, D))
<1>1. lo \in Int /\ hi \in Int /\ IsFiniteSet(FilledOf(t, D))
  BY FoundBetween, PartsFinite
<1>2. \A r \in FilledOf(t, D) : t[r] \in Int /\ lo <= t[r] /\ t[r] <= hi
  BY FoundBetween
<1>3. InBucket(t, D, i) \subseteq Closed(t, D, b)
  <2>1. SUFFICES ASSUME NEW r \in FilledOf(t, D), Bucket(t[r], lo, hi) = i
                 PROVE  b.lower <= 10 * t[r] /\ 10 * t[r] <= b.upper
    BY DEF InBucket, BucketOf, Closed
  <2> HIDE DEF lo, hi
  <2>2. /\ 10 * lo + i * (hi - lo) <= 10 * t[r]
        /\ 10 * t[r] <= 10 * lo + (i + 1) * (hi - lo)
    BY <1>1, <1>2, <2>1, BucketHolds
  <2>3. QED BY <2>2 DEF lo, hi
<1>4. Open(t, D, b) \subseteq InBucket(t, D, i)
  <2>1. SUFFICES ASSUME NEW r \in FilledOf(t, D), b.lower < 10 * t[r], 10 * t[r] < b.upper
                 PROVE  Bucket(t[r], lo, hi) = i
    BY DEF InBucket, BucketOf, Open
  <2>2. /\ 10 * lo + i * (hi - lo) < 10 * t[r]
        /\ 10 * t[r] < 10 * lo + (i + 1) * (hi - lo)
    BY <2>1
  <2> HIDE DEF lo, hi
  <2>3. QED BY <1>1, <1>2, <2>2, BucketBetween
<1>5. IsFiniteSet(Closed(t, D, b)) /\ IsFiniteSet(InBucket(t, D, i))
  BY <1>1, FS_Subset DEF Closed, InBucket
<1>6. /\ Cardinality(InBucket(t, D, i)) <= Cardinality(Closed(t, D, b))
      /\ Cardinality(Open(t, D, b)) <= Cardinality(InBucket(t, D, i))
  BY <1>3, <1>4, <1>5, FS_Subset
<1>7. /\ Cardinality(InBucket(t, D, i)) \in Nat
      /\ Cardinality(Open(t, D, b)) \in Nat
  BY <1>4, <1>5, FS_Subset, FS_CardinalityType
<1>8. QED BY <1>6, <1>7 DEF Holds

\* The bins of a query, labelled from lo on with tenths of a width w.
Bins(t, D, lo, w) ==
  {[lower |-> 10 * lo + i * w, upper |-> 10 * lo + (i + 1) * w, count |-> Cardinality(InBucket(t, D, i))]
     : i \in {k \in 0 .. 9 : Cardinality(InBucket(t, D, k)) > 0}}

LEMMA TenBins == IsFiniteSet(0 .. 9)
<1>1. \A a, b \in Int : IsFiniteSet(a .. b)
  BY FS_Interval
<1>2. 0 \in Int /\ 9 \in Int
  OBVIOUS
<1>3. QED BY <1>1, <1>2, Zenon

\* Each element of R goes with one of S; c counts those that go with each.
CountsEach(R, S, h, c) ==
  (\A r \in R : h[r] \in S) /\ (\A v \in S : c[v] = Cardinality({r \in R : h[r] = v}))

LEMMA EachCounted ==
  ASSUME NEW R, IsFiniteSet(R), NEW S, IsFiniteSet(S), NEW h, NEW c, CountsEach(R, S, h, c)
  PROVE  SumFunctionOnSet(c, S) = Cardinality(R)
BY SumFibers DEF CountsEach

LEMMA SameMultiple ==
  ASSUME NEW i \in Int, NEW j \in Int, NEW w \in Int, w # 0, i * w = j * w
  PROVE  i = j
OBVIOUS

\* The counts of the bins of a histogram add up to the rows that are filled.
LEMMA BinsAddUp ==
  ASSUME NEW S \in SUBSET RowIds, NEW t \in [S -> Numbers \cup {Null}], NEW D \in SUBSET S,
         NEW lo \in Int, NEW w \in Int, w # 0
  PROVE  SumFunction([b \in Bins(t, D, lo, w) |-> b.count]) = Cardinality(FilledOf(t, D))
<1> DEFINE R == FilledOf(t, D)
           H == Bins(t, D, lo, w)
           bin == [i \in 0 .. 9 |-> [lower |-> 10 * lo + i * w, upper |-> 10 * lo + (i + 1) * w,
                                     count |-> Cardinality(InBucket(t, D, i))]]
           used == {k \in 0 .. 9 : Cardinality(InBucket(t, D, k)) > 0}
           h == [r \in R |-> bin[BucketOf(t, D, r)]]
           c == [b \in H |-> b.count]
<1>1. IsFiniteSet(R)
  BY FoundBetween, PartsFinite
<1>2. \A r \in R : BucketOf(t, D, r) \in 0 .. 9
  <2>1. SUFFICES ASSUME NEW r \in R PROVE BucketOf(t, D, r) \in 0 .. 9
    OBVIOUS
  <2>2. FoundOf(t, D) # {}
    BY FoundBetween
  <2>3. t[r] \in Int /\ Min(FoundOf(t, D)) \in Int /\ Max(FoundOf(t, D)) \in Int
        /\ Min(FoundOf(t, D)) <= t[r] /\ t[r] <= Max(FoundOf(t, D))
    BY <2>2, FoundBetween
  <2>4. QED BY <2>3, BucketHolds DEF BucketOf
<1>3. H = {bin[i] : i \in used}
  BY DEF Bins
<1>4. \A i, j \in 0 .. 9 : bin[i] = bin[j] => i = j
  <2>1. SUFFICES ASSUME NEW i \in 0 .. 9, NEW j \in 0 .. 9, bin[i] = bin[j]
                 PROVE  i = j
    OBVIOUS
  <2>2. 10 * lo + i * w = 10 * lo + j * w
    <3>1. bin[i].lower = 10 * lo + i * w /\ bin[j].lower = 10 * lo + j * w
      OBVIOUS
    <3>2. QED BY <2>1, <3>1
  <2>3. i * w = j * w
    BY <2>2
  <2> HIDE DEF bin
  <2>4. QED BY <2>3, SameMultiple
<1>5. \A i \in 0 .. 9 : bin[i].count = Cardinality(InBucket(t, D, i))
  OBVIOUS
<1>6. \A r \in R : r \in InBucket(t, D, BucketOf(t, D, r))
  BY DEF InBucket
<1>7. \A i \in 0 .. 9 : IsFiniteSet(InBucket(t, D, i))
  BY <1>1, FS_Subset DEF InBucket
<1> HIDE DEF bin
<1>8. \A r \in R : BucketOf(t, D, r) \in used
  <2>1. SUFFICES ASSUME NEW r \in R PROVE Cardinality(InBucket(t, D, BucketOf(t, D, r))) > 0
    BY <1>2
  <2> DEFINE I == InBucket(t, D, BucketOf(t, D, r))
  <2>2. IsFiniteSet(I) /\ I # {}
    BY <1>2, <1>6, <1>7
  <2> HIDE DEF I
  <2>3. Cardinality(I) \in Nat /\ Cardinality(I) # 0
    BY <2>2, FS_EmptySet, FS_CardinalityType
  <2>4. QED BY <2>3 DEF I
<1>9. IsFiniteSet(H)
  <2>1. IsFiniteSet(used)
    <3>1. IsFiniteSet(0 .. 9)
      BY TenBins
    <3>2. used \subseteq 0 .. 9
      OBVIOUS
    <3> HIDE DEF used
    <3>3. QED BY <3>1, <3>2, FS_Subset
  <2> DEFINE f == [i \in used |-> bin[i]]
  <2>2. f \in Surjection(used, H)
    BY <1>3 DEF Surjection
  <2> HIDE DEF used, f
  <2>3. QED BY <2>1, <2>2, FS_Surjection
<1>10. \A r \in R : h[r] \in H
  BY <1>3, <1>8
<1>11. \A b \in H : c[b] = Cardinality({r \in R : h[r] = b})
  <2>1. SUFFICES ASSUME NEW b \in H
                 PROVE  c[b] = Cardinality({r \in R : h[r] = b})
    OBVIOUS
  <2>2. PICK i \in 0 .. 9 : bin[i] = b
    BY <1>3
  <2>3. {r \in R : h[r] = b} = InBucket(t, D, i)
    BY <1>2, <1>4, <2>2 DEF InBucket
  <2>4. c[b] = Cardinality(InBucket(t, D, i))
    BY <1>5, <2>2
  <2>5. QED BY <2>3, <2>4
<1>12. SumFunction(c) = SumFunctionOnSet(c, H)
  BY DEF SumFunction
<1> HIDE DEF R, H, h, c
<1>13. SumFunctionOnSet(c, H) = Cardinality(R)
  <2>1. CountsEach(R, H, h, c)
    BY <1>10, <1>11 DEF CountsEach
  <2>2. QED BY <1>1, <1>9, <2>1, EachCounted
<1>14. QED BY <1>12, <1>13 DEF R, H, c

-----------------------------------------------------------------------------
(* The inductive invariant                                                 *)

\* A source was chosen, the rows are counted, the aggregates are there.
Begun      == {"sampled", "aggregates", "top", "stats", "histogram", "duplicates", "done"}
Sized      == Begun \ {"sampled"}
Aggregated == Sized \ {"aggregates"}

\* What the queries of this moment would count.
Now == Sizes(rows, Scanned)

\* What is in a profile that was measured so far.
Typed ==
  /\ step \in Begun \cup {"open", "count", "failed"}
  /\ writes \in Nat
  /\ rows \in [DOMAIN rows -> Numbers \cup {Null}] /\ DOMAIN rows \subseteq RowIds
  /\ step \in {"open", "count"} => writes = 0
  /\ step \in Begun => /\ "from" \in DOMAIN p /\ p.from \in {"table", "sample"}
                       /\ p.from = "sample" => picked \subseteq DOMAIN rows
  /\ step \in {"sampled", "aggregates"} => DOMAIN p \cap {"top", "histogram", "dups"} = {}
  /\ step \in Sized => "rows" \in DOMAIN p /\ p.rows \in Nat
  /\ step \in Aggregated => /\ {"nulls", "distinct", "zeros", "range"} \subseteq DOMAIN p
                            /\ p.nulls \in Nat /\ p.distinct \in Nat /\ p.zeros \in Nat

TopSum == SumFunction(p.top)
BinSum == SumFunction([b \in p.histogram |-> b.count])

\* The rows beyond the first of each group, by what the aggregates found.
Repeated == p.rows - p.distinct - (IF p.nulls > 0 THEN 1 ELSE 0)

\* The queries see the table, or a sample of a table at rest.
Steady == p.from = "table" \/ writes = 0

\* What was counted is what would be counted now, but for one row a write; and
\* the clauses of CountsAgree, from when the metric is there.
SizeAgrees == step \in Sized => Close(p.rows, Now[1])
AggregatesAgree ==
  step \in Aggregated =>
    /\ Close(NonNull, Now[2])
    /\ Close(p.zeros, Now[3])
    /\ Close(p.distinct, Now[4])
    /\ Close(Repeated, Now[5])
    /\ p.nulls <= p.rows + writes
    /\ p.distinct <= NonNull + writes
TopAgrees ==
  Measured("top") =>
    /\ TopSum \in Int
    /\ p.distinct + writes <= TopLimit => Close(TopSum, NonNull)
    /\ 0 \in DOMAIN p.top => p.top[0] \in Int /\ Close(p.top[0], p.zeros)
HistogramAgrees  == Measured("histogram") => BinSum \in Int /\ Close(BinSum, NonNull)
DuplicatesAgree == Measured("dups") => p.dups \in Int /\ Close(p.dups, Repeated)

Slack ==
  step \in Begun /\ Steady =>
    SizeAgrees /\ AggregatesAgree /\ TopAgrees /\ HistogramAgrees /\ DuplicatesAgree

\* Of a table at rest the range is that of the values, and a bin holds its values.
Ranges ==
  step \in Aggregated =>
    /\ p.range = << >> \/ p.range \in Int \X Int
    /\ writes = 0 => p.range = IF Found = {} THEN << >> ELSE << Min(Found), Max(Found) >>
BinsHold ==
  step \in Begun /\ writes = 0 /\ Measured("histogram") =>
    \A b \in p.histogram : Holds(rows, Scanned, b)

MetricsInv == Typed /\ Slack /\ Ranges /\ BinsHold

-----------------------------------------------------------------------------
(* What the steps leave as it was                                          *)

\* The counts of the moment are those of the queries.
LEMMA NowIs ==
  /\ Filled = FilledOf(rows, Scanned) /\ Found = FoundOf(rows, Scanned)
  /\ Now[1] = Cardinality(Scanned) /\ Now[2] = Cardinality(Filled)
  /\ Now[3] = Count(0) /\ Now[4] = Cardinality(Found)
  /\ Now[5] = Cardinality(Scanned) - Cardinality({rows[r] : r \in Scanned})
  /\ Now[5] = Cardinality(Scanned) - Cardinality(ValuesOf(rows, Scanned))
<1>1. Filled = FilledOf(rows, Scanned) /\ Found = FoundOf(rows, Scanned)
  BY DEF Filled, Found, FilledOf, FoundOf
<1>2. Count(0) = Cardinality(ZerosOf(rows, Scanned))
  BY <1>1 DEF Count, ZerosOf
<1>3. ValuesOf(rows, Scanned) = {rows[r] : r \in Scanned}
  BY DEF ValuesOf
<1>4. QED BY <1>1, <1>2, <1>3 DEF Now, Sizes

LEMMA NowTyped ==
  ASSUME Typed, step \in Begun
  PROVE  /\ Scanned \subseteq DOMAIN rows /\ IsFiniteSet(DOMAIN rows) /\ IsFiniteSet(Scanned)
         /\ Now[1] \in Nat /\ Now[2] \in Nat /\ Now[3] \in Nat /\ Now[4] \in Nat /\ Now[5] \in Int
         /\ Now[2] <= Now[1] /\ Now[4] <= Now[2]
<1>1. Scanned \subseteq DOMAIN rows
  BY DEF Typed, Scanned
<1>2. IsFiniteSet(DOMAIN rows) /\ IsFiniteSet(Scanned)
  BY <1>1, RowsAssumption, FS_Subset DEF Typed
<1> DEFINE a == Cardinality(Scanned)
           b == Cardinality(FilledOf(rows, Scanned))
           c == Cardinality(ZerosOf(rows, Scanned))
           d == Cardinality(FoundOf(rows, Scanned))
           e == Cardinality(ValuesOf(rows, Scanned))
<1>3. Now = << a, b, c, d, a - e >>
  BY DEF Now, Sizes
<1>4. a \in Nat /\ b \in Nat /\ c \in Nat /\ d \in Nat /\ e \in Nat /\ b <= a /\ d <= b
  BY <1>2, PartsFinite
<1> HIDE DEF a, b, c, d, e
<1>5. QED BY <1>1, <1>2, <1>3, <1>4

LEMMA Unmoved ==
  ASSUME rows' = rows, picked' = picked, p'.from = p.from
  PROVE  /\ Scanned' = Scanned /\ Now' = Now /\ Filled' = Filled /\ Found' = Found
<1>1. Scanned' = Scanned
  BY DEF Scanned
<1>2. Filled' = Filled
  BY <1>1 DEF Filled
<1>3. QED BY <1>1, <1>2 DEF Now, Found

LEMMA Entered ==
  ASSUME NEW found, Enter(found)
  PROVE  /\ DOMAIN p' = DOMAIN p \cup DOMAIN found
         /\ \A m \in DOMAIN found : p'[m] = found[m]
         /\ \A m \in DOMAIN p \ DOMAIN found : p'[m] = p[m]
BY DEF Enter

\* A query that fails, or that the source does not take, adds nothing.
LEMMA Onward ==
  ASSUME MetricsInv, step \in Aggregated, step' \in Aggregated,
         p' = p, rows' = rows, picked' = picked, writes' = writes
  PROVE  MetricsInv'
<1>1. Now' = Now /\ Scanned' = Scanned /\ Found' = Found
  BY Unmoved
<1>2. step \in Begun /\ step' \in Begun /\ step \in Sized /\ step' \in Sized
  BY DEF Aggregated, Sized
<1>3. Typed'
  BY <1>2 DEF MetricsInv, Typed, Begun, Sized, Aggregated
<1>4. SizeAgrees = SizeAgrees'
  BY <1>1, <1>2 DEF SizeAgrees, Close
<1>5. AggregatesAgree = AggregatesAgree'
  BY <1>1, <1>2 DEF AggregatesAgree, Close, NonNull, Repeated
<1>6. TopAgrees = TopAgrees' /\ HistogramAgrees = HistogramAgrees' /\ DuplicatesAgree = DuplicatesAgree'
  BY DEF TopAgrees, HistogramAgrees, DuplicatesAgree, Close, NonNull, Repeated, TopSum, BinSum, Measured
<1>7. Slack'
  BY <1>2, <1>4, <1>5, <1>6 DEF MetricsInv, Slack, Steady
<1>8. Ranges'
  BY <1>1, <1>2 DEF MetricsInv, Ranges
<1>9. BinsHold'
  BY <1>1, <1>2 DEF MetricsInv, BinsHold, Measured
<1>10. QED BY <1>3, <1>7, <1>8, <1>9 DEF MetricsInv

\* A query of the aggregated column enters its metrics; those it does not enter
\* are what they were.
LEMMA Adds ==
  ASSUME MetricsInv, step \in Aggregated, step' \in Aggregated, NEW found, Enter(found),
         rows' = rows, picked' = picked, writes' = writes,
         DOMAIN found \subseteq {"top", "histogram", "dups"},
         "top" \in DOMAIN found /\ Steady => TopAgrees',
         "histogram" \in DOMAIN found /\ Steady => HistogramAgrees',
         "dups" \in DOMAIN found /\ Steady => DuplicatesAgree',
         "histogram" \in DOMAIN found /\ writes = 0 => \A b \in p'.histogram : Holds(rows, Scanned, b)
  PROVE  MetricsInv'
<1>1. step \in Begun /\ step' \in Begun /\ step \in Sized /\ step' \in Sized
  BY DEF Aggregated, Sized
<1>2. {"from", "rows", "nulls", "distinct", "zeros", "range"} \subseteq DOMAIN p
  BY <1>1 DEF MetricsInv, Typed
<1>3. /\ {"from", "rows", "nulls", "distinct", "zeros", "range"} \subseteq DOMAIN p'
      /\ p'.from = p.from /\ p'.rows = p.rows /\ p'.nulls = p.nulls /\ p'.distinct = p.distinct
      /\ p'.zeros = p.zeros /\ p'.range = p.range
  BY <1>2, Entered
<1>4. Now' = Now /\ Scanned' = Scanned /\ Found' = Found
  BY <1>3, Unmoved
<1>5. Typed'
  BY <1>1, <1>3 DEF MetricsInv, Typed, Begun, Sized, Aggregated
<1>6. NonNull' = NonNull /\ Repeated' = Repeated /\ Steady' = Steady
  BY <1>3 DEF NonNull, Repeated, Steady
<1>7. SizeAgrees = SizeAgrees'
  BY <1>1, <1>3, <1>4 DEF SizeAgrees, Close
<1>8. AggregatesAgree = AggregatesAgree'
  BY <1>1, <1>3, <1>4, <1>6 DEF AggregatesAgree, Close
<1>9. ASSUME "top" \notin DOMAIN found, TopAgrees PROVE TopAgrees'
  <2>1. Measured("top")' => Measured("top") /\ p'.top = p.top
    BY <1>9, Entered DEF Measured
  <2>2. QED BY <1>3, <1>6, <1>9, <2>1 DEF TopAgrees, TopSum, Close
<1>10. ASSUME "histogram" \notin DOMAIN found
       PROVE  Measured("histogram")' => Measured("histogram") /\ p'.histogram = p.histogram
  BY <1>10, Entered DEF Measured
<1>11. ASSUME "histogram" \notin DOMAIN found, HistogramAgrees PROVE HistogramAgrees'
  BY <1>6, <1>10, <1>11 DEF HistogramAgrees, BinSum, Close
<1>12. ASSUME "dups" \notin DOMAIN found, DuplicatesAgree PROVE DuplicatesAgree'
  <2>1. Measured("dups")' => Measured("dups") /\ p'.dups = p.dups
    BY <1>12, Entered DEF Measured
  <2>2. QED BY <1>6, <1>12, <2>1 DEF DuplicatesAgree, Close
<1>13. Slack'
  BY <1>1, <1>6, <1>7, <1>8, <1>9, <1>11, <1>12 DEF MetricsInv, Slack
<1>14. Ranges'
  BY <1>1, <1>3, <1>4 DEF MetricsInv, Ranges
<1>15. BinsHold'
  BY <1>1, <1>4, <1>10 DEF MetricsInv, BinsHold
<1>16. QED BY <1>5, <1>13, <1>14, <1>15 DEF MetricsInv

-----------------------------------------------------------------------------
(* The steps                                                               *)

LEMMA MetricsInit == Init => MetricsInv
<1> SUFFICES ASSUME Init PROVE MetricsInv
  OBVIOUS
<1>1. PICK S \in SUBSET RowIds : rows \in [S -> Numbers \cup {Null}]
  BY DEF Init, Tables
<1>2. Typed
  BY <1>1 DEF Init, Typed, Begun, Sized, Aggregated
<1>3. step \notin Begun /\ step \notin Aggregated
  BY DEF Init, Begun, Sized, Aggregated
<1>4. QED BY <1>2, <1>3 DEF MetricsInv, Slack, Ranges, BinsHold

\* A run that ends early, or has not begun to measure, holds nothing to compare.
LEMMA NotBegun ==
  ASSUME MetricsInv, step' \in {"count", "failed"}, step' = "count" => writes' = 0,
         rows' = rows, picked' = picked, writes' = writes
  PROVE  MetricsInv'
<1>1. step' \notin Begun /\ step' \notin Sized /\ step' \notin Aggregated
  BY DEF Begun, Sized, Aggregated
<1>2. Typed'
  BY <1>1 DEF MetricsInv, Typed, Begun, Sized, Aggregated
<1>3. QED BY <1>1, <1>2 DEF MetricsInv, Slack, Ranges, BinsHold

LEMMA OpenSourceKeeps == MetricsInv /\ OpenSource => MetricsInv'
<1> SUFFICES ASSUME MetricsInv, OpenSource PROVE MetricsInv'
  OBVIOUS
<1>1. writes = 0
  BY DEF MetricsInv, Typed, OpenSource
<1>2. step' \in {"count", "failed"} /\ rows' = rows /\ picked' = picked /\ writes' = writes
  BY DEF OpenSource, Answer, Failure
<1>3. QED BY <1>1, <1>2, NotBegun

LEMMA CountTableKeeps == MetricsInv /\ CountTable => MetricsInv'
<1> SUFFICES ASSUME MetricsInv, CountTable PROVE MetricsInv'
  OBVIOUS
<1> DEFINE total == Cardinality(DOMAIN rows)
           from  == SampleTableExpr(Dialect(request.type), request.sample, total)
<1>1. writes = 0
  BY DEF MetricsInv, Typed, CountTable
<1>2. from \in {"refused", "table", "sample"}
  BY DEF SampleTableExpr
<1>3. CASE Failure("failed") \/ (from = "refused" /\ Answer("failed"))
  BY <1>1, <1>3, NotBegun DEF Failure, Answer
<1>4. CASE from = "table" /\ Answer("aggregates") /\ p' = [total |-> total, from |-> from, rows |-> total]
  <2>1. /\ step' = "aggregates" /\ picked' = picked /\ rows' = rows /\ writes' = 0
        /\ p'.from = "table" /\ p'.rows = total /\ DOMAIN p' = {"total", "from", "rows"}
    BY <1>1, <1>4 DEF Answer
  <2>2. total \in Nat
    BY RowsAssumption, FS_Subset, FS_CardinalityType DEF MetricsInv, Typed
  <2> HIDE DEF from
  <2>3. Typed'
    <3> HIDE DEF total
    <3>1. QED BY <1>1, <2>1, <2>2 DEF MetricsInv, Typed, Begun, Sized, Aggregated
  <2>4. Now'[1] = total
    BY <2>1 DEF Now, Sizes, Scanned
  <2>5. step' \notin Aggregated /\ ~Measured("top")' /\ ~Measured("histogram")' /\ ~Measured("dups")'
    BY <2>1 DEF Aggregated, Sized, Begun, Measured
  <2> HIDE DEF total
  <2>6. SizeAgrees'
    BY <1>1, <2>1, <2>2, <2>4 DEF SizeAgrees, Close
  <2>7. QED BY <2>3, <2>5, <2>6
       DEF MetricsInv, Slack, Ranges, BinsHold, AggregatesAgree, TopAgrees, HistogramAgrees,
           DuplicatesAgree
<1>5. CASE /\ from = "sample" /\ step' = "sampled" /\ p' = [total |-> total, from |-> from]
           /\ picked' \in Samples(rows) /\ rows' = rows /\ writes' = writes
  <2>1. p'.from = "sample" /\ DOMAIN p' = {"total", "from"} /\ picked' \subseteq DOMAIN rows
    BY <1>5 DEF Samples
  <2> HIDE DEF from, total
  <2>2. Typed'
    BY <1>1, <1>5, <2>1 DEF MetricsInv, Typed, Begun, Sized, Aggregated
  <2>3. /\ step' \notin Sized /\ step' \notin Aggregated
        /\ ~Measured("top")' /\ ~Measured("histogram")' /\ ~Measured("dups")'
    BY <1>5, <2>1 DEF Aggregated, Sized, Begun, Measured
  <2>4. QED BY <2>2, <2>3
       DEF MetricsInv, Slack, Ranges, BinsHold, SizeAgrees, AggregatesAgree, TopAgrees, HistogramAgrees,
           DuplicatesAgree
<1>6. QED BY <1>2, <1>3, <1>4, <1>5 DEF CountTable

LEMMA CountSampleKeeps == MetricsInv /\ CountSample => MetricsInv'
<1> SUFFICES ASSUME MetricsInv, CountSample PROVE MetricsInv'
  OBVIOUS
<1>1. rows' = rows /\ picked' = picked /\ writes' = writes /\ step = "sampled"
  BY DEF CountSample, Answer, Failure
<1>2. CASE Failure("failed")
  BY <1>1, <1>2, NotBegun DEF Failure
<1>3. CASE Answer("aggregates") /\ Enter([rows |-> Cardinality(Scanned)])
  <2> DEFINE size == Cardinality(Scanned)
  <2>1. /\ "from" \in DOMAIN p /\ p.from \in {"table", "sample"}
        /\ DOMAIN p \cap {"top", "histogram", "dups"} = {}
    BY <1>1 DEF MetricsInv, Typed, Begun
  <2>2. /\ DOMAIN p' = DOMAIN p \cup {"rows"} /\ p'.rows = size /\ p'.from = p.from
        /\ step' = "aggregates"
    BY <1>3, <2>1, Entered DEF Answer
  <2>3. size \in Nat /\ writes \in Nat
    BY <1>1, NowTyped, FS_CardinalityType DEF MetricsInv, Begun, Typed
  <2>4. Now'[1] = size
    BY <1>1, <2>2, Unmoved, NowIs
  <2> HIDE DEF size
  <2>5. Typed'
    BY <1>1, <2>1, <2>2, <2>3 DEF MetricsInv, Typed, Begun, Sized, Aggregated
  <2>6. step' \notin Aggregated /\ ~Measured("top")' /\ ~Measured("histogram")' /\ ~Measured("dups")'
    BY <2>1, <2>2 DEF Aggregated, Sized, Begun, Measured
  <2>7. SizeAgrees'
    BY <1>1, <2>2, <2>3, <2>4 DEF SizeAgrees, Close
  <2>8. QED BY <2>5, <2>6, <2>7
       DEF MetricsInv, Slack, Ranges, BinsHold, AggregatesAgree, TopAgrees, HistogramAgrees,
           DuplicatesAgree
<1>4. QED BY <1>2, <1>3 DEF CountSample

LEMMA AggregatesKeeps == MetricsInv /\ Aggregates => MetricsInv'
<1> SUFFICES ASSUME MetricsInv, Aggregates PROVE MetricsInv'
  OBVIOUS
<1>1. rows' = rows /\ picked' = picked /\ writes' = writes /\ step = "aggregates" /\ writes \in Nat
  BY DEF Aggregates, Answer, Failure, MetricsInv, Typed
<1>2. CASE Failure("failed")
  BY <1>1, <1>2, NotBegun DEF Failure
<1>3. CASE ~Failure("failed")
  <2> DEFINE found == [nulls    |-> Cardinality(Scanned \ Filled),
                       distinct |-> Cardinality(Found),
                       zeros    |-> Count(0),
                       range    |-> IF Found = {} THEN << >> ELSE << Min(Found), Max(Found) >>]
  <2>1. /\ "from" \in DOMAIN p /\ p.from \in {"table", "sample"} /\ "rows" \in DOMAIN p /\ p.rows \in Nat
        /\ DOMAIN p \cap {"top", "histogram", "dups"} = {}
    BY <1>1 DEF MetricsInv, Typed, Begun, Sized
  <2>2. step' = "top" /\ Enter(found)
    BY <1>3 DEF Aggregates, Answer
  <2>3. DOMAIN found = {"nulls", "distinct", "zeros", "range"}
    OBVIOUS
  <2>4. /\ DOMAIN p' = DOMAIN p \cup {"nulls", "distinct", "zeros", "range"}
        /\ p'.from = p.from /\ p'.rows = p.rows
        /\ p'.nulls = found.nulls /\ p'.distinct = found.distinct /\ p'.zeros = found.zeros
        /\ p'.range = found.range
    <3> HIDE DEF found
    <3>1. QED BY <2>1, <2>2, <2>3, Entered
  <2>5. /\ found.nulls = Cardinality(Scanned \ Filled) /\ found.distinct = Now[4]
        /\ found.zeros = Now[3]
        /\ found.range = IF Found = {} THEN << >> ELSE << Min(Found), Max(Found) >>
    BY NowIs
  <2>6. /\ Now[1] \in Nat /\ Now[2] \in Nat /\ Now[3] \in Nat /\ Now[4] \in Nat /\ Now[5] \in Int
        /\ Now[2] <= Now[1] /\ Now[4] <= Now[2]
    BY <1>1, NowTyped DEF MetricsInv, Begun
  <2> HIDE DEF found
  <2>7. /\ found.nulls \in Nat /\ found.nulls = Now[1] - Now[2]
        /\ Now[5] = Now[1] - Now[4] - (IF found.nulls > 0 THEN 1 ELSE 0)
    <3> DEFINE a == Cardinality(Scanned)
               b == Cardinality(FilledOf(rows, Scanned))
               c == Cardinality(FoundOf(rows, Scanned))
               d == Cardinality(ValuesOf(rows, Scanned))
               e == Cardinality(Scanned \ FilledOf(rows, Scanned))
    <3>1. IsFiniteSet(Scanned)
      BY <1>1, NowTyped DEF MetricsInv, Begun
    <3>2. e \in Nat /\ e = a - b /\ d = c + (IF e > 0 THEN 1 ELSE 0)
      BY <3>1, NullIsAValue
    <3>3. Now[1] = a /\ Now[2] = b /\ Now[4] = c /\ Now[5] = a - d /\ found.nulls = e
      BY <2>5, NowIs
    <3>4. a \in Nat /\ b \in Nat /\ c \in Nat /\ d \in Nat
      BY <3>1, PartsFinite
    <3> HIDE DEF a, b, c, d, e
    <3>5. QED BY <3>2, <3>3, <3>4
  <2>8. Now' = Now /\ Found' = Found
    BY <1>1, <2>4, Unmoved
  <2>9. p'.range = << >> \/ p'.range \in Int \X Int
    <3>1. Scanned \subseteq DOMAIN rows
      BY <1>1, NowTyped DEF MetricsInv, Begun
    <3>2. Found # {} => Min(Found) \in Int /\ Max(Found) \in Int
      BY <3>1, FoundBetween, NowIs DEF MetricsInv, Typed
    <3>3. QED BY <2>4, <2>5, <3>2
  <2>10. Typed'
    BY <1>1, <2>1, <2>2, <2>4, <2>5, <2>6, <2>7 DEF MetricsInv, Typed, Begun, Sized, Aggregated
  <2>11. ~Measured("top")' /\ ~Measured("histogram")' /\ ~Measured("dups")'
    BY <2>1, <2>4 DEF Measured
  <2>12. Steady' => SizeAgrees' /\ AggregatesAgree'
    <3>1. SUFFICES ASSUME Steady PROVE SizeAgrees' /\ AggregatesAgree'
      BY <1>1, <2>4 DEF Steady
    <3>2. p.rows - Now[1] <= writes /\ Now[1] - p.rows <= writes
      BY <1>1, <3>1 DEF MetricsInv, Slack, SizeAgrees, Close, Begun, Sized
    <3>3. SizeAgrees'
      BY <1>1, <2>4, <2>8, <3>2 DEF SizeAgrees, Close
    <3>4. NonNull' = p.rows - found.nulls /\ Repeated' = p.rows - Now[4] - (IF found.nulls > 0 THEN 1 ELSE 0)
      BY <2>4, <2>5 DEF NonNull, Repeated
    <3> DEFINE n1 == Now[1]
               n2 == Now[2]
               n3 == Now[3]
               n4 == Now[4]
               n5 == Now[5]
               nn == NonNull'
               rp == Repeated'
    <3>5. /\ n1 \in Nat /\ n2 \in Nat /\ n3 \in Nat /\ n4 \in Nat /\ n5 \in Int /\ n2 <= n1 /\ n4 <= n2
          /\ nn = p.rows - found.nulls /\ rp = p.rows - n4 - (IF found.nulls > 0 THEN 1 ELSE 0)
          /\ found.nulls \in Nat /\ found.nulls = n1 - n2 /\ n5 = n1 - n4 - (IF found.nulls > 0 THEN 1 ELSE 0)
          /\ p.rows - n1 <= writes /\ n1 - p.rows <= writes
          /\ p'.nulls = found.nulls /\ p'.distinct = n4 /\ p'.zeros = n3
          /\ p.rows \in Nat /\ writes \in Nat /\ writes' = writes /\ p'.rows = p.rows
      BY <1>1, <2>1, <2>4, <2>5, <2>6, <2>7, <3>2, <3>4
    <3>6. Close(NonNull, Now[2])' = (nn - n2 <= writes' /\ n2 - nn <= writes')
      BY <2>8 DEF Close
    <3>7. Close(Repeated, Now[5])' = (rp - n5 <= writes' /\ n5 - rp <= writes')
      BY <2>8 DEF Close
    <3>8. /\ Close(p.zeros, Now[3])' = (p'.zeros - n3 <= writes' /\ n3 - p'.zeros <= writes')
          /\ Close(p.distinct, Now[4])' = (p'.distinct - n4 <= writes' /\ n4 - p'.distinct <= writes')
      BY <2>8 DEF Close
    <3>9. (p.distinct <= NonNull + writes)' = (p'.distinct <= nn + writes')
      OBVIOUS
    <3> HIDE DEF n1, n2, n3, n4, n5, nn, rp
    <3>10. nn - n2 <= writes' /\ n2 - nn <= writes'
      BY <3>5
    <3>11. rp - n5 <= writes' /\ n5 - rp <= writes'
      BY <3>5
    <3>12. p'.nulls <= p'.rows + writes' /\ p'.distinct <= nn + writes'
      BY <3>5
    <3>13. /\ p'.zeros - n3 <= writes' /\ n3 - p'.zeros <= writes'
           /\ p'.distinct - n4 <= writes' /\ n4 - p'.distinct <= writes'
      BY <3>5
    <3>14. AggregatesAgree'
      BY <3>6, <3>7, <3>8, <3>9, <3>10, <3>11, <3>12, <3>13 DEF AggregatesAgree
    <3>15. QED BY <3>3, <3>14
  <2>13. Ranges'
    BY <2>4, <2>5, <2>8, <2>9 DEF Ranges
  <2>14. QED BY <2>10, <2>11, <2>12, <2>13
      DEF MetricsInv, Slack, BinsHold, TopAgrees, HistogramAgrees, DuplicatesAgree
<1>4. QED BY <1>2, <1>3

\* What is known at a query of a column whose aggregates are there.
LEMMA AtAggregated ==
  ASSUME MetricsInv, step \in Aggregated
  PROVE  /\ writes \in Nat /\ p.rows \in Nat /\ p.nulls \in Nat /\ p.distinct \in Nat /\ p.zeros \in Nat
         /\ NonNull \in Int /\ Repeated \in Int
         /\ {"from", "rows", "nulls", "distinct", "zeros", "range"} \subseteq DOMAIN p
         /\ Now[1] \in Nat /\ Now[2] \in Nat /\ Now[3] \in Nat /\ Now[4] \in Nat /\ Now[5] \in Int
         /\ Steady => AggregatesAgree
<1>1. step \in Begun /\ step \in Sized
  BY DEF Aggregated, Sized
<1>2. /\ writes \in Nat /\ p.rows \in Nat /\ p.nulls \in Nat /\ p.distinct \in Nat /\ p.zeros \in Nat
      /\ {"from", "rows", "nulls", "distinct", "zeros", "range"} \subseteq DOMAIN p
  BY <1>1 DEF MetricsInv, Typed
<1>3. NonNull \in Int /\ Repeated \in Int
  BY <1>2 DEF NonNull, Repeated
<1>4. Now[1] \in Nat /\ Now[2] \in Nat /\ Now[3] \in Nat /\ Now[4] \in Nat /\ Now[5] \in Int
  BY <1>1, NowTyped DEF MetricsInv
<1>5. Steady => AggregatesAgree
  BY <1>1 DEF MetricsInv, Slack
<1>6. QED BY <1>2, <1>3, <1>4, <1>5

LEMMA PairIsFinite ==
  ASSUME NEW a, NEW b
  PROVE  IsFiniteSet({a, b})
<1>1. IsFiniteSet({a}) /\ {a, b} = {a} \cup {b}
  BY FS_Singleton
<1>2. QED BY <1>1, FS_AddElement

LEMMA TopValuesKeeps == MetricsInv /\ TopValues => MetricsInv'
<1> SUFFICES ASSUME MetricsInv, TopValues PROVE MetricsInv'
  OBVIOUS
<1>1. /\ rows' = rows /\ picked' = picked /\ writes' = writes
      /\ step \in Aggregated /\ step' \in Aggregated /\ step \in Begun
  BY DEF TopValues, Answer, Failure, Aggregated, Sized, Begun
<1>2. CASE p' = p
  BY <1>1, <1>2, Onward
<1>3. CASE p' # p
  <2>1. PICK T \in SUBSET Found : /\ Cardinality(T) = Min({TopLimit, Cardinality(Found)})
                                  /\ Enter([top |-> [v \in T |-> Count(v)]])
    BY <1>3 DEF TopValues, Failure
  <2> DEFINE c == [v \in T |-> Count(v)]
             found == [top |-> c]
  <2>2. DOMAIN found = {"top"} /\ found.top = c
    OBVIOUS
  <2>3. "top" \in DOMAIN p' /\ p'.top = c /\ \A m \in DOMAIN p \ {"top"} : p'[m] = p[m]
    BY <2>1, <2>2, Entered
  <2>4. p'.distinct = p.distinct /\ p'.zeros = p.zeros /\ p'.rows = p.rows /\ p'.nulls = p.nulls
    BY <1>1, <2>3, AtAggregated
  <2>5. IsFiniteSet(Scanned) /\ Scanned \subseteq DOMAIN rows /\ IsFiniteSet(Filled) /\ IsFiniteSet(Found)
    BY <1>1, NowTyped, NowIs, PartsFinite DEF MetricsInv
  <2>6. IsFiniteSet(T) /\ \A v \in T : Count(v) \in Nat
    BY <2>5, FS_Subset, FS_CardinalityType DEF Count
  <2>7. TopSum' \in Int
    <3>1. TopSum' = SumFunctionOnSet(c, T)
      BY <2>3 DEF TopSum, SumFunction
    <3>2. \A v \in T : c[v] \in Int
      BY <2>6
    <3> HIDE DEF c
    <3>3. QED BY <2>6, <3>1, <3>2, SumInt
  <2>8. ASSUME Steady, p.distinct + writes <= TopLimit
        PROVE  Close(TopSum, NonNull)'
    <3>1. Close(NonNull, Now[2]) /\ Close(p.distinct, Now[4])
      BY <1>1, <2>8, AtAggregated DEF AggregatesAgree
    <3>2. Now[4] <= TopLimit
      BY <1>1, <2>8, <3>1, AtAggregated, LimitsAssumption DEF Close
    <3>3. Cardinality(Found) = Now[4] /\ Now[4] \in Nat /\ TopLimit \in Nat
      BY <1>1, AtAggregated, NowIs, LimitsAssumption
    <3>4. Min({TopLimit, Cardinality(Found)}) = Cardinality(Found)
      <4>1. IsFiniteSet({TopLimit, Cardinality(Found)})
        BY PairIsFinite
      <4>2. QED BY <3>2, <3>3, <4>1, MinOf
    <3>5. T = Found
      BY <2>1, <2>5, <3>4, WholeSet
    <3>6. \A v \in FoundOf(rows, Scanned) : c[v] = Cardinality({r \in FilledOf(rows, Scanned) : rows[r] = v})
      BY <3>5, NowIs DEF Count
    <3>7. DOMAIN c = FoundOf(rows, Scanned)
      BY <3>5, NowIs
    <3>8. SumFunction(c) = Now[2]
      <4> HIDE DEF c
      <4>1. SumFunction(c) = Cardinality(FilledOf(rows, Scanned))
        BY <2>5, <3>6, <3>7, AllValues
      <4>2. QED BY <4>1, NowIs
    <3>9. TopSum' = Now[2] /\ NonNull' = NonNull
      BY <2>3, <2>4, <3>8 DEF TopSum, NonNull
    <3>10. QED BY <1>1, <3>1, <3>9 DEF Close
  <2>9. ASSUME Steady, 0 \in DOMAIN p'.top
        PROVE  p'.top[0] \in Int /\ Close(p.top[0], p.zeros)'
    <3>1. p'.top[0] = Now[3]
      BY <2>3, <2>9, NowIs
    <3>2. Close(p.zeros, Now[3]) /\ Now[3] \in Int
      BY <1>1, <2>9, AtAggregated DEF AggregatesAgree
    <3>3. QED BY <1>1, <2>4, <3>1, <3>2 DEF Close
  <2>10. Steady => TopAgrees'
    BY <1>1, <2>4, <2>7, <2>8, <2>9 DEF TopAgrees
  <2> HIDE DEF found
  <2>11. QED BY <1>1, <2>1, <2>2, <2>10, Adds DEF found
<1>4. QED BY <1>2, <1>3

LEMMA StatsKeeps == MetricsInv /\ Stats => MetricsInv'
<1> SUFFICES ASSUME MetricsInv, Stats PROVE MetricsInv'
  OBVIOUS
<1>1. /\ rows' = rows /\ picked' = picked /\ writes' = writes /\ p' = p
      /\ step \in Aggregated /\ step' \in Aggregated
  BY DEF Stats, Answer, Failure, Aggregated, Sized, Begun
<1>2. QED BY <1>1, Onward

LEMMA DuplicatesKeeps == MetricsInv /\ Duplicates => MetricsInv'
<1> SUFFICES ASSUME MetricsInv, Duplicates PROVE MetricsInv'
  OBVIOUS
<1>1. /\ rows' = rows /\ picked' = picked /\ writes' = writes
      /\ step \in Aggregated /\ step' \in Aggregated
  BY DEF Duplicates, Answer, Failure, Aggregated, Sized, Begun
<1>2. CASE p' = p
  BY <1>1, <1>2, Onward
<1>3. CASE p' # p
  <2> DEFINE found == [dups |-> Cardinality(Scanned) - Cardinality({rows[r] : r \in Scanned})]
  <2>1. Enter(found) /\ DOMAIN found = {"dups"} /\ found.dups = Now[5]
    BY <1>3, NowIs DEF Duplicates, Failure
  <2> HIDE DEF found
  <2>2. "dups" \in DOMAIN p' /\ p'.dups = Now[5] /\ \A m \in DOMAIN p \ {"dups"} : p'[m] = p[m]
    BY <2>1, Entered
  <2>3. Repeated' = Repeated
    BY <1>1, <2>2, AtAggregated DEF Repeated
  <2>4. Steady => DuplicatesAgree'
    BY <1>1, <2>2, <2>3, AtAggregated DEF DuplicatesAgree, AggregatesAgree, Close
  <2>5. QED BY <1>1, <2>1, <2>4, Adds
<1>4. QED BY <1>2, <1>3

\* One value: its bin holds all that is not NULL.
LEMMA OneBin ==
  ASSUME MetricsInv, step \in Aggregated, NonNull > 0, p.range # << >>, p.range[1] = p.range[2],
         writes = 0
  PROVE  Holds(rows, Scanned, Bin(0, NonNull))
<1> DEFINE b == Bin(0, NonNull)
           x == p.range[1]
<1>1. /\ Found # {} /\ p.range = << Min(Found), Max(Found) >>
  BY DEF MetricsInv, Ranges
<1>2. Scanned \subseteq DOMAIN rows /\ IsFiniteSet(Scanned) /\ IsFiniteSet(FilledOf(rows, Scanned))
  BY NowTyped, PartsFinite DEF MetricsInv, Aggregated, Sized
<1>3. /\ x = Min(Found) /\ x = Max(Found) /\ x \in Int
      /\ \A r \in FilledOf(rows, Scanned) : rows[r] \in Int /\ rows[r] = x
  <2>1. /\ Min(Found) \in Int /\ Max(Found) \in Int
        /\ \A r \in FilledOf(rows, Scanned) : rows[r] \in Int /\ Min(Found) <= rows[r] /\ rows[r] <= Max(Found)
    BY <1>1, <1>2, FoundBetween, NowIs DEF MetricsInv, Typed
  <2>2. QED BY <1>1, <2>1
<1>4. b.count = Cardinality(FilledOf(rows, Scanned))
  <2>1. Steady
    BY DEF Steady
  <2>2. Close(NonNull, Now[2])
    BY <2>1, AtAggregated DEF AggregatesAgree
  <2>3. NonNull = Now[2]
    BY <2>2, AtAggregated DEF Close
  <2>4. b.count = NonNull
    BY DEF Bin
  <2>5. QED BY <2>3, <2>4, NowIs
<1>5. b.lower = 10 * x /\ b.upper = 10 * x
  <2>1. x - x = 0 /\ p.range[2] - x = 0
    BY <1>3
  <2>2. b.lower = 10 * x + 0 * (p.range[2] - x) /\ b.upper = 10 * x + (0 + 1) * (p.range[2] - x)
    BY DEF Bin
  <2> HIDE DEF b, x
  <2>3. QED BY <1>3, <2>1, <2>2
<1> HIDE DEF b, x
<1>6. Closed(rows, Scanned, b) = FilledOf(rows, Scanned) /\ Open(rows, Scanned, b) = {}
  BY <1>3, <1>5 DEF Closed, Open
<1>7. Cardinality({}) = 0 /\ Cardinality(FilledOf(rows, Scanned)) \in Nat
  BY <1>2, FS_EmptySet, FS_CardinalityType
<1>8. Holds(rows, Scanned, b)
  BY <1>4, <1>6, <1>7 DEF Holds
<1>9. QED BY <1>8 DEF b

LEMMA HistogramKeeps == MetricsInv /\ Histogram => MetricsInv'
<1> SUFFICES ASSUME MetricsInv, Histogram PROVE MetricsInv'
  OBVIOUS
<1>1. /\ rows' = rows /\ picked' = picked /\ writes' = writes
      /\ step \in Aggregated /\ step' \in Aggregated /\ step \in Begun
  BY DEF Histogram, Answer, Failure, Aggregated, Sized, Begun
<1>2. CASE p' = p
  BY <1>1, <1>2, Onward
<1>3. CASE p' # p
  <2>1. NonNull > 0 /\ p.range # << >> /\ p.range \in Int \X Int
    BY <1>1, <1>3, AtAggregated DEF Histogram, MetricsInv, Ranges
  <2>2. Scanned \subseteq DOMAIN rows /\ IsFiniteSet(Scanned)
    BY <1>1, NowTyped DEF MetricsInv
  <2>3. ASSUME NEW H, Enter([histogram |-> H])
        PROVE  /\ DOMAIN [histogram |-> H] = {"histogram"} /\ p'.histogram = H
               /\ NonNull' = NonNull
    <3> DEFINE found == [histogram |-> H]
    <3>1. DOMAIN found = {"histogram"} /\ found.histogram = H
      OBVIOUS
    <3> HIDE DEF found
    <3>2. p'.histogram = H /\ \A m \in DOMAIN p \ {"histogram"} : p'[m] = p[m]
      BY <2>3, <3>1, Entered DEF found
    <3>3. NonNull' = NonNull
      BY <1>1, <3>2, AtAggregated DEF NonNull
    <3>4. QED BY <3>1, <3>2, <3>3 DEF found
  <2>4. CASE p.range[1] = p.range[2]
    <3> DEFINE b == Bin(0, NonNull)
               H == {b}
               found == [histogram |-> H]
    <3>1. Enter(found)
      BY <1>3, <2>1, <2>4, AtAggregated, <1>1 DEF Histogram
    <3>2. DOMAIN found = {"histogram"} /\ p'.histogram = H /\ NonNull' = NonNull
      BY <2>3, <3>1
    <3>3. b.count = NonNull
      BY DEF Bin
    <3> HIDE DEF b
    <3>4. BinSum' = NonNull
      <4> DEFINE c == [d \in H |-> d.count]
      <4>1. BinSum' = SumFunctionOnSet(c, H)
        BY <3>2 DEF BinSum, SumFunction
      <4>2. b \in H /\ IsFiniteSet(H) /\ H \ {b} = {}
        BY FS_Singleton
      <4>3. c[b] = NonNull /\ \A d \in H : c[d] \in Int
        BY <1>1, <3>3, AtAggregated
      <4> HIDE DEF c, H
      <4>4. SumFunctionOnSet(c, H) = c[b] + SumFunctionOnSet(c, {})
        BY <4>2, <4>3, SumRemove
      <4>5. QED BY <1>1, <4>1, <4>3, <4>4, SumEmpty, AtAggregated
    <3>5. HistogramAgrees'
      BY <1>1, <3>2, <3>4, AtAggregated DEF HistogramAgrees, Close
    <3>6. writes = 0 => \A d \in p'.histogram : Holds(rows, Scanned, d)
      BY <1>1, <2>1, <2>4, <3>2, OneBin DEF b
    <3> HIDE DEF found
    <3>7. DOMAIN found \subseteq {"top", "histogram", "dups"}
      BY <3>2
    <3>8. QED BY <1>1, <3>1, <3>2, <3>5, <3>6, <3>7, Adds
  <2>5. CASE p.range[1] # p.range[2]
    <3> DEFINE lo == p.range[1]
               w  == p.range[2] - lo
               H  == Bins(rows, Scanned, lo, w)
               found == [histogram |-> H]
    <3>1. \A i : BucketCount(i) = Cardinality(InBucket(rows, Scanned, i))
      BY NowIs DEF BucketCount, InBucket, BucketOf
    <3>2. {Bin(i, BucketCount(i)) : i \in {k \in 0 .. 9 : BucketCount(k) > 0}} = H
      BY <3>1 DEF Bins, Bin
    <3>3. Enter([histogram |-> {Bin(i, BucketCount(i)) : i \in {k \in 0 .. 9 : BucketCount(k) > 0}}])
      BY <1>1, <1>3, <2>1, <2>5, AtAggregated DEF Histogram, Failure
    <3>4. Enter(found)
      BY <3>2, <3>3
    <3>5. lo \in Int /\ w \in Int /\ w # 0
      BY <2>1, <2>5
    <3>6. DOMAIN found = {"histogram"} /\ p'.histogram = H /\ NonNull' = NonNull
      BY <2>3, <3>4
    <3>7. BinSum' = Now[2]
      <4>1. BinSum' = SumFunction([b \in H |-> b.count])
        BY <3>6 DEF BinSum
      <4>2. SumFunction([b \in H |-> b.count]) = Cardinality(FilledOf(rows, Scanned))
        <5>1. /\ DOMAIN rows \in SUBSET RowIds /\ rows \in [DOMAIN rows -> Numbers \cup {Null}]
              /\ Scanned \in SUBSET DOMAIN rows
          BY <2>2 DEF MetricsInv, Typed
        <5> HIDE DEF lo, w
        <5>2. QED BY <3>5, <5>1, BinsAddUp
      <4>3. QED BY <4>1, <4>2, NowIs
    <3>8. Steady => HistogramAgrees'
      <4>1. SUFFICES ASSUME Steady PROVE HistogramAgrees'
        OBVIOUS
      <4>2. Close(NonNull, Now[2]) /\ Now[2] \in Int
        BY <1>1, <4>1, AtAggregated DEF AggregatesAgree
      <4>3. QED BY <1>1, <3>6, <3>7, <4>2 DEF HistogramAgrees, Close
    <3>9. ASSUME writes = 0 PROVE \A b \in p'.histogram : Holds(rows, Scanned, b)
      <4>1. Found # {} /\ p.range = << Min(Found), Max(Found) >>
        BY <1>1, <2>1, <3>9 DEF MetricsInv, Ranges
      <4>2. /\ lo = Min(FoundOf(rows, Scanned)) /\ FoundOf(rows, Scanned) # {}
            /\ w = Max(FoundOf(rows, Scanned)) - Min(FoundOf(rows, Scanned))
        BY <4>1, NowIs
      <4>3. ASSUME NEW b \in H PROVE Holds(rows, Scanned, b)
        <5> HIDE DEF lo, w
        <5>1. PICK i \in 0 .. 9 : b = [lower |-> 10 * lo + i * w, upper |-> 10 * lo + (i + 1) * w,
                                       count |-> Cardinality(InBucket(rows, Scanned, i))]
          BY <4>3 DEF Bins
        <5>2. /\ b.lower = 10 * lo + i * w /\ b.upper = 10 * lo + (i + 1) * w
              /\ b.count = Cardinality(InBucket(rows, Scanned, i))
          BY <5>1
        <5>3. /\ DOMAIN rows \in SUBSET RowIds /\ rows \in [DOMAIN rows -> Numbers \cup {Null}]
              /\ Scanned \in SUBSET DOMAIN rows
          BY <2>2 DEF MetricsInv, Typed
        <5>4. /\ b.lower = 10 * Min(FoundOf(rows, Scanned))
                             + i * (Max(FoundOf(rows, Scanned)) - Min(FoundOf(rows, Scanned)))
              /\ b.upper = 10 * Min(FoundOf(rows, Scanned))
                             + (i + 1) * (Max(FoundOf(rows, Scanned)) - Min(FoundOf(rows, Scanned)))
          BY <4>2, <5>2
        <5>5. QED BY <4>2, <5>2, <5>3, <5>4, BinHolds
      <4>4. QED BY <3>6, <4>3
    <3> HIDE DEF found, H
    <3>10. DOMAIN found \subseteq {"top", "histogram", "dups"}
      BY <3>6
    <3>11. QED BY <1>1, <3>4, <3>6, <3>8, <3>9, <3>10, Adds
  <2>6. QED BY <2>4, <2>5
<1>4. QED BY <1>2, <1>3

\* A write adds one to what may lie between two counts.
LEMMA CloseAfter ==
  ASSUME NEW a \in Int, NEW b \in Int, NEW c \in Int, writes \in Nat, writes' = writes + 1,
         Close(a, b), b <= c + 1, c <= b + 1
  PROVE  a - c <= writes' /\ c - a <= writes'
BY DEF Close

LEMMA WriteKeeps == MetricsInv /\ Write => MetricsInv'
<1> SUFFICES ASSUME MetricsInv, Write PROVE MetricsInv'
  OBVIOUS
<1>1. PICK r \in RowIds :
        rows' \in ({[x \in DOMAIN rows \cup {r} |-> IF x = r THEN v ELSE rows[x]] : v \in Numbers \cup {Null}}
                     \cup {[x \in DOMAIN rows \ {r} |-> rows[x]]})
  BY DEF Write
<1>2. /\ step' = step /\ p' = p /\ writes \in Nat /\ writes' = writes + 1
      /\ step \notin {"open", "count", "done", "failed"} /\ step \in Begun
      /\ "from" \in DOMAIN p /\ p.from \in {"table", "sample"}
  BY DEF Write, MetricsInv, Typed
<1>3. /\ DOMAIN rows \subseteq RowIds /\ rows \in [DOMAIN rows -> Numbers \cup {Null}]
  BY DEF MetricsInv, Typed
<1>4. /\ DOMAIN rows' \subseteq RowIds /\ rows' \in [DOMAIN rows' -> Numbers \cup {Null}]
      /\ DOMAIN rows \ {r} = DOMAIN rows' \ {r}
      /\ \A k \in DOMAIN rows \ {r} : rows[k] = rows'[k]
  <2>1. CASE rows' = [x \in DOMAIN rows \ {r} |-> rows[x]]
    BY <1>3, <2>1
  <2>2. ASSUME NEW v \in Numbers \cup {Null},
               rows' = [x \in DOMAIN rows \cup {r} |-> IF x = r THEN v ELSE rows[x]]
        PROVE  /\ DOMAIN rows' \subseteq RowIds /\ rows' \in [DOMAIN rows' -> Numbers \cup {Null}]
               /\ DOMAIN rows \ {r} = DOMAIN rows' \ {r}
               /\ \A k \in DOMAIN rows \ {r} : rows[k] = rows'[k]
    BY <1>3, <2>2
  <2>3. QED BY <1>1, <2>1, <2>2
<1>5. p.from = "sample" => picked' \subseteq DOMAIN rows'
  BY DEF Write, Samples
<1>6. Typed'
  BY <1>2, <1>4, <1>5 DEF MetricsInv, Typed
<1>7. writes' # 0 /\ (step \in {"open", "count"} => FALSE)
  BY <1>2
<1>8. ASSUME Steady'
      PROVE  SizeAgrees' /\ AggregatesAgree' /\ TopAgrees' /\ HistogramAgrees' /\ DuplicatesAgree'
  <2>1. p.from = "table" /\ Steady
    BY <1>2, <1>7, <1>8 DEF Steady
  <2>2. Scanned = DOMAIN rows /\ Scanned' = DOMAIN rows'
    BY <1>2, <2>1 DEF Scanned
  <2>3. IsFiniteSet(DOMAIN rows) /\ IsFiniteSet(DOMAIN rows')
    BY <1>3, <1>4, RowsAssumption, FS_Subset
  <2>4. \A i \in 1 .. 5 : Now[i] \in Int /\ Now'[i] \in Int /\ Now[i] <= Now'[i] + 1 /\ Now'[i] <= Now[i] + 1
    BY <1>4, <2>2, <2>3, RowWritten DEF Now
  <2>5. SizeAgrees /\ AggregatesAgree /\ TopAgrees /\ HistogramAgrees /\ DuplicatesAgree
    BY <1>2, <2>1 DEF MetricsInv, Slack
  <2>6. step \in Aggregated => step \in Sized
    BY DEF Aggregated
  <2>7. step \in Sized => p.rows \in Nat
    BY DEF MetricsInv, Typed
  <2>8. step \in Aggregated => /\ NonNull \in Int /\ Repeated \in Int /\ p.zeros \in Nat /\ p.distinct \in Nat
                               /\ p.nulls \in Nat /\ p.rows \in Nat
    BY AtAggregated
  <2>9. NonNull' = NonNull /\ Repeated' = Repeated /\ TopSum' = TopSum /\ BinSum' = BinSum
    BY <1>2 DEF NonNull, Repeated, TopSum, BinSum
  <2>10. SizeAgrees'
    BY <1>2, <2>4, <2>5, <2>7 DEF SizeAgrees, Close
  <2>11. ASSUME NEW a \in Int, NEW i \in 1 .. 5, Close(a, Now[i])
         PROVE  a - Now'[i] <= writes' /\ Now'[i] - a <= writes'
    <3>1. Now[i] \in Int /\ Now'[i] \in Int /\ Now[i] <= Now'[i] + 1 /\ Now'[i] <= Now[i] + 1
      BY <2>4
    <3>2. QED BY <1>2, <2>11, <3>1, CloseAfter
  <2>12. AggregatesAgree'
    <3>1. SUFFICES ASSUME step \in Aggregated
                   PROVE  /\ Close(NonNull, Now[2])' /\ Close(p.zeros, Now[3])'
                          /\ Close(p.distinct, Now[4])' /\ Close(Repeated, Now[5])'
                          /\ p.nulls <= p.rows + writes'
                          /\ p.distinct <= NonNull + writes'
      BY <1>2, <2>9 DEF AggregatesAgree
    <3>2. Close(NonNull, Now[2])' /\ Close(Repeated, Now[5])'
      BY <2>5, <2>8, <2>9, <2>11, <3>1 DEF AggregatesAgree, Close
    <3>3. Close(p.zeros, Now[3])' /\ Close(p.distinct, Now[4])'
      BY <1>2, <2>5, <2>8, <2>11, <3>1 DEF AggregatesAgree, Close
    <3>4. p.nulls <= p.rows + writes' /\ p.distinct <= NonNull + writes'
      BY <1>2, <2>5, <2>8, <3>1 DEF AggregatesAgree
    <3>5. QED BY <3>2, <3>3, <3>4
  <2>13. step \notin Aggregated => ~Measured("top") /\ ~Measured("histogram") /\ ~Measured("dups")
    BY <1>2 DEF MetricsInv, Typed, Aggregated, Sized, Begun, Measured
  <2>14. TopAgrees'
    <3>1. SUFFICES ASSUME Measured("top")
                   PROVE  /\ TopSum \in Int
                          /\ p.distinct + writes' <= TopLimit => Close(TopSum, NonNull)'
                          /\ 0 \in DOMAIN p.top => p.top[0] \in Int /\ Close(p.top[0], p.zeros)'
      BY <1>2, <2>9 DEF TopAgrees, Measured
    <3>2. /\ TopSum \in Int
          /\ p.distinct + writes <= TopLimit => Close(TopSum, NonNull)
          /\ 0 \in DOMAIN p.top => p.top[0] \in Int /\ Close(p.top[0], p.zeros)
      BY <2>5, <3>1 DEF TopAgrees
    <3>3. NonNull \in Int /\ p.zeros \in Nat /\ p.distinct \in Nat /\ TopLimit \in Nat
      BY <2>8, <2>13, <3>1, LimitsAssumption
    <3>4. p.distinct + writes' <= TopLimit => Close(TopSum, NonNull)'
      BY <1>2, <2>9, <3>2, <3>3 DEF Close
    <3>5. 0 \in DOMAIN p.top => p.top[0] \in Int /\ Close(p.top[0], p.zeros)'
      BY <1>2, <3>2, <3>3 DEF Close
    <3>6. QED BY <3>2, <3>4, <3>5
  <2>15. HistogramAgrees'
    BY <1>2, <2>5, <2>8, <2>9, <2>13 DEF HistogramAgrees, Measured, Close
  <2>16. DuplicatesAgree'
    BY <1>2, <2>5, <2>8, <2>9, <2>13 DEF DuplicatesAgree, Measured, Close
  <2>17. QED BY <2>10, <2>12, <2>14, <2>15, <2>16
<1>9. Slack'
  BY <1>8 DEF Slack
<1>10. Ranges' /\ BinsHold'
  BY <1>2, <1>7 DEF MetricsInv, Ranges, BinsHold
<1>11. QED BY <1>6, <1>9, <1>10 DEF MetricsInv

\* From the first query on the counts of the profile are at most one row a write
\* from what the table holds, the range and the bins exact while nobody writes:
\* what every step of a run leaves to the next (ProfileTable, profileColumn).
THEOREM MetricsInvariant == Spec => []MetricsInv
<1>1. ASSUME MetricsInv, [Next]_vars PROVE MetricsInv'
  <2>1. CASE Next
    BY <1>1, <2>1, OpenSourceKeeps, CountTableKeeps, CountSampleKeeps, AggregatesKeeps, TopValuesKeeps,
       StatsKeeps, HistogramKeeps, DuplicatesKeeps, WriteKeeps DEF Next
  <2>2. CASE UNCHANGED vars
    <3>1. /\ rows' = rows /\ picked' = picked /\ step' = step /\ p' = p /\ writes' = writes
      BY <2>2 DEF vars
    <3>2. Scanned' = Scanned /\ Now' = Now /\ Found' = Found
      BY <3>1, Unmoved
    <3>3. Typed'
      BY <1>1, <3>1 DEF MetricsInv, Typed
    <3>4. Slack'
      BY <1>1, <3>1, <3>2 DEF MetricsInv, Slack, Steady, SizeAgrees, AggregatesAgree, TopAgrees, HistogramAgrees,
         DuplicatesAgree, Close, NonNull, Repeated, TopSum, BinSum, Measured
    <3>5. Ranges' /\ BinsHold'
      BY <1>1, <3>1, <3>2 DEF MetricsInv, Ranges, BinsHold, Measured
    <3>6. QED BY <3>3, <3>4, <3>5 DEF MetricsInv
  <2>3. QED BY <1>1, <2>1, <2>2
<1>2. QED BY <1>1, MetricsInit, PTL DEF Spec

\* The queries of one run add up but for one row a write, for every table and
\* every number of writes: CountsAgree is the invariant at its last step.
THEOREM RunAddsUp == Spec => []CountsAgree
<1>1. MetricsInv => CountsAgree
  <2>1. SUFFICES ASSUME MetricsInv, step = "done", p.from = "table" \/ writes = 0
                 PROVE  /\ p.nulls <= p.rows + writes
                        /\ p.distinct <= NonNull + writes
                        /\ Measured("top") /\ p.distinct + writes <= TopLimit => Close(SumFunction(p.top), NonNull)
                        /\ Measured("top") /\ 0 \in DOMAIN p.top => Close(p.top[0], p.zeros)
                        /\ Measured("histogram") =>
                             Close(SumFunction([b \in p.histogram |-> b.count]), NonNull)
                        /\ Measured("dups") =>
                             Close(p.dups, p.rows - p.distinct - (IF p.nulls > 0 THEN 1 ELSE 0))
    BY DEF CountsAgree
  <2>2. step \in Aggregated /\ step \in Begun
    BY <2>1 DEF Aggregated, Sized, Begun
  <2>3. AggregatesAgree /\ TopAgrees /\ HistogramAgrees /\ DuplicatesAgree
    BY <2>1, <2>2 DEF MetricsInv, Slack, Steady
  <2>4. QED BY <2>2, <2>3 DEF AggregatesAgree, TopAgrees, HistogramAgrees, DuplicatesAgree, TopSum, BinSum, Repeated
<1>2. QED BY <1>1, MetricsInvariant, PTL

\* Of a table at rest every bin counts the values between its bounds, for every
\* range: BinsHoldTheirValues is BinsHold at the last step.
THEOREM BinsAreLabelledRight == Spec => []BinsHoldTheirValues
<1>1. MetricsInv => BinsHoldTheirValues
  <2>1. SUFFICES ASSUME MetricsInv, step = "done", writes = 0, Measured("histogram"), NEW b \in p.histogram
                 PROVE  /\ b.count <= Cardinality({r \in Filled : b.lower <= 10 * rows[r] /\ 10 * rows[r] <= b.upper})
                        /\ b.count >= Cardinality({r \in Filled : b.lower < 10 * rows[r] /\ 10 * rows[r] < b.upper})
    BY DEF BinsHoldTheirValues
  <2>2. Holds(rows, Scanned, b)
    BY <2>1 DEF MetricsInv, BinsHold, Begun
  <2>3. QED BY <2>2, NowIs DEF Holds, Closed, Open
<1>2. QED BY <1>1, MetricsInvariant, PTL

=============================================================================
