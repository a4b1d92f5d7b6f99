------------------------------ MODULE SumLemmas ------------------------------
(***************************************************************************)
(* Sums over finite sets, SumFunctionOnSet of the community modules: what  *)
(* they are worth, and how they relate to the number of elements.  The     *)
(* induction these facts rest on is a smallest counterexample, which       *)
(* exists because strict inclusion of finite sets is well-founded.         *)
(***************************************************************************)
EXTENDS FiniteSetTheorems, TLAPS

-----------------------------------------------------------------------------
(* Induction, for sets of sets instead of predicates                       *)

\* What holds of a subset of S as soon as it holds of all that are smaller, holds
\* of every subset.
LEMMA SubsetInduction ==
  ASSUME NEW S, IsFiniteSet(S), NEW A,
         \A T \in SUBSET S : (\A U \in SUBSET T : U # T => U \in A) => T \in A
  PROVE  \A T \in SUBSET S : T \in A
<1> DEFINE bad == {T \in SUBSET S : T \notin A}
<1>1. SUFFICES ASSUME bad # {}
               PROVE  FALSE
  OBVIOUS
<1>2. IsWellFoundedOn(StrictSubsetOrdering(S), SUBSET S)
  BY FS_StrictSubsetOrderingWellFounded, FS_FiniteSubsetsOfFinite
<1>3. bad \subseteq SUBSET S
  OBVIOUS
<1>4. PICK T \in bad : \A U \in bad : ~(<< U, T >> \in StrictSubsetOrdering(S))
  <2> HIDE DEF bad
  <2> QED BY <1>1, <1>2, <1>3, WFMin
<1>5. ASSUME NEW U \in SUBSET T, U # T
      PROVE  U \in A
  BY <1>4, <1>5 DEF StrictSubsetOrdering
<1>6. QED BY <1>4, <1>5

\* What holds of 0, and of n + 1 when it holds of n, holds up to any number.
LEMMA UpTo ==
  ASSUME NEW A, 0 \in A, \A n \in Nat : n \in A => n + 1 \in A
  PROVE  \A n \in Nat : n \in A
<1> DEFINE bad == {n \in Nat : n \notin A}
<1>1. SUFFICES ASSUME bad # {}
               PROVE  FALSE
  OBVIOUS
<1> DEFINE lt == OpToRel(<, Nat)
<1>2. IsWellFoundedOn(lt, Nat)
  BY NatLessThanWellFounded
<1>3. bad \subseteq Nat
  OBVIOUS
<1>4. PICK n \in bad : \A m \in bad : ~(<< m, n >> \in lt)
  <2> HIDE DEF bad, lt
  <2> QED BY <1>1, <1>2, <1>3, WFMin
<1>5. n # 0 /\ n - 1 \in Nat /\ n - 1 < n
  <2> HIDE DEF lt
  <2> QED OBVIOUS
<1>6. << n - 1, n >> \in lt
  BY <1>5 DEF OpToRel
<1>7. n - 1 \in A
  <2> HIDE DEF lt
  <2> QED BY <1>4, <1>5, <1>6
<1>8. (n - 1) + 1 = n /\ n \notin A
  OBVIOUS
<1>9. QED BY <1>5, <1>7, <1>8

-----------------------------------------------------------------------------
(* The recursion behind SumFunctionOnSet                                   *)

Pick(s) == CHOOSE x \in s : TRUE

Partial(f, g, s) == IF s = {} THEN 0 ELSE f[Pick(s)] + g[s \ {Pick(s)}]

Partials(f, S) == CHOOSE g : g = [s \in SUBSET S |-> Partial(f, g, s)]

LEMMA SumIsPartial ==
  ASSUME NEW f, NEW S
  PROVE  SumFunctionOnSet(f, S) = Partials(f, S)[S]
BY DEF SumFunctionOnSet, FoldFunctionOnSet, MapThenFoldSet, Partials, Partial, Pick

LEMMA PickOne ==
  ASSUME NEW s, s # {}
  PROVE  Pick(s) \in s
BY DEF Pick

\* The recursion has a solution: there is one for the sets of up to n elements,
\* for every n.
Solves(f, S, g, n) == \A s \in SUBSET S : Cardinality(s) <= n => g[s] = Partial(f, g, s)

LEMMA OneMore ==
  ASSUME NEW f, NEW S, IsFiniteSet(S), NEW n \in Nat, NEW g, Solves(f, S, g, n)
  PROVE  \E h : Solves(f, S, h, n + 1)
<1> DEFINE h == [s \in SUBSET S |-> IF Cardinality(s) <= n THEN g[s] ELSE Partial(f, g, s)]
<1>1. \A s \in SUBSET S : Cardinality(s) \in Nat
  BY FS_Subset, FS_CardinalityType
<1>2. SUFFICES ASSUME NEW s \in SUBSET S, Cardinality(s) <= n + 1
               PROVE  h[s] = Partial(f, h, s)
  BY DEF Solves
<1>3. h[s] = Partial(f, g, s)
  BY DEF Solves
<1>4. CASE s = {}
  BY <1>3, <1>4 DEF Partial
<1>5. CASE s # {}
  <2> DEFINE t == s \ {Pick(s)}
  <2>1. t \in SUBSET S /\ Cardinality(t) = Cardinality(s) - 1
    BY <1>5, PickOne, FS_Subset, FS_RemoveElement
  <2>2. h[t] = g[t]
    BY <1>1, <1>2, <2>1
  <2>3. QED BY <1>3, <1>5, <2>2 DEF Partial
<1>6. QED BY <1>4, <1>5

LEMMA PartialsExist ==
  ASSUME NEW f, NEW S, IsFiniteSet(S)
  PROVE  Partials(f, S) = [s \in SUBSET S |-> Partial(f, Partials(f, S), s)]
<1> DEFINE A == {n \in Nat : \E g : Solves(f, S, g, n)}
<1>1. 0 \in A
  <2> DEFINE g == [s \in SUBSET S |-> 0]
  <2>1. Solves(f, S, g, 0)
    <3>1. \A s \in SUBSET S : Cardinality(s) \in Nat /\ (Cardinality(s) <= 0 => s = {})
      BY FS_Subset, FS_CardinalityType, FS_EmptySet
    <3>2. QED BY <3>1 DEF Solves, Partial
  <2>2. QED BY <2>1
<1>2. \A n \in Nat : n \in A => n + 1 \in A
  BY OneMore
<1>3. Cardinality(S) \in A
  <2> HIDE DEF A
  <2> QED BY <1>1, <1>2, UpTo, FS_CardinalityType
<1>4. PICK g : Solves(f, S, g, Cardinality(S))
  BY <1>3
<1> DEFINE h == [s \in SUBSET S |-> g[s]]
<1>5. h = [s \in SUBSET S |-> Partial(f, h, s)]
  <2>1. \A s \in SUBSET S : g[s] = Partial(f, g, s)
    BY <1>4, FS_Subset DEF Solves
  <2>2. \A s \in SUBSET S : Partial(f, h, s) = Partial(f, g, s)
    BY PickOne DEF Partial
  <2>3. QED BY <2>1, <2>2
<1>6. QED BY <1>5 DEF Partials

LEMMA PartialsAt ==
  ASSUME NEW f, NEW S, IsFiniteSet(S), NEW s \in SUBSET S
  PROVE  Partials(f, S)[s] = Partial(f, Partials(f, S), s)
<1> DEFINE g == Partials(f, S)
<1>1. g = [t \in SUBSET S |-> Partial(f, g, t)]
  BY PartialsExist
<1> HIDE DEF g
<1>2. g[s] = Partial(f, g, s)
  BY <1>1
<1>3. QED BY <1>2 DEF g

\* The sum over a part does not depend on what it is a part of.
LEMMA PartialsAgree ==
  ASSUME NEW f, NEW S, IsFiniteSet(S), NEW T \in SUBSET S
  PROVE  Partials(f, S)[T] = SumFunctionOnSet(f, T)
<1> DEFINE A == {U \in SUBSET T : Partials(f, S)[U] = Partials(f, T)[U]}
<1>1. IsFiniteSet(T)
  BY FS_Subset
<1>2. ASSUME NEW U \in SUBSET T, \A V \in SUBSET U : V # U => V \in A
      PROVE  U \in A
  <2>1. /\ Partials(f, S)[U] = Partial(f, Partials(f, S), U)
        /\ Partials(f, T)[U] = Partial(f, Partials(f, T), U)
    BY <1>1, PartialsAt
  <2>2. U # {} => U \ {Pick(U)} \in A
    BY <1>2, PickOne
  <2>3. QED BY <2>1, <2>2 DEF Partial
<1>3. T \in A
  <2> HIDE DEF A
  <2> QED BY <1>1, <1>2, SubsetInduction
<1>4. QED BY <1>3, SumIsPartial

LEMMA SumStep ==
  ASSUME NEW f, NEW S, IsFiniteSet(S), S # {}
  PROVE  SumFunctionOnSet(f, S) = f[Pick(S)] + SumFunctionOnSet(f, S \ {Pick(S)})
<1>1. Partials(f, S)[S] = Partial(f, Partials(f, S), S)
  BY PartialsAt
<1>2. Partials(f, S)[S \ {Pick(S)}] = SumFunctionOnSet(f, S \ {Pick(S)})
  BY PartialsAgree
<1>3. QED BY <1>1, <1>2, SumIsPartial DEF Partial

\* A sum of nothing is nothing.
LEMMA SumEmpty ==
  ASSUME NEW f
  PROVE  SumFunctionOnSet(f, {}) = 0
BY SumIsPartial, PartialsAt, FS_EmptySet DEF Partial

-----------------------------------------------------------------------------
(* What is known of a sum                                                  *)

LEMMA SumInt ==
  ASSUME NEW f, NEW S, IsFiniteSet(S), \A x \in S : f[x] \in Int
  PROVE  SumFunctionOnSet(f, S) \in Int
<1> DEFINE A == {T \in SUBSET S : SumFunctionOnSet(f, T) \in Int}
<1>1. ASSUME NEW T \in SUBSET S, \A U \in SUBSET T : U # T => U \in A
      PROVE  T \in A
  <2>1. CASE T = {}
    BY <2>1, SumEmpty
  <2>2. CASE T # {}
    <3>1. IsFiniteSet(T) /\ Pick(T) \in T
      BY <2>2, FS_Subset, PickOne
    <3>2. SumFunctionOnSet(f, T \ {Pick(T)}) \in Int
      BY <1>1, <3>1
    <3>3. QED BY <2>2, <3>1, <3>2, SumStep
  <2>3. QED BY <2>1, <2>2
<1>2. S \in A
  <2> HIDE DEF A
  <2> QED BY <1>1, SubsetInduction
<1>3. QED BY <1>2

\* One summand, whichever it is, and the others.
LEMMA SumRemove ==
  ASSUME NEW f, NEW S, IsFiniteSet(S), \A x \in S : f[x] \in Int, NEW x \in S
  PROVE  SumFunctionOnSet(f, S) = f[x] + SumFunctionOnSet(f, S \ {x})
<1> DEFINE Sum(T) == SumFunctionOnSet(f, T)
           A == {T \in SUBSET S : \A y \in T : Sum(T) = f[y] + Sum(T \ {y})}
<1>1. ASSUME NEW T \in SUBSET S, \A U \in SUBSET T : U # T => U \in A
      PROVE  T \in A
  <2>1. SUFFICES ASSUME NEW y \in T
                 PROVE  Sum(T) = f[y] + Sum(T \ {y})
    OBVIOUS
  <2> DEFINE p == Pick(T)
  <2>2. p \in T /\ Sum(T) = f[p] + Sum(T \ {p})
    <3>1. IsFiniteSet(T) /\ T # {}
      BY FS_Subset
    <3>2. QED BY <3>1, PickOne, SumStep
  <2>3. CASE y = p
    BY <2>2, <2>3
  <2>4. CASE y # p
    <3> DEFINE r == (T \ {p}) \ {y}
    <3>1. Sum(T \ {p}) = f[y] + Sum(r)
      BY <1>1, <2>2, <2>4
    <3>2. Sum(T \ {y}) = f[p] + Sum(r)
      <4>1. r = (T \ {y}) \ {p}
        OBVIOUS
      <4>2. Sum(T \ {y}) = f[p] + Sum((T \ {y}) \ {p})
        BY <1>1, <2>2, <2>4
      <4> HIDE DEF r
      <4>3. QED BY <4>1, <4>2
    <3>3. Sum(r) \in Int
      BY FS_Subset, SumInt
    <3>4. f[p] \in Int /\ f[y] \in Int
      BY <2>2
    <3> HIDE DEF p, r, Sum
    <3>5. QED BY <2>2, <3>1, <3>2, <3>3, <3>4
  <2>5. QED BY <2>3, <2>4
<1>2. S \in A
  <2> HIDE DEF A
  <2> QED BY <1>1, SubsetInduction
<1>3. QED BY <1>2

LEMMA SumEqual ==
  ASSUME NEW f, NEW g, NEW S, IsFiniteSet(S), \A x \in S : f[x] = g[x]
  PROVE  SumFunctionOnSet(f, S) = SumFunctionOnSet(g, S)
<1> DEFINE A == {T \in SUBSET S : SumFunctionOnSet(f, T) = SumFunctionOnSet(g, T)}
<1>1. ASSUME NEW T \in SUBSET S, \A U \in SUBSET T : U # T => U \in A
      PROVE  T \in A
  <2>1. CASE T = {}
    BY <2>1, SumEmpty
  <2>2. CASE T # {}
    <3>1. IsFiniteSet(T) /\ Pick(T) \in T
      BY <2>2, FS_Subset, PickOne
    <3>2. T \ {Pick(T)} \in A
      BY <1>1, <3>1
    <3>3. QED BY <2>2, <3>1, <3>2, SumStep
  <2>3. QED BY <2>1, <2>2
<1>2. S \in A
  <2> HIDE DEF A
  <2> QED BY <1>1, SubsetInduction
<1>3. QED BY <1>2

LEMMA SumMonotone ==
  ASSUME NEW f, NEW g, NEW S, IsFiniteSet(S),
         \A x \in S : f[x] \in Int /\ g[x] \in Int /\ f[x] <= g[x]
  PROVE  SumFunctionOnSet(f, S) <= SumFunctionOnSet(g, S)
<1> DEFINE A == {T \in SUBSET S : SumFunctionOnSet(f, T) <= SumFunctionOnSet(g, T)}
<1>1. ASSUME NEW T \in SUBSET S, \A U \in SUBSET T : U # T => U \in A
      PROVE  T \in A
  <2>1. CASE T = {}
    BY <2>1, SumEmpty
  <2>2. CASE T # {}
    <3> DEFINE p == Pick(T)
               a == SumFunctionOnSet(f, T \ {p})
               b == SumFunctionOnSet(g, T \ {p})
    <3>1. IsFiniteSet(T) /\ p \in T /\ IsFiniteSet(T \ {p})
      BY <2>2, FS_Subset, PickOne
    <3>2. a <= b
      BY <1>1, <3>1
    <3>3. a \in Int /\ b \in Int /\ f[p] \in Int /\ g[p] \in Int /\ f[p] <= g[p]
      BY <3>1, SumInt
    <3>4. SumFunctionOnSet(f, T) = f[p] + a /\ SumFunctionOnSet(g, T) = g[p] + b
      BY <2>2, <3>1, SumStep
    <3> HIDE DEF p, a, b
    <3>5. QED BY <3>2, <3>3, <3>4
  <2>3. QED BY <2>1, <2>2
<1>2. S \in A
  <2> HIDE DEF A
  <2> QED BY <1>1, SubsetInduction
<1>3. QED BY <1>2

LEMMA SumZero ==
  ASSUME NEW f, NEW S, IsFiniteSet(S), \A x \in S : f[x] = 0
  PROVE  SumFunctionOnSet(f, S) = 0
<1> DEFINE A == {T \in SUBSET S : SumFunctionOnSet(f, T) = 0}
<1>1. ASSUME NEW T \in SUBSET S, \A U \in SUBSET T : U # T => U \in A
      PROVE  T \in A
  <2>1. CASE T = {}
    BY <2>1, SumEmpty
  <2>2. CASE T # {}
    <3>1. IsFiniteSet(T) /\ Pick(T) \in T
      BY <2>2, FS_Subset, PickOne
    <3>2. T \ {Pick(T)} \in A
      BY <1>1, <3>1
    <3>3. QED BY <2>2, <3>1, <3>2, SumStep
  <2>3. QED BY <2>1, <2>2
<1>2. S \in A
  <2> HIDE DEF A
  <2> QED BY <1>1, SubsetInduction
<1>3. QED BY <1>2

LEMMA SumNat ==
  ASSUME NEW f, NEW S, IsFiniteSet(S), \A x \in S : f[x] \in Nat
  PROVE  SumFunctionOnSet(f, S) \in Nat
<1> DEFINE z == [x \in S |-> 0]
<1>1. SumFunctionOnSet(z, S) = 0
  BY SumZero
<1>2. SumFunctionOnSet(z, S) <= SumFunctionOnSet(f, S)
  BY SumMonotone
<1>3. SumFunctionOnSet(f, S) \in Int
  BY SumInt
<1>4. QED BY <1>1, <1>2, <1>3

LEMMA SumPositive ==
  ASSUME NEW f, NEW S, IsFiniteSet(S), \A x \in S : f[x] \in Nat, NEW x \in S, f[x] > 0
  PROVE  SumFunctionOnSet(f, S) > 0
<1>1. SumFunctionOnSet(f, S) = f[x] + SumFunctionOnSet(f, S \ {x})
  BY SumRemove
<1>2. SumFunctionOnSet(f, S \ {x}) \in Nat
  BY FS_RemoveElement, SumNat
<1>3. QED BY <1>1, <1>2

\* Two sums that differ in one summand.
LEMMA SumChange ==
  ASSUME NEW f, NEW g, NEW S, IsFiniteSet(S), NEW x \in S,
         \A y \in S : f[y] \in Int /\ g[y] \in Int,
         \A y \in S \ {x} : f[y] = g[y]
  PROVE  SumFunctionOnSet(g, S) = SumFunctionOnSet(f, S) - f[x] + g[x]
<1> DEFINE a == SumFunctionOnSet(f, S \ {x})
<1>1. IsFiniteSet(S \ {x})
  BY FS_RemoveElement
<1>2. SumFunctionOnSet(g, S \ {x}) = a
  BY <1>1, SumEqual
<1>3. a \in Int
  BY <1>1, SumInt
<1>4. SumFunctionOnSet(f, S) = f[x] + a /\ SumFunctionOnSet(g, S) = g[x] + SumFunctionOnSet(g, S \ {x})
  BY SumRemove
<1> HIDE DEF a
<1>5. QED BY <1>2, <1>3, <1>4

\* A part and the rest.
LEMMA SumSplit ==
  ASSUME NEW f, NEW S, IsFiniteSet(S), \A x \in S : f[x] \in Int, NEW P \in SUBSET S
  PROVE  SumFunctionOnSet(f, S) = SumFunctionOnSet(f, P) + SumFunctionOnSet(f, S \ P)
<1> DEFINE Sum(T) == SumFunctionOnSet(f, T)
           A == {T \in SUBSET S : Sum(T) = Sum(T \cap P) + Sum(T \ P)}
<1>1. ASSUME NEW T \in SUBSET S, \A U \in SUBSET T : U # T => U \in A
      PROVE  T \in A
  <2>1. CASE T = {}
    <3>1. T \cap P = {} /\ T \ P = {}
      BY <2>1
    <3>2. QED BY <2>1, <3>1, SumEmpty
  <2>2. CASE T # {}
    <3> DEFINE p == Pick(T)
               R == T \ {p}
               a == Sum(R \cap P)
               b == Sum(R \ P)
    <3>1. /\ IsFiniteSet(T) /\ p \in T /\ IsFiniteSet(R)
          /\ IsFiniteSet(R \cap P) /\ IsFiniteSet(R \ P)
          /\ IsFiniteSet(T \cap P) /\ IsFiniteSet(T \ P)
      BY <2>2, FS_Subset, PickOne
    <3>2. Sum(R) = a + b
      BY <1>1, <3>1
    <3>3. a \in Int /\ b \in Int /\ f[p] \in Int
      BY <3>1, SumInt
    <3>4. Sum(T) = f[p] + Sum(R)
      BY <2>2, <3>1, SumStep
    <3>5. CASE p \in P
      <4>1. (T \cap P) \ {p} = R \cap P /\ T \ P = R \ P
        BY <3>1, <3>5
      <4>2. Sum(T \cap P) = f[p] + Sum((T \cap P) \ {p})
        <5>1. p \in T \cap P /\ \A x \in T \cap P : f[x] \in Int
          BY <3>1, <3>5
        <5> HIDE DEF p
        <5>2. QED BY <3>1, <5>1, SumRemove
      <4>3. Sum(T \cap P) = f[p] + a /\ Sum(T \ P) = b
        BY <4>1, <4>2
      <4> HIDE DEF p, a, b, R, Sum
      <4>4. Sum(T) = Sum(T \cap P) + Sum(T \ P)
        BY <3>2, <3>3, <3>4, <4>3
      <4>5. QED BY <4>4
    <3>6. CASE p \notin P
      <4>1. (T \ P) \ {p} = R \ P /\ T \cap P = R \cap P
        BY <3>1, <3>6
      <4>2. Sum(T \ P) = f[p] + Sum((T \ P) \ {p})
        <5>1. p \in T \ P /\ \A x \in T \ P : f[x] \in Int
          BY <3>1, <3>6
        <5> HIDE DEF p
        <5>2. QED BY <3>1, <5>1, SumRemove
      <4>3. Sum(T \ P) = f[p] + b /\ Sum(T \cap P) = a
        BY <4>1, <4>2
      <4> HIDE DEF p, a, b, R, Sum
      <4>4. Sum(T) = Sum(T \cap P) + Sum(T \ P)
        BY <3>2, <3>3, <3>4, <4>3
      <4>5. QED BY <4>4
    <3>7. QED BY <3>5, <3>6
  <2>3. QED BY <2>1, <2>2
<1>2. S \in A
  <2> HIDE DEF A
  <2> QED BY <1>1, SubsetInduction
<1>3. S \cap P = P
  OBVIOUS
<1>4. QED BY <1>2, <1>3

\* The elements of R, sorted by h, add up to those of R.
LEMMA SumFibers ==
  ASSUME NEW R, IsFiniteSet(R), NEW S, IsFiniteSet(S), NEW h, \A r \in R : h[r] \in S,
         NEW c, \A v \in S : c[v] = Cardinality({r \in R : h[r] = v})
  PROVE  SumFunctionOnSet(c, S) = Cardinality(R)
<1> DEFINE Count(Q) == [v \in S |-> Cardinality({r \in Q : h[r] = v})]
           A == {Q \in SUBSET R : SumFunctionOnSet(Count(Q), S) = Cardinality(Q)}
<1>1. ASSUME NEW Q \in SUBSET R
      PROVE  IsFiniteSet(Q) /\ \A v \in S : Count(Q)[v] \in Nat
  <2>1. IsFiniteSet(Q)
    BY FS_Subset
  <2>2. \A v \in S : IsFiniteSet({r \in Q : h[r] = v})
    BY <2>1, FS_Subset
  <2>3. QED BY <2>1, <2>2, FS_CardinalityType
<1>2. ASSUME NEW Q \in SUBSET R, \A U \in SUBSET Q : U # Q => U \in A
      PROVE  Q \in A
  <2>1. CASE Q = {}
    <3>1. \A v \in S : Count(Q)[v] = 0
      <4>1. {r \in Q : FALSE} = {} /\ \A v \in S : {r \in Q : h[r] = v} = {}
        BY <2>1
      <4>2. QED BY <4>1, FS_EmptySet
    <3>2. SumFunctionOnSet(Count(Q), S) = 0
      <4> HIDE DEF Count
      <4> QED BY <3>1, SumZero
    <3>3. QED BY <2>1, <3>2, FS_EmptySet
  <2>2. CASE Q # {}
    <3>1. PICK q \in Q : TRUE
      BY <2>2
    <3> DEFINE U == Q \ {q}
    <3>2. U \in SUBSET R /\ IsFiniteSet(U) /\ Cardinality(Q) = Cardinality(U) + 1
      <4>1. IsFiniteSet(Q) /\ U \in SUBSET R
        BY <1>1
      <4>2. IsFiniteSet(U) /\ Cardinality(U) = Cardinality(Q) - 1
        BY <3>1, <4>1, FS_RemoveElement
      <4>3. Cardinality(Q) \in Nat
        BY <4>1, FS_CardinalityType
      <4> HIDE DEF U
      <4>4. QED BY <4>1, <4>2, <4>3
    <3>3. SumFunctionOnSet(Count(U), S) = Cardinality(U)
      BY <1>2, <3>1
    <3>4. Count(Q)[h[q]] = Count(U)[h[q]] + 1
      <4> DEFINE X == {r \in Q : h[r] = h[q]}
                 Y == {r \in U : h[r] = h[q]}
      <4>1. Y = X \ {q} /\ q \in X /\ IsFiniteSet(X)
        BY <1>1, FS_Subset
      <4>2. Cardinality(Y) = Cardinality(X) - 1 /\ Cardinality(X) \in Nat
        <5> HIDE DEF X, Y
        <5> QED BY <4>1, FS_RemoveElement, FS_CardinalityType
      <4>3. Count(Q)[h[q]] = Cardinality(X) /\ Count(U)[h[q]] = Cardinality(Y)
        OBVIOUS
      <4> HIDE DEF X, Y, Count, U
      <4>4. QED BY <4>2, <4>3
    <3>5. \A v \in S \ {h[q]} : Count(U)[v] = Count(Q)[v]
      <4>1. \A v \in S \ {h[q]} : {r \in U : h[r] = v} = {r \in Q : h[r] = v}
        OBVIOUS
      <4>2. QED BY <4>1
    <3>6. \A v \in S : Count(U)[v] \in Int /\ Count(Q)[v] \in Int
      BY <1>1, <3>2
    <3>7. h[q] \in S /\ Cardinality(U) \in Nat
      BY <3>2, FS_CardinalityType
    <3> DEFINE f == Count(U)
               g == Count(Q)
               x == h[q]
    <3>8. /\ x \in S /\ \A y \in S : f[y] \in Int /\ g[y] \in Int
          /\ \A y \in S \ {x} : f[y] = g[y]
          /\ g[x] = f[x] + 1
      BY <3>4, <3>5, <3>6, <3>7
    <3>9. SumFunctionOnSet(f, S) = Cardinality(U)
      BY <3>3
    <3>10. SumFunctionOnSet(g, S) = Cardinality(Q)
      <4> HIDE DEF f, g, x, U
      <4>1. SumFunctionOnSet(g, S) = SumFunctionOnSet(f, S) - f[x] + g[x]
        BY <3>8, SumChange
      <4>2. QED BY <3>2, <3>7, <3>8, <3>9, <4>1
    <3>11. QED BY <3>10
  <2>3. QED BY <2>1, <2>2
<1>3. R \in A
  <2> HIDE DEF A
  <2> QED BY <1>2, SubsetInduction
<1>4. \A v \in S : c[v] = Count(R)[v]
  OBVIOUS
<1>5. SumFunctionOnSet(c, S) = SumFunctionOnSet(Count(R), S)
  <2> HIDE DEF Count
  <2> QED BY <1>4, SumEqual
<1>6. QED BY <1>3, <1>5

=============================================================================
