--------------------------- MODULE Analysis_proofs ---------------------------
(***************************************************************************)
(* Theorems about two successive profiles of a table, for tables of any    *)
(* size and any rules.                                                     *)
(***************************************************************************)
EXTENDS AnalysisProperties, SumLemmas

\* What a comparison needs of a profile.
Numbers(p) ==
  /\ p.rows \in Nat /\ p.score \in Int
  /\ \A n \in DOMAIN p.columns :
       /\ p.columns[n].nulls \in Nat
       /\ p.columns[n].distinct \in Nat
       /\ p.columns[n].outliers \in Nat

-----------------------------------------------------------------------------
(* Drift                                                                   *)

\* The distance between two percentages is the same both ways.
LEMMA DeltaMirrors ==
  ASSUME NEW a \in Int, NEW b \in Int, NEW c \in Int, NEW d \in Int, NEW t \in Int
  PROVE  SignificantDelta(Percentage(a, b), Percentage(c, d), t)
           <=> SignificantDelta(Percentage(c, d), Percentage(a, b), t)
<1> DEFINE p == Percentage(a, b)
           q == Percentage(c, d)
<1>1. p.num \in Int /\ p.den \in Int /\ q.num \in Int /\ q.den \in Int
  BY DEF Percentage
<1> HIDE DEF p, q
<1>2. PICK x \in Int : x = q.num * p.den
  BY <1>1
<1>3. PICK y \in Int : y = p.num * q.den
  BY <1>1
<1>4. t * p.den * q.den = t * q.den * p.den
  BY <1>1
<1>5. (IF x - y < 0 THEN -(x - y) ELSE x - y) = (IF y - x < 0 THEN -(y - x) ELSE y - x)
  OBVIOUS
<1>6. QED BY <1>2, <1>3, <1>4, <1>5 DEF SignificantDelta, p, q

\* What is found of a column that both profiles have is the same both ways, and
\* is neither an added nor a removed column.
LEMMA ColumnMirrors ==
  ASSUME NEW a, NEW b, Numbers(a), Numbers(b), NEW n \in DOMAIN a.columns \cap DOMAIN b.columns
  PROVE  /\ ColumnChanges(a, b, n) = ColumnChanges(b, a, n)
         /\ \A c \in ColumnChanges(a, b, n) : c.what \notin {"added", "removed"}
<1> DEFINE old == a.columns[n]
           new == b.columns[n]
<1>1. /\ a.rows \in Int /\ b.rows \in Int
      /\ old.nulls \in Int /\ new.nulls \in Int
      /\ old.distinct \in Int /\ new.distinct \in Int
      /\ old.outliers \in Int /\ new.outliers \in Int
      /\ a.rows - old.nulls \in Int /\ b.rows - new.nulls \in Int
      /\ 5 \in Int /\ 10 \in Int
  BY DEF Numbers
<1>2. SignificantDelta(Percentage(old.nulls, a.rows), Percentage(new.nulls, b.rows), 10)
        <=> SignificantDelta(Percentage(new.nulls, b.rows), Percentage(old.nulls, a.rows), 10)
  BY <1>1, DeltaMirrors, Zenon
<1>3. SignificantDelta(Percentage(old.distinct, a.rows), Percentage(new.distinct, b.rows), 10)
        <=> SignificantDelta(Percentage(new.distinct, b.rows), Percentage(old.distinct, a.rows), 10)
  BY <1>1, DeltaMirrors, Zenon
<1>4. SignificantDelta(Percentage(old.outliers, a.rows - old.nulls),
                       Percentage(new.outliers, b.rows - new.nulls), 5)
        <=> SignificantDelta(Percentage(new.outliers, b.rows - new.nulls),
                             Percentage(old.outliers, a.rows - old.nulls), 5)
  BY <1>1, DeltaMirrors, Zenon
<1>5. ColumnChanges(a, b, n) = ColumnChanges(b, a, n)
  BY <1>2, <1>3, <1>4 DEF ColumnChanges
<1>6. \A c \in ColumnChanges(a, b, n) : c.what \notin {"added", "removed"}
  <2>1. SUFFICES ASSUME NEW c \in ColumnChanges(a, b, n)
                 PROVE  c.what \notin {"added", "removed"}
    OBVIOUS
  <2>2. PICK w \in {"type", "nullability", "distinct count", "null percentage",
                  "distinct percentage", "outlier percentage", "PII classification"} :
          c = Change(w, n)
    BY <2>1, Zenon DEF ColumnChanges
  <2>3. c.what = w
    BY <2>2 DEF Change
  <2>4. QED BY <2>2, <2>3
<1>7. QED BY <1>5, <1>6

\* Of one change.
Turned(c) == IF c.what \in DOMAIN Mirror THEN [c EXCEPT !.what = Mirror[c.what]] ELSE c

LEMMA ChangeWhat == \A w, n : Change(w, n).what = w
BY DEF Change

LEMMA TurnedChanges ==
  /\ \A n : Turned(Change("added", n)) = Change("removed", n)
  /\ \A n : Turned(Change("removed", n)) = Change("added", n)
  /\ \A c : c.what \notin {"added", "removed"} => Turned(c) = c
<1>1. DOMAIN Mirror = {"added", "removed"}
  BY DEF Mirror
<1>2. Mirror["added"] = "removed" /\ Mirror["removed"] = "added"
  BY DEF Mirror
<1>3. \A w, n : Change(w, n) = [what |-> w, column |-> n] /\ Change(w, n).what = w
  BY DEF Change
<1>4. \A v, w, n : [Change(w, n) EXCEPT !.what = v] = Change(v, n)
  BY <1>3
<1>5. QED BY <1>1, <1>2, <1>3, <1>4 DEF Turned

\* The kinds of change.
LEMMA ChangeKinds ==
  ASSUME NEW a, NEW b, NEW c
  PROVE  c \in Changes(a, b) <=>
           \/ a.score # b.score /\ c = Change("quality score", "table")
           \/ a.dups # b.dups /\ c = Change("duplicate rows", "table")
           \/ \E n \in DOMAIN a.columns \ DOMAIN b.columns : c = Change("removed", n)
           \/ \E n \in DOMAIN b.columns \ DOMAIN a.columns : c = Change("added", n)
           \/ \E n \in DOMAIN a.columns \cap DOMAIN b.columns : c \in ColumnChanges(a, b, n)
<1> DEFINE S == IF a.score # b.score THEN {Change("quality score", "table")} ELSE {}
           D == IF a.dups # b.dups THEN {Change("duplicate rows", "table")} ELSE {}
           R == {Change("removed", n) : n \in DOMAIN a.columns \ DOMAIN b.columns}
           A == {Change("added", n) : n \in DOMAIN b.columns \ DOMAIN a.columns}
           C == UNION {ColumnChanges(a, b, n) : n \in DOMAIN a.columns \cap DOMAIN b.columns}
<1>1. Changes(a, b) = UNION {S, R, C, A, D}
  BY DEF Changes
<1>2. c \in S <=> a.score # b.score /\ c = Change("quality score", "table")
  OBVIOUS
<1>3. c \in D <=> a.dups # b.dups /\ c = Change("duplicate rows", "table")
  OBVIOUS
<1>4. c \in R <=> \E n \in DOMAIN a.columns \ DOMAIN b.columns : c = Change("removed", n)
  BY Zenon
<1>5. c \in A <=> \E n \in DOMAIN b.columns \ DOMAIN a.columns : c = Change("added", n)
  BY Zenon
<1>6. c \in C <=> \E n \in DOMAIN a.columns \cap DOMAIN b.columns : c \in ColumnChanges(a, b, n)
  BY Zenon
<1>7. c \in UNION {S, R, C, A, D} <=> c \in S \/ c \in R \/ c \in C \/ c \in A \/ c \in D
  <2> HIDE DEF S, R, C, A, D
  <2> QED OBVIOUS
<1> HIDE DEF S, R, C, A, D
<1>8. QED BY <1>1, <1>2, <1>3, <1>4, <1>5, <1>6, <1>7

\* Every change of one comparison is in the other, turned round.
LEMMA ChangesMirror ==
  ASSUME NEW a, NEW b, Numbers(a), Numbers(b), NEW c \in Changes(a, b)
  PROVE  Turned(c) \in Changes(b, a)
<1>1. CASE a.score # b.score /\ c = Change("quality score", "table")
  <2>1. Turned(c) = c
    <3>1. c.what = "quality score"
      BY <1>1, ChangeWhat, Zenon
    <3>2. QED BY <3>1, TurnedChanges
  <2>2. QED BY <1>1, <2>1, ChangeKinds
<1>2. CASE a.dups # b.dups /\ c = Change("duplicate rows", "table")
  <2>1. Turned(c) = c
    <3>1. c.what = "duplicate rows"
      BY <1>2, ChangeWhat, Zenon
    <3>2. QED BY <3>1, TurnedChanges
  <2>2. QED BY <1>2, <2>1, ChangeKinds
<1>3. CASE \E n \in DOMAIN a.columns \ DOMAIN b.columns : c = Change("removed", n)
  BY <1>3, TurnedChanges, ChangeKinds
<1>4. CASE \E n \in DOMAIN b.columns \ DOMAIN a.columns : c = Change("added", n)
  BY <1>4, TurnedChanges, ChangeKinds
<1>5. CASE \E n \in DOMAIN a.columns \cap DOMAIN b.columns : c \in ColumnChanges(a, b, n)
  <2>1. PICK n \in DOMAIN a.columns \cap DOMAIN b.columns : c \in ColumnChanges(a, b, n)
    BY <1>5
  <2>2. c \in ColumnChanges(b, a, n) /\ Turned(c) = c
    BY <2>1, ColumnMirrors, TurnedChanges
  <2>3. n \in DOMAIN b.columns \cap DOMAIN a.columns
    OBVIOUS
  <2>4. QED BY <2>2, <2>3, ChangeKinds
<1>6. QED BY <1>1, <1>2, <1>3, <1>4, <1>5, ChangeKinds

LEMMA TurnedTwice ==
  ASSUME NEW a, NEW b, Numbers(a), Numbers(b), NEW c \in Changes(a, b)
  PROVE  Turned(Turned(c)) = c
<1>1. CASE \E n : c \in {Change("removed", n), Change("added", n)}
  BY <1>1, TurnedChanges
<1>2. CASE c.what \notin {"added", "removed"}
  BY <1>2, TurnedChanges
<1>3. CASE c \in {Change("quality score", "table"), Change("duplicate rows", "table")}
  <2>1. c.what \in {"quality score", "duplicate rows"}
    BY <1>3, ChangeWhat, Zenon
  <2>2. QED BY <1>2, <2>1
<1>4. CASE \E n \in DOMAIN a.columns \cap DOMAIN b.columns : c \in ColumnChanges(a, b, n)
  BY <1>2, <1>4, ColumnMirrors
<1>5. QED BY <1>1, <1>3, <1>4, ChangeKinds

LEMMA CompareMirrors ==
  ASSUME NEW a, NEW b, Numbers(a), Numbers(b)
  PROVE  /\ Compare(b, a).changes = Mirrored(Compare(a, b).changes)
         /\ Compare(b, a).changed = Compare(a, b).changed
         /\ Compare(b, a).scoreDelta = -Compare(a, b).scoreDelta
<1>1. Mirrored(Changes(a, b)) = {Turned(c) : c \in Changes(a, b)}
  BY DEF Mirrored, Turned
<1>2. Changes(b, a) = Mirrored(Changes(a, b))
  <2>1. ASSUME NEW c \in Changes(b, a) PROVE c \in Mirrored(Changes(a, b))
    <3>1. Turned(c) \in Changes(a, b) /\ Turned(Turned(c)) = c
      BY ChangesMirror, TurnedTwice
    <3>2. QED BY <1>1, <3>1
  <2>2. ASSUME NEW c \in Changes(a, b) PROVE Turned(c) \in Changes(b, a)
    BY ChangesMirror
  <2>3. QED BY <1>1, <2>1, <2>2
<1>3. Changes(b, a) = {} <=> Changes(a, b) = {}
  BY <1>1, <1>2
<1>4. a.score - b.score = -(b.score - a.score)
  BY DEF Numbers
<1>5. QED BY <1>2, <1>3, <1>4 DEF Compare

-----------------------------------------------------------------------------
(* What is added up                                                        *)

LEMMA DeductionNat ==
  ASSUME NEW p, NEW r, NEW n
  PROVE  Deduction(p, r, n) \in Nat
BY DEF Deduction, Points

\* What the columns take off the score.
Deductions(p, r) == [n \in DOMAIN p.columns |-> Deduction(p, r, n)]

LEMMA ScoreInt ==
  ASSUME NEW p, NEW r, IsFiniteSet(DOMAIN p.columns)
  PROVE  /\ SumFunctionOnSet(Deductions(p, r), DOMAIN p.columns) \in Nat
         /\ Score(p, r) = LET score == 100 - SumFunctionOnSet(Deductions(p, r), DOMAIN p.columns)
                                          - Points(p.dups > 0, 5)
                         IN  IF score < 0 THEN 0 ELSE score
         /\ Score(p, r) \in Int
<1> DEFINE sum == SumFunctionOnSet(Deductions(p, r), DOMAIN p.columns)
<1>1. sum \in Nat
  BY DeductionNat, SumNat DEF Deductions
<1>2. Points(p.dups > 0, 5) \in Int
  BY DEF Points
<1>3. Score(p, r) = LET score == 100 - sum - Points(p.dups > 0, 5)
                    IN  IF score < 0 THEN 0 ELSE score
  BY DEF Score, SumFunction, Deductions
<1> HIDE DEF sum
<1>4. Score(p, r) \in Int
  BY <1>1, <1>2, <1>3
<1>5. QED BY <1>1, <1>3, <1>4 DEF sum

LEMMA RowsNat ==
  ASSUME NEW S, IsFiniteSet(S), \A x \in S : x.count \in Nat \ {0}
  PROVE  RowsOf(S) \in Nat /\ (S # {} => RowsOf(S) > 0)
<1> DEFINE f == [x \in S |-> x.count]
<1>1. RowsOf(S) = SumFunctionOnSet(f, S)
  BY DEF RowsOf, SumFunction
<1>2. \A x \in S : f[x] \in Nat /\ f[x] > 0
  OBVIOUS
<1> HIDE DEF f
<1>3. QED BY <1>1, <1>2, SumNat, SumPositive

LEMMA RatioNat ==
  ASSUME NEW l, NEW S, IsFiniteSet(S), \A x \in S : x.count \in Nat \ {0}
  PROVE  ValueMatchRatio(l, S) \in Nat
<1> DEFINE checked == {x \in S : x.value.shape # "blank"}
           matching == {x \in checked : MatchesLabel(l, x.value)}
           a == RowsOf(matching)
           b == RowsOf(checked)
<1>1. a \in Nat /\ b \in Nat
  <2>1. IsFiniteSet(checked) /\ IsFiniteSet(matching)
    BY FS_Subset
  <2>2. QED BY <2>1, RowsNat
<1>2. ValueMatchRatio(l, S) = IF b = 0 THEN 0 ELSE (100 * a) \div b
  BY DEF ValueMatchRatio
<1> HIDE DEF a, b
<1>3. QED BY <1>1, <1>2

-----------------------------------------------------------------------------
(* The two last observations                                               *)

\* An observation is of some table of the subject, under its rules.
Seen(x) == \E o \in subject : x \in Observed(o)

SeenInv == subject \in Subjects /\ Seen(before) /\ Seen(after)

LEMMA SeenInvariant == Spec => []SeenInv
<1>1. Init => SeenInv
  BY DEF Init, SeenInv, Seen
<1>2. SeenInv /\ [Next]_vars => SeenInv'
  <2>1. CASE Observe
    BY <2>1 DEF SeenInv, Seen, Observe
  <2>2. CASE UNCHANGED vars
    BY <2>2 DEF vars, SeenInv, Seen
  <2>3. QED BY <2>1, <2>2 DEF Next
<1>3. QED BY <1>1, <1>2, PTL DEF Spec

\* What a profile says of the table it is of.
LEMMA SeenProfile ==
  ASSUME SeenInv, NEW x, Seen(x)
  PROVE  /\ Measured(x.table) /\ x.profile.score = Score(x.table, x.rules)
         /\ Numbers(x.profile)
         /\ \A n \in DOMAIN x.table.columns :
              /\ x.table.evidence[n].headers \subseteq Labels
              /\ \A l \in Labels : ValueMatchRatio(l, x.table.evidence[n].top) \in Nat
              /\ [label |-> x.profile.columns[n].pii,
                  confidence |-> x.profile.columns[n].confidence]
                   \in DetectProfile(Evidence(x.table.evidence[n]))
<1>1. PICK o \in subject : x \in Observed(o)
  BY DEF Seen
<1>2. PICK d \in Detections(o[1]) : /\ x.table = o[1] /\ x.rules = o[2]
                                    /\ x.profile = Profile(o[1], o[2], d)
  BY <1>1 DEF Observed, Profiles
<1>3. /\ x.profile.rows = o[1].rows
      /\ x.profile.score = Score(o[1], o[2])
      /\ DOMAIN x.profile.columns = DOMAIN o[1].columns
      /\ \A n \in DOMAIN o[1].columns :
           x.profile.columns[n] = Labelled(o[1].columns[n], d[n])
  BY <1>2 DEF Profile
<1>4. /\ Measured(o[1])
      /\ o[1].rows \in Nat /\ Score(o[1], o[2]) \in Int
      /\ \A n \in DOMAIN o[1].columns :
           /\ \A f \in {"nulls", "distinct", "outliers"} :
                f \in DOMAIN o[1].columns[n] /\ o[1].columns[n][f] \in Nat
           /\ o[1].evidence[n].headers \subseteq Labels
           /\ \A l \in Labels : ValueMatchRatio(l, o[1].evidence[n].top) \in Nat
  <2>1. Measured(o[1])
    BY SubjectsAssumption DEF SeenInv
  <2>2. IsFiniteSet(DOMAIN o[1].columns)
    BY <2>1 DEF Measured
  <2>3. \A n \in DOMAIN o[1].columns :
          /\ IsFiniteSet(o[1].evidence[n].top)
          /\ \A v \in o[1].evidence[n].top : v.count \in Nat \ {0}
    BY <2>1 DEF Measured
  <2>4. QED BY <2>1, <2>2, <2>3, ScoreInt, RatioNat DEF Measured, Counts
<1>5. ASSUME NEW n \in DOMAIN o[1].columns, NEW f \in {"nulls", "distinct", "outliers"}
      PROVE  x.profile.columns[n][f] = o[1].columns[n][f]
  BY <1>3, <1>4 DEF Labelled
<1>6. Numbers(x.profile)
  BY <1>3, <1>4, <1>5 DEF Numbers
<1>7. ASSUME NEW n \in DOMAIN o[1].columns
      PROVE  [label |-> x.profile.columns[n].pii,
              confidence |-> x.profile.columns[n].confidence]
               \in DetectProfile(Evidence(o[1].evidence[n]))
  <2>1. d[n] \in DetectProfile(Evidence(o[1].evidence[n]))
    BY DEF Detections
  <2>2. x.profile.columns[n].pii = d[n].label /\ x.profile.columns[n].confidence = d[n].confidence
    BY <1>3 DEF Labelled
  <2>3. d[n] = [label |-> d[n].label, confidence |-> d[n].confidence]
    BY <2>1 DEF DetectProfile, ByValue, NoDetection
  <2>4. QED BY <2>1, <2>2, <2>3
<1>8. QED BY <1>2, <1>3, <1>4, <1>6, <1>7

\* Drift seen backwards is the same drift, of any two profiles of any two states
\* of a table (Compare).
THEOREM DriftIsMirrored == Spec => []DriftMirrors
<1>1. SeenInv => DriftMirrors
  BY SeenProfile, CompareMirrors DEF SeenInv, DriftMirrors
<1>2. QED BY <1>1, SeenInvariant, PTL

-----------------------------------------------------------------------------
(* Detection                                                               *)

\* The scales of DetectProfile: the more a label is supported, the surer it is.
LEMMA MoreIsSurer ==
  ASSUME NEW e, NEW f, Supports(e, f),
         e.headers \subseteq Labels, f.headers \subseteq Labels,
         \A l \in Labels : ValueMatchRatio(l, e.top) \in Nat /\ ValueMatchRatio(l, f.top) \in Nat,
         NEW c \in DetectProfile(Evidence(f)), NEW d \in DetectProfile(Evidence(e)),
         c.label = d.label
  PROVE  d.confidence >= c.confidence
<1> DEFINE l == d.label
           new == ValueMatchRatio(l, e.top)
           old == ValueMatchRatio(l, f.top)
           Graded(x, r) == x.confidence = IF r >= 80 THEN 90 ELSE 80
<1>1. /\ f.headers \subseteq e.headers /\ f.bare = e.bare
      /\ l \in Labels => new \in Nat /\ old \in Nat /\ new >= old
  BY DEF Supports
<1>2. DOMAIN ValueLabels = 1 .. 6 /\ \A i \in 1 .. 6 : ValueLabels[i] \in Labels
  BY DEF ValueLabels, Labels
<1>3. "none" \notin Labels
  BY DEF Labels
<1>4. ASSUME NEW g \in {e, f}, NEW x \in DetectProfile(Evidence(g)), x.label = l
      PROVE  \/ /\ g.headers # {} /\ l \in Labels
                /\ x.confidence = HeaderConfidence(l, g.bare, ValueMatchRatio(l, g.top))
             \/ /\ g.headers = {} /\ l \in Labels
                /\ ValueMatchRatio(l, g.top) >= 50 /\ Graded(x, ValueMatchRatio(l, g.top))
             \/ g.headers = {} /\ l = "none" /\ x.confidence = 0
  <2>1. \A k \in Labels : Evidence(g).ratio[k] = ValueMatchRatio(k, g.top)
    BY DEF Evidence
  <2>2. Evidence(g).headers = g.headers /\ Evidence(g).bare = g.bare
    BY DEF Evidence
  <2>3. CASE g.headers # {}
    <3>1. PICK k \in g.headers :
            x = [label |-> k, confidence |-> HeaderConfidence(k, g.bare, Evidence(g).ratio[k])]
      BY <2>2, <2>3 DEF DetectProfile
    <3>2. k = l /\ k \in Labels
      BY <1>4, <3>1
    <3>3. QED BY <2>1, <2>3, <3>1, <3>2
  <2>4. CASE g.headers = {} /\ x \in ByValue(Evidence(g).ratio)
    <3>1. PICK i \in ValueMatches(Evidence(g).ratio) :
            x = [label |-> ValueLabels[i],
                 confidence |-> IF Evidence(g).ratio[ValueLabels[i]] >= 80 THEN 90 ELSE 80]
      BY <2>4 DEF ByValue
    <3>2. i \in 1 .. 6 /\ Evidence(g).ratio[ValueLabels[i]] >= 50
      BY <1>2, <3>1 DEF ValueMatches
    <3>3. ValueLabels[i] = l /\ l \in Labels
      BY <1>2, <1>4, <3>1, <3>2
    <3>4. QED BY <2>1, <2>4, <3>1, <3>2, <3>3
  <2>5. CASE g.headers = {} /\ x = NoDetection
    BY <1>4, <2>5 DEF NoDetection
  <2>6. QED BY <2>2, <2>3, <2>4, <2>5 DEF DetectProfile
<1>5. CASE l = "none"
  <2>1. c.confidence = 0 /\ d.confidence = 0
    BY <1>3, <1>4, <1>5
  <2>2. QED BY <2>1
<1>6. CASE l \in Labels
  <2>1. new \in Nat /\ old \in Nat /\ new >= old
    BY <1>1, <1>6
  <2>2. CASE f.headers # {}
    <3>1. /\ c.confidence = HeaderConfidence(l, f.bare, old)
          /\ d.confidence = HeaderConfidence(l, f.bare, new)
      BY <1>1, <1>3, <1>4, <1>6, <2>2
    <3>2. QED BY <2>1, <3>1 DEF HeaderConfidence
  <2>3. CASE f.headers = {} /\ e.headers # {}
    <3>1. old >= 50 /\ Graded(c, old) /\ d.confidence = HeaderConfidence(l, e.bare, new)
      BY <1>3, <1>4, <1>6, <2>3
    <3>2. QED BY <2>1, <3>1 DEF HeaderConfidence
  <2>4. CASE f.headers = {} /\ e.headers = {}
    <3>1. Graded(c, old) /\ Graded(d, new)
      BY <1>3, <1>4, <1>6, <2>4
    <3>2. QED BY <2>1, <3>1
  <2>5. QED BY <2>2, <2>3, <2>4
<1>7. QED BY <1>4, <1>5, <1>6

\* More evidence for the label of a column never makes it less certain, whatever
\* the values and the name of the column (DetectProfile).
THEOREM EvidenceCounts == Spec => []EvidenceAdds
<1>1. SeenInv => EvidenceAdds
  <2>1. SUFFICES ASSUME SeenInv,
                        NEW n \in DOMAIN before.table.columns \cap DOMAIN after.table.columns,
                        Supports(after.table.evidence[n], before.table.evidence[n]),
                        before.profile.columns[n].pii = after.profile.columns[n].pii
                 PROVE  after.profile.columns[n].confidence >= before.profile.columns[n].confidence
    BY DEF EvidenceAdds
  <2> DEFINE e == after.table.evidence[n]
             f == before.table.evidence[n]
             c == [label |-> before.profile.columns[n].pii,
                   confidence |-> before.profile.columns[n].confidence]
             d == [label |-> after.profile.columns[n].pii,
                   confidence |-> after.profile.columns[n].confidence]
  <2>2. /\ e.headers \subseteq Labels /\ f.headers \subseteq Labels
        /\ \A l \in Labels : ValueMatchRatio(l, e.top) \in Nat /\ ValueMatchRatio(l, f.top) \in Nat
        /\ c \in DetectProfile(Evidence(f)) /\ d \in DetectProfile(Evidence(e))
    BY <2>1, SeenProfile DEF SeenInv
  <2>3. c.label = d.label
    BY <2>1
  <2> HIDE DEF c, d, e, f
  <2>4. Supports(e, f)
    BY <2>1 DEF e, f
  <2>5. d.confidence >= c.confidence
    BY <2>2, <2>3, <2>4, MoreIsSurer
  <2>6. QED BY <2>5 DEF c, d
<1>2. QED BY <1>1, SeenInvariant, PTL

-----------------------------------------------------------------------------
(* The score                                                               *)

\* A threshold is a percentage.
LEMMA ThresholdRange ==
  ASSUME NEW r, NEW name \in {"nulls", "dominant", "high"}
  PROVE  Threshold(r, name) \in 0 .. 100
BY DEF Threshold, DefaultRules

LEMMA LooserDeducts ==
  ASSUME NEW p, NEW r, NEW s, NEW n, Looser(r, s), p.rows \in Nat, p.columns[n].nulls \in Nat
  PROVE  Deduction(p, r, n) <= Deduction(p, s, n)
<1>1. Incomplete(p, r, n) => Incomplete(p, s, n)
  <2> DEFINE a == Threshold(r, "nulls")
             b == Threshold(s, "nulls")
             rows == p.rows
  <2>1. a \in Nat /\ b \in Nat /\ rows \in Nat /\ b <= a
    BY ThresholdRange DEF Looser
  <2> HIDE DEF a, b, rows
  <2>2. PICK d \in Nat : a = b + d
    BY <2>1
  <2>3. a * rows = b * rows + d * rows /\ d * rows \in Nat /\ b * rows \in Nat
    BY <2>1, <2>2
  <2>4. QED BY <2>3 DEF Incomplete, PercentAbove, a, b, rows
<1>2. s.empty => r.empty
  BY DEF Looser
<1>3. s.blank => r.blank
  BY DEF Looser
<1>4. QED BY <1>1, <1>2, <1>3 DEF Deduction, Points

\* Rules that tolerate more never lower the score, of tables of any number of
\* columns: no summand grows (Evaluate).
THEOREM LooserRulesCount == Spec => []LooserRulesScoreHigher
<1>1. SeenInv => LooserRulesScoreHigher
  <2>1. SUFFICES ASSUME SeenInv, before.table = after.table, Looser(after.rules, before.rules)
                 PROVE  after.profile.score >= before.profile.score
    BY DEF LooserRulesScoreHigher
  <2> DEFINE p == after.table
             N == DOMAIN p.columns
             f == Deductions(p, after.rules)
             g == Deductions(p, before.rules)
  <2>2. /\ Measured(p)
        /\ after.profile.score = Score(p, after.rules)
        /\ before.profile.score = Score(p, before.rules)
    BY <2>1, SeenProfile DEF SeenInv
  <2>3. IsFiniteSet(N) /\ p.rows \in Nat /\ \A n \in N : p.columns[n].nulls \in Nat
    BY <2>2 DEF Measured, Counts
  <2>4. \A n \in N : f[n] \in Int /\ g[n] \in Int /\ f[n] <= g[n]
    BY <2>1, <2>3, DeductionNat, LooserDeducts DEF Deductions
  <2>5. SumFunctionOnSet(f, N) <= SumFunctionOnSet(g, N)
    <3> HIDE DEF f, g, N
    <3> QED BY <2>3, <2>4, SumMonotone
  <2>6. Points(p.dups > 0, 5) \in Nat
    BY DEF Points
  <2>7. QED BY <2>2, <2>3, <2>5, <2>6, ScoreInt
<1>2. QED BY <1>1, SeenInvariant, PTL

Failed(p, r) == {c \in Checks(p, r) : ~c.passed}

\* What failed checks say column n costs.
Cost(F, n) ==
  Points(Check("completeness", n, FALSE) \in F, 10)
    + Points(Check("uniqueness", n, FALSE) \in F, 5)
    + Points(Check("empty", n, FALSE) \in F, 3)
    + Points(Check("whitespace", n, FALSE) \in F, 2)
    + Points(Check("future_dates", n, FALSE) \in F, 3)

LEMMA CheckFields ==
  ASSUME NEW w, NEW n, NEW b \in BOOLEAN
  PROVE  /\ Check(w, n, b).column = n /\ Check(w, n, b).passed = b
         /\ \A v, m : Check(v, m, FALSE) = Check(w, n, b) <=> v = w /\ m = n /\ ~b
BY DEF Check

ColumnsChecks(p, r) == UNION {ColumnChecks(p, r, m) : m \in DOMAIN p.columns}

\* Where a failed check of each kind comes from.
LEMMA FailedIn ==
  ASSUME NEW p, NEW r, NEW w, NEW n
  PROVE  Check(w, n, FALSE) \in Failed(p, r) <=>
           \/ n \in DOMAIN p.columns /\ Check(w, n, FALSE) \in ColumnChecks(p, r, n)
           \/ p.dups > 0 /\ w = "duplicate_rows" /\ n = "table"
<1> DEFINE c == Check(w, n, FALSE)
           D == IF p.dups > 0 THEN {Check("duplicate_rows", "table", FALSE)} ELSE {}
<1>1. c \in Failed(p, r) <=> c \in Checks(p, r)
  BY DEF Failed, Check
<1>2. Checks(p, r) = ColumnsChecks(p, r) \cup D
  BY DEF Checks, ColumnsChecks
<1>3. c \in D <=> p.dups > 0 /\ w = "duplicate_rows" /\ n = "table"
  BY DEF Check
<1>4. ASSUME NEW m, c \in ColumnChecks(p, r, m)
      PROVE  n = m
  <2>1. c.column = m
    BY <1>4 DEF ColumnChecks, Check
  <2>2. QED BY <2>1 DEF Check
<1>5. c \in ColumnsChecks(p, r) <=> n \in DOMAIN p.columns /\ c \in ColumnChecks(p, r, n)
  <2> HIDE DEF c
  <2> QED BY <1>4 DEF ColumnsChecks
<1> HIDE DEF c, D
<1>6. QED BY <1>1, <1>2, <1>3, <1>5 DEF c

\* That check w of column n fails.
Fails(p, r, n, w) ==
  \/ w = "completeness" /\ Incomplete(p, r, n)
  \/ w = "uniqueness" /\ n \in KeyNames /\ ~Unique(p, n)
  \/ w = "constant" /\ p.rows > 0 /\ p.columns[n].distinct <= 1
  \/ w = "empty" /\ IsText(p, n) /\ ~(r.empty \/ p.columns[n].empty = 0)
  \/ w = "whitespace" /\ IsText(p, n) /\ ~(r.blank \/ p.columns[n].blank = 0)
  \/ w = "future_dates" /\ IsDateTime(p, n) /\ p.columns[n].future > 0

LEMMA FailedOfColumn ==
  ASSUME NEW p, NEW r, NEW n, NEW w
  PROVE  Check(w, n, FALSE) \in ColumnChecks(p, r, n) <=> Fails(p, r, n, w)
<1> DEFINE c == Check(w, n, FALSE)
           col == p.columns[n]
           When(b, name, passed) == IF b THEN {Check(name, n, passed)} ELSE {}
           S1 == {Check("completeness", n, ~Incomplete(p, r, n))}
           S2 == When(n \in KeyNames, "uniqueness", Unique(p, n))
           S3 == When(p.rows > 0 /\ col.distinct <= 1, "constant", FALSE)
           S4 == When(p.rows > 0 /\ n \notin KeyNames
                        /\ PercentAtLeast(col.distinct, p.rows, Threshold(r, "high")),
                      "high_cardinality", TRUE)
           S5 == When(col.top > 0 /\ PercentAtLeast(col.top, p.rows, Threshold(r, "dominant")),
                      "dominant_value", TRUE)
           S6 == When(IsText(p, n), "empty", r.empty \/ col.empty = 0)
           S7 == When(IsText(p, n), "whitespace", r.blank \/ col.blank = 0)
           S8 == When(IsNumeric(p, n) /\ col.outliers > 0, "outliers", TRUE)
           S9 == When(IsDateTime(p, n) /\ col.future > 0, "future_dates", FALSE)
           S10 == When(IsNumeric(p, n) /\ col.zeros > 0, "zero_values", TRUE)
<1>1. ColumnChecks(p, r, n) = UNION {S1, S2, S3, S4, S5, S6, S7, S8, S9, S10}
  BY DEF ColumnChecks
<1>2. c \in UNION {S1, S2, S3, S4, S5, S6, S7, S8, S9, S10} <=>
        c \in S1 \/ c \in S2 \/ c \in S3 \/ c \in S4 \/ c \in S5
          \/ c \in S6 \/ c \in S7 \/ c \in S8 \/ c \in S9 \/ c \in S10
  <2> HIDE DEF S1, S2, S3, S4, S5, S6, S7, S8, S9, S10
  <2> QED OBVIOUS
<1>5. c \in S1 <=> w = "completeness" /\ Incomplete(p, r, n)
  BY DEF Check
<1>6. c \in S2 <=> w = "uniqueness" /\ n \in KeyNames /\ ~Unique(p, n)
  BY DEF Check, Unique
<1>7. c \in S3 <=> w = "constant" /\ p.rows > 0 /\ col.distinct <= 1
  BY DEF Check
<1>8. c \notin S4 /\ c \notin S5 /\ c \notin S8 /\ c \notin S10
  BY DEF Check
<1>9. c \in S6 <=> w = "empty" /\ IsText(p, n) /\ ~(r.empty \/ col.empty = 0)
  BY DEF Check
<1>10. c \in S7 <=> w = "whitespace" /\ IsText(p, n) /\ ~(r.blank \/ col.blank = 0)
  BY DEF Check
<1>11. c \in S9 <=> w = "future_dates" /\ IsDateTime(p, n) /\ col.future > 0
  BY DEF Check
<1> HIDE DEF c, S1, S2, S3, S4, S5, S6, S7, S8, S9, S10
<1>12. QED
  BY <1>1, <1>2, <1>5, <1>6, <1>7, <1>8, <1>9, <1>10, <1>11 DEF c, Fails

LEMMA CostIsDeduction ==
  ASSUME NEW p, NEW r, Measured(p), NEW n
  PROVE  Cost(Failed(p, r), n) = IF n \in DOMAIN p.columns THEN Deduction(p, r, n) ELSE 0
<1> DEFINE F(w) == Check(w, n, FALSE) \in Failed(p, r)
<1>1. \A w : w # "duplicate_rows" => (F(w) <=> n \in DOMAIN p.columns /\ Fails(p, r, n, w))
  BY FailedIn, FailedOfColumn
<1> HIDE DEF F
<1>2. Cost(Failed(p, r), n) =
        Points(F("completeness"), 10) + Points(F("uniqueness"), 5) + Points(F("empty"), 3)
          + Points(F("whitespace"), 2) + Points(F("future_dates"), 3)
  BY DEF Cost, F
<1>3. CASE n \in DOMAIN p.columns
  <2>1. p.columns[n].empty \in Nat /\ p.columns[n].blank \in Nat
    BY <1>3 DEF Measured, Counts
  <2>2. Points(F("completeness"), 10) = Points(Incomplete(p, r, n), 10)
    BY <1>1, <1>3 DEF Points, Fails
  <2>3. Points(F("uniqueness"), 5) = Points(n \in KeyNames /\ ~Unique(p, n), 5)
    BY <1>1, <1>3 DEF Points, Fails
  <2>4. Points(F("empty"), 3) = Points(IsText(p, n) /\ p.columns[n].empty > 0 /\ ~r.empty, 3)
    BY <1>1, <1>3, <2>1 DEF Points, Fails
  <2>5. Points(F("whitespace"), 2) = Points(IsText(p, n) /\ p.columns[n].blank > 0 /\ ~r.blank, 2)
    BY <1>1, <1>3, <2>1 DEF Points, Fails
  <2>6. Points(F("future_dates"), 3) = Points(IsDateTime(p, n) /\ p.columns[n].future > 0, 3)
    BY <1>1, <1>3 DEF Points, Fails
  <2>7. QED BY <1>2, <1>3, <2>2, <2>3, <2>4, <2>5, <2>6 DEF Deduction
<1>4. CASE n \notin DOMAIN p.columns
  <2>1. ~F("completeness") /\ ~F("uniqueness") /\ ~F("empty") /\ ~F("whitespace") /\ ~F("future_dates")
    BY <1>1, <1>4
  <2>2. QED BY <1>2, <1>4, <2>1 DEF Points
<1>5. QED BY <1>3, <1>4

\* The columns a table lacks cost nothing.
LEMMA CostOfTable ==
  ASSUME NEW p, NEW r, Measured(p), NEW S, IsFiniteSet(S), DOMAIN p.columns \subseteq S
  PROVE  SumFunctionOnSet(Deductions(p, r), DOMAIN p.columns)
           = SumFunctionOnSet([n \in S |-> Cost(Failed(p, r), n)], S)
<1> DEFINE N == DOMAIN p.columns
           c == [n \in S |-> Cost(Failed(p, r), n)]
           d == Deductions(p, r)
<1>1. \A n \in S : c[n] = IF n \in N THEN d[n] ELSE 0
  BY CostIsDeduction DEF Deductions
<1>2. \A n \in N : d[n] \in Int
  BY DeductionNat DEF Deductions
<1>3. N \subseteq S
  OBVIOUS
<1> HIDE DEF c, d, N
<1>4. \A n \in S : c[n] \in Int
  BY <1>1, <1>2
<1>5. SumFunctionOnSet(c, S) = SumFunctionOnSet(c, N) + SumFunctionOnSet(c, S \ N)
  BY <1>3, <1>4, SumSplit
<1>6. SumFunctionOnSet(c, S \ N) = 0
  <2>1. IsFiniteSet(S \ N) /\ \A n \in S \ N : c[n] = 0
    BY <1>1, FS_Subset
  <2>2. QED BY <2>1, SumZero
<1>7. SumFunctionOnSet(c, N) = SumFunctionOnSet(d, N) /\ SumFunctionOnSet(c, N) \in Int
  <2>1. IsFiniteSet(N) /\ \A n \in N : c[n] = d[n]
    BY <1>1, <1>3, FS_Subset
  <2>2. QED BY <1>2, <2>1, SumEqual, SumInt
<1>8. QED BY <1>5, <1>6, <1>7 DEF c, d, N

\* Two profiles with the same failed checks have the same score, whatever their
\* tables and rules: the checks that fail tell what every column costs, those that
\* one of the tables lacks included (Evaluate decides the two separately).
THEOREM ScoresAreExplained == Spec => []ScoreIsExplained
<1>1. SeenInv => ScoreIsExplained
  <2>1. SUFFICES ASSUME SeenInv, FailedChecks(before) = FailedChecks(after)
                 PROVE  before.profile.score = after.profile.score
    BY DEF ScoreIsExplained
  <2> DEFINE p == before.table
             q == after.table
             F == Failed(p, before.rules)
             S == DOMAIN p.columns \cup DOMAIN q.columns
  <2>2. /\ Measured(p) /\ Measured(q)
        /\ before.profile.score = Score(p, before.rules)
        /\ after.profile.score = Score(q, after.rules)
    BY <2>1, SeenProfile DEF SeenInv
  <2>3. F = Failed(q, after.rules)
    BY <2>1 DEF FailedChecks, Failed
  <2>4. IsFiniteSet(DOMAIN p.columns) /\ IsFiniteSet(DOMAIN q.columns) /\ IsFiniteSet(S)
    BY <2>2, FS_Union DEF Measured
  <2>5. SumFunctionOnSet(Deductions(p, before.rules), DOMAIN p.columns)
          = SumFunctionOnSet(Deductions(q, after.rules), DOMAIN q.columns)
    <3>1. DOMAIN p.columns \subseteq S /\ DOMAIN q.columns \subseteq S
      OBVIOUS
    <3> HIDE DEF S
    <3>2. SumFunctionOnSet(Deductions(p, before.rules), DOMAIN p.columns)
            = SumFunctionOnSet([n \in S |-> Cost(F, n)], S)
      BY <2>2, <2>4, <3>1, CostOfTable
    <3>3. SumFunctionOnSet(Deductions(q, after.rules), DOMAIN q.columns)
            = SumFunctionOnSet([n \in S |-> Cost(F, n)], S)
      BY <2>2, <2>3, <2>4, <3>1, CostOfTable
    <3>4. QED BY <3>2, <3>3
  <2>6. p.dups > 0 <=> q.dups > 0
    <3>1. ASSUME NEW t, NEW r
          PROVE  Check("duplicate_rows", "table", FALSE) \in Failed(t, r) <=> t.dups > 0
      <4>1. \A w, n : w = "duplicate_rows" /\ n = "table"
                      => (Check(w, n, FALSE) \in Failed(t, r) <=> t.dups > 0)
        BY FailedIn, FailedOfColumn DEF Fails
      <4>2. QED BY <4>1
    <3>2. QED BY <2>3, <3>1
  <2>7. Points(p.dups > 0, 5) = Points(q.dups > 0, 5)
    BY <2>6 DEF Points
  <2>8. QED BY <2>2, <2>4, <2>5, <2>7, ScoreInt
<1>2. QED BY <1>1, SeenInvariant, PTL

-----------------------------------------------------------------------------
(* Card numbers                                                            *)

\* Digit i of s is one of those that are doubled.
Doubled(s, i) == (Len(s) - i) % 2 = 1

\* What luhn adds up for s.
Summands(s) == [i \in DOMAIN s |-> LuhnDigit(s[i], Doubled(s, i))]

\* A digit, and a digit whose double is added up: different digits have different
\* ones, and no two differ by ten; two neighbours that change places change their
\* sum, by less than ten, unless they are 0 and 9.
LEMMA LuhnDigits ==
  /\ \A a \in 0 .. 9 : \A c : LuhnDigit(a, c) \in 0 .. 9
  /\ \A a, b \in 0 .. 9 : \A c : a # b => LuhnDigit(a, c) # LuhnDigit(b, c)
  /\ \A a, b \in 0 .. 9 :
       LET d == (LuhnDigit(a, TRUE) + b) - (LuhnDigit(b, TRUE) + a)
       IN  a # b /\ {a, b} # {0, 9} => d # 0 /\ 0 < d + 10 /\ d < 10
  /\ \A a, c : LuhnDigit(a, c) = IF c THEN LuhnDigit(a, TRUE) ELSE a
BY DEF LuhnDigit

LEMMA Parity ==
  ASSUME NEW n \in Int
  PROVE  n % 2 = 1 <=> ~((n - 1) % 2 = 1)
OBVIOUS

LEMMA Mod10 ==
  ASSUME NEW a \in Nat, NEW b \in Nat, NEW d \in Int, a % 10 = 0, b = a - d, d # 0, d < 10, 0 < d + 10
  PROVE  b % 10 # 0
OBVIOUS

\* luhn is the checksum of the standard.
LEMMA LuhnIsTheStandard ==
  ASSUME NEW s \in Seq(0 .. 9)
  PROVE  Luhn(s) <=> CardNumber(s)
<1> DEFINE f == Summands(s)
           D(n) == (n \div 10) + (n % 10)
           g == [i \in DOMAIN s |-> D((1 + ((Len(s) - i) % 2)) * s[i])]
<1>1. DOMAIN s = 1 .. Len(s) /\ Len(s) \in Nat /\ \A i \in DOMAIN s : s[i] \in 0 .. 9
  OBVIOUS
<1>2. ASSUME NEW i \in DOMAIN s
      PROVE  f[i] = g[i]
  <2> DEFINE k == (Len(s) - i) % 2
             d == s[i]
  <2>1. f[i] = LuhnDigit(d, k = 1) /\ g[i] = D((1 + k) * d)
    BY DEF Summands, Doubled
  <2>2. k \in {0, 1} /\ d \in 0 .. 9
    BY <1>1
  <2> HIDE DEF k, d
  <2>3. LuhnDigit(d, k = 1) = D((1 + k) * d)
    BY <2>2 DEF LuhnDigit
  <2>4. QED BY <2>1, <2>3
<1>3. f = g
  BY <1>2 DEF Summands
<1>4. QED BY <1>3 DEF Luhn, CardNumber, Summands, Doubled

\* A sum with one digit changed.
LEMMA OneDigit ==
  ASSUME NEW N, IsFiniteSet(N), NEW f, NEW g, \A k \in N : f[k] \in 0 .. 9 /\ g[k] \in 0 .. 9,
         NEW i \in N, f[i] # g[i], \A k \in N \ {i} : f[k] = g[k]
  PROVE  SumFunctionOnSet(f, N) % 10 = 0 => SumFunctionOnSet(g, N) % 10 # 0
<1> DEFINE SumF == SumFunctionOnSet(f, N)
           SumG == SumFunctionOnSet(g, N)
           d == f[i] - g[i]
<1>1. SumF \in Nat /\ SumG \in Nat
  BY SumNat
<1>2. SumG = SumF - f[i] + g[i]
  BY SumChange
<1> HIDE DEF SumF, SumG
<1>3. d \in Int /\ d # 0 /\ d < 10 /\ 0 < d + 10
  OBVIOUS
<1>4. SumG = SumF - d
  BY <1>1, <1>2
<1> HIDE DEF d
<1>5. QED BY <1>1, <1>3, <1>4, Mod10 DEF SumF, SumG

\* The summands of two digits x and y, one of which is doubled, and of y and x.
Swapped(f, g, i, j, x, y) ==
  /\ x \in 0 .. 9 /\ y \in 0 .. 9 /\ x # y /\ ~(x \in {0, 9} /\ y \in {0, 9})
  /\ \/ f[i] = x /\ g[i] = y /\ f[j] = LuhnDigit(y, TRUE) /\ g[j] = LuhnDigit(x, TRUE)
     \/ f[i] = LuhnDigit(x, TRUE) /\ g[i] = LuhnDigit(y, TRUE) /\ f[j] = y /\ g[j] = x

\* A sum in which i and j, one of which is doubled, have changed places: the first
\* holds x and then y, the second y and then x.
LEMMA TwoDigits ==
  ASSUME NEW N, IsFiniteSet(N), NEW f, NEW g, \A k \in N : f[k] \in 0 .. 9 /\ g[k] \in 0 .. 9,
         NEW i \in N, NEW j \in N, i # j, \A k \in N \ {i, j} : f[k] = g[k],
         NEW x, NEW y, Swapped(f, g, i, j, x, y)
  PROVE  SumFunctionOnSet(f, N) % 10 = 0 => SumFunctionOnSet(g, N) % 10 # 0
<1> DEFINE h == [k \in N |-> IF k = i THEN g[k] ELSE f[k]]
           SumF == SumFunctionOnSet(f, N)
           SumG == SumFunctionOnSet(g, N)
           SumH == SumFunctionOnSet(h, N)
           d == (f[i] + f[j]) - (g[i] + g[j])
<1>1. SumF \in Nat /\ SumG \in Nat
  BY SumNat
<1>2. SumH = SumF - f[i] + g[i] /\ SumG = SumH - f[j] + g[j]
  <2>1. h[i] = g[i] /\ \A k \in N \ {i} : h[k] = f[k]
    OBVIOUS
  <2> HIDE DEF h
  <2>2. \A k \in N : f[k] \in Int /\ g[k] \in Int /\ h[k] \in Int
    BY <2>1
  <2>3. SumH = SumF - f[i] + h[i]
    BY <2>1, <2>2, SumChange
  <2>4. \A k \in N \ {j} : h[k] = g[k]
    BY <2>1
  <2>5. SumG = SumH - h[j] + g[j]
    BY <2>2, <2>4, SumChange
  <2>6. QED BY <2>1, <2>3, <2>5
<1>3. d # 0 /\ d < 10 /\ 0 < d + 10
  <2>1. x \in 0 .. 9 /\ y \in 0 .. 9 /\ x # y /\ ~(x \in {0, 9} /\ y \in {0, 9})
    BY DEF Swapped
  <2>2. CASE f[i] = x /\ g[i] = y /\ f[j] = LuhnDigit(y, TRUE) /\ g[j] = LuhnDigit(x, TRUE)
    BY <2>1, <2>2 DEF LuhnDigit
  <2>3. CASE f[i] = LuhnDigit(x, TRUE) /\ g[i] = LuhnDigit(y, TRUE) /\ f[j] = y /\ g[j] = x
    BY <2>1, <2>3 DEF LuhnDigit
  <2>4. QED BY <2>2, <2>3 DEF Swapped
<1>4. d \in Int /\ SumG = SumF - d
  <2>1. f[i] \in Int /\ f[j] \in Int /\ g[i] \in Int /\ g[j] \in Int
    OBVIOUS
  <2> HIDE DEF SumF, SumG, SumH
  <2>2. QED BY <1>1, <1>2, <2>1
<1> HIDE DEF SumF, SumG, d
<1>5. QED BY <1>1, <1>3, <1>4, Mod10 DEF SumF, SumG

\* A wrong digit, or two digits swapped, and a card number is one no more.
LEMMA LuhnTellsTypos ==
  ASSUME NEW s \in Seq(0 .. 9), NEW t \in Seq(0 .. 9), Luhn(s), Typo(s, t)
  PROVE  ~Luhn(t)
<1> DEFINE N == DOMAIN s
           f == Summands(s)
           g == Summands(t)
<1>1. /\ N = 1 .. Len(s) /\ Len(s) \in Nat /\ DOMAIN t = N /\ Len(t) = Len(s)
      /\ \A i \in N : s[i] \in 0 .. 9 /\ t[i] \in 0 .. 9
  BY DEF Typo
<1>2. IsFiniteSet(N)
  BY <1>1, FS_Interval
<1>3. /\ DOMAIN f = N /\ DOMAIN g = N
      /\ \A i \in N : f[i] = LuhnDigit(s[i], Doubled(s, i)) /\ g[i] = LuhnDigit(t[i], Doubled(s, i))
  BY <1>1 DEF Summands, Doubled
<1>4. \A i \in N : f[i] \in 0 .. 9 /\ g[i] \in 0 .. 9
  BY <1>1, <1>3, LuhnDigits
<1>5. /\ SumFunctionOnSet(f, N) % 10 = 0
      /\ Luhn(t) => SumFunctionOnSet(g, N) % 10 = 0
  BY <1>1, <1>3 DEF Luhn, SumFunction, Summands, Doubled
<1>6. ASSUME NEW i \in N, t[i] # s[i], \A k \in N \ {i} : t[k] = s[k]
      PROVE  SumFunctionOnSet(g, N) % 10 # 0
  <2>1. f[i] # g[i]
    BY <1>1, <1>3, <1>6, LuhnDigits
  <2>2. \A k \in N \ {i} : f[k] = g[k]
    BY <1>3, <1>6
  <2> HIDE DEF f, g, N
  <2>3. QED BY <1>2, <1>4, <1>5, <2>1, <2>2, OneDigit
<1>7. ASSUME NEW i \in N, i + 1 \in N, s[i] # s[i + 1], {s[i], s[i + 1]} # {0, 9},
             t[i] = s[i + 1], t[i + 1] = s[i], \A k \in N \ {i, i + 1} : t[k] = s[k]
      PROVE  SumFunctionOnSet(g, N) % 10 # 0
  <2> DEFINE j == i + 1
             x == s[i]
             y == s[j]
  <2>1. /\ j \in N /\ i # j /\ x \in 0 .. 9 /\ y \in 0 .. 9 /\ x # y
        /\ ~(x \in {0, 9} /\ y \in {0, 9})
    BY <1>1, <1>7
  <2>2. \A k \in N \ {i, j} : f[k] = g[k]
    BY <1>3, <1>7
  <2>3. Doubled(s, i) <=> ~Doubled(s, j)
    <3>1. PICK n \in Int : n = Len(s) - i
      BY <1>1
    <3>2. Len(s) - j = n - 1
      BY <1>1, <3>1
    <3>3. n % 2 = 1 <=> ~((n - 1) % 2 = 1)
      BY Parity
    <3>4. QED BY <3>1, <3>2, <3>3 DEF Doubled
  <2>4. /\ f[i] = LuhnDigit(x, Doubled(s, i)) /\ g[i] = LuhnDigit(y, Doubled(s, i))
        /\ f[j] = LuhnDigit(y, Doubled(s, j)) /\ g[j] = LuhnDigit(x, Doubled(s, j))
    BY <1>3, <1>7
  <2> HIDE DEF f, g, N, j, x, y
  <2>5. Swapped(f, g, i, j, x, y)
    BY <2>1, <2>3, <2>4, LuhnDigits DEF Swapped
  <2>6. SumFunctionOnSet(f, N) % 10 = 0 => SumFunctionOnSet(g, N) % 10 # 0
    BY <1>2, <1>4, <2>1, <2>2, <2>5, TwoDigits
  <2>7. QED BY <1>5, <2>6
<1>8. QED BY <1>5, <1>6, <1>7 DEF Typo

\* A rounded quotient against a whole number.
LEMMA Quotient ==
  ASSUME NEW a \in Nat, NEW b \in Nat, b > 0, NEW k \in Nat
  PROVE  (a \div b) >= k <=> a >= k * b
<1> DEFINE q == a \div b
           m == a % b
<1>1. a = b * q + m /\ q \in Nat /\ m \in Nat /\ m < b
  OBVIOUS
<1> HIDE DEF q, m
<1>2. CASE q >= k
  <2>1. PICK d \in Nat : q = k + d
    BY <1>1, <1>2
  <2>2. b * q = k * b + b * d /\ b * d \in Nat /\ k * b \in Nat
    BY <2>1
  <2>3. QED BY <1>1, <1>2, <2>2 DEF q
<1>3. CASE q < k
  <2>1. PICK d \in Nat : k = q + 1 + d
    BY <1>1, <1>3
  <2>2. k * b = b * q + b + b * d /\ b * d \in Nat /\ b * q \in Nat
    BY <1>1, <2>1
  <2>3. QED BY <1>1, <1>3, <2>2 DEF q
<1>4. QED BY <1>1, <1>2, <1>3

\* The values that were meant to be card numbers and match are the right ones.
LEMMA MatchesAreRight ==
  ASSUME NEW x, x.value.digits \in Seq(0 .. 9), x.meant \in Seq(0 .. 9), CardNumber(x.meant),
         x.value.digits = x.meant \/ Typo(x.meant, x.value.digits)
  PROVE  MatchesLabel("credit_card", x.value) <=> x.value.digits = x.meant
<1>1. MatchesLabel("credit_card", x.value) <=> Luhn(x.value.digits)
  BY DEF MatchesLabel
<1>2. Luhn(x.meant)
  BY LuhnIsTheStandard
<1>3. Typo(x.meant, x.value.digits) => x.value.digits # x.meant
  BY DEF Typo
<1>4. QED BY <1>1, <1>2, <1>3, LuhnTellsTypos

\* In a column named after cards, whose values were meant to be card numbers, the
\* confidence says how many rows hold what was meant, whatever the numbers and
\* wherever the wrong digit or the swap is (luhn, valueMatchRatio, DetectProfile).
THEOREM TyposAreTold == Spec => []ConfidenceTellsTypos
<1>1. SeenInv => ConfidenceTellsTypos
  <2> DEFINE e(n) == after.table.evidence[n]
             Meant(x) == /\ x.value.shape # "blank" /\ CardNumber(x.meant)
                         /\ x.value.digits = x.meant \/ Typo(x.meant, x.value.digits)
  <2>1. SUFFICES ASSUME SeenInv, NEW n \in DOMAIN after.table.columns,
                        e(n).headers = {"credit_card"}, e(n).top # {},
                        \A x \in e(n).top : Meant(x)
                 PROVE  after.profile.columns[n].confidence
                          = LET right == RowsOf({x \in e(n).top : x.value.digits = x.meant})
                                all   == RowsOf(e(n).top)
                            IN  IF 5 * right >= 4 * all THEN 95
                                ELSE IF 2 * right >= all THEN 85 ELSE 75
    BY DEF ConfidenceTellsTypos
  <2> DEFINE top == e(n).top
             good == {x \in top : x.value.digits = x.meant}
             right == RowsOf(good)
             all == RowsOf(top)
             ratio == ValueMatchRatio("credit_card", top)
  <2>2. /\ IsFiniteSet(top)
        /\ \A x \in top : /\ x.count \in Nat \ {0}
                          /\ x.value.digits \in Seq(0 .. 9) /\ x.meant \in Seq(0 .. 9)
    BY <2>1, SeenProfile DEF SeenInv, Measured
  <2>3. all \in Nat /\ all > 0 /\ right \in Nat
    <3>1. IsFiniteSet(good) /\ \A x \in good : x.count \in Nat \ {0}
      BY <2>2, FS_Subset
    <3>2. QED BY <2>1, <2>2, <3>1, RowsNat
  <2>4. ratio = (100 * right) \div all
    <3> DEFINE checked == {x \in top : x.value.shape # "blank"}
               matching == {x \in checked : MatchesLabel("credit_card", x.value)}
    <3>1. ratio = IF RowsOf(checked) = 0 THEN 0 ELSE (100 * RowsOf(matching)) \div RowsOf(checked)
      BY DEF ValueMatchRatio
    <3>2. checked = top
      BY <2>1
    <3>3. matching = good
      <4>1. \A x \in top : MatchesLabel("credit_card", x.value) <=> x.value.digits = x.meant
        BY <2>1, <2>2, MatchesAreRight
      <4> HIDE DEF top, checked
      <4>2. QED BY <3>2, <4>1
    <3> HIDE DEF top, good, checked, matching, ratio
    <3>4. QED BY <2>3, <3>1, <3>2, <3>3
  <2>5. after.profile.columns[n].confidence = HeaderConfidence("credit_card", e(n).bare, ratio)
    <3> DEFINE d == [label |-> after.profile.columns[n].pii,
                     confidence |-> after.profile.columns[n].confidence]
    <3>1. d \in DetectProfile(Evidence(e(n)))
      BY <2>1, SeenProfile DEF SeenInv
    <3>2. /\ Evidence(e(n)).headers = {"credit_card"} /\ Evidence(e(n)).bare = e(n).bare
          /\ Evidence(e(n)).ratio["credit_card"] = ratio
      BY <2>1 DEF Evidence, Labels
    <3>3. d = [label |-> "credit_card",
               confidence |-> HeaderConfidence("credit_card", e(n).bare, ratio)]
      BY <3>1, <3>2 DEF DetectProfile
    <3>4. QED BY <3>3
  <2> HIDE DEF ratio, right, all, e
  <2>6. (ratio >= 80 <=> 5 * right >= 4 * all) /\ (ratio >= 50 <=> 2 * right >= all)
    <3>1. 100 * right \in Nat /\ 80 \in Nat /\ 50 \in Nat
      BY <2>3
    <3>2. ratio >= 80 <=> 100 * right >= 80 * all
      BY <2>3, <2>4, <3>1, Quotient
    <3>3. ratio >= 50 <=> 100 * right >= 50 * all
      BY <2>3, <2>4, <3>1, Quotient
    <3>4. QED BY <2>3, <3>2, <3>3
  <2>7. after.profile.columns[n].confidence =
          IF 5 * right >= 4 * all THEN 95 ELSE IF 2 * right >= all THEN 85 ELSE 75
    BY <2>5, <2>6 DEF HeaderConfidence
  <2>8. QED BY <2>7 DEF right, all
<1>2. QED BY <1>1, SeenInvariant, PTL

=============================================================================
