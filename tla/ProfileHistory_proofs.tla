------------------------ MODULE ProfileHistory_proofs ------------------------
(***************************************************************************)
(* Theorems about the snapshots of a table, for any number of workers,     *)
(* sources and runs, and whatever the tables hold and the requests ask for.*)
(***************************************************************************)
EXTENDS ProfileHistory, FiniteSetTheorems, TLAPS

\* Every worker has its record.
RunOK == run = [w \in Workers |-> run[w]]

LEMMA MeasureInv ==
  ASSUME RunOK, BaselineInv, NEW w \in Workers, NEW s \in Sources, NEW r \in RuleSets,
         Measure(w, s, r)
  PROVE  RunOK' /\ BaselineInv'
<1>1. /\ history' = history
      /\ RunOK'
      /\ run'[w].step = "measured" /\ run'[w].seen = {x.at : x \in history}
      /\ \A v \in Workers \ {w} : run'[v] = run[v]
  BY DEF Measure, RunOK
<1>2. QED BY <1>1 DEF BaselineInv, FreshBaseline, Active

LEMMA AnalyseInv ==
  ASSUME RunOK, BaselineInv, NEW w \in Workers, Analyse(w)
  PROVE  RunOK' /\ BaselineInv'
<1>1. /\ history' = history
      /\ RunOK'
      /\ run'[w].step = "analysed" /\ run'[w].seen = run[w].seen
      /\ \A v \in Workers \ {w} : run'[v] = run[v]
      /\ run[w].step = "measured"
  BY DEF Analyse, RunOK
<1>2. QED BY <1>1 DEF BaselineInv, FreshBaseline, Active

\* The latest snapshot is no older than any other, so than any the run saw.
LEMMA CompareInv ==
  ASSUME RunOK, BaselineInv, NEW w \in Workers, CompareWithPrevious(w)
  PROVE  RunOK' /\ BaselineInv'
<1>1. PICK s \in {Snapshot(w, Unread, << >>)}
                 \cup {Snapshot(w, x.at, << Compare(x.profile, run[w].profile) >>) : x \in Latest(history)}
                 \cup IF history = {} THEN {Snapshot(w, None, << >>)} ELSE {} :
        run' = [run EXCEPT ![w] = s]
  BY DEF CompareWithPrevious
<1>2. /\ history' = history
      /\ run[w].step = "analysed"
      /\ run[w].seen \subseteq {x.at : x \in history}
  BY DEF CompareWithPrevious, BaselineInv, Active
<1>3. /\ s.seen = run[w].seen /\ s.step = "compared"
      /\ \/ s.base = Unread
         \/ \E x \in Latest(history) : s.base = x.at
         \/ history = {}
  BY <1>1 DEF Snapshot
<1>4. s.base # Unread => \A a \in s.seen : a <= s.base
  BY <1>2, <1>3 DEF Latest
<1>5. RunOK' /\ run'[w] = s /\ \A v \in Workers \ {w} : run'[v] = run[v]
  BY <1>1 DEF RunOK
<1>6. QED BY <1>2, <1>3, <1>4, <1>5 DEF BaselineInv, FreshBaseline, Active

LEMMA SaveInv ==
  ASSUME RunOK, BaselineInv, NEW w \in Workers, Save(w)
  PROVE  RunOK' /\ BaselineInv'
<1>1. /\ run[w].step = "compared"
      /\ RunOK'
      /\ run'[w].step = "idle" /\ \A v \in Workers \ {w} : run'[v] = run[v]
      /\ history \subseteq history'
      /\ \A y \in history' : y \in history \/ y = Row(w)
  BY DEF Save, RunOK, Idle
<1>2. \A a \in Row(w).seen : Row(w).base # Unread => a <= Row(w).base
  BY <1>1 DEF Row, BaselineInv
<1>3. FreshBaseline'
  BY <1>1, <1>2 DEF BaselineInv, FreshBaseline
<1>4. QED BY <1>1, <1>3 DEF BaselineInv, Active

\* The baseline of a stored snapshot is never older than a snapshot that was
\* stored before its run began, however the runs overlap and whatever reads and
\* inserts fail (run, GetPreviousProfile, SaveProfile).
THEOREM FreshBaselines == Spec => []FreshBaseline
<1>1. Init => RunOK /\ BaselineInv
  BY DEF Init, RunOK, BaselineInv, FreshBaseline, Active, Idle
<1>2. RunOK /\ BaselineInv /\ [Next]_vars => (RunOK /\ BaselineInv)'
  <2> SUFFICES ASSUME RunOK, BaselineInv, [Next]_vars PROVE (RunOK /\ BaselineInv)'
    OBVIOUS
  <2>1. CASE Write
    BY <2>1 DEF Write, RunOK, BaselineInv, FreshBaseline, Active
  <2>2. CASE UNCHANGED vars
    BY <2>2 DEF vars, RunOK, BaselineInv, FreshBaseline, Active
  <2>3. QED BY <2>1, <2>2, MeasureInv, AnalyseInv, CompareInv, SaveInv DEF Next
<1>3. RunOK /\ BaselineInv => FreshBaseline
  BY DEF BaselineInv
<1>4. QED BY <1>1, <1>2, <1>3, PTL DEF Spec

-----------------------------------------------------------------------------
(* The drift of undisturbed runs                                           *)

\* The workers whose snapshot has its time.
Timed(w) == run[w].step \in {"analysed", "compared"}

\* Times are handed out once, in order.
ClockInv ==
  /\ clock \in Nat
  /\ \A y \in history : y.at \in Nat /\ y.at <= clock
  /\ \A x, y \in history : x.at = y.at => x = y
  /\ \A w \in Workers : Timed(w) =>
       run[w].at \in Nat /\ run[w].at <= clock /\ \A y \in history : y.at # run[w].at
  /\ \A v, w \in Workers : v # w /\ Timed(v) /\ Timed(w) => run[v].at # run[w].at

\* A run that overlaps no other is alone now, comes after all that is stored, and
\* once it has ended before all that is not.
AloneInv ==
  /\ \A w \in alone \cap Workers, v \in Workers : v # w /\ Active(w) => ~Active(v)
  /\ \A w \in Workers : Timed(w) =>
       \A y \in history : y.alone \/ w \in alone => y.at < run[w].at

\* What was compared with, by a run that overlaps no other.
ComparedInv ==
  \A w \in alone \cap Workers : run[w].step = "compared" =>
    \/ run[w].base = Unread
    \/ history = {} /\ run[w].drift = << >>
    \/ \E x \in Latest(history) : run[w].drift = << Compare(x.profile, run[w].profile) >>

\* Of any two snapshots with nothing but quiet ones after the first.
QuietInv ==
  \A x, y \in history :
    /\ x.at < y.at
    /\ \A z \in history : x.at < z.at /\ z.at <= y.at => Quiet(z)
    => Agree(x.profile, y.profile)

HistoryInv ==
  RunOK /\ IsFiniteSet(history) /\ ClockInv /\ AloneInv /\ ComparedInv /\ DriftSincePrevious /\ QuietInv

\* A worker that goes from one moment to the next without touching the history.
LEMMA KeepsHistory ==
  ASSUME DriftSincePrevious, QuietInv, history' = history
  PROVE  DriftSincePrevious' /\ QuietInv'
BY DEF DriftSincePrevious, QuietInv, Before

LEMMA MeasureHistory ==
  ASSUME HistoryInv, NEW w \in Workers, NEW s \in Sources, NEW r \in RuleSets, Measure(w, s, r)
  PROVE  HistoryInv'
<1>1. /\ history' = history /\ clock' = clock /\ RunOK'
      /\ ~Active(w) /\ run'[w].step = "measured"
      /\ \A v \in Workers \ {w} : run'[v] = run[v]
      /\ \/ alone' = {}
         \/ alone' = {w} /\ \A v \in Workers : ~Active(v)
  BY DEF Measure, HistoryInv, RunOK
<1>2. ClockInv'
  BY <1>1 DEF HistoryInv, ClockInv, Timed
<1>3. AloneInv'
  BY <1>1 DEF HistoryInv, AloneInv, Timed, Active
<1>4. ComparedInv'
  BY <1>1 DEF ComparedInv
<1>5. DriftSincePrevious' /\ QuietInv'
  BY <1>1, KeepsHistory DEF HistoryInv
<1>6. QED BY <1>1, <1>2, <1>3, <1>4, <1>5 DEF HistoryInv

LEMMA AnalyseHistory ==
  ASSUME HistoryInv, NEW w \in Workers, Analyse(w)
  PROVE  HistoryInv'
<1>1. /\ history' = history /\ clock' = clock + 1 /\ alone' = alone /\ RunOK'
      /\ run[w].step = "measured"
      /\ run'[w].step = "analysed" /\ run'[w].at = clock + 1
      /\ \A v \in Workers \ {w} : run'[v] = run[v]
  BY DEF Analyse, HistoryInv, RunOK
<1>2. ClockInv'
  BY <1>1 DEF HistoryInv, ClockInv, Timed
<1>3. AloneInv'
  BY <1>1 DEF HistoryInv, ClockInv, AloneInv, Timed, Active
<1>4. ComparedInv'
  BY <1>1 DEF HistoryInv, ComparedInv, Latest
<1>5. DriftSincePrevious' /\ QuietInv'
  BY <1>1, KeepsHistory DEF HistoryInv
<1>6. QED BY <1>1, <1>2, <1>3, <1>4, <1>5 DEF HistoryInv

LEMMA CompareHistory ==
  ASSUME HistoryInv, NEW w \in Workers, CompareWithPrevious(w)
  PROVE  HistoryInv'
<1>1. PICK c \in {Snapshot(w, Unread, << >>)}
                 \cup {Snapshot(w, x.at, << Compare(x.profile, run[w].profile) >>) : x \in Latest(history)}
                 \cup IF history = {} THEN {Snapshot(w, None, << >>)} ELSE {} :
        run' = [run EXCEPT ![w] = c]
  BY DEF CompareWithPrevious
<1>2. /\ history' = history /\ clock' = clock /\ alone' = alone /\ RunOK'
      /\ run[w].step = "analysed" /\ run'[w] = c
      /\ \A v \in Workers \ {w} : run'[v] = run[v]
  BY <1>1 DEF CompareWithPrevious, HistoryInv, RunOK
<1>3. /\ c.step = "compared" /\ c.at = run[w].at /\ c.profile = run[w].profile
      /\ \/ c.base = Unread
         \/ history = {} /\ c.drift = << >>
         \/ \E x \in Latest(history) : c.drift = << Compare(x.profile, c.profile) >>
  BY <1>1 DEF Snapshot
<1>4. ClockInv'
  BY <1>2, <1>3 DEF HistoryInv, ClockInv, Timed
<1>5. AloneInv'
  BY <1>2, <1>3 DEF HistoryInv, AloneInv, Timed, Active
<1>6. ComparedInv'
  BY <1>2, <1>3 DEF HistoryInv, ComparedInv, Latest
<1>7. DriftSincePrevious' /\ QuietInv'
  BY <1>2, KeepsHistory DEF HistoryInv
<1>8. QED BY <1>2, <1>4, <1>5, <1>6, <1>7 DEF HistoryInv

\* Profiles without a change agree in all that is compared exactly.
LEMMA UnchangedAgree ==
  ASSUME NEW a, NEW b, ~Compare(a, b).changed
  PROVE  Agree(a, b)
<1>1. Changes(a, b) = {}
  BY DEF Compare
<1>2. a.score = b.score /\ a.dups = b.dups
  BY <1>1 DEF Changes
<1>3. DOMAIN a.columns = DOMAIN b.columns
  <2>1. {Change("removed", n) : n \in DOMAIN a.columns \ DOMAIN b.columns} = {}
    BY <1>1 DEF Changes
  <2>2. {Change("added", n) : n \in DOMAIN b.columns \ DOMAIN a.columns} = {}
    BY <1>1 DEF Changes
  <2>3. QED BY <2>1, <2>2
<1>4. ASSUME NEW n \in DOMAIN a.columns
      PROVE  /\ a.columns[n].type = b.columns[n].type
             /\ a.columns[n].nullable = b.columns[n].nullable
             /\ a.columns[n].distinct = b.columns[n].distinct
             /\ a.columns[n].pii = b.columns[n].pii
  <2>1. UNION {ColumnChanges(a, b, m) : m \in DOMAIN a.columns \cap DOMAIN b.columns} = {}
    BY <1>1 DEF Changes
  <2>2. ColumnChanges(a, b, n) = {}
    BY <1>3, <2>1
  <2>3. QED BY <2>2 DEF ColumnChanges
<1>5. QED BY <1>2, <1>3, <1>4 DEF Agree

\* The step that adds to the history.
LEMMA SaveHistory ==
  ASSUME HistoryInv, NEW w \in Workers, Save(w)
  PROVE  HistoryInv'
<1>1. /\ run[w].step = "compared" /\ clock' = clock /\ alone' = alone /\ RunOK'
      /\ run'[w].step = "idle"
      /\ \A v \in Workers \ {w} : run'[v] = run[v]
      /\ \/ history' = history \cup {Row(w)}
         \/ history' = history
  BY DEF Save, HistoryInv, RunOK, Idle
<1>2. /\ Row(w).at = run[w].at /\ Row(w).profile = run[w].profile /\ Row(w).base = run[w].base
      /\ Row(w).drift = run[w].drift /\ Row(w).alone = (w \in alone)
  BY DEF Row
<1>3. ClockInv'
  BY <1>1, <1>2 DEF HistoryInv, ClockInv, Timed
<1>4. AloneInv'
  BY <1>1, <1>2 DEF HistoryInv, AloneInv, Timed, Active
<1>5. ComparedInv'
  <2> SUFFICES ASSUME NEW v \in alone' \cap Workers, run'[v].step = "compared"
               PROVE  history' = history /\ run'[v] = run[v] /\ v \in alone /\ run[v].step = "compared"
    BY DEF HistoryInv, ComparedInv, Latest
  <2>1. v # w /\ v \in alone /\ run'[v] = run[v]
    BY <1>1
  <2>2. QED BY <1>1, <2>1 DEF HistoryInv, AloneInv, Active
<1>6. CASE history' = history
  BY <1>1, <1>3, <1>4, <1>5, <1>6, KeepsHistory DEF HistoryInv
<1>7. CASE history' = history \cup {Row(w)}
  <2>0. PICK z : z = Row(w)
    OBVIOUS
  <2>1. /\ z.at \in Nat
        /\ \A y \in history : y.at \in Nat /\ y.at # z.at
        /\ \A y \in history : y.alone \/ z.alone => y.at < z.at
    BY <1>1, <1>2, <2>0 DEF HistoryInv, ClockInv, AloneInv, Timed
  <2>2. z.alone =>
          \/ z.base = Unread
          \/ history = {} /\ z.drift = << >>
          \/ \E x \in Latest(history) : z.drift = << Compare(x.profile, z.profile) >>
    BY <1>1, <1>2, <2>0 DEF HistoryInv, ComparedInv
  <2>3. DriftSincePrevious'
    <3>1. \A y \in history : y.alone => Before(y)' = Before(y)
      BY <1>7, <2>0, <2>1 DEF Before
    <3>2. z.alone => Before(z)' = Latest(history)
      BY <1>7, <2>0, <2>1 DEF Before, Latest
    <3>3. \A x, y \in Latest(history) : x = y
      BY <2>1 DEF Latest, HistoryInv, ClockInv
    <3>4. z.alone /\ z.base # Unread =>
            /\ z.drift = << >> <=> Latest(history) = {}
            /\ \A x \in Latest(history) : z.drift = << Compare(x.profile, z.profile) >>
      BY <2>2, <3>3 DEF Latest
    <3>5. QED BY <1>7, <2>0, <3>1, <3>2, <3>4 DEF DriftSincePrevious, HistoryInv
  <2>4. QuietInv'
    <3> SUFFICES ASSUME NEW x \in history', NEW y \in history', x.at < y.at,
                        \A u \in history' : x.at < u.at /\ u.at <= y.at => Quiet(u)
                 PROVE  Agree(x.profile, y.profile)
      BY DEF QuietInv, Quiet
    <3>1. Quiet(y)
      BY <1>7, <2>0, <2>1 DEF HistoryInv, ClockInv
    <3>2. CASE y \in history
      <4>1. x \in history
        BY <1>7, <2>0, <2>1, <3>1, <3>2 DEF Quiet
      <4>2. QED BY <1>7, <3>2, <4>1 DEF HistoryInv, QuietInv
    <3>3. CASE y = z
      <4>1. x \in history
        BY <1>7, <2>0, <3>3, <2>1
      <4>2. PICK l \in Latest(history) : z.drift = << Compare(l.profile, z.profile) >>
        BY <2>2, <3>1, <3>3, <4>1 DEF Quiet
      <4>3. Agree(l.profile, z.profile)
        BY <3>1, <3>3, <4>2, UnchangedAgree DEF Quiet
      <4>4. l \in history /\ x.at <= l.at /\ l.at < z.at
        BY <2>1, <3>1, <3>3, <4>1 DEF Latest, Quiet
      <4>5. CASE x = l
        BY <3>3, <4>3, <4>5
      <4>6. CASE x # l
        <5>1. x.at < l.at
          BY <2>1, <4>1, <4>4, <4>6 DEF HistoryInv, ClockInv
        <5>2. \A u \in history : x.at < u.at /\ u.at <= l.at => Quiet(u)
          BY <1>7, <2>0, <2>1, <3>3, <4>4
        <5>3. Agree(x.profile, l.profile)
          BY <4>1, <4>4, <5>1, <5>2 DEF HistoryInv, QuietInv
        <5>4. QED BY <3>3, <4>3, <5>3 DEF Agree
      <4>7. QED BY <4>5, <4>6
    <3>4. QED BY <1>7, <2>0, <3>2, <3>3
  <2>5. IsFiniteSet(history')
    BY <1>7, FS_AddElement DEF HistoryInv
  <2>6. QED BY <1>1, <1>3, <1>4, <1>5, <2>3, <2>4, <2>5 DEF HistoryInv
<1>8. QED BY <1>1, <1>6, <1>7

LEMMA HistoryInvariant == Spec => []HistoryInv
<1>1. Init => HistoryInv
  BY FS_EmptySet DEF Init, HistoryInv, RunOK, ClockInv, AloneInv, ComparedInv, DriftSincePrevious,
                     QuietInv, Timed, Active, Idle
<1>2. HistoryInv /\ [Next]_vars => HistoryInv'
  <2> SUFFICES ASSUME HistoryInv, [Next]_vars PROVE HistoryInv'
    OBVIOUS
  <2>1. ASSUME history' = history, run' = run, clock' = clock, alone' = alone
        PROVE  HistoryInv'
    <3>1. RunOK' /\ ClockInv' /\ AloneInv' /\ ComparedInv'
      BY <2>1 DEF HistoryInv, RunOK, ClockInv, AloneInv, ComparedInv, Timed, Active, Latest
    <3>2. QED BY <2>1, <3>1, KeepsHistory DEF HistoryInv
  <2>2. CASE Write
    BY <2>1, <2>2 DEF Write
  <2>3. CASE UNCHANGED vars
    BY <2>1, <2>3 DEF vars
  <2>4. QED BY <2>2, <2>3, MeasureHistory, AnalyseHistory, CompareHistory, SaveHistory DEF Next
<1>3. QED BY <1>1, <1>2, PTL DEF Spec

\* The drift of an undisturbed run is relative to the previous snapshot, for any
\* number of workers, sources and runs (run, GetPreviousProfile).
THEOREM DriftIsSincePrevious == Spec => []DriftSincePrevious
BY HistoryInvariant, PTL DEF HistoryInv

\* What comes after a listed snapshot is listed.
LEMMA ListedLater ==
  ASSUME HistoryInv, NEW limit, NEW a \in Listed(limit), NEW z \in history, a.at < z.at
  PROVE  z \in Listed(limit)
<1> DEFINE Later(u) == {v \in history : v.at > u.at}
<1>1. Later(z) \subseteq Later(a)
  BY DEF HistoryInv, ClockInv, Listed
<1>2. IsFiniteSet(Later(a)) /\ IsFiniteSet(Later(z))
  BY FS_Subset DEF HistoryInv
<1>3. Cardinality(Later(z)) <= Cardinality(Later(a))
  BY <1>1, <1>2, FS_Subset
<1>4. Cardinality(Later(z)) \in Nat /\ Cardinality(Later(a)) \in Nat
  BY <1>2, FS_CardinalityType
<1>5. QED BY <1>3, <1>4 DEF Listed

\* An undisturbed list without a change agrees in all that is compared exactly,
\* however long it is (Compare, GetProfileHistory).
THEOREM QuietHistoriesAgree == Spec => []QuietHistoryAgrees
<1>1. HistoryInv => QuietHistoryAgrees
  <2> SUFFICES ASSUME HistoryInv, NEW limit \in 1 .. MaxRuns,
                      NEW x \in Listed(limit), NEW y \in Listed(limit),
                      \A z \in Listed(limit) \ {u \in Listed(limit) : \A v \in Listed(limit) : u.at <= v.at} :
                        Quiet(z)
               PROVE  Agree(x.profile, y.profile)
    BY DEF QuietHistoryAgrees
  <2>1. ASSUME NEW a \in Listed(limit), NEW b \in Listed(limit), a.at < b.at
        PROVE  Agree(a.profile, b.profile)
    <3> SUFFICES ASSUME NEW z \in history, a.at < z.at, z.at <= b.at
                 PROVE  Quiet(z)
      BY <2>1 DEF HistoryInv, QuietInv, Listed
    <3>1. z \in Listed(limit)
      BY ListedLater DEF Listed
    <3>2. ~(z.at <= a.at)
      BY DEF HistoryInv, ClockInv, Listed
    <3>3. QED BY <3>1, <3>2
  <2>2. CASE x.at = y.at
    BY <2>2 DEF HistoryInv, ClockInv, Listed, Agree
  <2>3. CASE x.at # y.at
    <3>1. x.at < y.at \/ y.at < x.at
      BY <2>3 DEF HistoryInv, ClockInv, Listed
    <3>2. QED BY <2>1, <3>1 DEF Agree
  <2>4. QED BY <2>2, <2>3
<1>2. QED BY <1>1, HistoryInvariant, PTL

-----------------------------------------------------------------------------
(* What small shifts add up to                                             *)

Fraction(a) == a.num \in Int /\ a.den \in Nat \ {0}

\* Shifts add up.
LEMMA Triangle ==
  ASSUME NEW a, NEW b, NEW c, Fraction(a), Fraction(b), Fraction(c),
         NEW s \in Nat, NEW t \in Nat, Closer(a, b, s), Closer(b, c, t)
  PROVE  Closer(a, c, s + t)
<1>1. PICK l \in Int, i \in Nat : l = a.num /\ i = a.den /\ i > 0
  BY DEF Fraction
<1>2. PICK m \in Int, j \in Nat : m = b.num /\ j = b.den /\ j > 0
  BY DEF Fraction
<1>3. PICK n \in Int, k \in Nat : n = c.num /\ k = c.den /\ k > 0
  BY DEF Fraction
<1>4. -(s * (i * j)) < m * i - l * j /\ m * i - l * j < s * (i * j)
  BY <1>1, <1>2 DEF Closer
<1>5. -(t * (j * k)) < n * j - m * k /\ n * j - m * k < t * (j * k)
  BY <1>2, <1>3 DEF Closer
<1>6. \A u, v \in Int, d \in Nat \ {0} : u < v <=> d * u < d * v
  OBVIOUS
<1> DEFINE delta == n * i - l * k
           limit == (s + t) * (i * k)
<1>7. /\ k * (m * i - l * j) < k * (s * (i * j))
      /\ k * (-(s * (i * j))) < k * (m * i - l * j)
      /\ i * (n * j - m * k) < i * (t * (j * k))
      /\ i * (-(t * (j * k))) < i * (n * j - m * k)
  <2>1. i \in Nat \ {0} /\ k \in Nat \ {0}
    BY <1>1, <1>3
  <2>2. /\ m * i - l * j \in Int /\ s * (i * j) \in Int /\ -(s * (i * j)) \in Int
        /\ n * j - m * k \in Int /\ t * (j * k) \in Int /\ -(t * (j * k)) \in Int
    OBVIOUS
  <2>3. \A u, v \in Int, d \in Nat \ {0} : u < v => d * u < d * v
    BY <1>6
  <2> DEFINE p == m * i - l * j
             q == s * (i * j)
             x == n * j - m * k
             y == t * (j * k)
  <2>4. p \in Int /\ q \in Int /\ -q \in Int /\ x \in Int /\ y \in Int /\ -y \in Int
    BY <2>2
  <2>5. -q < p /\ p < q /\ -y < x /\ x < y
    BY <1>4, <1>5
  <2> HIDE DEF p, q, x, y
  <2>6. k * p < k * q /\ k * (-q) < k * p /\ i * x < i * y /\ i * (-y) < i * x
    BY <2>1, <2>3, <2>4, <2>5
  <2>7. QED BY <2>6 DEF p, q, x, y
<1>8. /\ j * delta = k * (m * i - l * j) + i * (n * j - m * k)
      /\ j * limit = k * (s * (i * j)) + i * (t * (j * k))
      /\ j * (-limit) = k * (-(s * (i * j))) + i * (-(t * (j * k)))
  OBVIOUS
<1>9. j * delta < j * limit /\ j * (-limit) < j * delta
  BY <1>7, <1>8
<1>10. delta < limit /\ -limit < delta
  BY <1>2, <1>6, <1>9
<1>11. QED BY <1>1, <1>3, <1>10 DEF Closer

Counted(p) ==
  p.rows \in Nat /\ \A n \in DOMAIN p.columns, f \in Counts : p.columns[n][f] \in Nat

LEMMA SharesAreFractions ==
  ASSUME NEW p, Counted(p), NEW n \in DOMAIN p.columns, NEW f \in DOMAIN DriftPoints
  PROVE  Fraction(Shares(p, n)[f])
<1>1. /\ p.rows \in Nat /\ p.columns[n].nulls \in Nat
      /\ p.columns[n].distinct \in Nat /\ p.columns[n].outliers \in Nat
  BY DEF Counted, Counts
<1>2. \A count \in Nat, total \in Int : Fraction(Percentage(count, total))
  BY DEF Fraction, Percentage
<1>3. f \in {"nulls", "distinct", "outliers"}
  BY DEF DriftPoints
<1>4. QED BY <1>1, <1>2, <1>3 DEF Shares

\* The percentages of a and b are less than so many thresholds apart.
Near(a, b, steps) ==
  \A n \in DOMAIN a.columns, f \in DOMAIN DriftPoints :
    Closer(Shares(a, n)[f], Shares(b, n)[f], steps * DriftPoints[f])

LEMMA NearAdds ==
  ASSUME NEW a, NEW b, NEW c, Counted(a), Counted(b), Counted(c),
         DOMAIN a.columns = DOMAIN b.columns, DOMAIN b.columns = DOMAIN c.columns,
         NEW j \in Nat, NEW k \in Nat, Near(a, b, j), Near(b, c, k)
  PROVE  Near(a, c, j + k)
<1> SUFFICES ASSUME NEW n \in DOMAIN a.columns, NEW f \in DOMAIN DriftPoints
             PROVE  Closer(Shares(a, n)[f], Shares(c, n)[f], (j + k) * DriftPoints[f])
  BY DEF Near
<1>1. PICK d \in Nat : d = DriftPoints[f]
  BY DEF DriftPoints
<1>2. Closer(Shares(a, n)[f], Shares(b, n)[f], j * d) /\ Closer(Shares(b, n)[f], Shares(c, n)[f], k * d)
  BY <1>1 DEF Near
<1>3. j * d \in Nat /\ k * d \in Nat /\ (j + k) * d = j * d + k * d
  OBVIOUS
<1>4. /\ Fraction(Shares(a, n)[f]) /\ Fraction(Shares(b, n)[f]) /\ Fraction(Shares(c, n)[f])
  BY SharesAreFractions
<1>5. Closer(Shares(a, n)[f], Shares(c, n)[f], j * d + k * d)
  BY <1>2, <1>3, <1>4, Triangle
<1>6. QED BY <1>1, <1>3, <1>5

\* What is less than one threshold apart is no change, and the converse.
LEMMA UnchangedNear ==
  ASSUME NEW a, NEW b, Counted(a), Counted(b), ~Compare(a, b).changed
  PROVE  Near(a, b, 1)
<1>1. DOMAIN a.columns = DOMAIN b.columns
  BY UnchangedAgree DEF Agree
<1> SUFFICES ASSUME NEW n \in DOMAIN a.columns, NEW f \in DOMAIN DriftPoints
             PROVE  Closer(Shares(a, n)[f], Shares(b, n)[f], 1 * DriftPoints[f])
  BY DEF Near
<1>2. ColumnChanges(a, b, n) = {}
  BY <1>1 DEF Compare, Changes
<1>3. ~SignificantDelta(Shares(a, n)[f], Shares(b, n)[f], DriftPoints[f])
  <2>1. /\ ~SignificantDelta(Percentage(a.columns[n].nulls, a.rows),
                              Percentage(b.columns[n].nulls, b.rows), 10)
        /\ ~SignificantDelta(Percentage(a.columns[n].distinct, a.rows),
                              Percentage(b.columns[n].distinct, b.rows), 10)
        /\ ~SignificantDelta(Percentage(a.columns[n].outliers, a.rows - a.columns[n].nulls),
                              Percentage(b.columns[n].outliers, b.rows - b.columns[n].nulls), 5)
    BY <1>2 DEF ColumnChanges
  <2>2. CASE f = "nulls"
    BY <2>1, <2>2 DEF Shares, DriftPoints
  <2>3. CASE f = "distinct"
    BY <2>1, <2>3 DEF Shares, DriftPoints
  <2>4. CASE f = "outliers"
    BY <2>1, <2>4 DEF Shares, DriftPoints
  <2>5. QED BY <2>2, <2>3, <2>4 DEF DriftPoints
<1>4. Fraction(Shares(a, n)[f]) /\ Fraction(Shares(b, n)[f])
  BY <1>1, SharesAreFractions
<1>5. ASSUME NEW x, NEW y, Fraction(x), Fraction(y), NEW d \in Nat, ~SignificantDelta(x, y, d)
      PROVE  Closer(x, y, 1 * d)
  <2>1. PICK l \in Int, i \in Nat : l = x.num /\ i = x.den
    BY <1>5 DEF Fraction
  <2>2. PICK m \in Int, j \in Nat : m = y.num /\ j = y.den
    BY <1>5 DEF Fraction
  <2>3. d * i * j = 1 * d * (i * j) /\ d * i * j \in Int /\ m * i - l * j \in Int
    OBVIOUS
  <2>4. QED BY <1>5, <2>1, <2>2, <2>3 DEF SignificantDelta, Closer
<1>6. DriftPoints[f] \in Nat
  BY DEF DriftPoints
<1>7. QED BY <1>3, <1>4, <1>5, <1>6

\* What is stored has been counted.
CountedInv ==
  /\ table \in [Sources -> Tables]
  /\ \A w \in Workers : run[w].step = "measured" => run[w].table \in Tables
  /\ \A w \in Workers : Timed(w) => Counted(run[w].profile)
  /\ \A y \in history : Counted(y.profile)

LEMMA ProfilesAreCounted ==
  ASSUME NEW t \in Tables, NEW r, NEW p \in Profiles(t, r)
  PROVE  Counted(p)
<1>1. PICK d \in Detections(t) : p = Profile(t, r, d)
  BY DEF Profiles
<1>2. /\ p.rows = t.rows /\ DOMAIN p.columns = DOMAIN t.columns
      /\ \A n \in DOMAIN t.columns : p.columns[n] = Labelled(t.columns[n], d[n])
  BY <1>1 DEF Profile
<1>3. /\ t.rows \in Nat
      /\ \A n \in DOMAIN t.columns, f \in Counts :
           f \in DOMAIN t.columns[n] /\ t.columns[n][f] \in Nat
  BY TablesAssumption
<1>4. ASSUME NEW n \in DOMAIN t.columns, NEW f \in Counts
      PROVE  p.columns[n][f] = t.columns[n][f]
  BY <1>2, <1>3 DEF Labelled, Counts
<1>5. QED BY <1>2, <1>3, <1>4 DEF Counted

LEMMA CountedStep ==
  ASSUME RunOK, CountedInv, Next
  PROVE  CountedInv'
<1>1. ASSUME NEW w \in Workers, NEW s \in Sources, NEW r \in RuleSets, Measure(w, s, r)
      PROVE  CountedInv'
  <2>1. /\ history' = history /\ table' = table
        /\ run'[w].step = "measured" /\ run'[w].table = table[s]
        /\ \A v \in Workers \ {w} : run'[v] = run[v]
    BY <1>1 DEF Measure, RunOK
  <2>2. table[s] \in Tables
    BY DEF CountedInv
  <2>3. QED BY <2>1, <2>2 DEF CountedInv, Timed
<1>2. ASSUME NEW w \in Workers, Analyse(w)
      PROVE  CountedInv'
  <2>1. PICK p \in Profiles(run[w].table, run[w].rules) :
          run' = [run EXCEPT ![w] = [step |-> "analysed", table |-> @.table, rules |-> @.rules,
                                     seen |-> @.seen, profile |-> p, at |-> clock + 1]]
    BY <1>2 DEF Analyse
  <2>2. /\ history' = history /\ table' = table
        /\ run'[w].step = "analysed" /\ run'[w].profile = p
        /\ \A v \in Workers \ {w} : run'[v] = run[v]
    BY <1>2, <2>1 DEF Analyse, RunOK
  <2>3. Counted(p)
    BY <1>2, ProfilesAreCounted DEF Analyse, CountedInv
  <2>4. QED BY <2>2, <2>3 DEF CountedInv, Timed
<1>3. ASSUME NEW w \in Workers, CompareWithPrevious(w)
      PROVE  CountedInv'
  <2>1. PICK c \in {Snapshot(w, Unread, << >>)}
                   \cup {Snapshot(w, x.at, << Compare(x.profile, run[w].profile) >>) : x \in Latest(history)}
                   \cup IF history = {} THEN {Snapshot(w, None, << >>)} ELSE {} :
          run' = [run EXCEPT ![w] = c]
    BY <1>3 DEF CompareWithPrevious
  <2>2. /\ history' = history /\ table' = table
        /\ run[w].step = "analysed" /\ run'[w] = c
        /\ \A v \in Workers \ {w} : run'[v] = run[v]
    BY <1>3, <2>1 DEF CompareWithPrevious, RunOK
  <2>3. c.step = "compared" /\ c.profile = run[w].profile
    BY <2>1 DEF Snapshot
  <2>4. QED BY <2>2, <2>3 DEF CountedInv, Timed
<1>4. ASSUME NEW w \in Workers, Save(w)
      PROVE  CountedInv'
  <2>1. /\ run[w].step = "compared" /\ run'[w].step = "idle" /\ table' = table
        /\ \A v \in Workers \ {w} : run'[v] = run[v]
        /\ \A y \in history' : y \in history \/ y = Row(w)
    BY <1>4 DEF Save, RunOK, Idle
  <2>2. Counted(Row(w).profile)
    BY <2>1 DEF Row, CountedInv, Timed
  <2>3. QED BY <2>1, <2>2 DEF CountedInv, Timed
<1>5. CASE Write
  BY <1>5 DEF Write, CountedInv, Timed
<1>6. QED BY <1>1, <1>2, <1>3, <1>4, <1>5 DEF Next

\* The entries after x, to y.
Steps(x, y) == {z \in history : x.at < z.at /\ z.at <= y.at}

\* Of any two snapshots with nothing but quiet ones after the first.
CreepInv ==
  \A x, y \in history :
    x.at < y.at /\ (\A z \in Steps(x, y) : Quiet(z)) =>
      Near(x.profile, y.profile, Cardinality(Steps(x, y)))

\* The step that adds to the history.
LEMMA SaveCreeps ==
  ASSUME HistoryInv, CountedInv, CreepInv, NEW w \in Workers, Save(w)
  PROVE  CreepInv'
<1>1. /\ run[w].step = "compared"
      /\ \/ history' = history \cup {Row(w)}
         \/ history' = history
  BY DEF Save
<1>2. CASE history' = history
  BY <1>2 DEF CreepInv, Steps
<1>3. CASE history' = history \cup {Row(w)}
  <2>1. PICK z : z = Row(w)
    OBVIOUS
  <2>2. /\ z.at \in Nat
        /\ \A y \in history : y.at \in Nat /\ y.at # z.at
        /\ \A y \in history : y.alone \/ z.alone => y.at < z.at
    BY <1>1, <2>1 DEF Row, HistoryInv, ClockInv, AloneInv, Timed
  <2>3. z.alone =>
          \/ z.base = Unread
          \/ history = {} /\ z.drift = << >>
          \/ \E x \in Latest(history) : z.drift = << Compare(x.profile, z.profile) >>
    BY <1>1, <2>1 DEF Row, HistoryInv, ComparedInv
  <2>4. Counted(z.profile) /\ \A y \in history : Counted(y.profile)
    BY <1>1, <2>1 DEF Row, CountedInv, Timed
  <2> SUFFICES ASSUME NEW x \in history', NEW y \in history', x.at < y.at,
                      \A u \in Steps(x, y)' : Quiet(u)
               PROVE  Near(x.profile, y.profile, Cardinality(Steps(x, y)'))
    BY DEF CreepInv, Quiet
  <2>5. Steps(x, y)' = {u \in history' : x.at < u.at /\ u.at <= y.at}
    BY DEF Steps
  <2>6. Quiet(y)
    BY <1>3, <2>1, <2>2, <2>5
  <2>7. CASE y \in history
    <3>1. x \in history
      BY <1>3, <2>1, <2>2, <2>6, <2>7 DEF Quiet
    <3>2. Steps(x, y)' = Steps(x, y)
      BY <1>3, <2>1, <2>2, <2>5, <2>6, <2>7 DEF Quiet, Steps
    <3>3. QED BY <2>7, <3>1, <3>2 DEF CreepInv
  <2>8. CASE y = z
    <3>1. x \in history
      BY <1>3, <2>1, <2>2, <2>8
    <3>2. PICK l \in Latest(history) : z.drift = << Compare(l.profile, z.profile) >>
      BY <2>3, <2>6, <2>8, <3>1 DEF Quiet
    <3>3. ~Compare(l.profile, z.profile).changed
      BY <2>6, <2>8, <3>2 DEF Quiet
    <3>4. l \in history /\ x.at <= l.at /\ l.at < z.at
      BY <2>2, <2>6, <2>8, <3>1 DEF Latest, Quiet
    <3>5. Near(l.profile, z.profile, 1)
      BY <2>4, <3>3, <3>4, UnchangedNear
    <3>6. CASE x = l
      <4>1. Steps(x, y)' = {z}
        BY <1>3, <2>1, <2>2, <2>5, <2>8, <3>6 DEF Latest
      <4>2. QED BY <2>8, <3>5, <3>6, <4>1, FS_Singleton
    <3>7. CASE x # l
      <4>1. x.at < l.at
        BY <2>2, <3>1, <3>4, <3>7 DEF HistoryInv, ClockInv
      <4>2. Steps(x, y)' = Steps(x, l) \cup {z}
        BY <1>3, <2>1, <2>2, <2>5, <2>6, <2>8, <3>1, <3>4, <4>1 DEF Latest, Steps, Quiet
      <4>3. \A u \in Steps(x, l) : Quiet(u)
        BY <4>2
      <4>4. Near(x.profile, l.profile, Cardinality(Steps(x, l)))
        BY <3>1, <3>4, <4>1, <4>3 DEF CreepInv
      <4>5. DOMAIN x.profile.columns = DOMAIN l.profile.columns
        BY <3>1, <3>4, <4>1, <4>3 DEF HistoryInv, QuietInv, Steps, Agree
      <4>6. DOMAIN l.profile.columns = DOMAIN z.profile.columns
        BY <3>3, UnchangedAgree DEF Agree
      <4>7. IsFiniteSet(Steps(x, l)) /\ z \notin Steps(x, l)
        BY <2>2, FS_Subset DEF HistoryInv, Steps
      <4>8. /\ Cardinality(Steps(x, l)) \in Nat
            /\ Cardinality(Steps(x, y)') = Cardinality(Steps(x, l)) + 1
        BY <4>2, <4>7, FS_AddElement, FS_CardinalityType
      <4>9. QED BY <2>4, <2>8, <3>1, <3>4, <3>5, <4>4, <4>5, <4>6, <4>8, NearAdds
    <3>8. QED BY <3>6, <3>7
  <2>9. QED BY <1>3, <2>1, <2>7, <2>8
<1>4. QED BY <1>1, <1>2, <1>3

LEMMA CreepInvariant == Spec => [](HistoryInv /\ CountedInv /\ CreepInv)
<1>1. Init => CountedInv /\ CreepInv
  BY DEF Init, CountedInv, CreepInv, Timed, Idle
<1>2. HistoryInv /\ CountedInv /\ CreepInv /\ [Next]_vars => (CountedInv /\ CreepInv)'
  <2> SUFFICES ASSUME HistoryInv, CountedInv, CreepInv, [Next]_vars PROVE (CountedInv /\ CreepInv)'
    OBVIOUS
  <2>1. CountedInv'
    <3>1. CASE UNCHANGED vars
      BY <3>1 DEF vars, CountedInv, Timed
    <3>2. QED BY <3>1, CountedStep DEF HistoryInv
  <2>2. CASE history' = history
    BY <2>1, <2>2 DEF CreepInv, Steps
  <2>3. ASSUME NEW w \in Workers, Save(w) PROVE CreepInv'
    BY <2>3, SaveCreeps
  <2>4. QED BY <2>1, <2>2, <2>3 DEF Next, Measure, Analyse, CompareWithPrevious, Write, vars
<1>3. QED BY <1>1, <1>2, HistoryInvariant, PTL DEF Spec

\* Along an undisturbed list without a change, a percentage moves by less than the
\* threshold of drift for each entry, however long the list and whatever the tables
\* hold (Compare, GetProfileHistory).
THEOREM CreepBounded == Spec => []CreepIsBounded
<1>1. HistoryInv /\ CreepInv => CreepIsBounded
  <2> SUFFICES ASSUME HistoryInv, CreepInv, NEW limit \in 1 .. MaxRuns,
                      NEW x \in Listed(limit), NEW y \in Listed(limit), x.at < y.at,
                      \A z \in Listed(limit) \ {u \in Listed(limit) : \A v \in Listed(limit) : u.at <= v.at} :
                        Quiet(z)
               PROVE  Near(x.profile, y.profile,
                           Cardinality({z \in Listed(limit) : x.at < z.at /\ z.at <= y.at}))
    BY DEF CreepIsBounded, Near
  <2>1. Steps(x, y) = {z \in Listed(limit) : x.at < z.at /\ z.at <= y.at}
    BY ListedLater DEF Steps, Listed
  <2>2. ASSUME NEW z \in Steps(x, y) PROVE Quiet(z)
    <3>1. z \in Listed(limit) /\ ~(z.at <= x.at)
      BY <2>1 DEF HistoryInv, ClockInv, Listed, Steps
    <3>2. QED BY <3>1
  <2>3. QED BY <2>1, <2>2 DEF CreepInv, Listed
<1>2. QED BY <1>1, CreepInvariant, PTL

=============================================================================
