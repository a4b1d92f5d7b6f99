--------------------------- MODULE ProfileHistory ---------------------------
(***************************************************************************)
(* The snapshots of one schema and table, and the workers that add to them *)
(* while the table changes, in each of the sources that have such a table: *)
(*   internal/worker/manager.go  run, between ProfileTable and SaveProfile *)
(*   internal/store/store.go     GetPreviousProfile, SaveProfile           *)
(*   internal/api/router.go      the history and the drift it answers with *)
(*                                                                         *)
(* A run measures the table, analyses what it measured, takes the time,    *)
(* reads the latest snapshot, compares, and stores its own: five moments   *)
(* with nothing that keeps another worker from coming between them.  The   *)
(* time is one counter for all instances.                                  *)
(***************************************************************************)
EXTENDS Analysis, FiniteSets

CONSTANTS
  Workers,   \* the worker goroutines of all instances
  Sources,   \* the source databases, which a snapshot does not name
  Tables,    \* what the table may hold
  RuleSets,  \* the quality rules of the requests
  MaxRuns    \* bound: how many runs are begun

\* What is counted is a number.
Counts == {"nulls", "distinct", "outliers"}

ASSUME TablesAssumption ==
  \A t \in Tables :
    /\ t.rows \in Nat
    /\ \A n \in DOMAIN t.columns, f \in Counts :
         f \in DOMAIN t.columns[n] /\ t.columns[n][f] \in Nat

VARIABLES
  table,    \* what the table holds in each source
  run,      \* where each worker is, and what it has measured and read
  clock,    \* the last created_at
  alone,    \* for the properties: the workers whose run overlaps no other
  begun,    \* how many runs were begun
  history   \* the rows of profiles

vars == << table, run, clock, alone, begun, history >>

\* The baseline of a first profile, and of a failed GetPreviousProfile.
None   == 0
Unread == -1

Idle == [step |-> "idle"]

Active(w) == run[w].step # "idle"

\* mutant: the oldest row instead of the latest
Latest_Oldest(rows) == {x \in rows : \A y \in rows : x.at <= y.at}

\* ORDER BY created_at DESC LIMIT 1.
Latest(rows) == {x \in rows : \A y \in rows : y.at <= x.at}

\* ProfileTable returns.  For the properties, the run remembers what it was
\* asked and the snapshots there were.
Measure(w, s, r) ==
  /\ ~Active(w)
  /\ begun < MaxRuns
  /\ begun' = begun + 1
  /\ alone' = IF \E v \in Workers : Active(v) THEN {} ELSE {w}
  /\ run' = [run EXCEPT ![w] = [step |-> "measured", table |-> table[s], rules |-> r,
                                seen |-> {x.at : x \in history}]]
  /\ UNCHANGED << table, clock, history >>

\* Detection, Evaluate and created_at, all local to the worker.
Analyse(w) ==
  /\ run[w].step = "measured"
  /\ clock' = clock + 1
  /\ \E p \in Profiles(run[w].table, run[w].rules) :
       run' = [run EXCEPT ![w] = [step |-> "analysed", table |-> @.table, rules |-> @.rules,
                                  seen |-> @.seen, profile |-> p, at |-> clock + 1]]
  /\ UNCHANGED << table, alone, begun, history >>

\* What the snapshot of w will be, compared with base or with none.
Snapshot(w, at, drift) ==
  [step |-> "compared", table |-> run[w].table, rules |-> run[w].rules,
   seen |-> run[w].seen, profile |-> run[w].profile, at |-> run[w].at,
   base |-> at, drift |-> drift]

\* mutant: the arguments of Compare are swapped
CompareWithPrevious_Swapped(w) ==
  /\ run[w].step = "analysed"
  /\ \E s \in {Snapshot(w, Unread, << >>)}
              \cup {Snapshot(w, x.at, << Compare(run[w].profile, x.profile) >>) : x \in Latest(history)}
              \cup IF history = {} THEN {Snapshot(w, None, << >>)} ELSE {} :
       run' = [run EXCEPT ![w] = s]
  /\ UNCHANGED << table, clock, alone, begun, history >>

\* GetPreviousProfile: an error, no rows among them, only leaves drift out.
CompareWithPrevious(w) ==
  /\ run[w].step = "analysed"
  /\ \E s \in {Snapshot(w, Unread, << >>)}
              \cup {Snapshot(w, x.at, << Compare(x.profile, run[w].profile) >>) : x \in Latest(history)}
              \cup IF history = {} THEN {Snapshot(w, None, << >>)} ELSE {} :
       run' = [run EXCEPT ![w] = s]
  /\ UNCHANGED << table, clock, alone, begun, history >>

Row(w) ==
  [table |-> run[w].table, rules |-> run[w].rules, seen |-> run[w].seen,
   profile |-> run[w].profile, at |-> run[w].at, base |-> run[w].base,
   drift |-> run[w].drift, alone |-> w \in alone]

\* SaveProfile, which may fail.
Save(w) ==
  /\ run[w].step = "compared"
  /\ \/ history' = history \cup {Row(w)}
     \/ UNCHANGED history
  /\ run' = [run EXCEPT ![w] = Idle]
  /\ UNCHANGED << table, clock, alone, begun >>

\* Clients of a source write to its table.
Write ==
  /\ \E s \in Sources, t \in Tables : t # table[s] /\ table' = [table EXCEPT ![s] = t]
  /\ UNCHANGED << run, clock, alone, begun, history >>

Init ==
  /\ table \in [Sources -> Tables]
  /\ run = [w \in Workers |-> Idle]
  /\ clock = 0
  /\ alone = {}
  /\ begun = 0
  /\ history = {}

Next ==
  \/ \E w \in Workers :
       \/ \E s \in Sources, r \in RuleSets : Measure(w, s, r)
       \/ Analyse(w)
       \/ CompareWithPrevious(w)
       \/ Save(w)
  \/ Write

Spec == Init /\ [][Next]_vars

-----------------------------------------------------------------------------
\* The snapshots GET /profiles/history answers with, the newest ones.
Listed(limit) ==
  LET n == IF limit \in 1 .. 100 THEN limit ELSE 20
  IN  {y \in history : Cardinality({x \in history : x.at > y.at}) < n}

\* The snapshot the history lists just after y: the previous one.
Before(y) ==
  {x \in history : x.at < y.at /\ \A z \in history : z.at < y.at => z.at <= x.at}

\* Overlap or not, the baseline of a run is no older than any snapshot that was
\* stored before the run began: a change that was reported once is not reported
\* against an outdated baseline again (run, GetPreviousProfile).
FreshBaseline ==
  \A y \in history : y.base # Unread => \A a \in y.seen : a <= y.base

\* The drift of a run that overlaps no other says how its table differs from the
\* previous snapshot of the name, in that direction and whatever source that is
\* of; only the first has none (run, GetPreviousProfile).
DriftSincePrevious ==
  \A y \in history : y.alone /\ y.base # Unread =>
    /\ y.drift = << >> <=> Before(y) = {}
    /\ \A x \in Before(y) : y.drift = << Compare(x.profile, y.profile) >>

\* A reader of the history who skips the entries without a change misses nothing
\* but small shifts of percentages: however long the list, of whatever sources,
\* when all but its oldest entry were stored undisturbed and report no change,
\* the entries agree in all that is compared exactly (Compare, GetProfileHistory).
Agree(a, b) ==
  /\ a.score = b.score /\ a.dups = b.dups /\ DOMAIN a.columns = DOMAIN b.columns
  /\ \A n \in DOMAIN a.columns : \A f \in {"type", "nullable", "distinct", "pii"} :
       a.columns[n][f] = b.columns[n][f]

Quiet(y) == y.alone /\ y.base # Unread /\ \A i \in DOMAIN y.drift : ~y.drift[i].changed

QuietHistoryAgrees ==
  \A limit \in 1 .. MaxRuns :
    LET oldest == {x \in Listed(limit) : \A y \in Listed(limit) : x.at <= y.at}
    IN  (\A y \in Listed(limit) \ oldest : Quiet(y))
          => \A x, y \in Listed(limit) : Agree(x.profile, y.profile)

\* The percentages Compare looks at, and the points by which each must have moved
\* to be reported.
Shares(p, n) ==
  LET c == p.columns[n]
  IN  [nulls    |-> Percentage(c.nulls, p.rows),
       distinct |-> Percentage(c.distinct, p.rows),
       outliers |-> Percentage(c.outliers, p.rows - c.nulls)]

DriftPoints == [nulls |-> 10, distinct |-> 10, outliers |-> 5]

\* The fractions a and b are less than so many points apart.
Closer(a, b, points) ==
  LET delta == b.num * a.den - a.num * b.den
      limit == points * (a.den * b.den)
  IN  -limit < delta /\ delta < limit

\* What the shifts add up to: each snapshot is compared with the one before only,
\* so a percentage may creep, but over the entries of a list without a change by
\* less than the threshold for each of them (Compare, GetProfileHistory).
CreepIsBounded ==
  \A limit \in 1 .. MaxRuns :
    LET oldest == {x \in Listed(limit) : \A y \in Listed(limit) : x.at <= y.at}
    IN  (\A y \in Listed(limit) \ oldest : Quiet(y))
          => \A x, y \in Listed(limit) : x.at < y.at =>
               LET steps == Cardinality({z \in Listed(limit) : x.at < z.at /\ z.at <= y.at})
               IN  \A n \in DOMAIN x.profile.columns, f \in DOMAIN DriftPoints :
                     Closer(Shares(x.profile, n)[f], Shares(y.profile, n)[f], steps * DriftPoints[f])

\* What FreshBaseline rests on: what a run has seen stays stored.
BaselineInv ==
  /\ \A w \in Workers :
       /\ Active(w) => run[w].seen \subseteq {x.at : x \in history}
       /\ run[w].step = "compared" /\ run[w].base # Unread =>
            \A a \in run[w].seen : a <= run[w].base
  /\ FreshBaseline

-----------------------------------------------------------------------------
(* What the documents say and the code does not do                         *)

\* The "no-change response": two successive profiles of the same data under the
\* same rules, of runs that do not overlap, show no drift.
NoChangeNoDrift ==
  \A y \in history : y.alone /\ y.base # Unread =>
    \A x \in Before(y) :
      x.table = y.table /\ x.rules = y.rules => \A i \in DOMAIN y.drift : ~y.drift[i].changed

=============================================================================
