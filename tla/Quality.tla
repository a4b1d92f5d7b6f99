------------------------------- MODULE Quality -------------------------------
(***************************************************************************)
(* internal/quality/quality.go: the checks and the score of a profile.     *)
(*                                                                         *)
(* A profile has the number of profiled rows, of duplicates, and a record  *)
(* of counts for each column.  Percentages are compared as fractions, so   *)
(* that a threshold is met exactly where the code's division is exact.     *)
(* Severity, threshold and wording of a check are left out: they repeat    *)
(* what is compared here.                                                  *)
(***************************************************************************)
EXTENDS Integers, Functions

CONSTANT KeyNames  \* the column names isLikelyKey accepts

\* A threshold a request leaves out, as far as Evaluate can tell.
Unset == -1

DefaultRules == [nulls |-> 20, dominant |-> 80, high |-> 95, empty |-> FALSE, blank |-> FALSE]

\* Thresholds outside 0..100 fall back to the default.
Threshold(r, name) == IF r[name] \in 0 .. 100 THEN r[name] ELSE DefaultRules[name]

\* count * 100 / total, compared with a threshold; no rows make 0 percent.
PercentAbove(count, total, limit) == total > 0 /\ count * 100 > limit * total
PercentAtLeast(count, total, limit) ==
  IF total > 0 THEN count * 100 >= limit * total ELSE limit <= 0

Incomplete(p, r, n) == PercentAbove(p.columns[n].nulls, p.rows, Threshold(r, "nulls"))

Unique(p, n) == p.rows > 0 /\ p.columns[n].distinct = p.rows

IsText(p, n)     == p.columns[n].type = "text"
IsNumeric(p, n)  == p.columns[n].type = "numeric"
IsDateTime(p, n) == p.columns[n].type = "date"

Check(name, n, passed) == [name |-> name, column |-> n, passed |-> passed]

\* The checks of column n; those listed on a condition say something is odd.
ColumnChecks(p, r, n) ==
  LET c == p.columns[n]
      When(b, name, passed) == IF b THEN {Check(name, n, passed)} ELSE {}
  IN  UNION {
        {Check("completeness", n, ~Incomplete(p, r, n))},
        When(n \in KeyNames, "uniqueness", Unique(p, n)),
        When(p.rows > 0 /\ c.distinct <= 1, "constant", FALSE),
        When(p.rows > 0 /\ n \notin KeyNames
               /\ PercentAtLeast(c.distinct, p.rows, Threshold(r, "high")),
             "high_cardinality", TRUE),
        When(c.top > 0 /\ PercentAtLeast(c.top, p.rows, Threshold(r, "dominant")),
             "dominant_value", TRUE),
        When(IsText(p, n), "empty", r.empty \/ c.empty = 0),
        When(IsText(p, n), "whitespace", r.blank \/ c.blank = 0),
        When(IsNumeric(p, n) /\ c.outliers > 0, "outliers", TRUE),
        When(IsDateTime(p, n) /\ c.future > 0, "future_dates", FALSE),
        When(IsNumeric(p, n) /\ c.zeros > 0, "zero_values", TRUE)}

Checks(p, r) ==
  (UNION {ColumnChecks(p, r, n) : n \in DOMAIN p.columns})
    \cup IF p.dups > 0 THEN {Check("duplicate_rows", "table", FALSE)} ELSE {}

Points(b, n) == IF b THEN n ELSE 0

\* mutant: allow_empty silences the check and not the deduction
Deduction_EmptyAnyway(p, r, n) ==
  LET c == p.columns[n] IN
    Points(Incomplete(p, r, n), 10)
      + Points(n \in KeyNames /\ ~Unique(p, n), 5)
      + Points(IsText(p, n) /\ c.empty > 0, 3)
      + Points(IsText(p, n) /\ c.blank > 0 /\ ~r.blank, 2)
      + Points(IsDateTime(p, n) /\ c.future > 0, 3)

\* mutant: allow_empty is taken the wrong way round
Deduction_Inverted(p, r, n) ==
  LET c == p.columns[n] IN
    Points(Incomplete(p, r, n), 10)
      + Points(n \in KeyNames /\ ~Unique(p, n), 5)
      + Points(IsText(p, n) /\ c.empty > 0 /\ r.empty, 3)
      + Points(IsText(p, n) /\ c.blank > 0 /\ ~r.blank, 2)
      + Points(IsDateTime(p, n) /\ c.future > 0, 3)

\* What column n takes off the score, which Evaluate decides beside the checks.
Deduction(p, r, n) ==
  LET c == p.columns[n] IN
    Points(Incomplete(p, r, n), 10)
      + Points(n \in KeyNames /\ ~Unique(p, n), 5)
      + Points(IsText(p, n) /\ c.empty > 0 /\ ~r.empty, 3)
      + Points(IsText(p, n) /\ c.blank > 0 /\ ~r.blank, 2)
      + Points(IsDateTime(p, n) /\ c.future > 0, 3)

Score(p, r) ==
  LET score == 100 - SumFunction([n \in DOMAIN p.columns |-> Deduction(p, r, n)])
                   - Points(p.dups > 0, 5)
  IN  IF score < 0 THEN 0 ELSE score

=============================================================================
