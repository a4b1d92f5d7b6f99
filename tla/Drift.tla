-------------------------------- MODULE Drift --------------------------------
(***************************************************************************)
(* internal/drift/drift.go: how a profile differs from an earlier one.     *)
(* The list of changes is a set: its order is that of two Go maps.         *)
(***************************************************************************)
EXTENDS Integers

\* count * 100 / total as a fraction; no rows make 0 percent.
Percentage(count, total) ==
  IF total > 0 THEN [num |-> count * 100, den |-> total] ELSE [num |-> 0, den |-> 1]

\* mutant: only growth counts
SignificantDelta_Growth(old, current, threshold) ==
  current.num * old.den - old.num * current.den >= threshold * old.den * current.den

SignificantDelta(old, current, threshold) ==
  LET delta == current.num * old.den - old.num * current.den
  IN  (IF delta < 0 THEN -delta ELSE delta) >= threshold * old.den * current.den

Change(what, n) == [what |-> what, column |-> n]

\* What changed of column n, which both profiles have.
ColumnChanges(a, b, n) ==
  LET old == a.columns[n]
      current == b.columns[n]
      When(test, what) == IF test THEN {Change(what, n)} ELSE {}
  IN  UNION {
        When(old.type # current.type, "type"),
        When(old.nullable # current.nullable, "nullability"),
        When(old.distinct # current.distinct, "distinct count"),
        When(SignificantDelta(Percentage(old.nulls, a.rows),
                              Percentage(current.nulls, b.rows), 10), "null percentage"),
        When(SignificantDelta(Percentage(old.distinct, a.rows),
                              Percentage(current.distinct, b.rows), 10), "distinct percentage"),
        When(SignificantDelta(Percentage(old.outliers, a.rows - old.nulls),
                              Percentage(current.outliers, b.rows - current.nulls), 5),
             "outlier percentage"),
        When(old.pii # current.pii, "PII classification")}

\* mutant: only the columns of the older profile are gone through
Changes_OldColumns(a, b) ==
  LET old == DOMAIN a.columns
      new == DOMAIN b.columns
  IN  UNION {
        IF a.score # b.score THEN {Change("quality score", "table")} ELSE {},
        {Change("removed", n) : n \in old \ new},
        UNION {ColumnChanges(a, b, n) : n \in old \cap new},
        IF a.dups # b.dups THEN {Change("duplicate rows", "table")} ELSE {}}

Changes(a, b) ==
  LET old == DOMAIN a.columns
      new == DOMAIN b.columns
  IN  UNION {
        IF a.score # b.score THEN {Change("quality score", "table")} ELSE {},
        {Change("removed", n) : n \in old \ new},
        UNION {ColumnChanges(a, b, n) : n \in old \cap new},
        {Change("added", n) : n \in new \ old},
        IF a.dups # b.dups THEN {Change("duplicate rows", "table")} ELSE {}}

Compare(a, b) ==
  [changed |-> Changes(a, b) # {}, scoreDelta |-> b.score - a.score, changes |-> Changes(a, b)]

=============================================================================
