----------------------------- MODULE TableMetrics -----------------------------
(***************************************************************************)
(* What a run measures of a table that others write to:                    *)
(*   internal/adapters/adapter.go  Open, SampleTableExpr                   *)
(*   internal/adapters/profile.go  ProfileTable, profileColumn,            *)
(*                                 addNumericHistogram                     *)
(*                                                                         *)
(* The table has one numeric column.  Every query is a statement of its    *)
(* own and sees the table as it is then; what one query found, such as the *)
(* number of rows or the range, is used with what later ones find.  Means, *)
(* quantiles and outliers, which are passed on as they are, are left out,  *)
(* and so is what ColumnProfiler models: goroutines, the pool, the context.*)
(***************************************************************************)
EXTENDS SourceAdapter, FiniteSetsExt, Functions

CONSTANTS
  RowIds,       \* the rows the table may have
  Numbers,      \* the values a row may hold
  Null,         \* SQL NULL
  Types,        \* the types of source that are asked for
  SampleSizes,  \* the sample sizes that are asked for
  TopLimit,     \* how many of the top values are kept (10 in the code)
  MaxWrites,    \* bound: writes to the table during the run
  MaxErrors     \* bound: queries that fail

ASSUME ValuesAssumption == Numbers \subseteq Int /\ Null \notin Numbers
\* A table has finitely many rows.
ASSUME RowsAssumption == IsFiniteSet(RowIds)

ASSUME LimitsAssumption == TopLimit \in Nat \ {0} /\ MaxWrites \in Nat /\ MaxErrors \in Nat

VARIABLES
  rows,     \* the value of each row of the table
  picked,   \* the rows in the sample
  request,  \* the type of the source and the sample size
  step,     \* the query the run is at
  p,        \* the profile so far: a field is there once it was measured
  writes,   \* how often the table was written to since the first query
  errors    \* how many queries failed

vars == << rows, picked, request, step, p, writes, errors >>

Tables == UNION {[S -> Numbers \cup {Null}] : S \in SUBSET RowIds}

\* TABLESAMPLE takes whole pages by chance, LIMIT at most so many rows.
Samples(table) == {S \in SUBSET DOMAIN table : Cardinality(S) <= request.sample}

\* What a query reads.
Scanned == IF p.from = "sample" THEN picked ELSE DOMAIN rows

Filled == {r \in Scanned : rows[r] # Null}
Found  == {rows[r] : r \in Filled}
Count(v) == Cardinality({r \in Filled : rows[r] = v})

\* A query of the source succeeds and the run goes on at next.
Answer(next) == step' = next /\ UNCHANGED << rows, picked, request, writes, errors >>

\* What a query found is entered in the profile.
Enter(found) ==
  p' = [m \in DOMAIN p \cup DOMAIN found |-> IF m \in DOMAIN found THEN found[m] ELSE p[m]]

\* The source takes the query of the step.
Taken == step \in Takes[Dialect(request.type)]

\* A query fails and the run goes on at next.
Failure(next) ==
  /\ errors < MaxErrors
  /\ errors' = errors + 1
  /\ step' = next
  /\ UNCHANGED << rows, picked, request, p, writes >>

\* Open refuses types without a driver; otherwise the ping decides.
OpenSource ==
  /\ step = "open"
  /\ \/ request.type \in DOMAIN Driver /\ Answer("count")
     \/ request.type \notin DOMAIN Driver /\ Answer("failed")
     \/ Failure("failed")
  /\ UNCHANGED p

\* COUNT(*), and the choice between the table and a sample of it.
CountTable ==
  /\ step = "count"
  /\ \/ Failure("failed")
     \/ LET total == Cardinality(DOMAIN rows)
            from  == SampleTableExpr(Dialect(request.type), request.sample, total)
        IN  CASE from = "refused" -> Answer("failed") /\ UNCHANGED p
              [] from = "table" -> Answer("aggregates") /\ p' = [total |-> total, from |-> from, rows |-> total]
              [] from = "sample" ->
                   /\ p' = [total |-> total, from |-> from]
                   /\ picked' \in Samples(rows)
                   /\ step' = "sampled"
                   /\ UNCHANGED << rows, request, writes, errors >>

CountSample ==
  /\ step = "sampled"
  /\ \/ Failure("failed")
     \/ Answer("aggregates") /\ Enter([rows |-> Cardinality(Scanned)])

\* The aggregates of the column; no value has no range.
Aggregates ==
  /\ step = "aggregates"
  /\ \/ Failure("failed")
     \/ /\ Enter([nulls    |-> Cardinality(Scanned \ Filled),
                  distinct |-> Cardinality(Found),
                  zeros    |-> Count(0),
                  range    |-> IF Found = {} THEN << >> ELSE << Min(Found), Max(Found) >>])
        /\ Answer("top")

\* GROUP BY, ORDER BY COUNT(*) DESC, LIMIT.
TopValues ==
  /\ step = "top"
  /\ \/ Failure("stats")
     \/ ~Taken /\ Answer("stats") /\ UNCHANGED p
     \/ /\ Taken
        /\ \E T \in {S \in SUBSET Found : \A v \in S, u \in Found \ S : Count(v) >= Count(u)} :
             /\ Cardinality(T) = Min({TopLimit, Cardinality(Found)})
             /\ Enter([top |-> [v \in T |-> Count(v)]])
        /\ Answer("stats")

\* Without the statistics there is no histogram.
Stats ==
  /\ step = "stats"
  /\ \/ Failure("duplicates")
     \/ Answer(IF Taken THEN "histogram" ELSE "duplicates") /\ UNCHANGED p

\* The values that are not NULL, by two earlier queries.
NonNull == p.rows - p.nulls

\* The buckets of the query, by the range it finds itself.
BucketCount(i) ==
  Cardinality({r \in Filled : Bucket(rows[r], Min(Found), Max(Found)) = i})

\* mutant: the lower bounds are one bin too high
Bin_Shifted(i, count) ==
  LET lo == p.range[1]
      width == p.range[2] - lo
  IN  [lower |-> 10 * lo + (i + 1) * width, upper |-> 10 * lo + (i + 1) * width, count |-> count]

\* Bin i, between bounds (here ten times what they are) of the range that the
\* aggregates found.
Bin(i, count) ==
  LET lo == p.range[1]
      width == p.range[2] - lo
  IN  [lower |-> 10 * lo + i * width, upper |-> 10 * lo + (i + 1) * width, count |-> count]

\* addNumericHistogram; one value makes one bin without a query.
Histogram ==
  /\ step = "histogram"
  /\ IF NonNull <= 0 \/ p.range = << >> THEN Answer("duplicates") /\ UNCHANGED p
     ELSE IF p.range[1] = p.range[2]
       THEN Answer("duplicates") /\ Enter([histogram |-> {Bin(0, NonNull)}])
     ELSE \/ Failure("duplicates")
          \/ ~Taken /\ Answer("duplicates") /\ UNCHANGED p
          \/ /\ Taken
             /\ Enter([histogram |->
                         {Bin(i, BucketCount(i)) : i \in {k \in 0 .. 9 : BucketCount(k) > 0}}])
             /\ Answer("duplicates")

\* Rows beyond the first of each group that GROUP BY makes, NULL being one.
Duplicates ==
  /\ step = "duplicates"
  /\ \/ Failure("done")
     \/ /\ Enter([dups |-> Cardinality(Scanned) - Cardinality({rows[r] : r \in Scanned})])
        /\ Answer("done")

\* Somebody inserts, updates or deletes a row.  The sample is the same for
\* every query (REPEATABLE) until then.
Write ==
  /\ step \notin {"open", "count", "done", "failed"}
  /\ writes < MaxWrites
  /\ writes' = writes + 1
  /\ \E r \in RowIds :
       rows' \in ({[x \in DOMAIN rows \cup {r} |-> IF x = r THEN v ELSE rows[x]] : v \in Numbers \cup {Null}}
                    \cup {[x \in DOMAIN rows \ {r} |-> rows[x]]}) \ {rows}
  /\ picked' \in IF p.from = "sample" THEN Samples(rows') ELSE {picked}
  /\ UNCHANGED << request, step, p, errors >>

Init ==
  /\ rows \in Tables
  /\ picked = {}
  /\ request \in [type : Types, sample : SampleSizes]
  /\ step = "open"
  /\ p = << >>
  /\ writes = 0
  /\ errors = 0

Next ==
  \/ OpenSource
  \/ CountTable
  \/ CountSample
  \/ Aggregates
  \/ TopValues
  \/ Stats
  \/ Histogram
  \/ Duplicates
  \/ Write

Spec == Init /\ [][Next]_vars

-----------------------------------------------------------------------------
Measured(metric) == metric \in DOMAIN p

\* The queries of one run add up but for one row a write: what is counted in two
\* or more statements differs by no more than the rows written in between, and
\* without a write not at all, of a sample as well (ProfileTable, profileColumn).
Close(a, b) == a - b <= writes /\ b - a <= writes

CountsAgree ==
  step = "done" /\ (p.from = "table" \/ writes = 0) =>
    /\ p.nulls <= p.rows + writes
    /\ p.distinct <= NonNull + writes
    /\ Measured("top") /\ p.distinct + writes <= TopLimit => Close(SumFunction(p.top), NonNull)
    /\ Measured("top") /\ 0 \in DOMAIN p.top => Close(p.top[0], p.zeros)
    /\ Measured("histogram") =>
         Close(SumFunction([b \in p.histogram |-> b.count]), NonNull)
    /\ Measured("dups") =>
         Close(p.dups, p.rows - p.distinct - (IF p.nulls > 0 THEN 1 ELSE 0))

\* Of a table at rest every bin counts the values between its bounds, although
\* the database sorts the values into buckets and the program labels them, with
\* a range of its own (NumericHistogramQuery, addNumericHistogram).
BinsHoldTheirValues ==
  step = "done" /\ writes = 0 /\ Measured("histogram") =>
    \A b \in p.histogram :
      /\ b.count <= Cardinality({r \in Filled : b.lower <= 10 * rows[r] /\ 10 * rows[r] <= b.upper})
      /\ b.count >= Cardinality({r \in Filled : b.lower < 10 * rows[r] /\ 10 * rows[r] < b.upper})

-----------------------------------------------------------------------------
(* What the documents say and the code does not do                         *)

\* "Use percentiles, standard deviation, skewness, kurtosis, histograms": a
\* numeric column with several values has a histogram when no query fails.
HistogramIsThere ==
  step = "done" /\ errors = 0 /\ writes = 0 /\ p.distinct > 1 => Measured("histogram")

=============================================================================
