---------------------------- MODULE SourceAdapter ----------------------------
(***************************************************************************)
(* internal/adapters/adapter.go: the connection to a source, and what the  *)
(* dialects differ in beyond the wording of their queries.  The type of a  *)
(* source is in lower case, as Open makes it.                              *)
(***************************************************************************)
EXTENDS Integers

\* The driver of each type that has one; snowflake is refused by name.
Driver == [postgres |-> "pgx", postgresql |-> "pgx", mysql |-> "mysql", sqlserver |-> "sqlserver"]

Dialect(type) == IF type = "postgresql" THEN "postgres" ELSE type

\* A variable of the environment: 0 stands for one that is not set or holds no
\* number.  getInt of internal/config does the same for JOB_WORKERS.
EnvInt(v, fallback) == IF v < 1 THEN fallback ELSE v

\* The limits of the pool of a run.
MaxOpenConns(env) == EnvInt(env.open, 4)

MaxIdleConns(env) ==
  LET idle == EnvInt(env.idle, 2)
  IN  IF idle > MaxOpenConns(env) THEN MaxOpenConns(env) ELSE idle

\* What the queries of a run read: the table, or a sample that only PostgreSQL
\* takes.
SampleTableExpr(dialect, sample, total) ==
  IF sample <= 0 \/ total <= sample THEN "table"
  ELSE IF dialect = "postgres" THEN "sample"
  ELSE "refused"

\* The optional queries of a numeric column that a database takes.  The histogram
\* query of PostgreSQL closes one parenthesis too many, before the second argument
\* of NULLIF; SQL Server knows no LIMIT, and no percentiles OVER () beside STDEV.
Takes == [postgres |-> {"top", "stats"}, mysql |-> {"top", "stats", "histogram"}, sqlserver |-> {}]

\* mutant: the greatest value has a bucket of its own
Bucket_Unclamped(x, lo, hi) == IF lo = hi THEN 0 ELSE (10 * (x - lo)) \div (hi - lo)

\* The bucket of x among ten from lo to hi; hi itself is in the last.
Bucket(x, lo, hi) ==
  IF lo = hi THEN 0
  ELSE LET i == (10 * (x - lo)) \div (hi - lo) IN IF i > 9 THEN 9 ELSE i

=============================================================================
