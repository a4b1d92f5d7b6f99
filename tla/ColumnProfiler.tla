--------------------------- MODULE ColumnProfiler ---------------------------
(***************************************************************************)
(* One profiling run from the opened source to the stored snapshot:        *)
(*   internal/adapters/profile.go  ProfileTable, profileColumn             *)
(*   internal/adapters/adapter.go  the bounded pool of source connections  *)
(*   internal/worker/manager.go    run: the context, the previous profile, *)
(*                                 SaveProfile                             *)
(*                                                                         *)
(* ProfileTable starts one goroutine per column, lets a few of them query  *)
(* at a time and waits for all.  Every query takes a connection of the     *)
(* pool and gives it back; the context of the run may end at any moment,   *)
(* by its 30 minute timeout or by Manager.Stop.  What a query computes is  *)
(* abstracted to whether its metric is there.                              *)
(***************************************************************************)
EXTENDS Integers, Sequences, FiniteSets

CONSTANTS
  Cols,       \* the columns of the table
  Kinds,      \* the kinds of metrics the type of each column calls for
  Main,       \* the goroutine of ProfileTable itself
  MaxActive,  \* how many columns query at a time (4 in the code)
  MaxConns,   \* connections of the pool (PROFILE_SOURCE_MAX_OPEN_CONNS)
  MaxErrors   \* bound: how many queries fail while the context lives

ASSUME ColumnsAssumption ==
  /\ IsFiniteSet(Cols)
  /\ Main \notin Cols
  /\ Kinds \in [Cols -> SUBSET {"date", "text", "numeric"}]
ASSUME LimitsAssumption ==
  MaxActive \in Nat \ {0} /\ MaxConns \in Nat \ {0} /\ MaxErrors \in Nat

VARIABLES
  ctx,     \* whether the context of the run is done
  main,    \* the query or step ProfileTable, then run, is at
  step,    \* where the goroutine of each column is
  at,      \* the position in its plan of the query a column is at
  open,    \* <<goroutine, query>>: the result sets that hold a connection
  out,     \* the entry of each column in the profile
  first,   \* the column whose error was recorded, or Main if none was
  thin,    \* the goroutines that went on without an optional metric
  errors   \* how many queries failed while the context was live

vars == << ctx, main, step, at, open, out, first, thin, errors >>

Threads == Cols \cup {Main}

\* Queries whose error ends ProfileTable, in order; "sampled" may be skipped.
Required == {"count", "sampled", "columns"}

\* Queries whose error leaves the profile without their result.
Extras == {"relations", "correlations", "duplicates", "previous"}

MainSteps == Required \cup {"wait"} \cup Extras \cup {"save", "saved", "failed"}

ColumnSteps == {"unborn", "waiting", "active", "ending", "done"}

If(b, s) == IF b THEN s ELSE << >>

\* The queries of profileColumn on column c.
Plan(c) ==
  << "aggregates" >>
    \o If("date" \in Kinds[c], << "dates" >>)
    \o << "top" >>
    \o If("text" \in Kinds[c], << "patterns", "entropy" >>)
    \o If("numeric" \in Kinds[c], << "moments", "stats", "histogram", "outliers" >>)

\* The metrics some data does not call for: no value, or one distinct value.
Skippable == {"patterns", "entropy", "histogram"}

Current(t) == IF t = Main THEN main ELSE Plan(t)[at[t]]

Numeric == {c \in Cols : "numeric" \in Kinds[c]}

\* Correlations want at least two numeric columns, and no more than twelve;
\* duplicates want a column.
Wanted ==
  /\ main = "correlations" => Cardinality(Numeric) \in 2 .. 12
  /\ main = "duplicates" => Cols # {}

\* Goroutine t is about to query the source, or waits for the answer.
Querying(t) ==
  IF t = Main
    THEN main \in Required \cup {"relations", "correlations", "duplicates"} /\ Wanted
    ELSE step[t] = "active"

InFlight(t) == << t, Current(t) >> \in open

\* database/sql hands out a connection to a live context only.
Connect(t) ==
  /\ Querying(t) /\ ~InFlight(t)
  /\ ctx = "live"
  /\ Cardinality(open) < MaxConns
  /\ open' = open \cup {<< t, Current(t) >>}
  /\ UNCHANGED << ctx, main, step, at, out, first, thin, errors >>

(***************************************************************************)
(* How the query of t can end: ok needs a connection; an error needs the   *)
(* context to be done, also for one that still waits for a connection, or  *)
(* a failure of the source.  Rows read to the end give the connection back.*)
(***************************************************************************)
Ends(t, ok) ==
  /\ Querying(t)
  /\ \/ InFlight(t) /\ (ok \/ ctx = "done" \/ errors < MaxErrors)
     \/ ~InFlight(t) /\ ctx = "done" /\ ~ok
  /\ errors' = IF ok \/ ctx = "done" THEN errors ELSE errors + 1

Release(t) == open' = open \ {<< t, Current(t) >>}

Thins(t, ok) == thin' = IF ok THEN thin ELSE thin \cup {t}

-----------------------------------------------------------------------------
(* profileColumn, on the goroutine of column c                             *)

\* mutant: no semaphore
GetSlot_Unbounded(c) ==
  /\ step[c] = "waiting"
  /\ step' = [step EXCEPT ![c] = "active"]
  /\ UNCHANGED << ctx, main, at, open, out, first, thin, errors >>

Active == {c \in Cols : step[c] \in {"active", "ending"}}

\* sem <- struct{}{}; select may choose it after the context is done as well.
GetSlot(c) ==
  /\ step[c] = "waiting"
  /\ Cardinality(Active) < MaxActive
  /\ step' = [step EXCEPT ![c] = "active"]
  /\ UNCHANGED << ctx, main, at, open, out, first, thin, errors >>

\* <-ctx.Done(): the goroutine returns and says nothing; out[c] stays zero.
GiveUp(c) ==
  /\ step[c] = "waiting"
  /\ ctx = "done"
  /\ step' = [step EXCEPT ![c] = "done"]
  /\ UNCHANGED << ctx, main, at, open, out, first, thin, errors >>

\* Where in its plan column c may go on: past its end once no query is left.
\* Without the statistics neither histogram nor outliers are queried.
Following(c, ok) ==
  LET end == Len(Plan(c)) + 1 IN
  IF Current(c) = "stats" /\ ~ok THEN {end}
  ELSE {n \in at[c] + 1 .. end : \A k \in at[c] + 1 .. n - 1 : Plan(c)[k] \in Skippable}

GoOn(c, ok) ==
  \E n \in Following(c, ok) :
    /\ at' = [at EXCEPT ![c] = n]
    /\ step' = IF n > Len(Plan(c)) THEN [step EXCEPT ![c] = "ending"] ELSE step

\* The first query, of the aggregates, is the only one whose error counts.
Aggregates(c) ==
  /\ step[c] = "active" /\ at[c] = 1
  /\ \E ok \in BOOLEAN :
       /\ Ends(c, ok)
       /\ IF ok THEN GoOn(c, ok)
          ELSE step' = [step EXCEPT ![c] = "ending"] /\ UNCHANGED at
  /\ Release(c)
  /\ UNCHANGED << ctx, main, out, first, thin >>

\* mutant: the rows of the top values are not read to the end
Metric_KeepsRows(c) ==
  /\ step[c] = "active" /\ at[c] > 1
  /\ \E ok \in BOOLEAN :
       /\ Ends(c, ok)
       /\ GoOn(c, ok)
       /\ Thins(c, ok)
  /\ IF Current(c) = "top" THEN UNCHANGED open ELSE Release(c)
  /\ UNCHANGED << ctx, main, out, first >>

\* Every other query: its error only leaves the metric out.
Metric(c) ==
  /\ step[c] = "active" /\ at[c] > 1
  /\ \E ok \in BOOLEAN :
       /\ Ends(c, ok)
       /\ GoOn(c, ok)
       /\ Thins(c, ok)
  /\ Release(c)
  /\ UNCHANGED << ctx, main, out, first >>

Failed(c) == at[c] = 1

\* mutant: the last result decides, not the first error
Return_LastResult(c) ==
  /\ step[c] = "ending"
  /\ first' = IF Failed(c) THEN c ELSE Main
  /\ out' = IF Failed(c) THEN out ELSE [out EXCEPT ![c] = "profile"]
  /\ open' = {o \in open : o[1] # c}
  /\ step' = [step EXCEPT ![c] = "done"]
  /\ UNCHANGED << ctx, main, at, thin, errors >>

\* profileColumn returns: its deferred rows.Close(), the result under the
\* mutex (a second error leaves a partial entry), the slot, wg.Done().
Return(c) ==
  /\ step[c] = "ending"
  /\ IF Failed(c) /\ first = Main
       THEN first' = c /\ UNCHANGED out
       ELSE /\ out' = [out EXCEPT ![c] = IF Failed(c) THEN "partial" ELSE "profile"]
            /\ UNCHANGED first
  /\ open' = {o \in open : o[1] # c}
  /\ step' = [step EXCEPT ![c] = "done"]
  /\ UNCHANGED << ctx, main, at, thin, errors >>

-----------------------------------------------------------------------------
(* ProfileTable and the end of run                                         *)

\* COUNT(*), the count of the sample when there is one, the columns; MySQL and
\* SQL Server refuse to sample.  Then one goroutine per column is started.
Require ==
  /\ main \in Required
  /\ \E ok \in BOOLEAN :
       /\ Ends(Main, ok)
       /\ main' \in IF ~ok THEN {"failed"}
                    ELSE IF main = "count" THEN {"sampled", "columns", "failed"}
                    ELSE IF main = "sampled" THEN {"columns"}
                    ELSE {"wait"}
  /\ step' = IF main' = "wait" THEN [c \in Cols |-> "waiting"] ELSE step
  /\ Release(Main)
  /\ UNCHANGED << ctx, at, out, first, thin >>

\* mutant: the first error ends the wait
Wait_FirstError ==
  /\ main = "wait"
  /\ first # Main \/ \A c \in Cols : step[c] = "done"
  /\ main' = IF first = Main THEN "relations" ELSE "failed"
  /\ UNCHANGED << ctx, step, at, open, out, first, thin, errors >>

\* wg.Wait() has returned.
Wait ==
  /\ main = "wait"
  /\ \A c \in Cols : step[c] = "done"
  /\ main' = IF first = Main THEN "relations" ELSE "failed"
  /\ UNCHANGED << ctx, step, at, open, out, first, thin, errors >>

AfterExtra == [relations |-> "correlations", correlations |-> "duplicates",
               duplicates |-> "previous"]

\* Relationships, correlations (one query a pair, here one for all) and
\* duplicates are left out on an error.
Extra ==
  /\ main \in DOMAIN AfterExtra
  /\ main' = AfterExtra[main]
  /\ IF Wanted
       THEN \E ok \in BOOLEAN : Ends(Main, ok) /\ Thins(Main, ok)
       ELSE UNCHANGED << thin, errors >>
  /\ Release(Main)
  /\ UNCHANGED << ctx, step, at, out, first >>

\* GetPreviousProfile, of the metadata store; without it there is no drift.
Previous ==
  /\ main = "previous"
  /\ main' = "save"
  /\ UNCHANGED << ctx, step, at, open, out, first, thin, errors >>

\* mutant: SaveProfile is called with context.Background()
Save_Background ==
  /\ main = "save"
  /\ main' = "saved"
  /\ UNCHANGED << ctx, step, at, open, out, first, thin, errors >>

\* SaveProfile is called with the context of the run: a context that is done
\* makes it fail, and so does an error of the metadata store.
Save ==
  /\ main = "save"
  /\ main' \in IF ctx = "live" THEN {"saved", "failed"} ELSE {"failed"}
  /\ UNCHANGED << ctx, step, at, open, out, first, thin, errors >>

\* The 30 minutes are over, or Manager.Stop cancels the context of its workers.
Cancel ==
  /\ ctx = "live"
  /\ ctx' = "done"
  /\ UNCHANGED << main, step, at, open, out, first, thin, errors >>

-----------------------------------------------------------------------------
Init ==
  /\ ctx = "live"
  /\ main = "count"
  /\ step = [c \in Cols |-> "unborn"]
  /\ at = [c \in Cols |-> 1]
  /\ open = {}
  /\ out = [c \in Cols |-> "zero"]
  /\ first = Main
  /\ thin = {}
  /\ errors = 0

ColumnStep(c) ==
  \/ Connect(c)
  \/ GetSlot(c)
  \/ GiveUp(c)
  \/ Aggregates(c)
  \/ Metric(c)
  \/ Return(c)

MainStep ==
  \/ Connect(Main)
  \/ Require
  \/ Wait
  \/ Extra
  \/ Previous
  \/ Save

Next ==
  \/ \E c \in Cols : ColumnStep(c)
  \/ MainStep
  \/ Cancel

\* Goroutines are scheduled and a query ends, at the latest with the context.
Fairness == WF_vars(MainStep) /\ \A c \in Cols : WF_vars(ColumnStep(c))

Spec == Init /\ [][Next]_vars /\ Fairness

-----------------------------------------------------------------------------
\* The types, and the two limits: the columns that query at a time and the
\* connections of the pool.
TypeOK ==
  /\ ctx \in {"live", "done"}
  /\ main \in MainSteps
  /\ step \in [Cols -> ColumnSteps]
  /\ at \in [Cols -> Nat \ {0}]
  /\ out \in [Cols -> {"zero", "partial", "profile"}]
  /\ first \in Threads
  /\ thin \subseteq Threads
  /\ errors \in 0 .. MaxErrors
  /\ IsFiniteSet(open) /\ Cardinality(open) <= MaxConns
  /\ Cardinality(Active) <= MaxActive

Returned == {"relations", "correlations", "duplicates", "previous", "save", "saved", "failed"}

\* A stored snapshot has the profile of every column, although a goroutine that
\* meets a done context returns without an error and leaves a zero entry.
SavedIsWhole == main = "saved" => \A c \in Cols : out[c] = "profile"

\* A stored snapshot lacks an optional metric only if a query of the source
\* failed: that the context ended during the run never shows in it.
CancelLosesNothing == main = "saved" /\ errors = 0 => thin = {}

\* When ProfileTable goes on or returns, and run closes the adapter, no
\* goroutine of it still queries the source or holds a connection.
NoLateGoroutine ==
  main \in Returned =>
    /\ \A c \in Cols : step[c] \in {"unborn", "done"}
    /\ \A o \in open : o[1] = Main

\* What the three properties above rest on, at every step of the run.
RunInv ==
  /\ main \in Required => \A c \in Cols : step[c] = "unborn"
  /\ main \in Returned \ {"failed"} => first = Main /\ \A c \in Cols : step[c] = "done"
  /\ main \in Returned => \A c \in Cols : step[c] \in {"unborn", "done"}
  /\ \A c \in Cols : step[c] = "done" => out[c] = "profile" \/ first # Main \/ ctx = "done"
  /\ \A o \in open : o[1] \in Threads /\ (o[1] # Main => step[o[1]] \in {"active", "ending"})
  /\ ctx = "live" /\ errors = 0 => thin = {}
  /\ SavedIsWhole
  /\ CancelLosesNothing

\* The run comes to its end whatever fails, however small the pool is: no
\* goroutine holds a connection while it waits for another.
RunEnds == <>(main \in {"saved", "failed"})

=============================================================================
