# A verification model of the Go data profiler

The profiler accepts jobs over HTTP, runs them on a pool of worker goroutines
against a source database, and stores what it measured in a metadata database.
This directory models that program in TLA+, model-checks it with TLC on small
instances and proves the central invariants with TLAPS for every instance.
Line numbers refer to `src/` at the modelled commit; `PROJECT.json` maps every
definition to the lines it stands for.

## 1. The system

| Part | State it keeps | Operations | Hard behaviour |
|---|---|---|---|
| server lifecycle (`cmd/server/main.go`) | where the process is between boot and exit | boot, `Start`, signal, `Shutdown` (20 s), `db.Close`, deferred `Stop` | the order of the last three; late handlers; kills |
| job manager (`internal/worker/manager.go`) | channel of 1000 ids, worker goroutines, `started`/`stopped`, the cancel function | `Start`, `Stop`, `failQueuedJob`, `Enqueue`, `Create`, `loop`, `run` | check then send; drained channel; transient store errors; the 30 minute timeout; restart recovery |
| metadata store (`internal/store/store.go`, `migrations/`) | tables `jobs` and `profiles` | one SQL statement per method | outlives processes; a call may fail before or after it was applied; several instances |
| HTTP API (`internal/api/router.go`) | none | `POST /profile-jobs`, reads of jobs, results, history, drift | concurrent requests, retries under one idempotency key |
| table profiler (`internal/adapters/profile.go`) | result slots, semaphore, first error | `ProfileTable`, one `profileColumn` goroutine a column | first error against later results; context that ends between two queries; goroutines that outlive the call; a table that changes between two queries |
| source adapter (`internal/adapters/adapter.go`) | bounded pool of connections | `Open`, `Close`, the choice between table and sample, dialects | a pool smaller than the goroutines that want it; limits from the environment; queries a database refuses |
| PII detection (`internal/pii/detect.go`) | none | `DetectProfile` | iteration over a map; two scales of evidence; patterns that overlap |
| quality (`internal/quality/quality.go`) | none | `Evaluate` | checks and deductions decided apart; thresholds at their boundary |
| drift (`internal/drift/drift.go`) | none | `Compare` | deltas at the threshold, empty denominators |
| profile history (`run`, `GetPreviousProfile`, `GetProfileHistory`) | the rows of `profiles` of one schema and table | measure, stamp, read the baseline, store, list | concurrent runs of one table; sources that have a table of one name |

How they interact: a handler calls `Manager.Create`, which writes the row and
sends the id over the channel; a worker takes it, moves the row to running,
opens an adapter, profiles the table, labels, scores and compares the result,
stores it and writes the final status. Handlers, workers and `Stop` share the
channel and the flag `stopped`; everything else they tell each other goes
through the metadata database, which is also all that a restarted process or
another instance knows.

What makes the parts correct:

* **job manager and store** - answers to one key name one job; a job is in one
  place at a time; ended jobs stay as they are; a running row has its worker;
  a completed job has a result; nothing accepted is left behind; shutdown ends.
* **table profiler** - a stored snapshot is whole; a cancelled run stores
  nothing half done; goroutines and connections stay within their limits and
  end with the call; the run ends however small the pool is; counts of different
  queries agree but for what was written in between; a bin holds the values its
  bounds say.
* **PII, quality, drift** - the checks explain the score; laxer rules never
  lower it; drift is symmetric; more evidence never lowers the confidence; a
  mistyped card number counts against its column.
* **history** - the baseline is never older than what was stored before the
  run; an undisturbed run reports the drift since its predecessor; a history
  without a reported change is one in which nothing but percentages moved, and
  those by less than the threshold for each entry.

## 2. Modules

    MetadataStore ── JobManager ── JobProperties ── MCJobManager
                                        │  └─ (INSTANCE) JobLifecycle
                                        └─ JobManager_proofs ── JobLifecycle_proofs ── JobRuns_proofs
    SourceAdapter ── MCColumnProfiler, TableMetrics ── MCTableMetrics
                                            └─ TableMetrics_proofs ── SumLemmas
    ColumnProfiler ── MCColumnProfiler, ColumnProfiler_proofs
    PIIDetection ── ValueEvidence
    Quality, Drift, ValueEvidence ── Analysis ── AnalysisProperties ── MCAnalysis
                                        │               └─ Analysis_proofs ── SumLemmas
                                        └─ ProfileHistory ── MCProfileHistory,
                                                             ProfileHistory_proofs

**MetadataStore** has one operator per statement of `store.go`. `jobs` holds
status, a class of error text and the key of each row; `snapshots` counts the
profiles of a job; `stale` is the set of running rows whose `started_at` is
older than `staleAfter` (time itself is not modelled: any running row may become
stale at any moment, `Age`). Ids are numbered in the order of `created_at`, so
"oldest first" is the order of the numbers. The partial unique index of
`migrations/003` is `Conflicts`, and `HasProfile` is the read behind the result
endpoint.

**JobManager** composes the store with any number of processes, each with a
channel, workers and handlers. `phase[p]` is where `main` is:

| phase | code | next |
|---|---|---|
| `down` | no process | `Boot` |
| `starting`, `listing` | the two halves of `Start` | `StartRecover`, `StartRequeue` |
| `serving` | `<-sig` | `Signal` |
| `draining` | `srv.Shutdown` | `CloseStore`, with or without waiting for the handlers (20 s) |
| `closed` | `db.Close` returned | `Stop` |
| `stopping` | in `Stop`: cancelled, waiting for the workers, emptying the channel | `FailQueuedJob`, `Exit` |

A handler walks `Create` and `Enqueue` statement by statement (`Arrive`, `Lookup`,
`CheckStopped`, `Insert`, `Relookup`, `EnqueueCheck`, `Send`, `Refuse`), a worker
walks `loop` and `run` (`Take`, `MarkRunning`, `ProfileFails` or `ProfileAndSave`,
`Finish`, `WorkerExit`). `GetJob` and the `UpdateJob` after it are one step in
`MarkRunning` and `FailQueuedJob`: the update overwrites every column the read
could have changed and, for `MarkRunning`, the read decides nothing. Every
store call has an outcome: applied, lost, or applied with a lost answer; after
`db.Close` all are lost. `Crash` removes a process between any two steps.

**JobLifecycle** is the abstract specification: absent, queued, running,
completed or failed, nothing else. **JobProperties** states the properties and
the inductive invariants.

**ColumnProfiler** is one run from the opened source to `SaveProfile`: the main
goroutine's queries in order, a goroutine per column with its plan of queries,
the semaphore, the pool, the first error and the context, which may end at any
step. A query is abstracted to whether it held a connection, succeeded, and
left its metric. `Return` merges the steps `rows.Close`, the write under the
mutex, the release of the slot and `wg.Done` of one goroutine; they commute with
the steps of all others because what they release only enables.

**SourceAdapter** is what the dialects and `Open` decide: which types have a
driver, what the variables of the environment make of the pool, whether a run
reads the table or a sample, which bucket of a histogram a value is in, and which
of the optional queries of a numeric column a database takes (`Takes`, section
4). `columns` runs with the pool that `MaxOpenConns` makes of its environment.

**TableMetrics** is the value side of one run: `Open`, `COUNT(*)`, the sample, and
the queries of a numeric column in their order, each a statement that sees the
table as it is then, while `Write` inserts, updates or deletes a row in between.
The table is a function from row ids to values, so every count is what SQL would
answer. A field of the profile `p` is there once its query succeeded, as a
pointer or slice of `ColumnProfile` is. `TABLESAMPLE` is any subset of at most
the size asked for, none included, and the same for every query (`REPEATABLE`)
until somebody writes. `Enter` is the scan of a query's row into the fields of the
profile. ColumnProfiler has what this module leaves out
(goroutines, pool, context) and the other way round; a run of both together
would multiply the interleavings of the one with the tables of the other
without a step that depends on both.

**Quality**, **Drift** and **PIIDetection** are the pure packages as operators.
Percentages are fractions of counts, compared exactly; strings are replaced by
what they decide (type class of a column, labels its header matches). A type is
in one class: no type name of the supported databases is in two. The list of
drift changes is a set. **ValueEvidence** is what the top values of a column say:
a value is a shape that the regular expressions tell apart, its digits, its
length and its octets; the checksum, the ranges, the lengths and the ratio are
computed. **Analysis** composes them into the profile of a table (`Labelled` is
the loop of `run` that writes the label into the column), **AnalysisProperties**
observes a table again and again, with any contents and rules of a subject. For
the properties about card numbers a value of a subject also has the digits that
were `meant`; the code sees those that are there.

**ProfileHistory** lets workers measure, analyse, stamp, compare and store while
the table changes, in each of several sources: a snapshot does not name its
source, so all of them share one history (`GetPreviousProfile` looks for schema
and table). `Listed` is the answer of the history endpoint. `created_at` is one
counter for all instances: clocks that disagree, and equal stamps, are
excluded.

## 3. What TLC checks

| Run | Instance | Shows |
|---|---|---|
| `job_single` | 1 process, 2 workers, 2 handlers, 2 jobs, channel of 1, 2 crashes, 1 signal, 1 store failure | `TypeOK`, `ExclusiveHandling`, `NoOrphanedRun`, `SnapshotsBounded`, `EndedIsFinal`, and that one instance implements `JobLifecycle` (`RefinesLifecycle`) |
| `job_replicas` | 2 processes with a worker and a handler each, 1 crash, 1 signal, 1 store failure | `ExclusiveHandling` in each, `SnapshotsBounded`, `IdempotentAnswers`, `CompletedHasSnapshot` |
| `job_live` | 1 process, 3 jobs, channel of 3, 1 crash, 1 signal, 1 store failure, fairness | `NoStrandedJob`, `QueuedJobsSettle`, `ShutdownCompletes` |
| `columns` | 4 columns (text, date, two numeric), 3 slots, the 2 connections of an environment, 1 failing query | `TypeOK`, `SavedIsWhole`, `CancelLosesNothing`, `NoLateGoroutine`, `RunEnds` |
| `metrics` | up to 3 rows of 4 numbers or NULL, 2 writes, 1 failing query, every type of source and one without a driver, the table or a sample of 1 or 2 | `CountsAgree`, `BinsHoldTheirValues` |
| `analysis` | every pair of profiles of tables of 20 rows under 5 rule sets; columns of two card numbers before and after one is mistyped | `ScoreIsExplained`, `LooserRulesScoreHigher`, `DriftMirrors`, `EvidenceAdds`, `ConfidenceTellsTypos` |
| `history` | 2 workers, 3 runs, 2 sources, a table with 5 contents | `FreshBaseline`, `DriftSincePrevious`, `QuietHistoryAgrees`, `CreepIsBounded` |

Five more runs, of section 4, each find one behaviour a document denies.

Why the bounds are enough: the actors of the job manager meet in pairs (two
handlers with one key, a handler and a worker at one id, a worker and `Stop`, two
instances), so two of each show every pair; two crashes are the fewest that
interrupt a recovered run again; a channel of one fills with the second job,
and `job_live` needs a channel with room for every job for the assumption of
`NoStrandedJob` to hold. In `columns` there are more columns than slots and more
slots than connections, so both limits block somebody; two numeric columns make
correlations happen. The tables of `analysis` have twenty rows so that the
thresholds (20, 80, 95 percent) are met, missed and passed by one row; its cards
have 13, 16 and 19 digits, so that both parities and both ends of the length
meet every digit, and a typo is any one digit or any two neighbours, which is
what the checksum promises to find. Two overlapping runs and a third are the
fewest in which a baseline can be outdated; the five contents of `history` are one,
two more that creep away from it by 5 percent each (below the threshold of 10
from one to the next, and at it from the first to the third), one with a shift
above the threshold, and one with another column.
In `metrics` two writes change what two queries have counted already, three rows
make a tie and a lead among the top values of which two are kept, and the
numbers are zero, both signs, and ranges that ten buckets divide (-1 to 9) and
do not (0 to 9, 3 to 9).
`Goroutines` and `Interchangeable` are symmetric because nothing in the code
tells the goroutines of a process apart; no run with a liveness property uses
symmetry (`EndedIsFinal` and `RefinesLifecycle` of `job_single` are safety).

Deadlock is not checked: a served client may never return, a run ends, and the
histories are bounded.

Properties stated for one instance have the guard `SingleInstance`: the
repository's README (line 354) names claiming jobs between instances as a
known limitation, and two instances do run a job twice. `ExclusiveHandling` and
`SnapshotsBounded` hold for any number: an instance has a job in one place
whatever the others do with it, and a job that several run has no more snapshots
than processes had lives.

`QueuedJobsSettle` asks that a queued job ends once no store call fails any more,
when it is in hand or a process that is on its way up will list it. What lets a
job out is the state of its row at that moment, running without a worker: that
is what a kill and a shutdown leave behind (`job_stuck`, `job_shutdown`), and a
job that was queued when a process died, or came later, is not let out by it. A
queued job that a failed call took out of hand waits for a restart, as the code
has it, and ends after that.

### Fairness

`FairSpec` of `JobManager` has weak fairness of each handler's, worker's and
process's own steps and of time: goroutines are scheduled, a query returns at
the latest with the 30 minute timeout, and `deploy/k8s/deployment.yaml` restarts a
pod that ended (`Boot` is a step of the process). Requests, signals, crashes and
store failures are never fair. `ColumnProfiler` has weak fairness of the main
goroutine and of each column: a query that holds a connection ends, a waiting
goroutine gets a free connection or slot unless others keep taking it, which
they do a bounded number of times only.

## 4. Where the code and its documents disagree

Each of the first five has a run of its own in which TLC finds the behaviour.

* `job_shutdown` - `main.go:46` closes the metadata pool before the deferred
  `Stop`, so "job cancelled during profiler shutdown" (`manager.go:80`) is never
  stored. `ShutdownSettlesJobs` is about the two steps that owe a write, `Stop`
  taking a job off the channel and a run that ends; TLC's trace sends a job, closes
  the store, stops, and takes the job off the channel with its row still queued.
  A handler cut off before `Enqueue` is not counted against it.
* `job_stuck` - "Stale-running recovery prevents crashes from permanently leaving
  jobs running" (`docs/Go_Data_Profiler_Master_Copy.md`, line 153): recovery runs
  at startup only and takes stale rows only, so a quick restart leaves the row
  running for ever.
* `history_quiet` - the "No-change response" (same document, line 146): a column
  that two header rules match changes its label with the order of a Go map.
* `pii_cards` - "expected credit_card" (`internal/pii/detect_test.go:64`): the
  labels are tried in an order in which card numbers pass for phone numbers
  (`detect.go:64`), so a column of cards under a name that says nothing is
  labelled phone. The run is the column of that test.
* `metrics_histogram` - "Use percentiles, standard deviation, skewness, kurtosis,
  histograms" (`README.md:235`): the parentheses of PostgreSQL's histogram query
  (`adapter.go:130`) do not nest, the database refuses the statement, and
  `addNumericHistogram` returns without a word.

Read while modelling and left without a run:

* "job queue is full; retry later" (`manager.go:99`): the retry under the same key
  is answered 202 with the refused job (`manager.go:91`), as `Lookup` shows.
* "snapshots per completed job" (`docs/DATA_MODEL.md:5`): a crash between the two
  last writes and a failing second run leave a failed job with a snapshot.
* "compared with the previous profile" (master copy, line 55): of overlapping runs
  one compares with an older snapshot; `FreshBaseline` says how old.
* The `UpdateJob` that fails a refused job may fail itself (`manager.go:100`): the
  client was told "queue full" and the job runs after a restart.
* "Value evidence is stronger than a generic header" (master copy, line 116): a
  column whose name matches a rule gets that label whatever its values match.
* SQL Server refuses the optional numeric queries: it has no `LIMIT`, and no
  `STDEV` beside `PERCENTILE_CONT ... OVER ()`. `Takes` says so; only PostgreSQL's
  statement is refuted by a run, because it is the one whose text alone shows it.

## 5. What is proved

All theorems are for every value of the constants, from the named assumptions of
the modules: `Keys` without `NoKey`, finitely many processes, a host for every
goroutine, a positive channel, natural bounds (`JobManager`, `MetadataStore`); finitely many columns, positive
limits (`ColumnProfiler`); `SubjectsAssumption` (`AnalysisProperties`): a table has
finitely many columns and top values, its counts are natural numbers, its
headers match known labels; rows are finitely many and hold NULL or an integer,
the top values kept are at least one (`TableMetrics`); rows, nulls, distinct
values and outliers of a table are natural numbers (`ProfileHistory`). Nothing is
assumed for `SourceAdapter`.

**Sums and finite sets** (`SumLemmas`). The model adds with `SumFunction` of the
community modules, which is defined by recursion over subsets, and the library's
induction theorems take an operator as a parameter, which the provers cannot
instantiate. The lemmas therefore go by the smallest counterexample
(`SubsetInduction`, `UpTo`: a set of bad subsets, or of bad numbers, has a minimal
element because the order is well-founded). From there: the recursion has a
solution (`PartialsExist`), a sum does not depend on the order (`SumRemove`), and
what the proofs below use: bounds, the change of one summand (`SumChange`), a
split (`SumSplit`), and that the sizes of the fibres of a map add up to the size
of its domain (`SumFibers`).

**Job manager, rows** (`JobManager_proofs`).
`TypeCorrect`: the step of interest is the channel, where `Send` tests the length
and `StartRequeue` takes at most `Cap` ids. `Idempotency` and `CompletedHasResult`,
for any number of instances, from `RowInv`. `IdempotentAnswers` alone is not
inductive: a handler answers with a row it saw, or with its own, so one has to
know that rows carry the key of their handler (`RowsInHand`), that no two
handlers hold one id (`NamedJobs`), and that the index keeps keys apart
(`UniqueKeys`). `CompletedHasSnapshot` needs that a worker about to write
"completed" has saved (`SavedFirst`). `Exclusion`, for any number of instances, from
`ExclusiveHandling` itself with `QuietStart` (a process that lists the queued rows
holds none yet) and `RowInv`: whatever other instances do with a row, an id gets
into an instance by the listing of its start, once, or by the insert of one of
its handlers, and is passed on, never copied (`HoldsNoMore`). For one instance
`HandInv` says more: what is in hand is queued in the channel and at the handler,
running at its worker (`StatusInHand`), and nobody else has it (`OneHolder`).

**Job manager, lifecycle** (`JobLifecycle_proofs`). By `HandInv` whoever writes a
row knows its status, so every step makes one of few moves in the store
(`StoreMove`): insert an absent row, move a queued or running one on, save a
snapshot of a running one, recover stale rows. Each is a step of `JobLifecycle`
or none (`LifecycleImplemented`), and none touches an ended row
(`EndedStaysFinal`), although no statement of the store tests the status.

**Job manager, runs** (`JobRuns_proofs`). `OneSnapshotALife`, for any number of
instances, from `LivesInv`: a snapshot of a job uses up the life of one process,
which may not run that job again before it ends. So the snapshots, and the
processes that may still run the job (`MayRun`), are no more than all processes and
the lives that are over. Those are `crashes + signals` less the signalled processes
that are still on their way out (`Leaving`), because a signal is counted before
the life ends; that the sizes are numbers rests on finitely many processes
(`Counts`). `RunsAreHeld`, for any number of instances, from `CalmInv`: while nothing
ended or failed every process is on its way up or serves, and its workers start
after the listing (`OffBefore`). `NoJobIsStranded`, from `AllHeld`:
the listing of a restart takes the oldest `Cap` rows, and with no more jobs than
that it leaves out none, which is a pigeonhole argument (`OldestHoldsAll`).

**Table profiler** (`ColumnProfiler_proofs`). `TypeCorrect`, `WholeSnapshots`,
`NothingLostToCancel`, `NoneLate`, from `RunInv`. The point of `WholeSnapshots` is that
a goroutine that gave up without an error left a context that is done, and `Save`
needs a live one.

**Source** (`TableMetrics_proofs`). `PoolLimits`: any environment makes a pool with
a connection, which is what `ColumnProfiler` assumes. `BucketHolds`: the bucket of
a value, computed by the database, lies between the bounds the program labels it
with, for every range and value.

**Table metrics** (`TableMetrics_proofs`). `RunAddsUp` and `BinsAreLabelledRight`, for
tables of any size and any number of writes, from `MetricsInv`. `CountsAgree`
compares fields of the profile with each other at the end; what is inductive
compares each with what the same query would count now (`Slack`): rows, values,
zeros, distinct values, and rows beyond the first of a group, each off by no
more than the number of writes. A write changes one row, and one row changes each
of the five by at most one (`RowWritten`, from `RowMore`), which pays for the one
more write; a query brings its count to the present. Of the fifth, the number of
groups is that of the values and one more for NULL (`NullIsAValue`). The top values
add up to all when the limit leaves out none, and so do the bins, by `SumFibers`
(`AllValues`, `BinsAddUp`: no two bins have the same bounds). Samples are covered
while nobody writes (`Steady`), as in `CountsAgree`. `BinsHold` needs that the range
of the aggregates is still that of the values (`Ranges`), which is what a write
breaks, and both directions of the bucket: a value in it lies between its bounds
(`BucketHolds`), a value strictly between them lies in it (`BucketBetween`).
`MetricsInv` was checked by TLC on the instance of `metrics` as well.

**Analysis** (`Analysis_proofs`), for tables of any size and any rules, from `SeenInv`
(both observations are profiles of a state of the subject).

* `DriftIsMirrored`: a comparison of two percentages is the same both ways
  (`DeltaMirrors`).
* `EvidenceCounts`: a detection with the same label grows with its evidence on
  either of the two scales (`MoreIsSurer`).
* `LooserRulesCount`: no deduction of a column grows with a looser rule
  (`LooserDeducts`), so neither does their sum (`SumMonotone`), and a score that is
  cut off at 0 keeps the order.
* `ScoresAreExplained`: `Evaluate` decides checks and deductions apart; that each
  failed check costs a fixed number of points and nothing else does
  (`CostIsDeduction`) makes the score a function of the failed checks
  (`CostOfTable`).
* `TyposAreTold`: the checksum of the code, which doubles and subtracts 9, is that
  of the standard, which adds digits (`LuhnIsTheStandard`); one wrong digit changes
  the sum by what is no multiple of 10, and so do two neighbours that changed
  places, but for 0 and 9 (`OneDigit`, `TwoDigits`, `SumChange`), whichever parity
  the length has (`LuhnTellsTypos`). The rows that match the label are then those
  that are right (`MatchesAreRight`), and the rounded ratio of the code meets the
  two thresholds exactly where the fraction does (`Quotient`).

**History** (`ProfileHistory_proofs`). `FreshBaselines`, from `BaselineInv`: the
snapshots a run saw stay stored, and the latest of a larger set is no older.
`DriftIsSincePrevious` and `QuietHistoriesAgree`, from `HistoryInv`: stamps are
unique and of the past (`ClockInv`), a run that overlaps no other is stamped after
everything that is stored (`AloneInv`) and compared with the latest of it
(`ComparedInv`); agreement is then carried from each snapshot to the next
(`QuietInv`). This includes runs in different sources. `CreepBounded`, from
`CreepInv`: one comparison without a change keeps each percentage within its
threshold (`UnchangedNear`), such distances of fractions add up (`Triangle`), and a
snapshot more is an entry more; `CountedInv` gives the fractions their numbers.

**Only model-checked**: the liveness properties (`QueuedJobsSettle`,
`ShutdownCompletes`, `RunEnds`) and everything about fairness and ENABLED, which
TLAPS does not reach. Every invariant and every action property of a passing run
is a theorem. No module that a theorem reaches has a RECURSIVE operator.

## 6. What is not modelled

* the regular expressions and the normalisation of names (a value is the shape
  they decide, a name the labels it matches), and wording, validation, redaction
  and encoding anywhere;
* the values of means, moments, quantiles, outliers, correlations, entropy,
  patterns and text lengths, which the program passes on as a database or a
  formula gives them: whether they are there is `ColumnProfiler`; floating point
  (fractions are exact);
* the text of the SQL beyond sampling, buckets and whether a database takes a
  query; `DiscoverColumns`, which nothing calls;
* clocks of two instances that disagree, and equal stamps;
* most of the configuration (constants here), health, metrics and logging,
  deployment files and fixtures: no state of the system depends on them.

A failing `Open` is one way for `ProfileFails` in `JobManager`, and a step of its
own in `TableMetrics`.

## 7. Plan

1. Job manager with its store, lifecycle, properties, runs and theorems; column
   profiler with its theorems; analysis and history with theirs; source adapter,
   value evidence and table metrics (done).
2. Model more: text and date columns in `TableMetrics` (empty, blank and future
   counts against the rows); header evidence against value evidence of another
   label as a property of its own; a composition of `ColumnProfiler` with the
   `running` step of `JobManager`.
3. Prove more: that `ColumnProfiler`, abstracted to its outcome, implements the
   steps `ProfileFails` and `ProfileAndSave` of `JobManager`; what `HistogramIsThere`
   needs of a dialect to hold.
