---------------------------- MODULE MetadataStore ----------------------------
(***************************************************************************)
(* The metadata database of the profiler as internal/store/store.go and    *)
(* migrations/ use it: the table jobs and the table profiles.  It outlives *)
(* every server process and serialises single statements; each operator    *)
(* below is the effect of one statement.                                   *)
(*                                                                         *)
(* A job id is the position of its created_at among all the created_at     *)
(* values the servers hand out, so ORDER BY created_at is the order of the *)
(* ids.  Of the request, the start and finish times and the payload only   *)
(* what the statements test is kept: whether a running row was started     *)
(* longer ago than staleAfter, and how many snapshots a job has.           *)
(***************************************************************************)
EXTENDS Integers, Sequences

CONSTANTS
  MaxJobs,  \* bound: how many jobs are ever submitted
  Keys,     \* the idempotency keys clients use
  NoKey     \* the empty Idempotency-Key header, stored as NULL

ASSUME JobsAssumption == MaxJobs \in Nat
ASSUME KeysAssumption == NoKey \notin Keys

VARIABLES
  jobs,       \* the rows of jobs, by id
  snapshots,  \* how many rows of profiles each job has
  stale       \* the running rows with started_at < now - staleAfter

storeVars == << jobs, snapshots, stale >>

Jobs == 1 .. MaxJobs

Statuses == {"absent", "queued", "running", "completed", "failed"}

Errors == {"none", "queue full", "cancelled", "recovered", "run failed"}

Row == [status : Statuses, error : Errors, key : Keys \cup {NoKey}]

NoRow == [status |-> "absent", error |-> "none", key |-> NoKey]

Queued  == {j \in Jobs : jobs[j].status = "queued"}
Running == {j \in Jobs : jobs[j].status = "running"}

\* SELECT ... WHERE idempotency_key = k: at most one row, by the unique index.
\* A NULL key equals nothing.
RowsWithKey(k) ==
  {j \in Jobs : jobs[j].status # "absent" /\ jobs[j].key = k /\ k # NoKey}

\* INSERT INTO jobs of a fresh id.  The unique index on idempotency_key makes
\* the statement fail when Conflicts(k).
Conflicts_NoIndex(k) == k # k  \* mutant: the unique index is missing

Conflicts(k) == RowsWithKey(k) # {}

CreateJob(j, k) ==
  /\ jobs' = [jobs EXCEPT ![j] = [status |-> "queued", error |-> "none", key |-> k]]
  /\ UNCHANGED << snapshots, stale >>

\* UPDATE jobs SET status, error, started_at, finished_at WHERE id = j: it
\* overwrites whatever the row says.  A row that becomes running starts now.
UpdateJob(j, status, error) ==
  /\ jobs' = [jobs EXCEPT ![j].status = status, ![j].error = error]
  /\ stale' = stale \ {j}
  /\ UNCHANGED snapshots

\* One UPDATE moves every stale running row back to queued.
RecoverStaleRunningJobs ==
  /\ jobs' = [j \in Jobs |->
                IF j \in Running \cap stale
                  THEN [jobs[j] EXCEPT !.status = "queued", !.error = "recovered"]
                  ELSE jobs[j]]
  /\ stale' = {}
  /\ UNCHANGED snapshots

\* The set with the one sequence of the oldest ids of S, at most limit of them.
Oldest(S, limit) ==
  {s \in UNION {[1 .. n -> S] : n \in 0 .. limit} :
     /\ \A a, b \in DOMAIN s : a < b => s[a] < s[b]
     /\ \A j \in S :
          \/ \E a \in DOMAIN s : s[a] = j
          \/ Len(s) = limit /\ \A a \in DOMAIN s : s[a] < j}

\* mutant: the limit is one short
ListQueuedJobs_OneShort(limit) == Oldest(Queued, limit - 1)

\* mutant: only rows without an error are listed
ListQueuedJobs_NoError(limit) ==
  Oldest({j \in Queued : jobs[j].error = "none"}, limit)

\* mutant: no WHERE clause
ListQueuedJobs_All(limit) == Oldest({j \in Jobs : jobs[j].status # "absent"}, limit)

\* SELECT ... WHERE status = 'queued' ORDER BY created_at LIMIT limit.
ListQueuedJobs(limit) == Oldest(Queued, limit)

\* INSERT INTO profiles: one more snapshot of the job, whatever its status.
SaveProfile(j) ==
  /\ snapshots' = [snapshots EXCEPT ![j] = @ + 1]
  /\ UNCHANGED << jobs, stale >>

\* SELECT ... FROM profiles WHERE job_id = j finds a row: GetLatestProfile.
HasProfile(j) == snapshots[j] > 0

\* The clock passes started_at + staleAfter of a running row.
Age(j) ==
  /\ j \in Running \ stale
  /\ stale' = stale \cup {j}
  /\ UNCHANGED << jobs, snapshots >>

StoreTypeOK ==
  /\ jobs \in [Jobs -> Row]
  /\ snapshots \in [Jobs -> Nat]
  /\ stale \subseteq Jobs

StoreInit ==
  /\ jobs = [j \in Jobs |-> NoRow]
  /\ snapshots = [j \in Jobs |-> 0]
  /\ stale = {}

=============================================================================
