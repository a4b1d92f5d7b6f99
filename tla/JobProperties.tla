---------------------------- MODULE JobProperties ----------------------------
(***************************************************************************)
(* What must hold of the job manager, for any number of instances and,     *)
(* where a property says so, for one instance (README: a lease between     *)
(* instances is a known limitation of the code).                           *)
(***************************************************************************)
EXTENDS JobManager

WorkerRecord  == [step : WorkerSteps, job : Jobs \cup {NoJob}]
HandlerRecord == [step : HandlerSteps, job : Jobs \cup {NoJob}, key : Keys \cup {NoKey}]

TypeOK ==
  /\ StoreTypeOK
  /\ phase \in [Procs -> Phases]
  /\ queue \in [Procs -> Seq(Jobs)]
  /\ \A p \in Procs : Len(queue[p]) <= Cap
  /\ worker \in [Workers -> WorkerRecord]
  /\ handler \in [Handlers -> HandlerRecord]
  /\ nextId \in 1 .. MaxJobs + 1
  /\ accepted \subseteq (Keys \cup {NoKey}) \X Jobs
  /\ crashes \in 0 .. MaxCrashes
  /\ signals \in 0 .. MaxSignals
  /\ faults \in 0 .. MaxFaults

SingleInstance == \A p, q \in Procs : p = q

Terminal(j) == jobs[j].status \in {"completed", "failed"}

\* The handler has inserted the row of its job and not yet let go of it.
Inserted(h) == handler[h].step \in {"enqueue", "send", "refuse"}

InChannel(j) == \E p \in Procs : \E a \in DOMAIN queue[p] : queue[p][a] = j

AtWorker(j) == \E w \in Workers : worker[w].job = j

AtHandler(j) == \E h \in Handlers : Inserted(h) /\ handler[h].job = j

-----------------------------------------------------------------------------
(* For any number of instances                                             *)

\* Idempotency (Create and the unique index): two 202 answers to the same key
\* name the same job, on whatever instance and however the calls interleave or
\* fail, and the job an answer names is stored under the key of the request.
IdempotentAnswers ==
  /\ \A a, b \in accepted : a[1] = b[1] /\ a[1] # NoKey => a[2] = b[2]
  /\ \A a \in accepted :
       jobs[a[2]].status # "absent" /\ jobs[a[2]].key = a[1]

\* A client that polls a job until it is completed finds its result: run saves
\* the snapshot before it writes the status.
CompletedHasSnapshot ==
  \A j \in Jobs : jobs[j].status = "completed" => HasProfile(j)

\* Within an instance a job is in one place at most: one slot of the channel,
\* one worker, or the handler that inserted it.  Otherwise it is profiled twice by
\* one process, or run while the handler refuses it (Create, Enqueue, loop, Start).
HeldOnce(p) ==
  /\ \A a, b \in DOMAIN queue[p] : queue[p][a] = queue[p][b] => a = b
  /\ \A v, w \in WorkersOf(p) : worker[v].job = worker[w].job /\ worker[v].job # NoJob => v = w
  /\ \A a \in DOMAIN queue[p], w \in WorkersOf(p) : queue[p][a] # worker[w].job
  /\ \A h \in HandlersOf(p) : Inserted(h) =>
       /\ \A a \in DOMAIN queue[p] : queue[p][a] # handler[h].job
       /\ \A w \in WorkersOf(p) : worker[w].job # handler[h].job

ExclusiveHandling == \A p \in Procs : HeldOnce(p)

\* A life of a process profiles a job once: however the store fails, and however
\* often other instances take the job as well, which nothing prevents, it has no
\* more snapshots than there are instances and ends of one (Start, run).
SnapshotsBounded ==
  \A j \in Jobs : snapshots[j] <= Cardinality(Procs) + crashes + signals

-----------------------------------------------------------------------------
(* For one instance                                                        *)

\* An ended job is final: no write changes its row and no snapshot is added to
\* it, although UpdateJob and SaveProfile test nothing.
EndedIsFinal ==
  [][SingleInstance => \A j \in Jobs : Terminal(j) =>
       jobs'[j] = jobs[j] /\ snapshots'[j] = snapshots[j]]_vars

\* While the channel could hold every job and no store call has failed, a
\* process that serves has every queued row in hand: none waits for a restart.
NoStrandedJob ==
  SingleInstance /\ MaxJobs <= Cap /\ faults = 0 =>
    \A p \in Procs : phase[p] \in {"serving", "draining"} =>
      \A j \in Queued : InChannel(j) \/ AtWorker(j) \/ AtHandler(j)

\* Until a process ends or a store call fails, a running row has its worker:
\* every way out of run goes through the final UpdateJob.
NoOrphanedRun ==
  crashes = 0 /\ signals = 0 /\ faults = 0 => \A j \in Running : AtWorker(j)

\* One instance (SingleInstance) implements the job lifecycle.
Lifecycle == INSTANCE JobLifecycle WITH
  status <- [j \in Jobs |-> jobs[j].status],
  key    <- [j \in Jobs |-> jobs[j].key]

RefinesLifecycle == Lifecycle!Spec

-----------------------------------------------------------------------------
(* Inductive invariants: what the properties above rest on                 *)

\* A worker names a job exactly while it handles one; a handler names the job
\* it created, which no other handler did.
NamedJobs ==
  /\ \A w \in Workers : worker[w].step \in {"off", "idle"} <=> worker[w].job = NoJob
  /\ \A h \in Handlers : handler[h].step # "idle" => handler[h].job \in 1 .. nextId - 1
  /\ \A g, h \in Handlers :
       handler[g].step # "idle" /\ handler[h].step # "idle" /\ handler[g].job = handler[h].job
         => g = h

Present(j) == jobs[j].status # "absent"

\* Which rows exist: none that is still to be inserted, every one in hand.
RowsInHand ==
  /\ \A j \in Jobs : j >= nextId => ~Present(j)
  /\ \A h \in Handlers :
       /\ handler[h].step \in {"lookup", "check", "insert"} => ~Present(handler[h].job)
       /\ Inserted(h) =>
            Present(handler[h].job) /\ jobs[handler[h].job].key = handler[h].key
  /\ \A p \in Procs : \A a \in DOMAIN queue[p] : Present(queue[p][a])
  /\ \A w \in Workers : worker[w].job # NoJob => Present(worker[w].job)

UniqueKeys ==
  \A i, j \in Jobs :
    Present(i) /\ Present(j) /\ jobs[i].key = jobs[j].key /\ jobs[i].key # NoKey => i = j

\* A worker about to write "completed" has saved a snapshot.
SavedFirst ==
  \A w \in Workers : worker[w].step = "completing" => snapshots[worker[w].job] > 0

\* For any number of instances.
RowInv ==
  /\ NamedJobs
  /\ RowsInHand
  /\ UniqueKeys
  /\ IdempotentAnswers
  /\ SavedFirst
  /\ CompletedHasSnapshot

\* What the holder of a job may rely on: the status of its row.
StatusInHand ==
  /\ \A p \in Procs : \A a \in DOMAIN queue[p] : jobs[queue[p][a]].status = "queued"
  /\ \A w \in Workers : worker[w].job # NoJob =>
       jobs[worker[w].job].status = IF worker[w].step = "taken" THEN "queued" ELSE "running"
  /\ \A h \in Handlers : Inserted(h) => jobs[handler[h].job].status = "queued"

\* A job is in one place at most of all there are.
OneHolder ==
  /\ \A p \in Procs : \A a, b \in DOMAIN queue[p] : queue[p][a] = queue[p][b] => a = b
  /\ \A v, w \in Workers : worker[v].job = worker[w].job /\ worker[v].job # NoJob => v = w
  /\ \A w \in Workers : ~InChannel(worker[w].job)
  /\ \A h \in Handlers : Inserted(h) =>
       ~InChannel(handler[h].job) /\ ~AtWorker(handler[h].job)

\* A process that does not serve yet holds nothing.
QuietStart ==
  \A p \in Procs : phase[p] \in {"down", "starting", "listing"} =>
    /\ queue[p] = << >>
    /\ \A w \in WorkersOf(p) : worker[w] = Off
    /\ \A h \in HandlersOf(p) : handler[h] = NoRequest

\* For one instance.
HandInv == SingleInstance => StatusInHand /\ QuietStart /\ OneHolder

-----------------------------------------------------------------------------
(* Liveness, under FairSpec                                                *)

InHand(j) == InChannel(j) \/ AtWorker(j) \/ AtHandler(j)

\* The row is running and no worker runs it any more.
Orphaned(j) == jobs[j].status = "running" /\ ~AtWorker(j)

\* No process serves, or has listed the queued rows to do so.
Restarting == \A p \in Procs : phase[p] \in {"down", "starting", "listing"}

\* When no store call fails any more, every queued job in hand ends, and so does
\* one that failed calls left behind, as soon as the process is restarted: through
\* crashes and stops, in the channel, at a worker or at a handler.  The one way
\* out is a row that says running when its worker is gone (Start, loop, run).
QueuedJobsSettle ==
  \A j \in Jobs :
    jobs[j].status = "queued" /\ faults = MaxFaults /\ (InHand(j) \/ Restarting)
      ~> Terminal(j) \/ Orphaned(j)

\* Stop returns: the workers leave their loops, the channel runs empty while
\* late handlers may still send to it, and the process ends.
ShutdownCompletes ==
  \A p \in Procs : phase[p] = "draining" ~> phase[p] = "down"

-----------------------------------------------------------------------------
(* What the documents say and the code does not do                         *)

\* Stop has the workers' jobs ended and is left with those in the channel.
Emptying(j) ==
  \E p \in Procs : Stopped(p) /\ WorkersExited(p) /\ \E a \in DOMAIN queue[p] : queue[p][a] = j

\* The final UpdateJob of a run is due.
Ending(j) == \E w \in Workers : worker[w].step \in {"completing", "failing"} /\ worker[w].job = j

\* manager.go:80 records "job cancelled during profiler shutdown" for the jobs
\* still in the channel, and run makes its final write when it was cancelled: as
\* long as nothing crashed and no call to an open store failed, no job that Stop
\* takes off the channel, and none whose run ends, keeps an unfinished status.
ShutdownSettlesJobs ==
  [][crashes' = 0 /\ faults' = 0 =>
       \A j \in Jobs :
         (Emptying(j) /\ ~Emptying(j)') \/ (Ending(j) /\ ~Ending(j)') => Terminal(j)']_vars

\* "Stale-running recovery prevents crashes from permanently leaving jobs
\* running": a running job does not stay running for ever.
NoPermanentRun ==
  \A j \in Jobs : jobs[j].status = "running" ~> jobs[j].status # "running"

=============================================================================
