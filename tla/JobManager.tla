----------------------------- MODULE JobManager -----------------------------
(***************************************************************************)
(* The life of a profiling job across server processes:                    *)
(*   cmd/server/main.go         boot, the signal, Shutdown, Close, Stop    *)
(*   internal/api/router.go     POST /profile-jobs, one handler a request  *)
(*   internal/worker/manager.go Start, Stop, Create, Enqueue, loop, run    *)
(*   internal/store/store.go    through the module MetadataStore           *)
(*                                                                         *)
(* A process has a buffered channel of job ids, a fixed set of worker      *)
(* goroutines and any number of request handlers.  Every store call and    *)
(* every access to state shared between goroutines is a step of its own.   *)
(* A process may be killed between any two steps; a store call may fail    *)
(* before or after the database applied it.                                *)
(***************************************************************************)
EXTENDS MetadataStore, FiniteSets

CONSTANTS
  Procs,       \* server processes that share the database (replicas)
  Workers,     \* worker goroutines of all processes
  Handlers,    \* request handler goroutines of all processes
  Host,        \* the process of each worker and handler
  Cap,         \* capacity of the channel of job ids (1000 in the code)
  MaxCrashes,  \* bound: how many times a process is killed
  MaxSignals,  \* bound: how many times a process gets SIGTERM or SIGINT
  MaxFaults    \* bound: how many store calls fail while the store is open

ASSUME ProcsAssumption == IsFiniteSet(Procs)
ASSUME HostAssumption == Host \in [Workers \cup Handlers -> Procs]
ASSUME CapAssumption == Cap \in Nat \ {0}
ASSUME BoundsAssumption == MaxCrashes \in Nat /\ MaxSignals \in Nat /\ MaxFaults \in Nat

VARIABLES
  phase,     \* where main and Manager.Start/Stop are, of each process
  queue,     \* the channel m.jobs of each process
  worker,    \* step and job of each worker goroutine
  handler,   \* step, job and key of each request handler
  nextId,    \* the next created_at
  accepted,  \* history: the pairs <<key, job>> answered with 202
  crashes, signals, faults  \* how much of each bound is used

procVars  == << phase, queue, worker, handler >>
boundVars == << crashes, signals, faults >>
vars == << jobs, snapshots, stale, phase, queue, worker, handler,
           nextId, accepted, crashes, signals, faults >>

NoJob == 0

Phases == {"down", "starting", "listing", "serving", "draining", "closed", "stopping"}

WorkerSteps  == {"off", "idle", "taken", "running", "completing", "failing"}
HandlerSteps == {"idle", "lookup", "check", "insert", "relookup", "enqueue", "send", "refuse"}

Off     == [step |-> "off", job |-> NoJob]
Waiting == [step |-> "idle", job |-> NoJob]
NoRequest == [step |-> "idle", job |-> NoJob, key |-> NoKey]

\* Between the opening of the pool and db.Close().
StoreOpen(p) == phase[p] \in {"starting", "listing", "serving", "draining"}

\* m.stopped, and the worker context is cancelled.
Stopped(p) == phase[p] = "stopping"

(***************************************************************************)
(* How a store call of process p can end: "ok", "lost" (an error, nothing  *)
(* was applied) or "unacked" (an error, the statement was applied).  After *)
(* db.Close() every call is lost; with the store open each failure uses up *)
(* one of MaxFaults.                                                       *)
(***************************************************************************)
Outcomes(p) ==
  IF ~StoreOpen(p) THEN {"lost"}
  ELSE IF faults < MaxFaults THEN {"ok", "lost", "unacked"}
  ELSE {"ok"}

ReadOutcomes(p) == Outcomes(p) \ {"unacked"}

Charge(p, o) ==
  faults' = IF StoreOpen(p) /\ o # "ok" THEN faults + 1 ELSE faults

\* UPDATE of the row of j by process p, with outcome o.
Write(p, o, j, status, error) ==
  /\ Charge(p, o)
  /\ IF o = "lost" THEN UNCHANGED storeVars ELSE UpdateJob(j, status, error)

-----------------------------------------------------------------------------
(* POST /profile-jobs: Manager.Create and Manager.Enqueue, on handler h.   *)

Goto(h, step) == handler' = [handler EXCEPT ![h].step = step]

Reply(h) == handler' = [handler EXCEPT ![h] = NoRequest]

\* The 202 answer, with the job it names.
Accept(h, j) ==
  /\ Reply(h)
  /\ accepted' = accepted \cup {<< handler[h].key, j >>}

\* A valid request arrives; Create picks the id and created_at.
Arrive(h, k) ==
  /\ phase[Host[h]] = "serving"
  /\ handler[h].step = "idle"
  /\ nextId \in Jobs
  /\ handler' = [handler EXCEPT ![h] =
       [step |-> IF k = NoKey THEN "check" ELSE "lookup", job |-> nextId, key |-> k]]
  /\ nextId' = nextId + 1
  /\ UNCHANGED << storeVars, phase, queue, worker, accepted, boundVars >>

\* mutant: the job that was found is enqueued once more
Lookup_Reenqueue(h) ==
  /\ handler[h].step = "lookup"
  /\ IF RowsWithKey(handler[h].key) = {} THEN Goto(h, "check")
     ELSE \E j \in RowsWithKey(handler[h].key) :
            handler' = [handler EXCEPT ![h].step = "enqueue", ![h].job = j]
  /\ UNCHANGED << storeVars, phase, queue, worker, nextId, accepted, boundVars >>

\* A key that has a row already answers with that row's job, whatever its
\* status; an error of the lookup is taken for "no such key".
Lookup(h) ==
  /\ handler[h].step = "lookup"
  /\ \E o \in ReadOutcomes(Host[h]) :
       /\ Charge(Host[h], o)
       /\ \/ /\ o = "ok"
             /\ \E j \in RowsWithKey(handler[h].key) : Accept(h, j)
          \/ /\ o = "ok" => RowsWithKey(handler[h].key) = {}
             /\ Goto(h, "check")
             /\ UNCHANGED accepted
  /\ UNCHANGED << storeVars, phase, queue, worker, nextId, crashes, signals >>

CheckStopped(h) ==
  /\ handler[h].step = "check"
  /\ IF Stopped(Host[h]) THEN Reply(h) ELSE Goto(h, "insert")
  /\ UNCHANGED << storeVars, phase, queue, worker, nextId, accepted, boundVars >>

\* CreateJob; its error leads to a second lookup when there is a key.
Insert(h) ==
  /\ handler[h].step = "insert"
  /\ \E o \in Outcomes(Host[h]) :
       LET key == handler[h].key
           failed == o # "ok" \/ Conflicts(key)
       IN  /\ Charge(Host[h], o)
           /\ IF o = "lost" \/ Conflicts(key)
                THEN UNCHANGED storeVars
                ELSE CreateJob(handler[h].job, key)
           /\ IF failed /\ key = NoKey THEN Reply(h)
              ELSE Goto(h, IF failed THEN "relookup" ELSE "enqueue")
  /\ UNCHANGED << phase, queue, worker, nextId, accepted, crashes, signals >>

Relookup(h) ==
  /\ handler[h].step = "relookup"
  /\ \E o \in ReadOutcomes(Host[h]) :
       /\ Charge(Host[h], o)
       /\ \/ /\ o = "ok"
             /\ \E j \in RowsWithKey(handler[h].key) : Accept(h, j)
          \/ /\ o = "ok" => RowsWithKey(handler[h].key) = {}
             /\ Reply(h)
             /\ UNCHANGED accepted
  /\ UNCHANGED << storeVars, phase, queue, worker, nextId, crashes, signals >>

\* Enqueue reads m.stopped under the lock and sends after releasing it.
EnqueueCheck(h) ==
  /\ handler[h].step = "enqueue"
  /\ Goto(h, IF Stopped(Host[h]) THEN "refuse" ELSE "send")
  /\ UNCHANGED << storeVars, phase, queue, worker, nextId, accepted, boundVars >>

\* mutant: one id more than the channel holds
Full_OverCap(p) == Len(queue[p]) > Cap

Full(p) == Len(queue[p]) >= Cap

\* The send never blocks: a full channel refuses the job.
Send(h) ==
  /\ handler[h].step = "send"
  /\ IF Full(Host[h])
       THEN Goto(h, "refuse") /\ UNCHANGED << queue, accepted >>
       ELSE /\ queue' = [queue EXCEPT ![Host[h]] = Append(@, handler[h].job)]
            /\ Accept(h, handler[h].job)
  /\ UNCHANGED << storeVars, phase, worker, nextId, boundVars >>

\* The row of a refused job becomes failed; the answer is an error either way.
Refuse(h) ==
  /\ handler[h].step = "refuse"
  /\ \E o \in Outcomes(Host[h]) :
       Write(Host[h], o, handler[h].job, "failed", "queue full")
  /\ Reply(h)
  /\ UNCHANGED << phase, queue, worker, nextId, accepted, crashes, signals >>

-----------------------------------------------------------------------------
(* Manager.loop and Manager.run, on worker w.                              *)

Take(w) ==
  /\ worker[w].step = "idle"
  /\ queue[Host[w]] # << >>
  /\ worker' = [worker EXCEPT ![w] = [step |-> "taken", job |-> Head(queue[Host[w]])]]
  /\ queue' = [queue EXCEPT ![Host[w]] = Tail(@)]
  /\ UNCHANGED << storeVars, phase, handler, nextId, accepted, boundVars >>

\* mutant: an error of the first UpdateJob does not end run
AfterError_GoesOn(step) ==
  CASE step = "taken" -> "running" [] step = "running" -> "failing" [] OTHER -> "idle"

\* mutant: run returns at every error
AfterError_Returns(step) == "idle"

\* mutant: after an error the table is profiled and saved once more
AfterError_SavesAgain(step) == IF step = "running" THEN "running" ELSE "idle"

\* mutant: the error of SaveProfile is dropped
AfterError_Completes(step) == IF step = "running" THEN "completing" ELSE "idle"

\* mutant: the final UpdateJob is repeated until it succeeds
AfterError_Repeats(step) ==
  CASE step = "taken" -> "idle" [] step = "running" -> "failing" [] OTHER -> step

\* Where an error takes run: to the final UpdateJob if it comes while the job
\* is running; otherwise run returns, at most with a line in the log.
AfterError(step) == IF step = "running" THEN "failing" ELSE "idle"

\* run goes on at the given step, or returns to loop.
Proceed(w, step) ==
  worker' = IF step = "idle" THEN [worker EXCEPT ![w] = Waiting]
            ELSE [worker EXCEPT ![w].step = step]

\* run goes on after a store call with outcome o.
ProceedAfter(w, o, step) == Proceed(w, IF o = "ok" THEN step ELSE AfterError(worker[w].step))

\* GetJob, then UpdateJob to running.  Nothing of the row that was read
\* decides anything; an error of either call drops the job.
MarkRunning(w) ==
  /\ worker[w].step = "taken"
  /\ \E o \in Outcomes(Host[w]) :
       /\ Write(Host[w], o, worker[w].job, "running", "none")
       /\ ProceedAfter(w, o, "running")
  /\ UNCHANGED << phase, queue, handler, nextId, accepted, crashes, signals >>

\* adapters.Open or ProfileTable returns an error, the 30 minute timeout and
\* the cancelled context among them.
ProfileFails(w) ==
  /\ worker[w].step = "running"
  /\ Proceed(w, AfterError("running"))
  /\ UNCHANGED << storeVars, phase, queue, handler, nextId, accepted, boundVars >>

\* The table is profiled and SaveProfile called.
ProfileAndSave(w) ==
  /\ worker[w].step = "running"
  /\ \E o \in Outcomes(Host[w]) :
       /\ Charge(Host[w], o)
       /\ IF o = "lost" THEN UNCHANGED storeVars ELSE SaveProfile(worker[w].job)
       /\ ProceedAfter(w, o, "completing")
  /\ UNCHANGED << phase, queue, handler, nextId, accepted, crashes, signals >>

\* The final UpdateJob.
Finish(w) ==
  /\ worker[w].step \in {"completing", "failing"}
  /\ \E o \in Outcomes(Host[w]) :
       /\ IF worker[w].step = "completing"
            THEN Write(Host[w], o, worker[w].job, "completed", "none")
            ELSE Write(Host[w], o, worker[w].job, "failed", "run failed")
       /\ ProceedAfter(w, o, "idle")
  /\ UNCHANGED << phase, queue, handler, nextId, accepted, crashes, signals >>

\* <-ctx.Done() in the select of loop; Take stays possible, select is unordered.
WorkerExit(w) ==
  /\ worker[w].step = "idle"
  /\ Stopped(Host[w])
  /\ worker' = [worker EXCEPT ![w] = Off]
  /\ UNCHANGED << storeVars, phase, queue, handler, nextId, accepted, boundVars >>

-----------------------------------------------------------------------------
(* main, Manager.Start and Manager.Stop, of process p.                     *)

WorkersOf(p)  == {w \in Workers : Host[w] = p}
HandlersOf(p) == {h \in Handlers : Host[h] = p}

Enter(p, from, to) ==
  /\ phase[p] = from
  /\ phase' = [phase EXCEPT ![p] = to]

Boot(p) ==
  /\ Enter(p, "down", "starting")
  /\ UNCHANGED << storeVars, queue, worker, handler, nextId, accepted, boundVars >>

\* First half of Start; an error is only logged.
StartRecover(p) ==
  /\ Enter(p, "starting", "listing")
  /\ \E o \in Outcomes(p) :
       /\ Charge(p, o)
       /\ IF o = "lost" THEN UNCHANGED storeVars ELSE RecoverStaleRunningJobs
  /\ UNCHANGED << queue, worker, handler, nextId, accepted, crashes, signals >>

\* Second half of Start: the listed jobs fill the fresh channel (at most Cap of
\* them, so no Enqueue fails), then the workers and the HTTP server start.
StartRequeue(p) ==
  /\ Enter(p, "listing", "serving")
  /\ \E o \in ReadOutcomes(p) :
       /\ Charge(p, o)
       /\ \E s \in IF o = "ok" THEN ListQueuedJobs(Cap) ELSE {<< >>} :
            queue' = [queue EXCEPT ![p] = s]
  /\ worker' = [w \in Workers |-> IF Host[w] = p THEN Waiting ELSE worker[w]]
  /\ UNCHANGED << storeVars, handler, nextId, accepted, crashes, signals >>

\* SIGTERM or SIGINT: srv.Shutdown stops accepting requests.
Signal(p) ==
  /\ signals < MaxSignals
  /\ signals' = signals + 1
  /\ Enter(p, "serving", "draining")
  /\ UNCHANGED << storeVars, queue, worker, handler, nextId, accepted, crashes, faults >>

\* Shutdown returns, when the handlers are done or after 20 seconds with some
\* of them still running, and db.Close() follows at once.
CloseStore(p) ==
  /\ Enter(p, "draining", "closed")
  /\ UNCHANGED << storeVars, queue, worker, handler, nextId, accepted, boundVars >>

\* The deferred jobs.Stop(): m.stopped, then the worker context is cancelled.
Stop(p) ==
  /\ Enter(p, "closed", "stopping")
  /\ UNCHANGED << storeVars, queue, worker, handler, nextId, accepted, boundVars >>

\* wg.Wait() has returned.
WorkersExited(p) == \A w \in WorkersOf(p) : worker[w].step = "off"

\* One turn of the loop that empties the channel: failQueuedJob.
FailQueuedJob(p) ==
  /\ Stopped(p) /\ WorkersExited(p) /\ queue[p] # << >>
  /\ \E o \in Outcomes(p) :
       IF jobs[Head(queue[p])].status = "queued"
         THEN Write(p, o, Head(queue[p]), "failed", "cancelled")
         ELSE Charge(p, o) /\ UNCHANGED storeVars
  /\ queue' = [queue EXCEPT ![p] = Tail(@)]
  /\ UNCHANGED << phase, worker, handler, nextId, accepted, crashes, signals >>

\* The goroutines and the channel of p are gone.
Vanish(p) ==
  /\ phase' = [phase EXCEPT ![p] = "down"]
  /\ queue' = [queue EXCEPT ![p] = << >>]
  /\ worker' = [w \in Workers |-> IF Host[w] = p THEN Off ELSE worker[w]]
  /\ handler' = [h \in Handlers |-> IF Host[h] = p THEN NoRequest ELSE handler[h]]
  /\ UNCHANGED << storeVars, nextId, accepted >>

\* main returns once Stop has found the channel empty.
Exit(p) ==
  /\ Stopped(p) /\ WorkersExited(p) /\ queue[p] = << >>
  /\ Vanish(p)
  /\ UNCHANGED boundVars

\* kill -9, out of memory, a lost node, log.Fatal, a signal before Notify.
Crash(p) ==
  /\ crashes < MaxCrashes
  /\ crashes' = crashes + 1
  /\ phase[p] # "down"
  /\ Vanish(p)
  /\ UNCHANGED << signals, faults >>

\* A running row becomes stale.
TimePasses ==
  /\ \E j \in Jobs : Age(j)
  /\ UNCHANGED << procVars, nextId, accepted, boundVars >>

-----------------------------------------------------------------------------
Init ==
  /\ StoreInit
  /\ phase = [p \in Procs |-> "down"]
  /\ queue = [p \in Procs |-> << >>]
  /\ worker = [w \in Workers |-> Off]
  /\ handler = [h \in Handlers |-> NoRequest]
  /\ nextId = 1
  /\ accepted = {}
  /\ crashes = 0 /\ signals = 0 /\ faults = 0

HandlerStep(h) ==
  \/ Lookup(h)
  \/ CheckStopped(h)
  \/ Insert(h)
  \/ Relookup(h)
  \/ EnqueueCheck(h)
  \/ Send(h)
  \/ Refuse(h)

WorkerStep(w) ==
  \/ Take(w)
  \/ MarkRunning(w)
  \/ ProfileFails(w)
  \/ ProfileAndSave(w)
  \/ Finish(w)
  \/ WorkerExit(w)

ServerStep(p) ==
  \/ Boot(p)
  \/ StartRecover(p)
  \/ StartRequeue(p)
  \/ CloseStore(p)
  \/ Stop(p)
  \/ FailQueuedJob(p)
  \/ Exit(p)

Next ==
  \/ \E h \in Handlers : HandlerStep(h) \/ \E k \in Keys \cup {NoKey} : Arrive(h, k)
  \/ \E w \in Workers : WorkerStep(w)
  \/ \E p \in Procs : ServerStep(p) \/ Signal(p) \/ Crash(p)
  \/ TimePasses

Spec == Init /\ [][Next]_vars

(***************************************************************************)
(* Goroutines are scheduled, Open and ProfileTable return within their 30  *)
(* minute timeout, time passes, and a process that is down is started      *)
(* again (deploy/k8s/deployment.yaml: a Deployment restarts its pods).     *)
(* Nothing makes a client send a request, or a signal, a crash or a        *)
(* failure come.                                                           *)
(***************************************************************************)
Fairness ==
  /\ \A h \in Handlers : WF_vars(HandlerStep(h))
  /\ \A w \in Workers : WF_vars(WorkerStep(w))
  /\ \A p \in Procs : WF_vars(ServerStep(p))
  /\ WF_vars(TimePasses)

FairSpec == Spec /\ Fairness

=============================================================================
