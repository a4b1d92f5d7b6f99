------------------------ MODULE JobLifecycle_proofs ------------------------
(***************************************************************************)
(* One instance implements the job lifecycle, for any number of workers,   *)
(* handlers, jobs and keys and any number of crashes, stops and store      *)
(* failures.  The argument: by HandInvariant whoever writes the row of a   *)
(* job knows its status, so each statement that reaches the database is    *)
(* one of the moves below; each move is a step of the lifecycle, and none  *)
(* touches the row or the snapshots of an ended job.                       *)
(***************************************************************************)
EXTENDS JobManager_proofs

USE JobsAssumption, KeysAssumption, HostAssumption, CapAssumption, BoundsAssumption

-----------------------------------------------------------------------------
(* The statements that change the database, with what they find            *)

InsertsRow ==
  \E j \in Jobs, k \in Keys \cup {NoKey} :
    ~Present(j) /\ ~Conflicts(k) /\ CreateJob(j, k)

UpdatesRow ==
  \E j \in Jobs, e \in Errors :
    \/ jobs[j].status = "queued" /\ UpdateJob(j, "running", e)
    \/ jobs[j].status \in {"queued", "running"} /\ UpdateJob(j, "failed", e)
    \/ jobs[j].status = "running" /\ snapshots[j] > 0 /\ UpdateJob(j, "completed", e)

SavesSnapshot == \E j \in Jobs : jobs[j].status = "running" /\ SaveProfile(j)

JobMove ==
  \/ UNCHANGED << jobs, snapshots >>
  \/ InsertsRow
  \/ UpdatesRow
  \/ SavesSnapshot

StoreMove == JobMove \/ RecoverStaleRunningJobs

\* A handler inserts the row of its own job, and refuses only a queued one.
LEMMA HandlerMove ==
  ASSUME TypeOK, RowInv, StatusInHand, NEW h \in Handlers, HandlerStep(h)
  PROVE  JobMove
<1>1. NamedJobs
  BY DEF RowInv
<1>2. CASE Insert(h)
  <2>1. handler[h].job \in Jobs /\ handler[h].key \in Keys \cup {NoKey}
    BY <1>1, <1>2, JobsInHand DEF Insert
  <2>2. ~Present(handler[h].job)
    BY <1>2 DEF RowInv, RowsInHand, Insert
  <2>3. \/ UNCHANGED storeVars
        \/ CreateJob(handler[h].job, handler[h].key) /\ ~Conflicts(handler[h].key)
    BY <1>1, <1>2, InsertRow
  <2>4. QED BY <2>1, <2>2, <2>3 DEF JobMove, InsertsRow, storeVars
<1>3. CASE Refuse(h)
  <2>1. handler[h].job \in Jobs
    BY <1>1, <1>3, JobsInHand DEF Refuse
  <2>2. jobs[handler[h].job].status = "queued"
    BY <1>3 DEF Refuse, StatusInHand, Inserted
  <2>3. UNCHANGED storeVars \/ UpdateJob(handler[h].job, "failed", "queue full")
    BY <1>3 DEF Refuse, Write
  <2>4. QED BY <2>1, <2>2, <2>3 DEF JobMove, UpdatesRow, Errors, storeVars
<1>4. CASE Lookup(h) \/ CheckStopped(h) \/ Relookup(h) \/ EnqueueCheck(h) \/ Send(h)
  BY <1>4 DEF Lookup, CheckStopped, Relookup, EnqueueCheck, Send, JobMove, storeVars
<1>5. QED BY <1>2, <1>3, <1>4 DEF HandlerStep

\* A worker starts only a queued job, saves and ends only a running one, and
\* writes "completed" only after a snapshot.
LEMMA WorkerMove ==
  ASSUME TypeOK, RowInv, StatusInHand, NEW w \in Workers, WorkerStep(w)
  PROVE  JobMove
<1> DEFINE j == worker[w].job
<1>1. worker[w].step \notin {"off", "idle"} =>
        /\ j \in Jobs
        /\ jobs[j].status = IF worker[w].step = "taken" THEN "queued" ELSE "running"
  BY JobsInHand DEF RowInv, StatusInHand, NoJob, Jobs
<1>2. CASE MarkRunning(w)
  <2>1. UNCHANGED storeVars \/ UpdateJob(j, "running", "none")
    BY <1>2 DEF MarkRunning, Write
  <2>2. j \in Jobs /\ jobs[j].status = "queued"
    BY <1>1, <1>2 DEF MarkRunning
  <2>3. QED BY <2>1, <2>2 DEF JobMove, UpdatesRow, Errors, storeVars
<1>3. CASE ProfileAndSave(w)
  <2>1. UNCHANGED storeVars \/ SaveProfile(j)
    BY <1>3 DEF ProfileAndSave
  <2>2. j \in Jobs /\ jobs[j].status = "running"
    BY <1>1, <1>3 DEF ProfileAndSave
  <2>3. QED BY <2>1, <2>2 DEF JobMove, SavesSnapshot, storeVars
<1>4. CASE Finish(w)
  <2>1. j \in Jobs /\ jobs[j].status = "running"
    BY <1>1, <1>4 DEF Finish
  <2>2. CASE worker[w].step = "completing"
    <3>1. snapshots[j] > 0
      BY <2>2 DEF RowInv, SavedFirst
    <3>2. UNCHANGED storeVars \/ UpdateJob(j, "completed", "none")
      BY <1>4, <2>2 DEF Finish, Write
    <3>3. QED BY <2>1, <3>1, <3>2 DEF JobMove, UpdatesRow, Errors, storeVars
  <2>3. CASE worker[w].step # "completing"
    <3>1. UNCHANGED storeVars \/ UpdateJob(j, "failed", "run failed")
      BY <1>4, <2>3 DEF Finish, Write
    <3>2. QED BY <2>1, <3>1 DEF JobMove, UpdatesRow, Errors, storeVars
  <2>4. QED BY <2>2, <2>3
<1>5. CASE Take(w) \/ ProfileFails(w) \/ WorkerExit(w)
  BY <1>5 DEF Take, ProfileFails, WorkerExit, JobMove, storeVars
<1>6. QED BY <1>2, <1>3, <1>4, <1>5 DEF WorkerStep

\* Start moves stale rows back in one statement; failQueuedJob writes to a
\* store that main has closed before.
LEMMA ServerMove ==
  ASSUME NEW p \in Procs, ServerStep(p) \/ Signal(p) \/ Crash(p)
  PROVE  \/ UNCHANGED << jobs, snapshots >>
         \/ StartRecover(p) /\ RecoverStaleRunningJobs
<1>1. CASE StartRecover(p)
  BY <1>1 DEF StartRecover, storeVars
<1>2. CASE FailQueuedJob(p)
  BY <1>2 DEF FailQueuedJob, Stopped, Outcomes, StoreOpen, Write, storeVars
<1>3. CASE ~StartRecover(p) /\ ~FailQueuedJob(p)
  BY <1>3 DEF ServerStep, Boot, StartRequeue, CloseStore, Stop, Exit, Signal, Crash, Vanish,
     storeVars
<1>4. QED BY <1>1, <1>2, <1>3

\* Every step makes one of the moves.
LEMMA StepMove ==
  ASSUME TypeOK, RowInv, StatusInHand, [Next]_vars
  PROVE  StoreMove
<1>1. CASE UNCHANGED vars
  BY <1>1 DEF vars, StoreMove, JobMove
<1>2. CASE (\E h \in Handlers : \E k \in Keys \cup {NoKey} : Arrive(h, k)) \/ TimePasses
  BY <1>2 DEF Arrive, TimePasses, Age, StoreMove, JobMove, storeVars
<1>3. QED BY <1>1, <1>2, HandlerMove, WorkerMove, ServerMove DEF Next, StoreMove, JobMove

-----------------------------------------------------------------------------
(* The refinement                                                          *)

\* The variables of the lifecycle, as JobProperties maps them.
statuses == [j \in Jobs |-> jobs[j].status]
keys     == [j \in Jobs |-> jobs[j].key]

\* What an INSERT and an UPDATE of one row do to them.
LEMMA RowSteps ==
  ASSUME StoreTypeOK, NEW j \in Jobs
  PROVE  /\ \A k : CreateJob(j, k) =>
              /\ statuses' = [statuses EXCEPT ![j] = "queued"]
              /\ keys' = [keys EXCEPT ![j] = k]
              /\ snapshots' = snapshots
         /\ \A s, e : UpdateJob(j, s, e) =>
              /\ statuses' = [statuses EXCEPT ![j] = s]
              /\ keys' = keys
              /\ snapshots' = snapshots
<1>1. ASSUME NEW k, CreateJob(j, k)
      PROVE  /\ statuses' = [statuses EXCEPT ![j] = "queued"]
             /\ keys' = [keys EXCEPT ![j] = k]
             /\ snapshots' = snapshots
  <2>1. jobs'[j].status = "queued" /\ jobs'[j].key = k /\ \A i \in Jobs \ {j} : jobs'[i] = jobs[i]
    BY <1>1, CreateJobRow
  <2>2. snapshots' = snapshots
    BY <1>1 DEF CreateJob
  <2>3. QED BY <2>1, <2>2 DEF statuses, keys
<1>2. ASSUME NEW s, NEW e, UpdateJob(j, s, e)
      PROVE  /\ statuses' = [statuses EXCEPT ![j] = s]
             /\ keys' = keys
             /\ snapshots' = snapshots
  <2>1. /\ jobs'[j].status = s /\ jobs'[j].key = jobs[j].key
        /\ \A i \in Jobs \ {j} : jobs'[i] = jobs[i]
    BY <1>2 DEF UpdateJob, StoreTypeOK, Row
  <2>2. snapshots' = snapshots
    BY <1>2 DEF UpdateJob
  <2>3. QED BY <2>1, <2>2 DEF statuses, keys
<1>3. QED BY <1>1, <1>2

\* Every move is a step of the lifecycle, or none.
LEMMA MoveRefines ==
  ASSUME StoreTypeOK, StoreMove
  PROVE  [Lifecycle!Next]_Lifecycle!vars
<1>1. CASE UNCHANGED << jobs, snapshots >>
  BY <1>1 DEF Lifecycle!vars
<1>2. CASE InsertsRow
  <2>1. PICK j \in Jobs, k \in Keys \cup {NoKey} :
          ~Present(j) /\ ~Conflicts(k) /\ CreateJob(j, k)
    BY <1>2 DEF InsertsRow
  <2>2. statuses[j] = "absent"
    BY <2>1 DEF Present, statuses
  <2>3. \A i \in Jobs : statuses[i] # "absent" /\ keys[i] = k => k = NoKey
    BY <2>1 DEF Conflicts, RowsWithKey, statuses, keys
  <2>4. Lifecycle!Submit(j, k)
    BY <2>1, <2>2, <2>3, RowSteps DEF Lifecycle!Submit, statuses, keys
  <2>5. QED BY <2>4 DEF Lifecycle!Next
<1>3. CASE UpdatesRow
  <2>1. PICK j \in Jobs, e \in Errors :
          \/ jobs[j].status = "queued" /\ UpdateJob(j, "running", e)
          \/ jobs[j].status \in {"queued", "running"} /\ UpdateJob(j, "failed", e)
          \/ jobs[j].status = "running" /\ snapshots[j] > 0 /\ UpdateJob(j, "completed", e)
    BY <1>3 DEF UpdatesRow
  <2>2. statuses[j] = jobs[j].status
    BY DEF statuses
  <2>3. CASE jobs[j].status = "queued" /\ UpdateJob(j, "running", e)
    <3>1. Lifecycle!Begin(j)
      BY <2>2, <2>3, RowSteps DEF Lifecycle!Begin, statuses, keys
    <3>2. QED BY <3>1 DEF Lifecycle!Next
  <2>4. CASE jobs[j].status \in {"queued", "running"} /\ UpdateJob(j, "failed", e)
    <3>1. Lifecycle!Fail(j)
      BY <2>2, <2>4, RowSteps DEF Lifecycle!Fail, statuses, keys
    <3>2. QED BY <3>1 DEF Lifecycle!Next
  <2>5. CASE jobs[j].status = "running" /\ snapshots[j] > 0 /\ UpdateJob(j, "completed", e)
    <3>1. Lifecycle!Complete(j)
      BY <2>2, <2>5, RowSteps DEF Lifecycle!Complete, statuses, keys
    <3>2. QED BY <3>1 DEF Lifecycle!Next
  <2>6. QED BY <2>1, <2>3, <2>4, <2>5
<1>4. CASE SavesSnapshot
  <2>1. PICK j \in Jobs : jobs[j].status = "running" /\ SaveProfile(j)
    BY <1>4 DEF SavesSnapshot
  <2>2. Lifecycle!Snapshot(j)
    BY <2>1 DEF Lifecycle!Snapshot, SaveProfile
  <2>3. QED BY <2>2 DEF Lifecycle!Next
<1>5. CASE RecoverStaleRunningJobs
  <2>1. PICK S \in SUBSET Jobs : S = Running \cap stale
    BY DEF Running
  <2>2. \A j \in S : statuses[j] = "running"
    BY <2>1 DEF Running, statuses
  <2>3. ASSUME NEW j \in Jobs
        PROVE  /\ jobs'[j].status = IF j \in S THEN "queued" ELSE jobs[j].status
               /\ jobs'[j].key = jobs[j].key
    BY <1>5, <2>1 DEF RecoverStaleRunningJobs, StoreTypeOK, Row
  <2>4. /\ statuses' = [j \in Jobs |-> IF j \in S THEN "queued" ELSE statuses[j]]
        /\ keys' = keys
        /\ snapshots' = snapshots
    BY <1>5, <2>3 DEF RecoverStaleRunningJobs, statuses, keys
  <2>5. Lifecycle!Requeue(S)
    BY <2>2, <2>4 DEF Lifecycle!Requeue, statuses, keys
  <2>6. QED BY <2>5 DEF Lifecycle!Next
<1>6. QED BY <1>1, <1>2, <1>3, <1>4, <1>5 DEF StoreMove, JobMove

LEMMA InitRefines == Init => Lifecycle!Init
BY DEF Init, StoreInit, NoRow, Lifecycle!Init

\* One instance implements the job lifecycle: Create, run, Start and Stop,
\* whatever interleaving, crash or failed store call, only ever submit, begin,
\* save, end and requeue jobs as JobLifecycle allows.
THEOREM LifecycleImplemented ==
  ASSUME SingleInstance
  PROVE  Spec => RefinesLifecycle
<1>1. TypeOK /\ RowInv /\ HandInv /\ [Next]_vars => [Lifecycle!Next]_Lifecycle!vars
  <2>1. SUFFICES ASSUME TypeOK, RowInv, HandInv, [Next]_vars
                 PROVE  [Lifecycle!Next]_Lifecycle!vars
    OBVIOUS
  <2>2. StatusInHand /\ StoreTypeOK
    BY <2>1 DEF HandInv, TypeOK
  <2>3. StoreMove
    BY <2>1, <2>2, StepMove
  <2>4. QED BY <2>2, <2>3, MoveRefines
<1>2. QED
  BY <1>1, InitRefines, HandInvariant, PTL DEF Spec, RefinesLifecycle, Lifecycle!Spec

\* In one instance no write changes the row of an ended job and no snapshot is
\* added to it, although UpdateJob and SaveProfile test nothing.
THEOREM EndedStaysFinal == Spec => EndedIsFinal
<1> DEFINE Final == SingleInstance => \A j \in Jobs : Terminal(j) =>
                      jobs'[j] = jobs[j] /\ snapshots'[j] = snapshots[j]
<1>1. TypeOK /\ RowInv /\ HandInv /\ [Next]_vars => [Final]_vars
  <2>1. SUFFICES ASSUME TypeOK, RowInv, HandInv, [Next]_vars, SingleInstance,
                        NEW j \in Jobs, Terminal(j)
                 PROVE  jobs'[j] = jobs[j] /\ snapshots'[j] = snapshots[j]
    OBVIOUS
  <2>2. StatusInHand /\ StoreTypeOK
    BY <2>1 DEF HandInv, TypeOK
  <2>3. jobs[j].status \in {"completed", "failed"}
    BY <2>1 DEF Terminal
  <2>4. CASE UNCHANGED << jobs, snapshots >>
    BY <2>4
  <2>5. CASE InsertsRow
    BY <2>2, <2>3, <2>5, CreateJobRow DEF InsertsRow, Present, CreateJob
  <2>6. CASE UpdatesRow
    BY <2>2, <2>3, <2>6 DEF UpdatesRow, UpdateJob, StoreTypeOK
  <2>7. CASE SavesSnapshot
    BY <2>2, <2>3, <2>7 DEF SavesSnapshot, SaveProfile, StoreTypeOK
  <2>8. CASE RecoverStaleRunningJobs
    BY <2>3, <2>8 DEF RecoverStaleRunningJobs, Running
  <2>9. QED BY <2>1, <2>2, <2>4, <2>5, <2>6, <2>7, <2>8, StepMove DEF StoreMove, JobMove
<1>2. QED BY <1>1, HandInvariant, PTL DEF Spec, EndedIsFinal

=============================================================================
