--------------------------- MODULE JobRuns_proofs ---------------------------
(***************************************************************************)
(* How often a job runs, and that no job is forgotten: the invariants of   *)
(* the job manager that relate the rows to the lives of the processes, for *)
(* every value of the constants.                                           *)
(***************************************************************************)
EXTENDS JobLifecycle_proofs, FiniteSetTheorems

USE JobsAssumption, KeysAssumption, HostAssumption, CapAssumption, BoundsAssumption

-----------------------------------------------------------------------------
(* Any number of instances: a job has one snapshot at most in a life of a   *)
(* process                                                                 *)

\* Process p may still save a snapshot of j in this life: it has not listed the
\* queued rows yet, the job is still to come, or it is on its way to SaveProfile.
MayRun(p, j) ==
  \/ phase[p] \in {"down", "starting", "listing"}
  \/ j >= nextId
  \/ \E a \in DOMAIN queue[p] : queue[p][a] = j
  \/ \E w \in WorkersOf(p) : worker[w].step \in {"taken", "running"} /\ worker[w].job = j
  \/ \E h \in HandlersOf(p) : handler[h].step \notin {"idle", "relookup"} /\ handler[h].job = j

\* The processes on their way out, whose signals are counted already.
Leaving == {p \in Procs : phase[p] \in {"draining", "closed", "stopping"}}

\* How many lives are over, by the counters.
Ended == crashes + signals - Cardinality(Leaving)

\* A life that is over, or that is done with a job, has saved it once at most.
LivesInv ==
  \A j \in Jobs : snapshots[j] <= Ended + Cardinality({p \in Procs : ~MayRun(p, j)})

\* The sets that are counted are finite, so the counts are numbers.
LEMMA Counts ==
  ASSUME TypeOK, NEW S, S \subseteq Procs
  PROVE  /\ IsFiniteSet(S) /\ Cardinality(S) \in Nat /\ Cardinality(S) <= Cardinality(Procs)
         /\ Cardinality(Procs) \in Nat
         /\ \A T : T \subseteq S => Cardinality(T) <= Cardinality(S)
         /\ crashes \in Nat /\ signals \in Nat
         /\ \A j \in Jobs : snapshots[j] \in Nat
<1>1. IsFiniteSet(S) /\ Cardinality(S) <= Cardinality(Procs)
  BY ProcsAssumption, FS_Subset
<1>2. Cardinality(S) \in Nat /\ Cardinality(Procs) \in Nat
  BY <1>1, ProcsAssumption, FS_CardinalityType
<1>3. \A T : T \subseteq S => Cardinality(T) <= Cardinality(S)
  BY <1>1, FS_Subset
<1>4. QED BY <1>1, <1>2, <1>3 DEF TypeOK, StoreTypeOK

\* A step that saves nothing, ends no life and brings no job back to a process
\* that was done with it keeps the invariant.
LEMMA LivesKept ==
  ASSUME TypeOK, TypeOK', LivesInv, snapshots' = snapshots, Ended' = Ended,
         \A p \in Procs, j \in Jobs : MayRun(p, j)' => MayRun(p, j)
  PROVE  LivesInv'
<1>1. SUFFICES ASSUME NEW j \in Jobs
               PROVE  snapshots[j] <= Ended + Cardinality({p \in Procs : ~MayRun(p, j)'})
  BY DEF LivesInv
<1> DEFINE U == {p \in Procs : ~MayRun(p, j)}
           V == {p \in Procs : ~MayRun(p, j)'}
<1>2. U \subseteq V /\ V \subseteq Procs /\ U \subseteq Procs /\ Leaving \subseteq Procs
  BY DEF Leaving
<1>3. snapshots[j] <= Ended + Cardinality(U)
  BY DEF LivesInv
<1> HIDE DEF U, V
<1>4. Cardinality(U) <= Cardinality(V) /\ Cardinality(U) \in Nat /\ Cardinality(V) \in Nat
  BY <1>2, Counts
<1>5. Ended \in Int /\ snapshots[j] \in Int
  BY <1>2, Counts DEF Ended
<1>6. snapshots[j] <= Ended + Cardinality(V)
  BY <1>3, <1>4, <1>5
<1>7. QED BY <1>6 DEF V

\* Nothing but main moves a process from one life to the next.
LEMMA SameLife ==
  ASSUME UNCHANGED << phase, crashes, signals >>
  PROVE  Ended' = Ended
BY DEF Ended, Leaving

\* A handler takes its job along, to the channel at last; the request that comes
\* brings a job that is new.
LEMMA HandlerLives ==
  ASSUME TypeOK, TypeOK', LivesInv,
         \/ \E h \in Handlers : HandlerStep(h) \/ \E k \in Keys \cup {NoKey} : Arrive(h, k)
         \/ TimePasses
         \/ UNCHANGED vars
  PROVE  LivesInv'
<1>1. /\ queue \in [Procs -> Seq(Jobs)] /\ handler \in [Handlers -> HandlerRecord]
      /\ nextId \in Nat
  BY DEF TypeOK, Jobs
<1>2. ASSUME NEW h \in Handlers, HandlerStep(h) PROVE LivesInv'
  <2>1. UNCHANGED << worker, phase, snapshots, crashes, signals, nextId >>
    BY <1>2 DEF HandlerStep, Lookup, CheckStopped, Insert, Relookup, EnqueueCheck, Send, Refuse,
       Write, UpdateJob, CreateJob, storeVars, boundVars
  <2>2. ASSUME NEW p \in Procs, NEW j \in Jobs, MayRun(p, j)' PROVE MayRun(p, j)
    <3>1. WorkersOf(p)' = WorkersOf(p) /\ HandlersOf(p)' = HandlersOf(p)
      BY DEF WorkersOf, HandlersOf
    <3>2. ASSUME NEW a \in DOMAIN queue'[p], queue'[p][a] = j PROVE MayRun(p, j)
      <4>1. CASE queue'[p] = queue[p]
        BY <3>2, <4>1 DEF MayRun
      <4>2. CASE p = Host[h] /\ Send(h) /\ ~Full(p)
        <5>1. /\ handler[h].step = "send" /\ handler[h].job \in Jobs /\ h \in HandlersOf(p)
              /\ queue'[p] = Append(queue[p], handler[h].job) /\ queue[p] \in Seq(Jobs)
          <6>1. handler[h].step = "send" /\ queue' = [queue EXCEPT ![p] = Append(@, handler[h].job)]
            BY <4>2 DEF Send
          <6>2. handler[h].job \in Jobs \cup {NoJob}
            BY <1>1 DEF HandlerRecord
          <6>3. queue'[p] \in Seq(Jobs) /\ queue'[p] = Append(queue[p], handler[h].job)
            BY <1>1, <6>1 DEF TypeOK
          <6>4. handler[h].job \in Jobs
            BY <1>1, <6>1, <6>2, <6>3
          <6>5. QED BY <1>1, <4>2, <6>1, <6>3, <6>4 DEF HandlersOf
        <5>2. j = handler[h].job \/ \E b \in DOMAIN queue[p] : queue[p][b] = j
          BY <3>2, <5>1, ChannelSteps
        <5>3. QED BY <5>1, <5>2 DEF MayRun
      <4>3. QED BY <1>2, <4>1, <4>2, HandlerLeaves
    <3>3. ASSUME NEW g \in HandlersOf(p), handler'[g].step \notin {"idle", "relookup"},
                 handler'[g].job = j
          PROVE  handler[g].step \notin {"idle", "relookup"} /\ handler[g].job = j
      BY <1>2, <3>3, HandlerProgress DEF HandlersOf, NoRequest, Insert
    <3>4. QED BY <2>1, <2>2, <3>1, <3>2, <3>3 DEF MayRun
  <2>3. QED BY <2>1, <2>2, LivesKept, SameLife
<1>3. ASSUME NEW h \in Handlers, NEW k \in Keys \cup {NoKey}, Arrive(h, k) PROVE LivesInv'
  <2>1. /\ UNCHANGED << worker, queue, phase, snapshots, crashes, signals >>
        /\ nextId' = nextId + 1 /\ handler'[h].job = nextId
        /\ \A g \in Handlers \ {h} : handler'[g] = handler[g]
    BY <1>1, <1>3 DEF Arrive, storeVars, boundVars
  <2>2. ASSUME NEW p \in Procs, NEW j \in Jobs, MayRun(p, j)' PROVE MayRun(p, j)
    <3>1. WorkersOf(p)' = WorkersOf(p) /\ HandlersOf(p)' = HandlersOf(p)
      BY DEF WorkersOf, HandlersOf
    <3>2. j \in Int
      BY DEF Jobs
    <3>3. ASSUME NEW g \in HandlersOf(p), handler'[g].step \notin {"idle", "relookup"},
                 handler'[g].job = j
          PROVE  MayRun(p, j)
      <4>1. CASE g = h
        BY <1>1, <2>1, <3>2, <3>3, <4>1 DEF MayRun
      <4>2. CASE g # h
        BY <2>1, <3>3, <4>2 DEF MayRun, HandlersOf
      <4>3. QED BY <4>1, <4>2
    <3>4. j >= nextId' => j >= nextId
      BY <1>1, <2>1, <3>2
    <3>5. QED BY <2>1, <2>2, <3>1, <3>3, <3>4 DEF MayRun
  <2>3. QED BY <2>1, <2>2, LivesKept, SameLife
<1>4. CASE TimePasses \/ UNCHANGED vars
  <2>1. UNCHANGED << worker, queue, handler, phase, snapshots, crashes, signals, nextId >>
    BY <1>4 DEF TimePasses, Age, procVars, boundVars, vars
  <2>2. \A p \in Procs, j \in Jobs : MayRun(p, j)' => MayRun(p, j)
    BY <2>1 DEF MayRun, WorkersOf, HandlersOf
  <2>3. QED BY <2>1, <2>2, LivesKept, SameLife
<1>5. QED BY <1>2, <1>3, <1>4

\* A worker that saves a job has nothing of it any more, and nobody else in its
\* instance does; a worker that saves nothing takes its job on, or lets go of it.
LEMMA WorkerLives ==
  ASSUME TypeOK, TypeOK', RowInv, QuietStart, ExclusiveHandling, LivesInv,
         NEW w \in Workers, WorkerStep(w)
  PROVE  LivesInv'
<1> DEFINE q == Host[w]
<1>1. /\ UNCHANGED << phase, handler, crashes, signals, nextId >>
      /\ q \in Procs /\ worker \in [Workers -> WorkerRecord] /\ queue \in [Procs -> Seq(Jobs)]
      /\ \A v \in Workers \ {w} : worker'[v] = worker[v]
  <2>1. UNCHANGED << phase, handler, crashes, signals, nextId >>
    BY DEF WorkerStep, Take, MarkRunning, ProfileFails, ProfileAndSave, Finish, WorkerExit, boundVars
  <2>2. \A v \in Workers \ {w} : worker'[v] = worker[v]
    BY WorkerProgress
  <2>3. QED BY <2>1, <2>2 DEF TypeOK
<1>2. ASSUME NEW p \in Procs, NEW j \in Jobs, MayRun(p, j)' PROVE MayRun(p, j)
  <2>1. WorkersOf(p)' = WorkersOf(p) /\ HandlersOf(p)' = HandlersOf(p)
    BY DEF WorkersOf, HandlersOf
  <2>2. CASE queue'[p] = queue[p]
    <3>1. ASSUME NEW v \in WorkersOf(p), worker'[v].step \in {"taken", "running"}, worker'[v].job = j
          PROVE  MayRun(p, j)
      <4>1. CASE v # w
        BY <1>1, <3>1, <4>1 DEF MayRun, WorkersOf
      <4>2. CASE v = w /\ Take(w)
        <5>1. p = q
          BY <4>2 DEF WorkersOf
        <5>2. queue[p] \in Seq(Jobs) /\ queue[p] # << >> /\ Head(queue[p]) = j
          BY <1>1, <3>1, <4>2, <5>1 DEF Take
        <5>3. 1 \in DOMAIN queue[p] /\ queue[p][1] = j
          BY <5>2, ChannelSteps
        <5>4. QED BY <5>3 DEF MayRun
      <4>3. CASE v = w /\ ~Take(w)
        <5>1. worker'[w] \notin {Waiting, Off}
          BY <3>1, <4>3 DEF Waiting, Off
        <5>2. worker[w].step \in {"taken", "running"} /\ worker[w].job = j
          BY <3>1, <4>3, <5>1, WorkerProgress
        <5>3. QED BY <3>1, <4>3, <5>2 DEF MayRun
      <4>4. QED BY <4>1, <4>2, <4>3
    <3>2. QED BY <1>1, <1>2, <2>1, <2>2, <3>1 DEF MayRun
  <2>3. CASE p = q /\ Take(w)
    <3>1. /\ queue[p] \in Seq(Jobs) /\ queue[p] # << >> /\ queue'[p] = Tail(queue[p])
          /\ worker'[w].job = Head(queue[p])
      BY <1>1, <2>3 DEF Take
    <3>2. /\ \A a \in DOMAIN queue'[p] : a + 1 \in DOMAIN queue[p] /\ queue'[p][a] = queue[p][a + 1]
          /\ 1 \in DOMAIN queue[p] /\ worker'[w].job = queue[p][1]
      BY <3>1, ChannelSteps
    <3>3. ASSUME NEW v \in WorkersOf(p), worker'[v].step \in {"taken", "running"}, worker'[v].job = j
          PROVE  MayRun(p, j)
      BY <1>1, <3>2, <3>3 DEF MayRun, WorkersOf
    <3>4. QED BY <1>1, <1>2, <2>1, <3>2, <3>3 DEF MayRun
  <2>4. QED BY <2>2, <2>3, WorkerLeaves
<1>3. CASE snapshots' = snapshots
  BY <1>1, <1>2, <1>3, LivesKept, SameLife
<1>4. CASE snapshots' # snapshots
  <2>1. ProfileAndSave(w) /\ SaveProfile(worker[w].job)
    BY <1>4 DEF WorkerStep, Take, MarkRunning, ProfileFails, ProfileAndSave, Finish, WorkerExit, Write,
       UpdateJob, storeVars
  <2>2. PICK i \in Jobs : worker[w].job = i /\ worker[w].step = "running" /\ i # NoJob
    BY <2>1, JobsInHand DEF ProfileAndSave, RowInv, NoJob, Jobs
  <2>3. worker'[w].step \in {"completing", "failing"}
    BY <1>1, <2>1, WorkerProgress DEF ProfileAndSave, ProceedAfter, Proceed, AfterError, WorkerRecord
  <2>4. HeldOnce(q) /\ w \in WorkersOf(q) /\ w \in Workers /\ queue'[q] = queue[q]
    BY <2>1 DEF ExclusiveHandling, WorkersOf, ProfileAndSave
  <2>5. MayRun(q, i)
    BY <2>2, <2>4 DEF MayRun
  <2>6. ~MayRun(q, i)'
    <3>1. phase[q] \notin {"down", "starting", "listing"}
      BY <1>1, <2>2, <2>4 DEF QuietStart, Off
    <3>2. Present(i) /\ ~(i >= nextId)
      <4>1. Present(worker[w].job)
        BY <2>2 DEF RowInv, RowsInHand
      <4>2. Present(i)
        BY <2>2, <4>1
      <4>3. QED BY <4>2 DEF RowInv, RowsInHand
    <3>3. \A a \in DOMAIN queue[q] : queue[q][a] # i
      BY <2>2, <2>4 DEF HeldOnce
    <3>4. \A v \in WorkersOf(q) : v # w => worker[v].job # i
      BY <2>2, <2>4 DEF HeldOnce
    <3>5. \A h \in HandlersOf(q) :
            handler[h].step \notin {"idle", "relookup"} => handler[h].job # i
      <4>1. SUFFICES ASSUME NEW h \in HandlersOf(q), handler[h].step \notin {"idle", "relookup"}
                     PROVE  handler[h].job # i
        OBVIOUS
      <4>2. h \in Handlers /\ handler[h].step \in HandlerSteps
        BY DEF HandlersOf, TypeOK, HandlerRecord
      <4>3. CASE Inserted(h)
        <5>1. worker[w].job # handler[h].job
          BY <2>4, <4>1, <4>3 DEF HeldOnce
        <5>2. QED BY <2>2, <5>1
      <4>4. CASE handler[h].step \in {"lookup", "check", "insert"}
        BY <3>2, <4>2, <4>4 DEF RowInv, RowsInHand
      <4>5. QED BY <4>1, <4>2, <4>3, <4>4 DEF HandlerSteps, Inserted
    <3>6. WorkersOf(q)' = WorkersOf(q) /\ HandlersOf(q)' = HandlersOf(q)
      BY DEF WorkersOf, HandlersOf
    <3>7. \A v \in WorkersOf(q) : worker'[v].step \in {"taken", "running"} => worker'[v].job # i
      BY <1>1, <2>3, <3>4 DEF WorkersOf
    <3>8. /\ phase'[q] \notin {"down", "starting", "listing"} /\ ~(i >= nextId')
          /\ \A a \in DOMAIN queue'[q] : queue'[q][a] # i
          /\ \A h \in HandlersOf(q) :
               handler'[h].step \notin {"idle", "relookup"} => handler'[h].job # i
      BY <1>1, <2>4, <3>1, <3>2, <3>3, <3>5
    <3>9. QED BY <3>6, <3>7, <3>8 DEF MayRun
  <2>7. SUFFICES ASSUME NEW j \in Jobs
                 PROVE  snapshots'[j] <= Ended + Cardinality({p \in Procs : ~MayRun(p, j)'})
    BY <1>1, SameLife DEF LivesInv
  <2> DEFINE U == {p \in Procs : ~MayRun(p, j)}
             V == {p \in Procs : ~MayRun(p, j)'}
  <2>8. /\ U \subseteq V /\ V \subseteq Procs /\ U \subseteq Procs
        /\ j = i => q \notin U /\ U \cup {q} \subseteq V
        /\ snapshots[j] <= Ended + Cardinality(U)
        /\ snapshots'[j] = IF j = i THEN snapshots[j] + 1 ELSE snapshots[j]
    <3>1. snapshots'[j] = IF j = i THEN snapshots[j] + 1 ELSE snapshots[j]
      BY <2>1, <2>2 DEF SaveProfile, TypeOK, StoreTypeOK
    <3>2. snapshots[j] <= Ended + Cardinality(U)
      BY DEF LivesInv
    <3>3. U \subseteq V /\ (j = i => q \notin U /\ U \cup {q} \subseteq V)
      <4>1. \A p \in Procs : MayRun(p, j)' => MayRun(p, j)
        BY <1>2
      <4>2. j = i => MayRun(q, j) /\ ~MayRun(q, j)'
        BY <2>5, <2>6
      <4>3. QED BY <1>1, <4>1, <4>2
    <3>4. QED BY <3>1, <3>2, <3>3
  <2> HIDE DEF U, V
  <2>9. /\ IsFiniteSet(U) /\ Cardinality(U) \in Nat /\ Cardinality(V) \in Nat
        /\ Cardinality(U) <= Cardinality(V)
        /\ j = i => Cardinality(U \cup {q}) = Cardinality(U) + 1
                    /\ Cardinality(U \cup {q}) <= Cardinality(V)
    <3>1. IsFiniteSet(U) /\ Cardinality(U) \in Nat /\ Cardinality(V) \in Nat
      BY <2>8, Counts
    <3>2. \A T : T \subseteq V => Cardinality(T) <= Cardinality(V)
      BY <2>8, Counts
    <3>3. j = i => Cardinality(U \cup {q}) = Cardinality(U) + 1
      BY <2>8, <3>1, FS_AddElement
    <3>4. QED BY <2>8, <3>1, <3>2, <3>3
  <2>10. Leaving \subseteq Procs
    BY DEF Leaving
  <2>11. Ended \in Int /\ snapshots[j] \in Int
    BY <2>10, Counts DEF Ended
  <2>12. snapshots'[j] <= Ended + Cardinality(V)
    BY <2>8, <2>9, <2>11
  <2>13. QED BY <2>12 DEF V
<1>5. QED BY <1>3, <1>4

\* The end of a process closes a life, and the next one may run every job again;
\* the signal is counted while the process is on its way out, and only once.
LEMMA ServerLives ==
  ASSUME TypeOK, TypeOK', QuietStart, LivesInv,
         NEW q \in Procs, ServerStep(q) \/ Signal(q) \/ Crash(q)
  PROVE  LivesInv'
<1>1. /\ phase \in [Procs -> Phases] /\ queue \in [Procs -> Seq(Jobs)]
      /\ Leaving \subseteq Procs
      /\ snapshots' = snapshots /\ nextId' = nextId
  <2>1. snapshots' = snapshots
    BY DEF ServerStep, Boot, StartRecover, StartRequeue, CloseStore, Stop, FailQueuedJob, Exit,
       Signal, Crash, Vanish, Write, UpdateJob, RecoverStaleRunningJobs, storeVars
  <2>2. nextId' = nextId
    BY DEF ServerStep, Boot, StartRecover, StartRequeue, CloseStore, Stop, FailQueuedJob, Exit,
       Signal, Crash, Vanish
  <2>3. QED BY <2>1, <2>2 DEF TypeOK, Leaving
<1>2. IsFiniteSet(Leaving) /\ Cardinality(Leaving) \in Nat /\ crashes \in Nat /\ signals \in Nat
  BY <1>1, Counts
<1>3. \A p \in Procs : WorkersOf(p)' = WorkersOf(p) /\ HandlersOf(p)' = HandlersOf(p)
  BY DEF WorkersOf, HandlersOf
\* Another process is where it was.
<1>4. ASSUME NEW p \in Procs \ {q}, NEW j \in Jobs PROVE MayRun(p, j)' = MayRun(p, j)
  <2>1. phase'[p] = phase[p] /\ queue'[p] = queue[p]
    BY <1>1 DEF ServerStep, Boot, StartRecover, StartRequeue, CloseStore, Stop, FailQueuedJob, Exit,
       Signal, Crash, Vanish, Enter
  <2>2. /\ \A w \in WorkersOf(p) : worker'[w] = worker[w]
        /\ \A h \in HandlersOf(p) : handler'[h] = handler[h]
    BY DEF ServerStep, Boot, StartRecover, StartRequeue, CloseStore, Stop, FailQueuedJob, Exit,
       Signal, Crash, Vanish, WorkersOf, HandlersOf
  <2>3. QED BY <1>1, <1>3, <2>1, <2>2 DEF MayRun
<1>5. CASE Boot(q) \/ StartRecover(q) \/ StartRequeue(q)
  <2>1. /\ UNCHANGED << crashes, signals >>
        /\ phase[q] \in {"down", "starting", "listing"}
        /\ phase'[q] \in {"starting", "listing", "serving"}
        /\ \A p \in Procs \ {q} : phase'[p] = phase[p]
    BY <1>1, <1>5 DEF Boot, StartRecover, StartRequeue, Enter, boundVars
  <2>2. Leaving' = Leaving
    BY <2>1 DEF Leaving
  <2>3. Ended' = Ended
    BY <2>1, <2>2 DEF Ended
  <2>4. \A j \in Jobs : MayRun(q, j)
    BY <2>1 DEF MayRun
  <2>5. QED BY <1>1, <1>4, <2>3, <2>4, LivesKept
<1>6. CASE CloseStore(q) \/ Stop(q) \/ FailQueuedJob(q)
  <2>1. /\ UNCHANGED << crashes, signals, worker, handler >>
        /\ phase[q] \in {"draining", "closed", "stopping"}
        /\ phase'[q] \in {"draining", "closed", "stopping"}
        /\ \A p \in Procs \ {q} : phase'[p] = phase[p]
    BY <1>1, <1>6 DEF CloseStore, Stop, FailQueuedJob, Enter, Stopped, boundVars
  <2>2. Leaving' = Leaving
    BY <2>1 DEF Leaving
  <2>3. Ended' = Ended
    BY <2>1, <2>2 DEF Ended
  <2>4. \A a \in DOMAIN queue'[q] : \E b \in DOMAIN queue[q] : queue[q][b] = queue'[q][a]
    <3>1. CASE queue' = queue
      BY <3>1
    <3>2. CASE FailQueuedJob(q)
      <4>1. queue[q] \in Seq(Jobs) /\ queue[q] # << >> /\ queue'[q] = Tail(queue[q])
        BY <1>1, <3>2 DEF FailQueuedJob
      <4>2. \A a \in DOMAIN queue'[q] : a + 1 \in DOMAIN queue[q] /\ queue'[q][a] = queue[q][a + 1]
        BY <4>1, ChannelSteps
      <4>3. QED BY <4>2
    <3>3. QED BY <1>6, <3>1, <3>2 DEF CloseStore, Stop
  <2>5. \A j \in Jobs : MayRun(q, j)' => MayRun(q, j)
    BY <1>1, <1>3, <2>1, <2>4 DEF MayRun
  <2>6. QED BY <1>1, <1>4, <2>3, <2>5, LivesKept
<1>7. CASE Signal(q)
  <2>1. /\ UNCHANGED << crashes, worker, handler, queue >>
        /\ signals' = signals + 1
        /\ phase[q] = "serving" /\ phase'[q] = "draining"
        /\ \A p \in Procs \ {q} : phase'[p] = phase[p]
    BY <1>1, <1>7 DEF Signal, Enter
  <2>2. Leaving' = Leaving \cup {q} /\ q \notin Leaving
    BY <2>1 DEF Leaving
  <2>3. Cardinality(Leaving') = Cardinality(Leaving) + 1
    BY <1>2, <2>2, FS_AddElement
  <2>4. Ended' = Ended
    BY <1>2, <2>1, <2>3 DEF Ended
  <2>5. \A j \in Jobs : MayRun(q, j)' => MayRun(q, j)
    BY <1>1, <1>3, <2>1 DEF MayRun
  <2>6. QED BY <1>1, <1>4, <2>4, <2>5, LivesKept
<1>8. CASE Exit(q) \/ Crash(q)
  <2>1. /\ signals' = signals
        /\ \/ q \in Leaving /\ crashes' = crashes
           \/ crashes' = crashes + 1
        /\ phase' = [phase EXCEPT ![q] = "down"]
    BY <1>8 DEF Exit, Crash, Vanish, Stopped, Leaving, boundVars
  <2>2. Leaving' = Leaving \ {q}
    BY <1>1, <2>1 DEF Leaving
  <2>3. /\ Cardinality(Leaving') \in Nat /\ Cardinality(Leaving') <= Cardinality(Leaving)
        /\ q \in Leaving => Cardinality(Leaving') = Cardinality(Leaving) - 1
    <3>1. Cardinality(Leaving') \in Nat /\ Cardinality(Leaving') <= Cardinality(Leaving)
      BY <1>1, <2>2, Counts
    <3>2. q \in Leaving => Cardinality(Leaving \ {q}) = Cardinality(Leaving) - 1
      BY <1>2, FS_RemoveElement
    <3>3. QED BY <2>2, <3>1, <3>2
  <2>4. Ended \in Int /\ Ended' \in Int /\ Ended' >= Ended + 1
    BY <1>2, <2>1, <2>3 DEF Ended
  <2>5. SUFFICES ASSUME NEW j \in Jobs
                 PROVE  snapshots[j] <= Ended' + Cardinality({p \in Procs : ~MayRun(p, j)'})
    BY <1>1 DEF LivesInv
  <2> DEFINE U == {p \in Procs : ~MayRun(p, j)}
             V == {p \in Procs : ~MayRun(p, j)'}
  <2>6. snapshots[j] <= Ended + Cardinality(U) /\ U \subseteq V \cup {q} /\ V \subseteq Procs
    BY <1>4 DEF LivesInv
  <2> HIDE DEF U, V
  <2>7. IsFiniteSet(V) /\ Cardinality(V) \in Nat /\ snapshots[j] \in Nat
    BY <2>6, Counts
  <2>8. Cardinality(V \cup {q}) <= Cardinality(V) + 1 /\ Cardinality(V \cup {q}) \in Nat
        /\ Cardinality(U) <= Cardinality(V \cup {q}) /\ Cardinality(U) \in Nat
    <3>1. V \cup {q} \subseteq Procs /\ U \subseteq Procs
      BY <2>6
    <3>2. Cardinality(V \cup {q}) \in Nat /\ Cardinality(U) \in Nat
      BY <3>1, Counts
    <3>3. Cardinality(U) <= Cardinality(V \cup {q})
      BY <2>6, <3>1, Counts
    <3>4. Cardinality(V \cup {q}) = IF q \in V THEN Cardinality(V) ELSE Cardinality(V) + 1
      BY <2>7, FS_AddElement
    <3>5. QED BY <2>7, <3>2, <3>3, <3>4
  <2>9. snapshots[j] <= Ended' + Cardinality(V)
    BY <2>4, <2>6, <2>7, <2>8
  <2>10. QED BY <2>9 DEF V
<1>9. QED BY <1>5, <1>6, <1>7, <1>8 DEF ServerStep

\* A process profiles a job once a life: however the store fails, a job has at
\* most one snapshot for every process and for every life that is over.
THEOREM OneSnapshotALife == Spec => []SnapshotsBounded
<1> DEFINE Local == TypeOK /\ RowInv /\ QuietStart /\ ExclusiveHandling
<1>1. Init => LivesInv
  <2>1. SUFFICES ASSUME Init PROVE LivesInv
    OBVIOUS
  <2>2. Leaving = {} /\ \A j \in Jobs : {p \in Procs : ~MayRun(p, j)} = {} /\ snapshots[j] = 0
    BY <2>1 DEF Init, StoreInit, Leaving, MayRun
  <2>3. Ended = 0
    BY <2>1, <2>2, FS_EmptySet DEF Ended, Init
  <2>4. ASSUME NEW j \in Jobs
        PROVE  snapshots[j] <= Ended + Cardinality({p \in Procs : ~MayRun(p, j)})
    <3>1. Cardinality({p \in Procs : ~MayRun(p, j)}) = 0 /\ snapshots[j] = 0
      BY <2>2, FS_EmptySet
    <3>2. QED BY <2>3, <3>1
  <2>5. QED BY <2>4 DEF LivesInv
<1>2. Local /\ Local' /\ LivesInv /\ [Next]_vars => LivesInv'
  <2>1. SUFFICES ASSUME Local, Local', LivesInv, [Next]_vars PROVE LivesInv'
    OBVIOUS
  <2>2. \/ \E w \in Workers : WorkerStep(w)
        \/ \E p \in Procs : ServerStep(p) \/ Signal(p) \/ Crash(p)
        \/ \/ \E h \in Handlers : HandlerStep(h) \/ \E k \in Keys \cup {NoKey} : Arrive(h, k)
           \/ TimePasses
           \/ UNCHANGED vars
    BY <2>1 DEF Next
  <2>3. QED BY <2>1, <2>2, HandlerLives, WorkerLives, ServerLives
<1>3. TypeOK /\ LivesInv => SnapshotsBounded
  <2>1. SUFFICES ASSUME TypeOK, LivesInv, NEW j \in Jobs
                 PROVE  snapshots[j] <= Cardinality(Procs) + crashes + signals
    BY DEF SnapshotsBounded
  <2> DEFINE U == {p \in Procs : ~MayRun(p, j)}
  <2>2. snapshots[j] <= Ended + Cardinality(U) /\ U \subseteq Procs /\ Leaving \subseteq Procs
    BY <2>1 DEF LivesInv, Leaving
  <2> HIDE DEF U
  <2>3. /\ Cardinality(U) <= Cardinality(Procs) /\ Cardinality(U) \in Nat
        /\ Cardinality(Procs) \in Nat /\ Cardinality(Leaving) \in Nat
        /\ crashes \in Nat /\ signals \in Nat /\ snapshots[j] \in Nat
    BY <2>1, <2>2, Counts
  <2>4. QED BY <2>2, <2>3 DEF Ended
<1>4. Spec => []Local
  BY LocalInvariant
<1>5. Local => TypeOK
  OBVIOUS
<1> HIDE DEF Local
<1>6. QED BY <1>1, <1>2, <1>3, <1>4, <1>5, PTL DEF Spec

-----------------------------------------------------------------------------
(* Any number of instances: a running row has a worker                     *)

\* No process has ended and no store call has failed.
Calm == crashes = 0 /\ signals = 0 /\ faults = 0

\* Workers start after Start has listed the jobs.
OffBefore ==
  \A w \in Workers : phase[Host[w]] \in {"down", "starting", "listing"} => worker[w] = Off

\* Until then every process is on its way up or serves, and a running row has
\* its worker.
CalmInv ==
  /\ OffBefore
  /\ Calm => /\ \A p \in Procs : phase[p] \in {"down", "starting", "listing", "serving"}
             /\ \A j \in Running : AtWorker(j)

\* A call of a process that has its workers ends well, as long as it is calm.
LEMMA CalmOutcome ==
  ASSUME TypeOK, CalmInv, Calm', UNCHANGED << crashes, signals >>,
         NEW p \in Procs, NEW o \in Outcomes(p), Charge(p, o),
         phase[p] \notin {"down"}
  PROVE  Calm /\ o = "ok"
<1>1. faults \in Nat /\ faults' = 0
  BY DEF TypeOK, Calm
<1>2. faults' = faults \/ faults' = faults + 1
  BY DEF Charge
<1>3. Calm
  BY <1>1, <1>2 DEF Calm
<1>4. StoreOpen(p)
  BY <1>3 DEF CalmInv, StoreOpen
<1>5. QED BY <1>1, <1>3, <1>4 DEF Charge, Calm

\* A worker sets the row of its job running and keeps the job; it lets go of it
\* only with the write that ends it.
LEMMA WorkerCalm ==
  ASSUME TypeOK, RowInv, CalmInv, NEW w \in Workers, WorkerStep(w)
  PROVE  CalmInv'
<1> DEFINE j == worker[w].job
           p == Host[w]
<1>1. /\ UNCHANGED << phase, crashes, signals >>
      /\ p \in Procs
      /\ worker \in [Workers -> WorkerRecord] /\ StoreTypeOK
      /\ \A v \in Workers \ {w} : worker'[v] = worker[v]
      /\ worker[w].step # "off"
  BY WorkerProgress
  DEF TypeOK, WorkerStep, Take, MarkRunning, ProfileFails, ProfileAndSave, Finish, WorkerExit,
      boundVars
<1>2. phase[p] \notin {"down", "starting", "listing"}
  BY <1>1 DEF CalmInv, OffBefore, Off
<1>3. OffBefore'
  BY <1>1, <1>2 DEF CalmInv, OffBefore
<1>4. SUFFICES ASSUME Calm'
               PROVE  Calm /\ \A i \in Jobs : jobs'[i].status = "running" =>
                                \E v \in Workers : worker'[v].job = i
  BY <1>1, <1>3 DEF CalmInv, Running, AtWorker
<1>5. Calm => \A i \in Jobs : jobs[i].status = "running" =>
                \E v \in Workers : worker[v].job = i
  BY DEF CalmInv, Running, AtWorker
<1>6. CASE Take(w)
  <2>1. Calm /\ jobs' = jobs /\ worker[w].job = NoJob
    BY <1>4, <1>6 DEF Take, Calm, boundVars, storeVars, RowInv, NamedJobs
  <2>2. \A i \in Jobs : i # NoJob
    BY DEF Jobs, NoJob
  <2>3. QED BY <1>1, <1>5, <2>1, <2>2
<1>7. CASE MarkRunning(w)
  <2>1. PICK o \in Outcomes(p) :
          /\ Write(p, o, j, "running", "none")
          /\ o = "ok" => worker' = [worker EXCEPT ![w].step = "running"]
    BY <1>7 DEF MarkRunning, ProceedAfter, Proceed
  <2>2. Calm /\ o = "ok"
    BY <1>1, <1>2, <1>4, <2>1, CalmOutcome DEF Write
  <2>3. j \in Jobs
    BY <1>7, JobsInHand DEF MarkRunning, RowInv
  <2>4. \A i \in Jobs \ {j} : jobs'[i] = jobs[i]
    BY <1>1, <2>1, <2>3, WriteRow
  <2>5. \A v \in Workers : worker'[v].job = worker[v].job
    BY <1>1, <2>1, <2>2 DEF WorkerRecord
  <2>6. QED BY <1>5, <2>2, <2>4, <2>5
<1>8. CASE ProfileFails(w) \/ ProfileAndSave(w)
  <2>1. jobs' = jobs
    BY <1>8 DEF ProfileFails, ProfileAndSave, SaveProfile, storeVars
  <2>2. \A v \in Workers : worker'[v].job = worker[v].job
    <3>1. \E s \in {"completing", "failing"} : worker' = [worker EXCEPT ![w].step = s]
      BY <1>8 DEF ProfileFails, ProfileAndSave, ProceedAfter, Proceed, AfterError
    <3>2. QED BY <1>1, <3>1 DEF WorkerRecord
  <2>3. Calm
    <3>1. CASE ProfileFails(w)
      BY <1>4, <3>1 DEF ProfileFails, Calm, boundVars
    <3>2. CASE ProfileAndSave(w)
      BY <1>1, <1>2, <1>4, <3>2, CalmOutcome DEF ProfileAndSave
    <3>3. QED BY <1>8, <3>1, <3>2
  <2>4. QED BY <1>5, <2>1, <2>2, <2>3
<1>9. CASE Finish(w)
  <2>1. PICK o \in Outcomes(p), s \in {"completed", "failed"}, e \in Errors : Write(p, o, j, s, e)
    BY <1>9 DEF Finish, Errors
  <2>2. Calm /\ o = "ok"
    BY <1>1, <1>2, <1>4, <2>1, CalmOutcome DEF Write
  <2>3. j \in Jobs
    BY <1>9, JobsInHand DEF Finish, RowInv
  <2>4. (\A i \in Jobs \ {j} : jobs'[i] = jobs[i]) /\ jobs'[j].status # "running"
    BY <1>1, <2>1, <2>2, <2>3, WriteRow
  <2>5. QED BY <1>1, <1>5, <2>2, <2>4
<1>10. CASE WorkerExit(w)
  <2>1. Calm /\ jobs' = jobs /\ worker[w].job = NoJob
    BY <1>4, <1>10 DEF WorkerExit, Calm, boundVars, storeVars, RowInv, NamedJobs
  <2>2. \A i \in Jobs : i # NoJob
    BY DEF Jobs, NoJob
  <2>3. QED BY <1>1, <1>5, <2>1, <2>2
<1>11. QED BY <1>6, <1>7, <1>8, <1>9, <1>10 DEF WorkerStep

\* Handlers write "queued" and "failed" only.
LEMMA HandlerCalm ==
  ASSUME TypeOK, RowInv, CalmInv,
         \/ \E h \in Handlers : HandlerStep(h) \/ \E k \in Keys \cup {NoKey} : Arrive(h, k)
         \/ TimePasses
  PROVE  CalmInv'
<1>1. /\ UNCHANGED << phase, crashes, signals, worker >>
      /\ faults' = faults \/ faults' = faults + 1
  BY DEF HandlerStep, Lookup, CheckStopped, Insert, Relookup, EnqueueCheck, Send, Refuse, Arrive,
     TimePasses, Write, Charge, procVars, boundVars
<1>2. Calm' => Calm
  BY <1>1 DEF Calm, TypeOK
<1>3. \A j \in Jobs : jobs'[j].status = "running" => jobs[j].status = "running"
  <2>1. CASE \E h \in Handlers : Insert(h)
    <3>1. PICK h \in Handlers : Insert(h)
      BY <2>1
    <3>2. handler[h].job \in Jobs
      BY <3>1, JobsInHand DEF Insert, RowInv
    <3>3. UNCHANGED storeVars \/ CreateJob(handler[h].job, handler[h].key)
      BY <3>1 DEF Insert
    <3>4. QED BY <3>2, <3>3, CreateJobRow DEF TypeOK, storeVars
  <2>2. CASE \E h \in Handlers : Refuse(h)
    <3>1. PICK h \in Handlers : Refuse(h)
      BY <2>2
    <3>2. handler[h].job \in Jobs
      BY <3>1, JobsInHand DEF Refuse, RowInv
    <3>3. PICK o \in Outcomes(Host[h]) : Write(Host[h], o, handler[h].job, "failed", "queue full")
      BY <3>1 DEF Refuse
    <3>4. UNCHANGED storeVars \/ UpdateJob(handler[h].job, "failed", "queue full")
      BY <3>3 DEF Write
    <3>5. StoreTypeOK
      BY DEF TypeOK
    <3>6. ASSUME UpdateJob(handler[h].job, "failed", "queue full"), NEW j \in Jobs
          PROVE  jobs'[j].status \in {jobs[j].status, "failed"}
      BY <3>2, <3>5, <3>6 DEF UpdateJob, StoreTypeOK, Row
    <3>7. QED BY <3>4, <3>6 DEF storeVars
  <2>3. CASE ~\E h \in Handlers : Insert(h) \/ Refuse(h)
    <3>1. CASE \E h \in Handlers : HandlerStep(h)
      <4>1. jobs' = jobs
        BY <2>3, <3>1 DEF HandlerStep, Lookup, CheckStopped, Relookup, EnqueueCheck, Send, storeVars
      <4>2. QED BY <4>1
    <3>2. CASE (\E h \in Handlers : \E k \in Keys \cup {NoKey} : Arrive(h, k)) \/ TimePasses
      BY <3>2 DEF Arrive, TimePasses, Age, storeVars
    <3>3. QED BY <3>1, <3>2
  <2>4. QED BY <2>1, <2>2, <2>3
<1>4. QED BY <1>1, <1>2, <1>3 DEF CalmInv, OffBefore, Running, AtWorker

\* Start only takes rows out of running; whatever ends a process is counted.
LEMMA ServerCalm ==
  ASSUME TypeOK, CalmInv, NEW p \in Procs, ServerStep(p) \/ Signal(p) \/ Crash(p)
  PROVE  CalmInv'
<1>1. phase \in [Procs -> Phases] /\ crashes \in Nat /\ signals \in Nat /\ faults \in Nat
  BY DEF TypeOK
<1>2. CASE Signal(p) \/ Crash(p)
  <2>1. ~Calm'
    BY <1>1, <1>2 DEF Signal, Crash, Calm
  <2>2. OffBefore'
    BY <1>1, <1>2 DEF Signal, Crash, Vanish, Enter, CalmInv, OffBefore
  <2>3. QED BY <2>1, <2>2 DEF CalmInv
<1>3. CASE CloseStore(p) \/ Stop(p) \/ FailQueuedJob(p) \/ Exit(p)
  <2>1. /\ UNCHANGED << crashes, signals >>
        /\ faults' = faults \/ faults' = faults + 1
        /\ phase[p] \in {"draining", "closed", "stopping"}
    BY <1>3 DEF CloseStore, Stop, FailQueuedJob, Exit, Enter, Stopped, Write, Charge, boundVars
  <2>2. ~Calm'
    BY <1>1, <2>1 DEF CalmInv, Calm
  <2>3. OffBefore'
    BY <1>1, <1>3 DEF CloseStore, Stop, FailQueuedJob, Exit, Enter, Vanish, CalmInv, OffBefore
  <2>4. QED BY <2>2, <2>3 DEF CalmInv
<1>4. CASE Boot(p) \/ StartRecover(p) \/ StartRequeue(p)
  <2>1. /\ UNCHANGED << crashes, signals >>
        /\ faults' = faults \/ faults' = faults + 1
        /\ phase[p] \in {"down", "starting", "listing"}
        /\ phase'[p] \in {"starting", "listing", "serving"}
        /\ phase'[p] \in {"starting", "listing"} => worker' = worker
        /\ \A q \in Procs \ {p} : phase'[q] = phase[q]
    BY <1>1, <1>4 DEF Boot, StartRecover, StartRequeue, Enter, Charge, boundVars
  <2>2. \A w \in Workers : worker'[w] = worker[w] \/ Host[w] = p
    BY <1>4 DEF Boot, StartRecover, StartRequeue, TypeOK
  <2>3. \A w \in Workers : Host[w] = p => worker[w] = Off
    BY <2>1 DEF CalmInv, OffBefore
  <2>4. \A j \in Jobs : jobs'[j].status = "running" => jobs[j].status = "running"
    BY <1>4 DEF Boot, StartRecover, StartRequeue, RecoverStaleRunningJobs, storeVars, TypeOK,
       StoreTypeOK, Row
  <2>5. \A j \in Jobs : AtWorker(j) => AtWorker(j)'
    BY <2>2, <2>3 DEF AtWorker, Off, NoJob, Jobs
  <2>6. OffBefore'
    BY <2>1, <2>2, <2>3 DEF CalmInv, OffBefore
  <2>7. Calm' => Calm
    BY <1>1, <2>1 DEF Calm
  <2>8. QED BY <2>1, <2>4, <2>5, <2>6, <2>7 DEF CalmInv, Running
<1>5. QED BY <1>2, <1>3, <1>4 DEF ServerStep

LEMMA InitCalm == Init => CalmInv
BY DEF Init, StoreInit, NoRow, CalmInv, OffBefore, Running

\* Until a process ends or a store call fails, a running row has a worker, with
\* any number of instances: every way out of run ends in the final UpdateJob.
THEOREM RunsAreHeld == Spec => []NoOrphanedRun
<1>1. TypeOK /\ RowInv /\ CalmInv /\ [Next]_vars => CalmInv'
  <2>1. ASSUME TypeOK, RowInv, CalmInv, Next PROVE CalmInv'
    BY <2>1, HandlerCalm, WorkerCalm, ServerCalm DEF Next
  <2>2. CalmInv /\ UNCHANGED vars => CalmInv'
    BY DEF vars, CalmInv, Calm, OffBefore, Running, AtWorker
  <2>3. QED BY <2>1, <2>2
<1>2. CalmInv => NoOrphanedRun
  BY DEF CalmInv, Calm, NoOrphanedRun
<1>3. QED BY InitCalm, <1>1, <1>2, RowInvariant, PTL DEF Spec

-----------------------------------------------------------------------------
(* One instance: a queued row is in hand                                   *)

Held(j) == InChannel(j) \/ AtWorker(j) \/ AtHandler(j)

AllHeld ==
  \A p \in Procs : phase[p] \in {"serving", "draining"} => \A j \in Queued : Held(j)

\* A listing that may be as long as there are jobs leaves out no id.
LEMMA OldestHoldsAll ==
  ASSUME NEW S, S \subseteq Jobs, MaxJobs <= Cap, NEW s \in Oldest(S, Cap), NEW j \in S
  PROVE  \E a \in DOMAIN s : s[a] = j
<1>1. SUFFICES ASSUME \A a \in DOMAIN s : s[a] # j PROVE FALSE
  OBVIOUS
<1>2. PICK n \in 0 .. Cap : s \in [1 .. n -> S]
  BY DEF Oldest
<1>3. Len(s) = Cap
  BY <1>1 DEF Oldest
<1>4. Len(s) = n
  BY <1>2, SeqDef
<1>5. s \in [1 .. Cap -> Jobs \ {j}]
  BY <1>1, <1>2, <1>3, <1>4
<1>6. IsFiniteSet(1 .. Cap) /\ Cardinality(1 .. Cap) = Cap
  BY FS_Interval
<1>7. IsFiniteSet(Jobs) /\ Cardinality(Jobs) = MaxJobs
  BY FS_Interval DEF Jobs
<1>8. IsFiniteSet(Jobs \ {j}) /\ Cardinality(Jobs \ {j}) = MaxJobs - 1
  BY <1>7, FS_RemoveElement
<1>9. PICK a \in 1 .. Cap, b \in 1 .. Cap : a # b /\ s[a] = s[b]
  <2>1. Cardinality(Jobs \ {j}) < Cardinality(1 .. Cap)
    BY <1>6, <1>8
  <2> HIDE DEF Jobs
  <2>2. QED BY <1>5, <1>6, <1>8, <2>1, FS_PigeonHole
<1>10. \A c, d \in DOMAIN s : s[c] = s[d] => c = d
  BY OldestSeq
<1>11. QED BY <1>2, <1>3, <1>4, <1>9, <1>10

\* A call on an open store that is no fault ends well.
LEMMA NoFault ==
  ASSUME TypeOK, NEW p \in Procs, StoreOpen(p), NEW o \in Outcomes(p), Charge(p, o), faults' = 0
  PROVE  faults = 0 /\ o = "ok"
BY DEF TypeOK, Charge

\* A handler hands its job on: to the channel, or to the final write that
\* refuses it.
LEMMA HandlerHands ==
  ASSUME TypeOK, RowInv, StatusInHand, OneHolder, NEW h \in Handlers, HandlerStep(h),
         StoreOpen(Host[h]), faults' = 0,
         NEW j \in Jobs, jobs'[j].status = "queued",
         faults = 0 /\ jobs[j].status = "queued" => Held(j)
  PROVE  Held(j)'
<1> DEFINE p == Host[h]
<1>1. /\ p \in Procs /\ StoreTypeOK /\ handler \in [Handlers -> HandlerRecord]
      /\ queue \in [Procs -> Seq(Jobs)]
      /\ worker' = worker
      /\ \A g \in Handlers \ {h} : handler'[g] = handler[g]
  BY HandlerProgress, HandlerEffect DEF TypeOK
<1>2. faults = 0
  <2>1. CASE CheckStopped(h) \/ EnqueueCheck(h) \/ Send(h)
    BY <2>1 DEF CheckStopped, EnqueueCheck, Send, boundVars
  <2>2. CASE Lookup(h) \/ Insert(h) \/ Relookup(h) \/ Refuse(h)
    <3>1. \E o \in Outcomes(p) : Charge(p, o)
      BY <2>2 DEF Lookup, Insert, Relookup, Refuse, ReadOutcomes, Write
    <3>2. QED BY <1>1, <3>1, NoFault
  <2>3. QED BY <2>1, <2>2 DEF HandlerStep
<1>3. CASE Insert(h)
  <2>1. PICK o \in Outcomes(p) :
          LET key == handler[h].key
              failed == o # "ok" \/ Conflicts(key)
          IN  /\ Charge(p, o)
              /\ IF o = "lost" \/ Conflicts(key)
                   THEN UNCHANGED storeVars
                   ELSE CreateJob(handler[h].job, key)
              /\ IF failed /\ key = NoKey THEN Reply(h)
                 ELSE Goto(h, IF failed THEN "relookup" ELSE "enqueue")
    BY <1>3 DEF Insert
  <2>2. o = "ok"
    BY <1>1, <2>1, NoFault
  <2>3. handler[h].job \in Jobs /\ ~Inserted(h) /\ queue' = queue
    BY <1>3, JobsInHand DEF Insert, RowInv, Inserted
  <2>4. CASE Conflicts(handler[h].key)
    <3>1. jobs[j].status = "queued"
      BY <2>1, <2>4 DEF storeVars
    <3>2. QED BY <1>1, <1>2, <2>3, <3>1 DEF Held, InChannel, AtWorker, AtHandler, Inserted
  <2>5. CASE ~Conflicts(handler[h].key)
    <3>1. CreateJob(handler[h].job, handler[h].key) /\ Goto(h, "enqueue")
      BY <2>1, <2>2, <2>5
    <3>2. handler'[h].step = "enqueue" /\ handler'[h].job = handler[h].job
      BY <1>1, <3>1 DEF Goto, HandlerRecord
    <3>3. CASE j = handler[h].job
      BY <3>2, <3>3 DEF Held, AtHandler, Inserted
    <3>4. CASE j # handler[h].job
      <4>1. jobs[j].status = "queued"
        BY <1>1, <2>3, <3>1, <3>4, CreateJobRow
      <4>2. QED BY <1>1, <1>2, <2>3, <4>1 DEF Held, InChannel, AtWorker, AtHandler, Inserted
    <3>5. QED BY <3>3, <3>4
  <2>6. QED BY <2>4, <2>5
<1>4. CASE Refuse(h)
  <2>1. PICK o \in Outcomes(p) : Write(p, o, handler[h].job, "failed", "queue full")
    BY <1>4 DEF Refuse
  <2>2. o = "ok"
    BY <1>1, <2>1, NoFault DEF Write
  <2>3. handler[h].job \in Jobs /\ queue' = queue
    BY <1>4, JobsInHand DEF Refuse, RowInv
  <2>4. UpdateJob(handler[h].job, "failed", "queue full")
    BY <2>1, <2>2 DEF Write
  <2>5. j # handler[h].job /\ jobs[j].status = "queued"
    BY <1>1, <2>3, <2>4 DEF UpdateJob, StoreTypeOK, Row
  <2>6. QED BY <1>1, <1>2, <2>3, <2>5 DEF Held, InChannel, AtWorker, AtHandler, Inserted
<1>5. CASE Lookup(h) \/ CheckStopped(h) \/ Relookup(h)
  <2>1. jobs' = jobs /\ queue' = queue /\ ~Inserted(h)
    BY <1>5 DEF Lookup, CheckStopped, Relookup, Inserted, storeVars
  <2>2. QED BY <1>1, <1>2, <2>1 DEF Held, InChannel, AtWorker, AtHandler, Inserted
<1>6. CASE EnqueueCheck(h)
  <2>1. jobs' = jobs /\ queue' = queue
    BY <1>6 DEF EnqueueCheck, storeVars
  <2>2. handler'[h].step \in {"send", "refuse"} /\ handler'[h].job = handler[h].job
    BY <1>1, <1>6 DEF EnqueueCheck, Goto, HandlerRecord
  <2>3. QED BY <1>1, <1>2, <2>1, <2>2 DEF Held, InChannel, AtWorker, AtHandler, Inserted
<1>7. CASE Send(h)
  <2>1. jobs' = jobs /\ handler[h].job \in Jobs
    BY <1>7, JobsInHand DEF Send, RowInv, storeVars
  <2>2. CASE Full(p)
    <3>1. queue' = queue /\ handler'[h].step = "refuse" /\ handler'[h].job = handler[h].job
      BY <1>1, <1>7, <2>2 DEF Send, Goto, HandlerRecord
    <3>2. QED BY <1>1, <1>2, <2>1, <3>1 DEF Held, InChannel, AtWorker, AtHandler, Inserted
  <2>3. CASE ~Full(p)
    <3>1. queue' = [queue EXCEPT ![p] = Append(queue[p], handler[h].job)]
      BY <1>7, <2>3 DEF Send
    <3>2. queue[p] \in Seq(Jobs) /\ queue'[p] = Append(queue[p], handler[h].job)
      BY <1>1, <3>1
    <3>3. /\ Len(queue[p]) \in Nat /\ DOMAIN queue[p] = 1 .. Len(queue[p])
          /\ DOMAIN queue'[p] = 1 .. Len(queue[p]) + 1
          /\ queue'[p][Len(queue[p]) + 1] = handler[h].job
          /\ \A a \in 1 .. Len(queue[p]) : queue'[p][a] = queue[p][a]
      BY <2>1, <3>2, ChannelSteps
    <3>4. InChannel(j) => InChannel(j)'
      <4>1. ASSUME NEW q \in Procs, NEW a \in DOMAIN queue[q], queue[q][a] = j
            PROVE  a \in DOMAIN queue'[q] /\ queue'[q][a] = j
        BY <1>1, <3>1, <3>3, <4>1
      <4>2. QED BY <4>1 DEF InChannel
    <3>5. CASE j = handler[h].job
      <4>1. Len(queue[p]) + 1 \in DOMAIN queue'[p]
        BY <3>3
      <4>2. InChannel(j)'
        BY <1>1, <3>3, <3>5, <4>1 DEF InChannel
      <4>3. QED BY <4>2 DEF Held
    <3>6. CASE j # handler[h].job
      BY <1>1, <1>2, <2>1, <3>4, <3>6 DEF Held, AtWorker, AtHandler, Inserted
    <3>7. QED BY <3>5, <3>6
  <2>4. QED BY <2>2, <2>3
<1>8. QED BY <1>3, <1>4, <1>5, <1>6, <1>7 DEF HandlerStep

\* A worker takes the job from the channel, and lets go of it only after a
\* write that leaves it queued no longer.
LEMMA WorkerHands ==
  ASSUME TypeOK, RowInv, StatusInHand, OneHolder, NEW w \in Workers, WorkerStep(w),
         StoreOpen(Host[w]), faults' = 0,
         NEW j \in Jobs, jobs'[j].status = "queued",
         faults = 0 /\ jobs[j].status = "queued" => Held(j)
  PROVE  Held(j)'
<1> DEFINE p == Host[w]
<1>1. /\ p \in Procs /\ StoreTypeOK /\ worker \in [Workers -> WorkerRecord]
      /\ queue \in [Procs -> Seq(Jobs)]
      /\ \A v \in Workers \ {w} : worker'[v] = worker[v]
      /\ handler' = handler
      /\ j # NoJob
  <2>1. \A v \in Workers \ {w} : worker'[v] = worker[v]
    BY WorkerProgress
  <2>2. handler' = handler
    BY DEF WorkerStep, Take, MarkRunning, ProfileFails, ProfileAndSave, Finish, WorkerExit
  <2>3. j # NoJob
    BY DEF NoJob, Jobs
  <2>4. QED BY <2>1, <2>2, <2>3 DEF TypeOK
<1>2. faults = 0
  <2>1. CASE Take(w) \/ ProfileFails(w) \/ WorkerExit(w)
    BY <2>1 DEF Take, ProfileFails, WorkerExit, boundVars
  <2>2. CASE MarkRunning(w) \/ ProfileAndSave(w) \/ Finish(w)
    <3>1. \E o \in Outcomes(p) : Charge(p, o)
      BY <2>2 DEF MarkRunning, ProfileAndSave, Finish, Write
    <3>2. QED BY <1>1, <3>1, NoFault
  <2>3. QED BY <2>1, <2>2 DEF WorkerStep
<1>3. CASE Take(w)
  <2>1. jobs' = jobs /\ worker[w].job = NoJob /\ queue[p] \in Seq(Jobs) /\ queue[p] # << >>
    BY <1>1, <1>3 DEF Take, storeVars, RowInv, NamedJobs
  <2>2. queue' = [queue EXCEPT ![p] = Tail(queue[p])] /\ worker'[w].job = Head(queue[p])
    BY <1>1, <1>3 DEF Take
  <2>3. /\ Len(queue[p]) \in Nat /\ DOMAIN queue[p] = 1 .. Len(queue[p])
        /\ Head(queue[p]) = queue[p][1]
        /\ DOMAIN Tail(queue[p]) = 1 .. Len(queue[p]) - 1
        /\ \A a \in 1 .. Len(queue[p]) - 1 : Tail(queue[p])[a] = queue[p][a + 1]
    BY <2>1, ChannelSteps
  <2>4. InChannel(j) => InChannel(j)' \/ AtWorker(j)'
    <3>1. ASSUME NEW q \in Procs, NEW a \in DOMAIN queue[q], queue[q][a] = j
          PROVE  InChannel(j)' \/ AtWorker(j)'
      <4>1. CASE q # p
        <5>1. queue'[q] = queue[q]
          BY <1>1, <2>2, <4>1
        <5>2. QED BY <3>1, <5>1 DEF InChannel
      <4>2. CASE q = p /\ a = 1
        BY <2>2, <2>3, <3>1, <4>2 DEF AtWorker
      <4>3. CASE q = p /\ a # 1
        <5>1. queue'[p] = Tail(queue[p])
          BY <1>1, <2>2
        <5>2. a - 1 \in 1 .. Len(queue[p]) - 1 /\ (a - 1) + 1 = a
          BY <2>3, <4>3
        <5>3. a - 1 \in DOMAIN queue'[p] /\ queue'[p][a - 1] = j
          BY <2>3, <3>1, <4>3, <5>1, <5>2
        <5>4. QED BY <1>1, <5>3 DEF InChannel
      <4>4. QED BY <4>1, <4>2, <4>3
    <3>2. QED BY <3>1 DEF InChannel
  <2>5. QED BY <1>1, <1>2, <2>1, <2>4 DEF Held, AtWorker, AtHandler, Inserted
<1>4. CASE ~Take(w)
  <2>1. /\ queue' = queue
        /\ \A i \in Jobs \ {worker[w].job} : jobs'[i] = jobs[i]
    BY <1>4, WorkerEffect DEF RowInv
  <2>2. CASE j # worker[w].job
    <3>1. Held(j)
      BY <1>2, <2>1, <2>2
    <3>2. QED BY <1>1, <2>1, <2>2, <3>1 DEF Held, InChannel, AtWorker, AtHandler, Inserted
  <2>3. CASE j = worker[w].job
    <3>1. worker[w].step \notin {"off", "idle"}
      BY <1>1, <2>3 DEF RowInv, NamedJobs
    <3>2. CASE MarkRunning(w) \/ Finish(w)
      <4>1. PICK o \in Outcomes(p), s \in {"running", "completed", "failed"}, e \in Errors :
              Write(p, o, j, s, e)
        BY <2>3, <3>2 DEF MarkRunning, Finish, Errors
      <4>2. o = "ok"
        BY <1>1, <4>1, NoFault DEF Write
      <4>3. UpdateJob(j, s, e)
        BY <4>1, <4>2 DEF Write
      <4>4. QED BY <1>1, <4>3 DEF UpdateJob, StoreTypeOK, Row
    <3>3. CASE ProfileFails(w) \/ ProfileAndSave(w)
      <4>1. worker'[w].job = worker[w].job
        <5>1. \E s \in {"completing", "failing"} : worker' = [worker EXCEPT ![w].step = s]
          BY <3>3 DEF ProfileFails, ProfileAndSave, ProceedAfter, Proceed, AfterError
        <5>2. QED BY <1>1, <5>1 DEF WorkerRecord
      <4>2. QED BY <2>3, <4>1 DEF Held, AtWorker
    <3>4. CASE WorkerExit(w)
      BY <3>1, <3>4 DEF WorkerExit
    <3>5. QED BY <1>4, <3>2, <3>3, <3>4 DEF WorkerStep
  <2>4. QED BY <2>2, <2>3
<1>5. QED BY <1>3, <1>4

\* Start puts every queued row in the channel; no other step of main leaves a
\* process serving or draining but the signal, which takes nothing away.
LEMMA ServerHands ==
  ASSUME TypeOK, SingleInstance, MaxJobs <= Cap, faults = 0 => AllHeld,
         NEW p \in Procs, ServerStep(p) \/ Signal(p) \/ Crash(p), faults' = 0
  PROVE  AllHeld'
<1>1. /\ \A q \in Procs : q = p
      /\ phase \in [Procs -> Phases] /\ queue \in [Procs -> Seq(Jobs)]
  BY DEF SingleInstance, TypeOK
<1>2. CASE StartRequeue(p)
  <2>1. phase[p] = "listing" /\ jobs' = jobs
    BY <1>2 DEF StartRequeue, Enter, storeVars
  <2>2. PICK o \in ReadOutcomes(p) :
          /\ Charge(p, o)
          /\ \E s \in IF o = "ok" THEN ListQueuedJobs(Cap) ELSE {<< >>} :
               queue' = [queue EXCEPT ![p] = s]
    BY <1>2 DEF StartRequeue
  <2>3. o = "ok"
    BY <2>1, <2>2, NoFault DEF ReadOutcomes, StoreOpen
  <2>4. PICK s \in Oldest(Queued, Cap) : queue' = [queue EXCEPT ![p] = s]
    BY <2>2, <2>3 DEF ListQueuedJobs
  <2>5. queue'[p] = s
    BY <1>1, <2>4
  <2>6. ASSUME NEW j \in Queued PROVE InChannel(j)'
    <3>1. \E a \in DOMAIN s : s[a] = j
      BY OldestHoldsAll DEF Queued
    <3>2. QED BY <2>5, <3>1 DEF InChannel
  <2>7. QED BY <2>1, <2>6 DEF AllHeld, Queued, Held
<1>3. CASE Signal(p)
  <2>1. UNCHANGED << jobs, queue, worker, handler, faults >> /\ phase[p] = "serving"
    BY <1>3 DEF Signal, Enter, storeVars
  <2>2. QED BY <1>1, <2>1 DEF AllHeld, Queued, Held, InChannel, AtWorker, AtHandler, Inserted
<1>4. CASE ~StartRequeue(p) /\ ~Signal(p)
  <2>1. phase'[p] \notin {"serving", "draining"}
    BY <1>1, <1>4 DEF ServerStep, Boot, StartRecover, CloseStore, Stop, FailQueuedJob, Exit, Crash,
       Vanish, Enter, Stopped
  <2>2. QED BY <1>1, <2>1 DEF AllHeld
<1>5. QED BY <1>2, <1>3, <1>4

LEMMA EnvironmentHands ==
  ASSUME TypeOK, AllHeld,
         (\E h \in Handlers : \E k \in Keys \cup {NoKey} : Arrive(h, k)) \/ TimePasses
  PROVE  AllHeld'
<1>1. UNCHANGED << jobs, queue, worker, phase >>
  BY DEF Arrive, TimePasses, procVars, Age, storeVars
<1>2. \A h \in Handlers : handler'[h] = handler[h] \/ ~Inserted(h)
  BY DEF Arrive, TimePasses, procVars, TypeOK, Inserted
<1>3. QED BY <1>1, <1>2 DEF AllHeld, Queued, Held, InChannel, AtWorker, AtHandler, Inserted

\* In one instance whose channel can hold every job, and as long as no store
\* call fails, no queued job waits for a restart.
THEOREM NoJobIsStranded == Spec => []NoStrandedJob
<1> DEFINE Inv == SingleInstance /\ MaxJobs <= Cap /\ faults = 0 => AllHeld
<1>1. Init => Inv
  BY DEF Init, AllHeld
<1>2. TypeOK /\ RowInv /\ HandInv /\ Inv /\ [Next]_vars => Inv'
  <2>1. SUFFICES ASSUME TypeOK, RowInv, HandInv, Inv, [Next]_vars,
                        SingleInstance, MaxJobs <= Cap, faults' = 0
                 PROVE  AllHeld'
    BY DEF SingleInstance
  <2>2. StatusInHand /\ OneHolder /\ (faults = 0 => AllHeld)
    BY <2>1 DEF HandInv
  <2>3. ASSUME NEW h \in Handlers, HandlerStep(h) PROVE AllHeld'
    <3>1. phase' = phase
      BY <2>3 DEF HandlerStep, Lookup, CheckStopped, Insert, Relookup, EnqueueCheck, Send, Refuse
    <3>2. SUFFICES ASSUME NEW p \in Procs, phase[p] \in {"serving", "draining"},
                          NEW j \in Jobs, jobs'[j].status = "queued"
                   PROVE  Held(j)'
      BY <3>1 DEF AllHeld, Queued
    <3>3. p = Host[h] /\ StoreOpen(Host[h])
      BY <2>1, <3>2 DEF SingleInstance, StoreOpen
    <3>4. faults = 0 /\ jobs[j].status = "queued" => Held(j)
      BY <2>2, <3>2 DEF AllHeld, Queued
    <3>5. QED BY <2>1, <2>2, <2>3, <3>2, <3>3, <3>4, HandlerHands
  <2>4. ASSUME NEW w \in Workers, WorkerStep(w) PROVE AllHeld'
    <3>1. phase' = phase
      BY <2>4 DEF WorkerStep, Take, MarkRunning, ProfileFails, ProfileAndSave, Finish, WorkerExit
    <3>2. SUFFICES ASSUME NEW p \in Procs, phase[p] \in {"serving", "draining"},
                          NEW j \in Jobs, jobs'[j].status = "queued"
                   PROVE  Held(j)'
      BY <3>1 DEF AllHeld, Queued
    <3>3. p = Host[w] /\ StoreOpen(Host[w])
      BY <2>1, <3>2 DEF SingleInstance, StoreOpen
    <3>4. faults = 0 /\ jobs[j].status = "queued" => Held(j)
      BY <2>2, <3>2 DEF AllHeld, Queued
    <3>5. QED BY <2>1, <2>2, <2>4, <3>2, <3>3, <3>4, WorkerHands
  <2>5. ASSUME NEW p \in Procs, ServerStep(p) \/ Signal(p) \/ Crash(p) PROVE AllHeld'
    BY <2>1, <2>2, <2>5, ServerHands
  <2>6. CASE (\E h \in Handlers : \E k \in Keys \cup {NoKey} : Arrive(h, k)) \/ TimePasses
    <3>1. faults = 0
      BY <2>1, <2>6 DEF Arrive, TimePasses, boundVars
    <3>2. QED BY <2>1, <2>2, <2>6, <3>1, EnvironmentHands
  <2>7. CASE UNCHANGED vars
    BY <2>1, <2>2, <2>7 DEF vars, AllHeld, Queued, Held, InChannel, AtWorker, AtHandler, Inserted
  <2>8. QED BY <2>1, <2>3, <2>4, <2>5, <2>6, <2>7 DEF Next
<1>3. Inv => NoStrandedJob
  BY DEF AllHeld, Held, NoStrandedJob
<1> HIDE DEF Inv
<1>4. QED BY <1>1, <1>2, <1>3, HandInvariant, PTL DEF Spec

=============================================================================
