-------------------------- MODULE JobManager_proofs --------------------------
(***************************************************************************)
(* Theorems about the job manager, for any number of processes, workers,   *)
(* handlers, jobs and keys, any capacity of the channel and any number of  *)
(* crashes, stops and store failures.                                      *)
(***************************************************************************)
EXTENDS JobProperties, SequenceTheorems, TLAPS

USE JobsAssumption, KeysAssumption, HostAssumption, CapAssumption, BoundsAssumption

-----------------------------------------------------------------------------
(* Lemmas about the store and the channel                                  *)

\* What a listing returns: a sequence of ids of S, no longer than the limit,
\* in strictly increasing order, so without repetition (ListQueuedJobs).
LEMMA OldestSeq ==
  ASSUME NEW S, S \subseteq Jobs, NEW limit \in Nat, NEW s \in Oldest(S, limit)
  PROVE  /\ s \in Seq(S)
         /\ s \in Seq(Jobs)
         /\ Len(s) <= limit
         /\ \A a, b \in DOMAIN s : s[a] = s[b] => a = b
<1>1. PICK n \in 0 .. limit : s \in [1 .. n -> S]
  BY DEF Oldest
<1>2. s \in Seq(S) /\ Len(s) = n
  BY <1>1, SeqDef
<1>3. s \in Seq(Jobs)
  BY <1>2, SeqMonotonic
<1>4. ASSUME NEW a \in DOMAIN s, NEW b \in DOMAIN s, s[a] = s[b]
      PROVE  a = b
  <2>1. a \in 1 .. n /\ b \in 1 .. n /\ s[a] \in Int /\ s[b] \in Int
    <3>1. a \in 1 .. n /\ b \in 1 .. n
      BY <1>1
    <3>2. s[a] \in Jobs /\ s[b] \in Jobs
      BY <1>1, <3>1
    <3>3. Jobs \subseteq Int
      BY DEF Jobs
    <3>4. QED BY <3>1, <3>2, <3>3
  <2>2. \A c, d \in DOMAIN s : c < d => s[c] < s[d]
    BY DEF Oldest
  <2>3. QED BY <2>1, <2>2, <1>4
<1>5. QED BY <1>2, <1>3, <1>4

\* Sending to and receiving from a channel, slot by slot.
LEMMA ChannelSteps ==
  ASSUME NEW s \in Seq(Jobs)
  PROVE  /\ Len(s) \in Nat /\ DOMAIN s = 1 .. Len(s)
         /\ \A j \in Jobs : /\ Append(s, j) \in Seq(Jobs)
                            /\ Len(Append(s, j)) = Len(s) + 1
                            /\ \A i \in 1 .. Len(s) : Append(s, j)[i] = s[i]
                            /\ Append(s, j)[Len(s) + 1] = j
         /\ s # << >> => /\ Head(s) \in Jobs /\ Head(s) = s[1]
                         /\ Len(s) > 0
                         /\ Tail(s) \in Seq(Jobs)
                         /\ Len(Tail(s)) = Len(s) - 1
                         /\ \A i \in 1 .. Len(s) - 1 : Tail(s)[i] = s[i + 1]
<1>1. s # << >> => Head(s) \in Jobs /\ Tail(s) \in Seq(Jobs) /\ Len(Tail(s)) = Len(s) - 1
                   /\ \A i \in 1 .. Len(s) - 1 : Tail(s)[i] = s[i + 1]
  BY HeadTailProperties
<1>2. QED BY <1>1

-----------------------------------------------------------------------------
(* Type correctness                                                        *)

\* A step keeps the types of the store, whatever the outcome of its call.
LEMMA StoreTypes ==
  ASSUME StoreTypeOK
  PROVE  /\ UNCHANGED storeVars => StoreTypeOK'
         /\ \A j \in Jobs, k \in Keys \cup {NoKey} : CreateJob(j, k) => StoreTypeOK'
         /\ \A j \in Jobs, s \in Statuses, e \in Errors : UpdateJob(j, s, e) => StoreTypeOK'
         /\ RecoverStaleRunningJobs => StoreTypeOK'
         /\ \A j \in Jobs : SaveProfile(j) => StoreTypeOK'
         /\ \A j \in Jobs : Age(j) => StoreTypeOK'
<1> USE DEF StoreTypeOK
<1>1. UNCHANGED storeVars => StoreTypeOK'
  BY DEF storeVars
<1>2. ASSUME NEW j \in Jobs, NEW k \in Keys \cup {NoKey}, CreateJob(j, k) PROVE StoreTypeOK'
  BY <1>2 DEF CreateJob, Row, Statuses, Errors
<1>3. ASSUME NEW j \in Jobs, NEW s \in Statuses, NEW e \in Errors, UpdateJob(j, s, e)
      PROVE StoreTypeOK'
  BY <1>3 DEF UpdateJob, Row
<1>4. ASSUME RecoverStaleRunningJobs PROVE StoreTypeOK'
  <2>1. \A j \in Jobs : [jobs[j] EXCEPT !.status = "queued", !.error = "recovered"] \in Row
    BY DEF Row, Statuses, Errors
  <2>2. jobs' \in [Jobs -> Row]
    BY <1>4, <2>1 DEF RecoverStaleRunningJobs
  <2>3. QED BY <1>4, <2>2 DEF RecoverStaleRunningJobs
<1>5. ASSUME NEW j \in Jobs, SaveProfile(j) PROVE StoreTypeOK'
  <2>1. snapshots' \in [Jobs -> Nat]
    BY <1>5 DEF SaveProfile
  <2>2. QED BY <1>5, <2>1 DEF SaveProfile
<1>6. ASSUME NEW j \in Jobs, Age(j) PROVE StoreTypeOK'
  BY <1>6 DEF Age
<1>7. QED BY <1>1, <1>2, <1>3, <1>4, <1>5, <1>6

\* A failed call uses up one of MaxFaults, which it must have had left.
LEMMA ChargeType ==
  ASSUME faults \in 0 .. MaxFaults, NEW p, NEW o \in Outcomes(p), Charge(p, o)
  PROVE  faults' \in 0 .. MaxFaults
BY DEF Outcomes, Charge

\* An UPDATE of one row keeps the types, whatever its outcome.
LEMMA WriteType ==
  ASSUME StoreTypeOK, faults \in 0 .. MaxFaults,
         NEW p, NEW o \in Outcomes(p), NEW j \in Jobs,
         NEW s \in Statuses, NEW e \in Errors, Write(p, o, j, s, e)
  PROVE  StoreTypeOK' /\ faults' \in 0 .. MaxFaults
<1>1. faults' \in 0 .. MaxFaults
  BY ChargeType DEF Write
<1>2. UNCHANGED storeVars \/ UpdateJob(j, s, e)
  BY DEF Write
<1>3. QED BY <1>1, <1>2, StoreTypes

\* The conjuncts of type correctness that are not the store's.
ProcTypeOK ==
  /\ phase \in [Procs -> Phases]
  /\ queue \in [Procs -> Seq(Jobs)]
  /\ \A p \in Procs : Len(queue[p]) <= Cap
  /\ worker \in [Workers -> WorkerRecord]
  /\ handler \in [Handlers -> HandlerRecord]
  /\ nextId \in 1 .. MaxJobs + 1
  /\ accepted \subseteq (Keys \cup {NoKey}) \X Jobs

BoundTypeOK ==
  /\ crashes \in 0 .. MaxCrashes
  /\ signals \in 0 .. MaxSignals
  /\ faults \in 0 .. MaxFaults

LEMMA TypeParts ==
  /\ TypeOK <=> StoreTypeOK /\ ProcTypeOK /\ BoundTypeOK
  /\ TypeOK' <=> StoreTypeOK' /\ ProcTypeOK' /\ BoundTypeOK'
BY DEF TypeOK, ProcTypeOK, BoundTypeOK

\* The worker and handler jobs a step writes to the store are ids.
LEMMA JobsInHand ==
  ASSUME TypeOK, NamedJobs
  PROVE  /\ \A w \in Workers : worker[w].step \notin {"off", "idle"} => worker[w].job \in Jobs
         /\ \A h \in Handlers : handler[h].step # "idle" => handler[h].job \in Jobs
         /\ \A h \in Handlers : handler[h].key \in Keys \cup {NoKey}
BY DEF TypeOK, NamedJobs, Jobs, WorkerRecord, HandlerRecord

\* The ways a handler moves on keep its type.
LEMMA HandlerMoves ==
  ASSUME handler \in [Handlers -> HandlerRecord], NEW h \in Handlers,
         accepted \subseteq (Keys \cup {NoKey}) \X Jobs
  PROVE  /\ Reply(h) => handler' \in [Handlers -> HandlerRecord]
         /\ \A s \in HandlerSteps : Goto(h, s) => handler' \in [Handlers -> HandlerRecord]
         /\ \A j \in Jobs : Accept(h, j) =>
              /\ handler' \in [Handlers -> HandlerRecord]
              /\ accepted' \subseteq (Keys \cup {NoKey}) \X Jobs
<1>1. NoRequest \in HandlerRecord
  BY DEF NoRequest, HandlerRecord, HandlerSteps
<1>2. Reply(h) => handler' \in [Handlers -> HandlerRecord]
  BY <1>1 DEF Reply
<1>3. ASSUME NEW s \in HandlerSteps, Goto(h, s)
      PROVE  handler' \in [Handlers -> HandlerRecord]
  <2>1. [handler[h] EXCEPT !.step = s] \in HandlerRecord
    BY DEF HandlerRecord
  <2>2. QED BY <1>3, <2>1 DEF Goto
<1>4. handler[h].key \in Keys \cup {NoKey}
  BY DEF HandlerRecord
<1>5. QED BY <1>2, <1>3, <1>4 DEF Accept

\* A step of a request handler keeps the types.
LEMMA HandlerTypes ==
  ASSUME TypeOK, NamedJobs, NEW h \in Handlers, HandlerStep(h)
  PROVE  TypeOK'
<1> DEFINE p == Host[h]
<1>1. p \in Procs /\ StoreTypeOK /\ ProcTypeOK /\ BoundTypeOK
  BY TypeParts
<1>2. {"idle", "lookup", "check", "insert", "relookup", "enqueue", "send", "refuse"}
        \subseteq HandlerSteps
  BY DEF HandlerSteps
<1>3. SUFFICES StoreTypeOK' /\ ProcTypeOK' /\ BoundTypeOK'
  BY TypeParts
<1>4. CASE Lookup(h)
  <2>1. StoreTypeOK' /\ BoundTypeOK'
    BY <1>1, <1>4, StoreTypes, ChargeType DEF Lookup, ReadOutcomes, BoundTypeOK
  <2>2. (\E j \in Jobs : Accept(h, j)) \/ (Goto(h, "check") /\ UNCHANGED accepted)
    BY <1>4 DEF Lookup, RowsWithKey
  <2>3. QED BY <1>1, <1>2, <1>4, <2>1, <2>2, HandlerMoves DEF Lookup, ProcTypeOK
<1>5. CASE CheckStopped(h)
  <2>1. StoreTypeOK' /\ BoundTypeOK'
    BY <1>1, <1>5, StoreTypes DEF CheckStopped, boundVars, BoundTypeOK
  <2>2. QED BY <1>1, <1>2, <1>5, <2>1, HandlerMoves DEF CheckStopped, ProcTypeOK
<1>6. CASE Insert(h)
  <2>1. UNCHANGED storeVars \/ CreateJob(handler[h].job, handler[h].key)
    BY <1>6 DEF Insert
  <2>2. StoreTypeOK'
    BY <1>1, <1>6, <2>1, StoreTypes, JobsInHand DEF Insert
  <2>3. BoundTypeOK'
    BY <1>1, <1>6, ChargeType DEF Insert, BoundTypeOK
  <2>4. Reply(h) \/ Goto(h, "relookup") \/ Goto(h, "enqueue")
    BY <1>6 DEF Insert
  <2>5. QED BY <1>1, <1>2, <1>6, <2>2, <2>3, <2>4, HandlerMoves DEF Insert, ProcTypeOK
<1>7. CASE Relookup(h)
  <2>1. StoreTypeOK' /\ BoundTypeOK'
    BY <1>1, <1>7, StoreTypes, ChargeType DEF Relookup, ReadOutcomes, BoundTypeOK
  <2>2. (\E j \in Jobs : Accept(h, j)) \/ (Reply(h) /\ UNCHANGED accepted)
    BY <1>7 DEF Relookup, RowsWithKey
  <2>3. QED BY <1>1, <1>2, <1>7, <2>1, <2>2, HandlerMoves DEF Relookup, ProcTypeOK
<1>8. CASE EnqueueCheck(h)
  <2>1. StoreTypeOK' /\ BoundTypeOK'
    BY <1>1, <1>8, StoreTypes DEF EnqueueCheck, boundVars, BoundTypeOK
  <2>2. Goto(h, "refuse") \/ Goto(h, "send")
    BY <1>8 DEF EnqueueCheck
  <2>3. QED BY <1>1, <1>2, <1>8, <2>1, <2>2, HandlerMoves DEF EnqueueCheck, ProcTypeOK
<1>9. CASE Send(h)
  <2>1. StoreTypeOK' /\ BoundTypeOK'
    BY <1>1, <1>9, StoreTypes DEF Send, boundVars, BoundTypeOK
  <2>2. handler[h].job \in Jobs
    BY <1>9, JobsInHand DEF Send
  <2>3. /\ Append(queue[p], handler[h].job) \in Seq(Jobs)
        /\ Len(Append(queue[p], handler[h].job)) = Len(queue[p]) + 1
        /\ Len(queue[p]) \in Nat
    BY <1>1, <2>2, ChannelSteps DEF ProcTypeOK
  <2>4. queue' \in [Procs -> Seq(Jobs)] /\ \A q \in Procs : Len(queue'[q]) <= Cap
    <3>1. CASE Len(queue[p]) < Cap
      <4>1. queue' = [queue EXCEPT ![p] = Append(queue[p], handler[h].job)]
        BY <1>9, <3>1 DEF Send, Full
      <4>2. QED BY <1>1, <2>3, <3>1, <4>1 DEF ProcTypeOK
    <3>2. CASE ~(Len(queue[p]) < Cap)
      BY <1>1, <1>9, <3>2 DEF Send, ProcTypeOK, Full
    <3>3. QED BY <3>1, <3>2
  <2>5. Accept(h, handler[h].job) \/ (Goto(h, "refuse") /\ UNCHANGED accepted)
    BY <1>9 DEF Send
  <2>6. QED BY <1>1, <1>2, <1>9, <2>1, <2>2, <2>4, <2>5, HandlerMoves DEF Send, ProcTypeOK
<1>10. CASE Refuse(h)
  <2>1. StoreTypeOK' /\ BoundTypeOK'
    BY <1>1, <1>10, WriteType, JobsInHand DEF Refuse, BoundTypeOK, Statuses, Errors
  <2>2. QED BY <1>1, <1>2, <1>10, <2>1, HandlerMoves DEF Refuse, ProcTypeOK
<1>11. QED BY <1>4, <1>5, <1>6, <1>7, <1>8, <1>9, <1>10 DEF HandlerStep

\* A step of a worker keeps the types.
LEMMA WorkerTypes ==
  ASSUME TypeOK, NamedJobs, NEW w \in Workers, WorkerStep(w)
  PROVE  TypeOK'
<1> DEFINE p == Host[w]
<1>1. p \in Procs /\ StoreTypeOK /\ ProcTypeOK /\ BoundTypeOK
  BY TypeParts
<1>2. SUFFICES StoreTypeOK' /\ ProcTypeOK' /\ BoundTypeOK'
  BY TypeParts
<1>3. Off \in WorkerRecord /\ Waiting \in WorkerRecord
  BY DEF Off, Waiting, WorkerRecord, WorkerSteps
<1>4. \A s \in WorkerSteps : [worker[w] EXCEPT !.step = s] \in WorkerRecord
  BY <1>1 DEF ProcTypeOK, WorkerRecord
<1>5. {"off", "idle", "taken", "running", "completing", "failing"} \subseteq WorkerSteps
  BY DEF WorkerSteps
<1>6. CASE Take(w)
  <2>1. StoreTypeOK' /\ BoundTypeOK'
    BY <1>1, <1>6, StoreTypes DEF Take, boundVars, BoundTypeOK
  <2>2. /\ Head(queue[p]) \in Jobs /\ Tail(queue[p]) \in Seq(Jobs)
        /\ Len(Tail(queue[p])) = Len(queue[p]) - 1
        /\ Len(queue[p]) \in Nat
    BY <1>1, <1>6, ChannelSteps DEF ProcTypeOK, Take
  <2>3. queue' \in [Procs -> Seq(Jobs)] /\ \A q \in Procs : Len(queue'[q]) <= Cap
    <3>1. queue' = [queue EXCEPT ![p] = Tail(queue[p])]
      BY <1>6 DEF Take
    <3>2. QED BY <1>1, <2>2, <3>1 DEF ProcTypeOK
  <2>4. worker' \in [Workers -> WorkerRecord]
    BY <1>1, <1>6, <2>2 DEF Take, ProcTypeOK, WorkerRecord, WorkerSteps
  <2>5. QED BY <1>1, <1>6, <2>1, <2>3, <2>4 DEF Take, ProcTypeOK
<1>7. CASE MarkRunning(w)
  <2>1. StoreTypeOK' /\ BoundTypeOK'
    BY <1>1, <1>7, WriteType, JobsInHand DEF MarkRunning, BoundTypeOK, Statuses, Errors
  <2>2. worker' \in [Workers -> WorkerRecord]
    BY <1>1, <1>3, <1>4, <1>5, <1>7 DEF MarkRunning, ProcTypeOK, ProceedAfter, Proceed, AfterError
  <2>3. QED BY <1>1, <1>7, <2>1, <2>2 DEF MarkRunning, ProcTypeOK
<1>8. CASE ProfileFails(w)
  <2>1. StoreTypeOK' /\ BoundTypeOK'
    BY <1>1, <1>8, StoreTypes DEF ProfileFails, boundVars, BoundTypeOK
  <2>2. QED BY <1>1, <1>4, <1>5, <1>8, <2>1 DEF ProfileFails, ProcTypeOK, Proceed, AfterError
<1>9. CASE ProfileAndSave(w)
  <2>1. UNCHANGED storeVars \/ SaveProfile(worker[w].job)
    BY <1>9 DEF ProfileAndSave
  <2>2. StoreTypeOK'
    BY <1>1, <1>9, <2>1, StoreTypes, JobsInHand DEF ProfileAndSave
  <2>3. BoundTypeOK'
    BY <1>1, <1>9, ChargeType DEF ProfileAndSave, BoundTypeOK
  <2>4. worker' \in [Workers -> WorkerRecord]
    BY <1>1, <1>4, <1>5, <1>9 DEF ProfileAndSave, ProcTypeOK, ProceedAfter, Proceed, AfterError
  <2>5. QED BY <1>1, <1>9, <2>2, <2>3, <2>4 DEF ProfileAndSave, ProcTypeOK
<1>10. CASE Finish(w)
  <2>1. StoreTypeOK' /\ BoundTypeOK'
    BY <1>1, <1>10, WriteType, JobsInHand DEF Finish, BoundTypeOK, Statuses, Errors
  <2>2. QED BY <1>1, <1>3, <1>10, <2>1 DEF Finish, ProcTypeOK, ProceedAfter, Proceed, AfterError
<1>11. CASE WorkerExit(w)
  <2>1. StoreTypeOK' /\ BoundTypeOK'
    BY <1>1, <1>11, StoreTypes DEF WorkerExit, boundVars, BoundTypeOK
  <2>2. QED BY <1>1, <1>3, <1>11, <2>1 DEF WorkerExit, ProcTypeOK
<1>12. QED BY <1>6, <1>7, <1>8, <1>9, <1>10, <1>11 DEF WorkerStep

\* The end of a process keeps the types of what it leaves.
LEMMA VanishTypes ==
  ASSUME StoreTypeOK, ProcTypeOK, NEW p \in Procs, Vanish(p)
  PROVE  StoreTypeOK' /\ ProcTypeOK'
<1>1. StoreTypeOK'
  BY StoreTypes DEF Vanish
<1>2. Off \in WorkerRecord /\ NoRequest \in HandlerRecord
  BY DEF Off, NoRequest, WorkerRecord, HandlerRecord, WorkerSteps, HandlerSteps
<1>3. << >> \in Seq(Jobs) /\ Len(<< >>) = 0
  OBVIOUS
<1>4. queue' \in [Procs -> Seq(Jobs)] /\ \A q \in Procs : Len(queue'[q]) <= Cap
  BY <1>3 DEF Vanish, ProcTypeOK
<1>5. QED BY <1>1, <1>2, <1>4 DEF Vanish, ProcTypeOK, Phases

\* A step of main, Start or Stop keeps the types.
LEMMA ServerTypes ==
  ASSUME TypeOK, NEW p \in Procs, ServerStep(p) \/ Signal(p) \/ Crash(p)
  PROVE  TypeOK'
<1>1. StoreTypeOK /\ ProcTypeOK /\ BoundTypeOK
  BY TypeParts
<1>2. SUFFICES StoreTypeOK' /\ ProcTypeOK' /\ BoundTypeOK'
  BY TypeParts
<1>3. CASE Boot(p) \/ CloseStore(p) \/ Stop(p) \/ Signal(p)
  <2>1. UNCHANGED storeVars
    BY <1>3 DEF Boot, CloseStore, Stop, Signal
  <2>2. BoundTypeOK'
    BY <1>1, <1>3 DEF Boot, CloseStore, Stop, Signal, boundVars, BoundTypeOK
  <2>3. phase' \in [Procs -> Phases]
    BY <1>1, <1>3 DEF Boot, CloseStore, Stop, Signal, Enter, ProcTypeOK, Phases
  <2>4. QED
    BY <1>1, <1>3, <2>1, <2>2, <2>3, StoreTypes DEF Boot, CloseStore, Stop, Signal, ProcTypeOK
<1>4. CASE StartRecover(p)
  <2>1. UNCHANGED storeVars \/ RecoverStaleRunningJobs
    BY <1>4 DEF StartRecover
  <2>2. StoreTypeOK'
    BY <1>1, <2>1, StoreTypes
  <2>3. BoundTypeOK'
    BY <1>1, <1>4, ChargeType DEF StartRecover, BoundTypeOK
  <2>4. QED BY <1>1, <1>4, <2>2, <2>3 DEF StartRecover, Enter, ProcTypeOK, Phases
<1>5. CASE StartRequeue(p)
  <2>1. StoreTypeOK' /\ BoundTypeOK'
    BY <1>1, <1>5, StoreTypes, ChargeType DEF StartRequeue, ReadOutcomes, BoundTypeOK
  <2>2. PICK s \in ListQueuedJobs(Cap) \cup {<< >>} : queue' = [queue EXCEPT ![p] = s]
    BY <1>5 DEF StartRequeue
  <2>3. s \in Seq(Jobs) /\ Len(s) <= Cap
    <3>1. CASE s = << >>
      BY <3>1
    <3>2. CASE s \in ListQueuedJobs(Cap)
      BY <3>2, OldestSeq DEF ListQueuedJobs, Queued
    <3>3. QED BY <3>1, <3>2
  <2>4. queue' \in [Procs -> Seq(Jobs)] /\ \A q \in Procs : Len(queue'[q]) <= Cap
    BY <1>1, <2>2, <2>3 DEF ProcTypeOK
  <2>5. worker' \in [Workers -> WorkerRecord]
    BY <1>1, <1>5 DEF StartRequeue, ProcTypeOK, Waiting, WorkerRecord, WorkerSteps
  <2>6. QED BY <1>1, <1>5, <2>1, <2>4, <2>5 DEF StartRequeue, Enter, ProcTypeOK, Phases
<1>6. CASE FailQueuedJob(p)
  <2>1. /\ Head(queue[p]) \in Jobs /\ Tail(queue[p]) \in Seq(Jobs)
        /\ Len(Tail(queue[p])) = Len(queue[p]) - 1
        /\ Len(queue[p]) \in Nat
    BY <1>1, <1>6, ChannelSteps DEF ProcTypeOK, FailQueuedJob
  <2>2. PICK o \in Outcomes(p) :
          \/ Write(p, o, Head(queue[p]), "failed", "cancelled")
          \/ Charge(p, o) /\ UNCHANGED storeVars
    BY <1>6 DEF FailQueuedJob
  <2>3. StoreTypeOK' /\ faults' \in 0 .. MaxFaults
    <3>1. CASE Write(p, o, Head(queue[p]), "failed", "cancelled")
      BY <1>1, <2>1, <3>1, WriteType DEF BoundTypeOK, Statuses, Errors
    <3>2. CASE Charge(p, o) /\ UNCHANGED storeVars
      BY <1>1, <3>2, StoreTypes, ChargeType DEF BoundTypeOK
    <3>3. QED BY <2>2, <3>1, <3>2
  <2>4. queue' \in [Procs -> Seq(Jobs)] /\ \A q \in Procs : Len(queue'[q]) <= Cap
    <3>1. queue' = [queue EXCEPT ![p] = Tail(queue[p])]
      BY <1>6 DEF FailQueuedJob
    <3>2. QED BY <1>1, <2>1, <3>1 DEF ProcTypeOK
  <2>5. QED BY <1>1, <1>6, <2>3, <2>4 DEF FailQueuedJob, ProcTypeOK, BoundTypeOK
<1>7. CASE Exit(p) \/ Crash(p)
  <2>1. Vanish(p)
    BY <1>7 DEF Exit, Crash
  <2>2. BoundTypeOK'
    BY <1>1, <1>7 DEF Exit, Crash, boundVars, BoundTypeOK
  <2>3. QED BY <1>1, <2>1, <2>2, VanishTypes
<1>8. QED BY <1>3, <1>4, <1>5, <1>6, <1>7 DEF ServerStep

\* The arrival of a request and the passing of time keep the types.
LEMMA EnvironmentTypes ==
  ASSUME TypeOK,
         (\E h \in Handlers : \E k \in Keys \cup {NoKey} : Arrive(h, k)) \/ TimePasses
  PROVE  TypeOK'
<1>1. StoreTypeOK /\ ProcTypeOK /\ BoundTypeOK
  BY TypeParts
<1>2. SUFFICES StoreTypeOK' /\ ProcTypeOK' /\ BoundTypeOK'
  BY TypeParts
<1>3. ASSUME NEW h \in Handlers, NEW k \in Keys \cup {NoKey}, Arrive(h, k)
      PROVE  StoreTypeOK' /\ ProcTypeOK' /\ BoundTypeOK'
  <2>1. StoreTypeOK' /\ BoundTypeOK'
    BY <1>1, <1>3, StoreTypes DEF Arrive, boundVars, BoundTypeOK
  <2>2. nextId \in Jobs /\ nextId' \in 1 .. MaxJobs + 1
    BY <1>3 DEF Arrive, Jobs
  <2>3. handler' \in [Handlers -> HandlerRecord]
    BY <1>1, <1>3, <2>2 DEF Arrive, ProcTypeOK, HandlerRecord, HandlerSteps
  <2>4. QED BY <1>1, <1>3, <2>1, <2>2, <2>3 DEF Arrive, ProcTypeOK
<1>4. CASE TimePasses
  BY <1>1, <1>4, StoreTypes
  DEF TimePasses, procVars, boundVars, ProcTypeOK, BoundTypeOK
<1>5. QED BY <1>3, <1>4

\* A step that changes nothing keeps the types.
LEMMA StutterTypes == TypeOK /\ UNCHANGED vars => TypeOK'
BY DEF vars, TypeOK, StoreTypeOK

LEMMA InitTypes == Init => TypeOK
<1>1. << >> \in Seq(Jobs) /\ Len(<< >>) = 0
  OBVIOUS
<1>2. QED
  BY <1>1
  DEF Init, StoreInit, TypeOK, StoreTypeOK, Row, NoRow, Statuses, Errors, Phases,
      WorkerRecord, WorkerSteps, HandlerRecord, HandlerSteps, Off, NoRequest

-----------------------------------------------------------------------------
(* Who names which job                                                     *)

LEMMA HandlerNames ==
  ASSUME TypeOK, NamedJobs, NEW h \in Handlers, HandlerStep(h)
  PROVE  NamedJobs'
<1>1. handler[h].step # "idle" /\ UNCHANGED << worker, nextId >>
  BY DEF HandlerStep, Lookup, CheckStopped, Insert, Relookup, EnqueueCheck, Send, Refuse
<1>2. \/ Reply(h)
      \/ \E s \in HandlerSteps : Goto(h, s)
  BY DEF HandlerStep, Lookup, CheckStopped, Insert, Relookup, EnqueueCheck, Send, Refuse,
     Accept, HandlerSteps
<1>3. handler \in [Handlers -> HandlerRecord]
  BY DEF TypeOK
<1>4. \A g \in Handlers \ {h} : handler'[g] = handler[g]
  BY <1>2, <1>3 DEF Reply, Goto
<1>5. handler'[h].step = "idle" \/ handler'[h].job = handler[h].job
  BY <1>2, <1>3 DEF Reply, Goto, NoRequest, HandlerRecord
<1>6. QED BY <1>1, <1>3, <1>4, <1>5 DEF NamedJobs

\* How the step of worker w changes: off or back to the loop, on with its job,
\* or a job it takes from the channel.
LEMMA WorkerProgress ==
  ASSUME TypeOK, NEW w \in Workers, WorkerStep(w)
  PROVE  /\ \A v \in Workers \ {w} : worker'[v] = worker[v]
         /\ \/ worker'[w] \in {Waiting, Off}
            \/ /\ worker'[w].job = worker[w].job
               /\ \/ worker[w].step = "taken" /\ worker'[w].step = "running"
                  \/ /\ worker[w].step = "running"
                     /\ worker'[w].step \in {"completing", "failing"}
            \/ /\ Take(w)
               /\ worker'[w] = [step |-> "taken", job |-> Head(queue[Host[w]])]
               /\ Head(queue[Host[w]]) \in Jobs
<1>1. worker \in [Workers -> WorkerRecord]
  BY DEF TypeOK
<1>2. CASE Take(w)
  <2>1. Head(queue[Host[w]]) \in Jobs
    BY <1>2, ChannelSteps DEF Take, TypeOK
  <2>2. QED BY <1>1, <1>2, <2>1 DEF Take
<1>3. CASE MarkRunning(w)
  <2>1. \/ worker' = [worker EXCEPT ![w] = Waiting]
        \/ worker[w].step = "taken" /\ worker' = [worker EXCEPT ![w].step = "running"]
    BY <1>3 DEF MarkRunning, ProceedAfter, Proceed, AfterError
  <2>2. QED BY <1>1, <2>1 DEF WorkerRecord
<1>4. CASE ProfileFails(w) \/ ProfileAndSave(w)
  <2>1. /\ worker[w].step = "running"
        /\ \E s \in {"completing", "failing"} : worker' = [worker EXCEPT ![w].step = s]
    BY <1>4 DEF ProfileFails, ProfileAndSave, ProceedAfter, Proceed, AfterError
  <2>2. QED BY <1>1, <2>1 DEF WorkerRecord
<1>5. CASE Finish(w) \/ WorkerExit(w)
  BY <1>1, <1>5 DEF Finish, WorkerExit, ProceedAfter, Proceed, AfterError
<1>6. QED BY <1>2, <1>3, <1>4, <1>5 DEF WorkerStep

LEMMA WorkerNames ==
  ASSUME TypeOK, NamedJobs, NEW w \in Workers, WorkerStep(w)
  PROVE  NamedJobs'
<1>1. UNCHANGED << handler, nextId >>
  BY DEF WorkerStep, Take, MarkRunning, ProfileFails, ProfileAndSave, Finish, WorkerExit
<1>2. worker'[w].step \in {"off", "idle"} <=> worker'[w].job = NoJob
  <2>1. CASE worker'[w] \in {Waiting, Off}
    BY <2>1 DEF Waiting, Off
  <2>2. CASE worker'[w].job = worker[w].job /\ worker[w].step \in {"taken", "running"}
             /\ worker'[w].step \in {"running", "completing", "failing"}
    BY <2>2 DEF NamedJobs
  <2>3. CASE \E j \in Jobs : worker'[w] = [step |-> "taken", job |-> j]
    BY <2>3 DEF NoJob, Jobs
  <2>4. QED BY <2>1, <2>2, <2>3, WorkerProgress
<1>3. QED BY <1>1, <1>2, WorkerProgress DEF NamedJobs

LEMMA ServerNames ==
  ASSUME TypeOK, NamedJobs, NEW p \in Procs, ServerStep(p) \/ Signal(p) \/ Crash(p)
  PROVE  NamedJobs'
<1>1. nextId' = nextId
  BY DEF ServerStep, Boot, StartRecover, StartRequeue, CloseStore, Stop, FailQueuedJob, Exit,
     Signal, Crash, Vanish
<1>2. \A w \in Workers : worker'[w] \in {worker[w], Waiting, Off}
  BY DEF ServerStep, Boot, StartRecover, StartRequeue, CloseStore, Stop, FailQueuedJob, Exit,
     Signal, Crash, Vanish
<1>3. \A h \in Handlers : handler'[h] \in {handler[h], NoRequest}
  BY DEF ServerStep, Boot, StartRecover, StartRequeue, CloseStore, Stop, FailQueuedJob, Exit,
     Signal, Crash, Vanish
<1>4. \A w \in Workers : worker'[w].step \in {"off", "idle"} <=> worker'[w].job = NoJob
  BY <1>2 DEF NamedJobs, Waiting, Off
<1>5. QED BY <1>1, <1>3, <1>4 DEF NamedJobs, NoRequest

LEMMA EnvironmentNames ==
  ASSUME TypeOK, NamedJobs,
         (\E h \in Handlers : \E k \in Keys \cup {NoKey} : Arrive(h, k)) \/ TimePasses
  PROVE  NamedJobs'
<1>1. ASSUME NEW h \in Handlers, NEW k \in Keys \cup {NoKey}, Arrive(h, k)
      PROVE  NamedJobs'
  <2>1. nextId \in Nat /\ nextId' = nextId + 1 /\ worker' = worker
    BY <1>1 DEF Arrive, Jobs
  <2>2. \A g \in Handlers \ {h} : handler'[g] = handler[g]
    BY <1>1 DEF Arrive, TypeOK
  <2>3. handler'[h].job = nextId
    BY <1>1 DEF Arrive, TypeOK
  <2>4. \A g \in Handlers : handler'[g].step # "idle" => handler'[g].job \in 1 .. nextId' - 1
    BY <1>1, <2>1, <2>2, <2>3 DEF NamedJobs, Arrive, Jobs
  <2>5. QED BY <2>1, <2>2, <2>3, <2>4 DEF NamedJobs
<1>2. CASE TimePasses
  BY <1>2 DEF TimePasses, procVars, NamedJobs
<1>3. QED BY <1>1, <1>2

-----------------------------------------------------------------------------
(* Which rows exist, and under which keys                                  *)

\* A step that neither inserts a row nor changes a key.
SameRows ==
  \A j \in Jobs : /\ jobs'[j].status = "absent" <=> jobs[j].status = "absent"
                  /\ jobs'[j].key = jobs[j].key

\* Every statement but INSERT keeps the rows, an UPDATE as long as its row
\* exists.
LEMMA KeepsRows ==
  ASSUME StoreTypeOK
  PROVE  /\ UNCHANGED storeVars => SameRows
         /\ \A j \in Jobs, s \in Statuses \ {"absent"}, e \in Errors :
              Present(j) /\ UpdateJob(j, s, e) => SameRows
         /\ RecoverStaleRunningJobs => SameRows
         /\ \A j \in Jobs : SaveProfile(j) => SameRows
         /\ \A j \in Jobs : Age(j) => SameRows
<1> USE DEF SameRows, Present
<1>1. UNCHANGED storeVars => SameRows
  BY DEF storeVars
<1>2. ASSUME NEW j \in Jobs, NEW s \in Statuses \ {"absent"}, NEW e \in Errors,
             Present(j), UpdateJob(j, s, e)
      PROVE  SameRows
  BY <1>2 DEF UpdateJob, StoreTypeOK, Row
<1>3. RecoverStaleRunningJobs => SameRows
  BY DEF RecoverStaleRunningJobs, Running, StoreTypeOK, Row
<1>4. ASSUME NEW j \in Jobs, SaveProfile(j) \/ Age(j) PROVE SameRows
  BY <1>4 DEF SaveProfile, Age
<1>5. QED BY <1>1, <1>2, <1>3, <1>4

\* The same of a whole UPDATE call.
LEMMA WriteKeepsRows ==
  ASSUME StoreTypeOK, NEW p, NEW o \in Outcomes(p), NEW j \in Jobs, Present(j),
         NEW s \in Statuses \ {"absent"}, NEW e \in Errors, Write(p, o, j, s, e)
  PROVE  SameRows
BY KeepsRows DEF Write

\* Only Insert adds a row: the one of its handler's job, under a key no row has.
LEMMA InsertRow ==
  ASSUME TypeOK, NamedJobs, NEW h \in Handlers, Insert(h)
  PROVE  \/ UNCHANGED storeVars /\ SameRows /\ handler'[h].step \in {"idle", "relookup"}
         \/ /\ CreateJob(handler[h].job, handler[h].key)
            /\ ~Conflicts(handler[h].key)
            /\ handler'[h].step \in {"idle", "relookup", "enqueue"}
<1>1. handler \in [Handlers -> HandlerRecord] /\ StoreTypeOK
  BY DEF TypeOK
<1>2. UNCHANGED storeVars => SameRows
  BY <1>1, KeepsRows
<1>3. PICK o \in Outcomes(Host[h]) :
        LET key == handler[h].key
            failed == o # "ok" \/ Conflicts(key)
        IN  /\ IF o = "lost" \/ Conflicts(key)
                 THEN UNCHANGED storeVars
                 ELSE CreateJob(handler[h].job, key)
            /\ IF failed /\ key = NoKey THEN Reply(h)
               ELSE Goto(h, IF failed THEN "relookup" ELSE "enqueue")
  BY DEF Insert
<1>4. Reply(h) => handler'[h].step = "idle"
  BY <1>1 DEF Reply, NoRequest
<1>5. \A s \in HandlerSteps : Goto(h, s) => handler'[h].step = s
  BY <1>1 DEF Goto, HandlerRecord
<1>6. handler'[h].step \in {"idle", "relookup", "enqueue"}
  BY <1>3, <1>4, <1>5 DEF HandlerSteps
<1>7. CASE o = "lost" \/ Conflicts(handler[h].key)
  <2>1. handler'[h].step \in {"idle", "relookup"}
    BY <1>3, <1>4, <1>5, <1>7 DEF HandlerSteps
  <2>2. QED BY <1>2, <1>3, <1>7, <2>1
<1>8. CASE ~(o = "lost" \/ Conflicts(handler[h].key))
  BY <1>3, <1>6, <1>8
<1>9. QED BY <1>7, <1>8

\* Every handler step but Insert keeps the rows.
LEMMA HandlerKeepsRows ==
  ASSUME TypeOK, NamedJobs, RowsInHand, NEW h \in Handlers, HandlerStep(h), ~Insert(h)
  PROVE  SameRows
<1>1. StoreTypeOK
  BY DEF TypeOK
<1>2. CASE Refuse(h)
  <2>1. handler[h].job \in Jobs /\ Present(handler[h].job)
    BY <1>2, JobsInHand DEF Refuse, RowsInHand, Inserted
  <2>2. QED BY <1>1, <1>2, <2>1, WriteKeepsRows DEF Refuse, Statuses, Errors
<1>3. CASE ~Refuse(h)
  <2>1. UNCHANGED storeVars
    BY <1>3 DEF HandlerStep, Lookup, CheckStopped, Relookup, EnqueueCheck, Send
  <2>2. QED BY <1>1, <2>1, KeepsRows
<1>4. QED BY <1>2, <1>3

LEMMA WorkerKeepsRows ==
  ASSUME TypeOK, NamedJobs, RowsInHand, NEW w \in Workers, WorkerStep(w)
  PROVE  SameRows
<1>1. StoreTypeOK
  BY DEF TypeOK
<1>2. CASE MarkRunning(w) \/ Finish(w) \/ ProfileAndSave(w)
  <2>1. worker[w].job \in Jobs /\ Present(worker[w].job)
    <3>1. worker[w].step \notin {"off", "idle"}
      BY <1>2 DEF MarkRunning, Finish, ProfileAndSave
    <3>2. QED BY <3>1, JobsInHand DEF RowsInHand, NamedJobs
  <2>2. CASE MarkRunning(w) \/ Finish(w)
    BY <1>1, <2>1, <2>2, WriteKeepsRows DEF MarkRunning, Finish, Statuses, Errors
  <2>3. CASE ProfileAndSave(w)
    BY <1>1, <2>1, <2>3, KeepsRows DEF ProfileAndSave
  <2>4. QED BY <1>2, <2>2, <2>3
<1>3. CASE Take(w) \/ ProfileFails(w) \/ WorkerExit(w)
  BY <1>1, <1>3, KeepsRows DEF Take, ProfileFails, WorkerExit
<1>4. QED BY <1>2, <1>3 DEF WorkerStep

LEMMA ServerKeepsRows ==
  ASSUME TypeOK, RowsInHand, NEW p \in Procs, ServerStep(p) \/ Signal(p) \/ Crash(p)
  PROVE  SameRows
<1>1. StoreTypeOK
  BY DEF TypeOK
<1>2. CASE StartRecover(p)
  BY <1>1, <1>2, KeepsRows DEF StartRecover
<1>3. CASE FailQueuedJob(p)
  <2>1. Head(queue[p]) \in Jobs /\ Present(Head(queue[p]))
    <3>1. queue[p] \in Seq(Jobs) /\ queue[p] # << >>
      BY <1>3 DEF TypeOK, FailQueuedJob
    <3>2. 1 \in DOMAIN queue[p] /\ Head(queue[p]) = queue[p][1] /\ Head(queue[p]) \in Jobs
      BY <3>1, ChannelSteps
    <3>3. QED BY <3>2 DEF RowsInHand
  <2>2. QED BY <1>1, <1>3, <2>1, KeepsRows, WriteKeepsRows DEF FailQueuedJob, Statuses, Errors
<1>4. CASE ~StartRecover(p) /\ ~FailQueuedJob(p)
  <2>1. UNCHANGED storeVars
    BY <1>4 DEF ServerStep, Boot, StartRequeue, CloseStore, Stop, Exit, Signal, Crash, Vanish
  <2>2. QED BY <1>1, <2>1, KeepsRows
<1>5. QED BY <1>2, <1>3, <1>4

\* How the step of handler h changes, rows apart: the other handlers stay, h
\* goes idle or on with the same job and key, along the order of the code.
LEMMA HandlerProgress ==
  ASSUME TypeOK, NEW h \in Handlers, HandlerStep(h)
  PROVE  /\ \A g \in Handlers \ {h} : handler'[g] = handler[g]
         /\ \/ handler'[h] = NoRequest
            \/ /\ handler'[h].job = handler[h].job /\ handler'[h].key = handler[h].key
               /\ \/ handler[h].step = "lookup" /\ handler'[h].step = "check"
                  \/ handler[h].step = "check" /\ handler'[h].step = "insert"
                  \/ Insert(h) /\ handler'[h].step \in {"relookup", "enqueue"}
                  \/ handler[h].step = "enqueue" /\ handler'[h].step \in {"send", "refuse"}
                  \/ handler[h].step = "send" /\ handler'[h].step = "refuse"
<1>1. handler \in [Handlers -> HandlerRecord]
  BY DEF TypeOK
<1>2. Reply(h) => handler'[h] = NoRequest /\ \A g \in Handlers \ {h} : handler'[g] = handler[g]
  BY <1>1 DEF Reply
<1>3. \A s : Goto(h, s) => /\ handler'[h].step = s
                           /\ handler'[h].job = handler[h].job
                           /\ handler'[h].key = handler[h].key
                           /\ \A g \in Handlers \ {h} : handler'[g] = handler[g]
  BY <1>1 DEF Goto, HandlerRecord
<1>4. CASE Lookup(h)
  BY <1>2, <1>3, <1>4 DEF Lookup, Accept
<1>5. CASE CheckStopped(h)
  BY <1>2, <1>3, <1>5 DEF CheckStopped
<1>6. CASE Insert(h)
  BY <1>2, <1>3, <1>6 DEF Insert
<1>7. CASE Relookup(h) \/ Refuse(h)
  BY <1>2, <1>7 DEF Relookup, Refuse, Accept
<1>8. CASE EnqueueCheck(h)
  BY <1>3, <1>8 DEF EnqueueCheck
<1>9. CASE Send(h)
  BY <1>2, <1>3, <1>9 DEF Send, Accept
<1>10. QED BY <1>4, <1>5, <1>6, <1>7, <1>8, <1>9 DEF HandlerStep

\* What Insert does to the row of its job and to the others.
LEMMA CreateJobRow ==
  ASSUME StoreTypeOK, NEW j \in Jobs, NEW k, CreateJob(j, k)
  PROVE  /\ jobs'[j].status = "queued" /\ jobs'[j].key = k
         /\ \A i \in Jobs \ {j} : jobs'[i] = jobs[i]
BY DEF CreateJob, StoreTypeOK

LEMMA HandlerRows ==
  ASSUME TypeOK, NamedJobs, RowsInHand, NEW h \in Handlers, HandlerStep(h)
  PROVE  RowsInHand'
<1>1. handler[h].job \in Jobs /\ handler[h].job < nextId /\ handler[h].step # "idle"
      /\ nextId \in Nat
  <2>1. handler[h].step # "idle"
    BY DEF HandlerStep, Lookup, CheckStopped, Insert, Relookup, EnqueueCheck, Send, Refuse
  <2>2. QED BY <2>1, JobsInHand DEF NamedJobs, TypeOK, Jobs
<1>2. UNCHANGED << worker, nextId >>
  BY DEF HandlerStep, Lookup, CheckStopped, Insert, Relookup, EnqueueCheck, Send, Refuse
<1>3. \A p \in Procs : \A a \in DOMAIN queue'[p] :
        \/ a \in DOMAIN queue[p] /\ queue'[p][a] = queue[p][a]
        \/ queue'[p][a] = handler[h].job /\ handler[h].step = "send"
  <2>1. CASE Send(h)
    <3>1. ASSUME NEW p \in Procs, NEW a \in DOMAIN queue'[p]
          PROVE  \/ a \in DOMAIN queue[p] /\ queue'[p][a] = queue[p][a]
                 \/ queue'[p][a] = handler[h].job
      <4>1. queue[p] \in Seq(Jobs)
        BY DEF TypeOK
      <4>2. queue'[p] = queue[p] \/ queue'[p] = Append(queue[p], handler[h].job)
        BY <2>1 DEF Send, TypeOK
      <4>3. CASE queue'[p] = queue[p]
        BY <4>3
      <4>4. CASE queue'[p] = Append(queue[p], handler[h].job)
        <5>1. DOMAIN queue'[p] = 1 .. Len(queue[p]) + 1 /\ Len(queue[p]) \in Nat
              /\ DOMAIN queue[p] = 1 .. Len(queue[p])
          BY <1>1, <4>1, <4>4, ChannelSteps
        <5>2. QED BY <1>1, <4>1, <4>4, <5>1, ChannelSteps
      <4>5. QED BY <4>2, <4>3, <4>4
    <3>2. handler[h].step = "send"
      BY <2>1 DEF Send
    <3>3. QED BY <3>1, <3>2
  <2>2. CASE ~Send(h)
    <3>1. queue' = queue
      BY <2>2 DEF HandlerStep, Lookup, CheckStopped, Insert, Relookup, EnqueueCheck, Refuse
    <3>2. QED BY <3>1
  <2>3. QED BY <2>1, <2>2
<1>4. \A p \in Procs : \A a \in DOMAIN queue[p] : queue[p][a] \in Jobs
  BY DEF TypeOK
<1>5. \A w \in Workers : worker[w].job # NoJob => worker[w].job \in Jobs
  BY DEF TypeOK, WorkerRecord
<1>6. CASE SameRows
  <2>1. \A g \in Handlers : handler'[g].step # "idle" =>
          handler'[g].job \in Jobs /\ handler'[g].job = handler[g].job /\ handler'[g].key = handler[g].key
    <3>1. SUFFICES ASSUME NEW g \in Handlers, handler'[g].step # "idle"
                   PROVE  /\ handler'[g].job \in Jobs
                          /\ handler'[g].job = handler[g].job /\ handler'[g].key = handler[g].key
      OBVIOUS
    <3>2. CASE g = h
      BY <1>1, <3>1, <3>2, HandlerProgress DEF NoRequest
    <3>3. CASE g # h
      BY <3>1, <3>3, HandlerProgress, JobsInHand
    <3>4. QED BY <3>2, <3>3
  <2>2. \A g \in Handlers : handler'[g].step \in {"lookup", "check", "insert"} =>
          handler[g].step \in {"lookup", "check", "insert"}
    BY HandlerProgress DEF NoRequest
  <2>3. ASSUME NEW g \in Handlers, Inserted(g)'
        PROVE  Inserted(g) \/ (g = h /\ Insert(h) /\ handler'[h].step = "enqueue")
    BY <2>3, HandlerProgress DEF NoRequest, Inserted
  <2>4. ~(Insert(h) /\ handler'[h].step = "enqueue")
    <3>1. SUFFICES ASSUME Insert(h), handler'[h].step = "enqueue" PROVE FALSE
      OBVIOUS
    <3>2. CreateJob(handler[h].job, handler[h].key)
      BY <3>1, InsertRow
    <3>3. ~Present(handler[h].job)
      BY <3>1 DEF RowsInHand, Insert
    <3>4. jobs'[handler[h].job].status = "queued"
      BY <1>1, <3>2, CreateJobRow DEF TypeOK
    <3>5. QED BY <1>1, <1>6, <3>3, <3>4 DEF SameRows, Present
  <2>5. \A g \in Handlers : Inserted(g) => handler[g].step # "idle"
    BY DEF Inserted
  <2>6. handler[h].step = "send" => Present(handler[h].job)
    BY DEF RowsInHand, Inserted
  <2>7. \A j \in Jobs : j >= nextId' => ~Present(j)'
    BY <1>2, <1>6 DEF RowsInHand, SameRows, Present
  <2>8. \A g \in Handlers :
          /\ handler'[g].step \in {"lookup", "check", "insert"} => ~Present(handler[g].job)'
          /\ Inserted(g)' => Present(handler[g].job)' /\ jobs'[handler'[g].job].key = handler'[g].key
    <3>1. ASSUME NEW g \in Handlers, handler'[g].step \in {"lookup", "check", "insert"}
          PROVE  ~Present(handler[g].job)'
      BY <1>6, <2>1, <2>2, <3>1 DEF RowsInHand, SameRows, Present
    <3>2. ASSUME NEW g \in Handlers, Inserted(g)'
          PROVE  Present(handler[g].job)' /\ jobs'[handler'[g].job].key = handler'[g].key
      <4>1. Inserted(g) /\ handler'[g].step # "idle"
        BY <2>3, <2>4, <3>2 DEF Inserted
      <4>2. Present(handler[g].job) /\ jobs[handler[g].job].key = handler[g].key
        BY <4>1 DEF RowsInHand
      <4>3. QED BY <1>6, <2>1, <4>1, <4>2 DEF SameRows, Present
    <3>3. QED BY <3>1, <3>2
  <2>9. \A p \in Procs : \A a \in DOMAIN queue'[p] : Present(queue[p][a])'
    <3>1. SUFFICES ASSUME NEW p \in Procs, NEW a \in DOMAIN queue'[p]
                   PROVE  jobs'[queue'[p][a]].status # "absent"
      BY DEF Present
    <3>2. CASE a \in DOMAIN queue[p] /\ queue'[p][a] = queue[p][a]
      BY <1>4, <1>6, <3>2 DEF RowsInHand, SameRows, Present
    <3>3. CASE queue'[p][a] = handler[h].job /\ handler[h].step = "send"
      BY <1>1, <1>6, <2>6, <3>3 DEF SameRows, Present
    <3>4. QED BY <1>3, <3>2, <3>3
  <2>10. \A w \in Workers : worker'[w].job # NoJob => Present(worker[w].job)'
    BY <1>2, <1>5, <1>6 DEF RowsInHand, SameRows, Present
  <2>11. QED BY <2>7, <2>8, <2>9, <2>10 DEF RowsInHand
<1>7. CASE ~SameRows
  <2>1. Insert(h)
    BY <1>7, HandlerKeepsRows
  <2>2. CreateJob(handler[h].job, handler[h].key)
    BY <1>7, <2>1, InsertRow
  <2>3. /\ jobs'[handler[h].job].status = "queued" /\ jobs'[handler[h].job].key = handler[h].key
        /\ \A i \in Jobs \ {handler[h].job} : jobs'[i] = jobs[i]
    BY <1>1, <2>2, CreateJobRow DEF TypeOK
  <2>4. queue' = queue
    BY <2>1 DEF Insert
  <2>5. \A j \in Jobs : j >= nextId' => ~Present(j)'
    BY <1>1, <1>2, <2>3 DEF RowsInHand, Jobs, Present
  <2>6. \A g \in Handlers \ {h} :
          handler'[g] = handler[g] /\ (handler[g].step # "idle" => handler[g].job # handler[h].job
                                                       /\ handler[g].job \in Jobs)
    BY <1>1, HandlerProgress, JobsInHand DEF NamedJobs
  <2>7. \A g \in Handlers \ {h} :
          /\ handler'[g].step \in {"lookup", "check", "insert"} => ~Present(handler[g].job)'
          /\ Inserted(g)' => Present(handler[g].job)' /\ jobs'[handler'[g].job].key = handler'[g].key
    BY <2>3, <2>6 DEF RowsInHand, Inserted, Present
  <2>8. /\ handler'[h].step \notin {"lookup", "check", "insert"}
        /\ Inserted(h)' => Present(handler[h].job)' /\ jobs'[handler'[h].job].key = handler'[h].key
    BY <2>1, <2>3, HandlerProgress DEF Insert, NoRequest, Inserted, Present
  <2>9. \A p \in Procs : \A a \in DOMAIN queue'[p] : Present(queue[p][a])'
    BY <1>4, <2>3, <2>4 DEF RowsInHand, Present
  <2>10. \A w \in Workers : worker'[w].job # NoJob => Present(worker[w].job)'
    BY <1>2, <1>5, <2>3 DEF RowsInHand, Present
  <2>11. QED BY <2>5, <2>7, <2>8, <2>9, <2>10 DEF RowsInHand
<1>8. QED BY <1>6, <1>7

LEMMA WorkerRows ==
  ASSUME TypeOK, NamedJobs, RowsInHand, NEW w \in Workers, WorkerStep(w)
  PROVE  RowsInHand'
<1>1. SameRows
  BY WorkerKeepsRows
<1>2. UNCHANGED << handler, nextId >>
  BY DEF WorkerStep, Take, MarkRunning, ProfileFails, ProfileAndSave, Finish, WorkerExit
<1>3. worker \in [Workers -> WorkerRecord] /\ \A p \in Procs : queue[p] \in Seq(Jobs)
  BY DEF TypeOK
<1>4. \A v \in Workers : worker'[v].job \in Jobs \cup {NoJob}
        /\ (worker'[v].job # NoJob => jobs[worker'[v].job].status # "absent")
  <2>1. CASE Take(w)
    <3>1. queue[Host[w]] # << >>
      BY <2>1 DEF Take
    <3>2. 1 \in DOMAIN queue[Host[w]] /\ Head(queue[Host[w]]) = queue[Host[w]][1]
          /\ Head(queue[Host[w]]) \in Jobs
      BY <1>3, <3>1, ChannelSteps
    <3>3. jobs[Head(queue[Host[w]])].status # "absent"
      BY <3>2 DEF RowsInHand, Present
    <3>4. worker' = [worker EXCEPT ![w] = [step |-> "taken", job |-> Head(queue[Host[w]])]]
      BY <2>1 DEF Take
    <3>5. QED BY <1>3, <3>2, <3>3, <3>4 DEF RowsInHand, Present, WorkerRecord
  <2>2. CASE ~Take(w)
    <3>1. \A v \in Workers : worker'[v].job \in {worker[v].job, NoJob}
      <4>1. worker'[w] \in {Waiting, Off} \/ worker'[w].job = worker[w].job
        BY <2>2, WorkerProgress
      <4>2. worker'[w].job \in {worker[w].job, NoJob}
        BY <4>1 DEF Waiting, Off
      <4>3. \A v \in Workers \ {w} : worker'[v] = worker[v]
        BY WorkerProgress
      <4>4. QED BY <4>2, <4>3
    <3>2. QED BY <1>3, <3>1 DEF RowsInHand, Present, WorkerRecord
  <2>3. QED BY <2>1, <2>2
<1>5. \A p \in Procs : \A a \in DOMAIN queue'[p] :
        queue'[p][a] \in Jobs /\ jobs[queue'[p][a]].status # "absent"
  <2>1. CASE Take(w)
    <3>1. SUFFICES ASSUME NEW p \in Procs, NEW a \in DOMAIN queue'[p]
                   PROVE  queue'[p][a] \in Jobs /\ jobs[queue'[p][a]].status # "absent"
      OBVIOUS
    <3>2. queue[p] \in Seq(Jobs)
      BY <1>3
    <3>3. queue'[p] = queue[p] \/ (queue[p] # << >> /\ queue'[p] = Tail(queue[p]))
      BY <2>1 DEF Take, TypeOK
    <3>4. CASE queue'[p] = queue[p]
      BY <3>2, <3>4 DEF RowsInHand, Present
    <3>5. CASE queue[p] # << >> /\ queue'[p] = Tail(queue[p])
      <4>1. DOMAIN queue'[p] = 1 .. Len(queue[p]) - 1 /\ DOMAIN queue[p] = 1 .. Len(queue[p])
            /\ Len(queue[p]) \in Nat
        BY <3>2, <3>5, ChannelSteps
      <4>2. queue'[p][a] = queue[p][a + 1] /\ a + 1 \in DOMAIN queue[p]
        BY <3>2, <3>5, <4>1, ChannelSteps
      <4>3. QED BY <3>2, <4>2 DEF RowsInHand, Present
    <3>6. QED BY <3>3, <3>4, <3>5
  <2>2. CASE ~Take(w)
    <3>1. queue' = queue
      BY <2>2 DEF WorkerStep, MarkRunning, ProfileFails, ProfileAndSave, Finish, WorkerExit
    <3>2. QED BY <1>3, <3>1 DEF RowsInHand, Present
  <2>3. QED BY <2>1, <2>2
<1>6. \A h \in Handlers : handler[h].step # "idle" => handler[h].job \in Jobs
  BY JobsInHand
<1>7. \A h \in Handlers :
        /\ handler'[h].step \in {"lookup", "check", "insert"} => ~Present(handler[h].job)'
        /\ Inserted(h)' => Present(handler[h].job)' /\ jobs'[handler'[h].job].key = handler'[h].key
  BY <1>1, <1>2, <1>6 DEF RowsInHand, SameRows, Present, Inserted
<1>8. \A j \in Jobs : j >= nextId' => ~Present(j)'
  BY <1>1, <1>2 DEF RowsInHand, SameRows, Present
<1>9. \A p \in Procs : \A a \in DOMAIN queue'[p] : Present(queue[p][a])'
  BY <1>1, <1>5 DEF SameRows, Present
<1>10. \A v \in Workers : worker'[v].job # NoJob => Present(worker[v].job)'
  BY <1>1, <1>4 DEF SameRows, Present
<1>11. QED BY <1>7, <1>8, <1>9, <1>10 DEF RowsInHand

LEMMA ServerRows ==
  ASSUME TypeOK, NamedJobs, RowsInHand, NEW p \in Procs, ServerStep(p) \/ Signal(p) \/ Crash(p)
  PROVE  RowsInHand'
<1>1. SameRows
  BY ServerKeepsRows
<1>2. nextId' = nextId
  BY DEF ServerStep, Boot, StartRecover, StartRequeue, CloseStore, Stop, FailQueuedJob, Exit,
     Signal, Crash, Vanish
<1>3. \A w \in Workers : worker'[w] \in {worker[w], Waiting, Off}
  BY DEF ServerStep, Boot, StartRecover, StartRequeue, CloseStore, Stop, FailQueuedJob, Exit,
     Signal, Crash, Vanish
<1>4. \A h \in Handlers : handler'[h] \in {handler[h], NoRequest}
  BY DEF ServerStep, Boot, StartRecover, StartRequeue, CloseStore, Stop, FailQueuedJob, Exit,
     Signal, Crash, Vanish
<1>5. queue \in [Procs -> Seq(Jobs)] /\ worker \in [Workers -> WorkerRecord]
  BY DEF TypeOK
<1>6. \A q \in Procs : \A a \in DOMAIN queue'[q] :
        queue'[q][a] \in Jobs /\ jobs[queue'[q][a]].status # "absent"
  <2>1. SUFFICES ASSUME NEW q \in Procs, NEW a \in DOMAIN queue'[q]
                 PROVE  queue'[q][a] \in Jobs /\ jobs[queue'[q][a]].status # "absent"
    OBVIOUS
  <2>2. CASE queue'[q] = queue[q]
    BY <1>5, <2>2 DEF RowsInHand, Present
  <2>3. CASE queue'[q] = << >>
    BY <2>3
  <2>4. CASE StartRequeue(p) /\ queue'[q] # queue[q] /\ queue'[q] # << >>
    <3>1. q = p /\ queue'[q] \in ListQueuedJobs(Cap)
      BY <1>5, <2>4 DEF StartRequeue
    <3>2. queue'[q] \in Seq(Queued)
      BY <3>1, OldestSeq DEF ListQueuedJobs, Queued
    <3>3. queue'[q][a] \in Queued
      BY <3>2
    <3>4. QED BY <3>3 DEF Queued
  <2>5. CASE FailQueuedJob(p) /\ queue'[q] # queue[q]
    <3>1. queue[q] \in Seq(Jobs) /\ queue[q] # << >> /\ queue'[q] = Tail(queue[q])
      BY <1>5, <2>5 DEF FailQueuedJob
    <3>2. DOMAIN queue'[q] = 1 .. Len(queue[q]) - 1 /\ DOMAIN queue[q] = 1 .. Len(queue[q])
          /\ Len(queue[q]) \in Nat
      BY <3>1, ChannelSteps
    <3>3. queue'[q][a] = queue[q][a + 1] /\ a + 1 \in DOMAIN queue[q]
      BY <3>1, <3>2, ChannelSteps
    <3>4. QED BY <3>1, <3>3 DEF RowsInHand, Present
  <2>6. CASE ~StartRequeue(p) /\ ~FailQueuedJob(p)
    <3>1. queue'[q] \in {queue[q], << >>}
      BY <1>5, <2>6 DEF ServerStep, Boot, StartRecover, CloseStore, Stop, Exit,
         Signal, Crash, Vanish
    <3>2. QED BY <2>2, <2>3, <3>1
  <2>7. QED BY <2>2, <2>3, <2>4, <2>5, <2>6
<1>7. \A h \in Handlers : handler[h].step # "idle" => handler[h].job \in Jobs
  BY JobsInHand
<1>8. \A h \in Handlers :
        /\ handler'[h].step \in {"lookup", "check", "insert"} => ~Present(handler[h].job)'
        /\ Inserted(h)' => Present(handler[h].job)' /\ jobs'[handler'[h].job].key = handler'[h].key
  BY <1>1, <1>4, <1>7 DEF RowsInHand, SameRows, Present, Inserted, NoRequest
<1>9. \A j \in Jobs : j >= nextId' => ~Present(j)'
  BY <1>1, <1>2 DEF RowsInHand, SameRows, Present
<1>10. \A q \in Procs : \A a \in DOMAIN queue'[q] : Present(queue[q][a])'
  BY <1>1, <1>6 DEF SameRows, Present
<1>11. \A w \in Workers : worker'[w].job # NoJob => Present(worker[w].job)'
  BY <1>1, <1>3, <1>5 DEF RowsInHand, SameRows, Present, Waiting, Off, WorkerRecord
<1>12. QED BY <1>8, <1>9, <1>10, <1>11 DEF RowsInHand

LEMMA EnvironmentRows ==
  ASSUME TypeOK, NamedJobs, RowsInHand,
         (\E h \in Handlers : \E k \in Keys \cup {NoKey} : Arrive(h, k)) \/ TimePasses
  PROVE  RowsInHand' /\ SameRows
<1>1. SameRows
  <2>1. UNCHANGED storeVars \/ \E j \in Jobs : Age(j)
    BY DEF Arrive, TimePasses
  <2>2. QED BY <2>1, KeepsRows DEF TypeOK
<1>2. queue \in [Procs -> Seq(Jobs)] /\ worker \in [Workers -> WorkerRecord]
  BY DEF TypeOK
<1>3. UNCHANGED << queue, worker >>
  BY DEF Arrive, TimePasses, procVars
<1>4. nextId \in Nat /\ nextId' \in Nat /\ nextId' >= nextId
  BY DEF Arrive, TimePasses, TypeOK
<1>5. \A h \in Handlers :
        \/ handler'[h] = handler[h]
        \/ handler'[h].job = nextId /\ handler'[h].step \in {"check", "lookup"} /\ nextId \in Jobs
  BY DEF Arrive, TimePasses, procVars, TypeOK
<1>6. \A h \in Handlers : handler[h].step # "idle" => handler[h].job \in Jobs
  BY JobsInHand
<1>7. ~(nextId \in Jobs /\ jobs[nextId].status # "absent")
  BY <1>4 DEF RowsInHand, Present, Jobs
<1>8. \A h \in Handlers :
        /\ handler'[h].step \in {"lookup", "check", "insert"} => ~Present(handler[h].job)'
        /\ Inserted(h)' => Present(handler[h].job)' /\ jobs'[handler'[h].job].key = handler'[h].key
  BY <1>1, <1>5, <1>6, <1>7 DEF RowsInHand, SameRows, Present, Inserted
<1>9. \A j \in Jobs : j >= nextId' => ~Present(j)'
  BY <1>1, <1>4 DEF RowsInHand, SameRows, Present, Jobs
<1>10. \A q \in Procs : \A a \in DOMAIN queue'[q] : Present(queue[q][a])'
  BY <1>1, <1>2, <1>3 DEF RowsInHand, SameRows, Present
<1>11. \A w \in Workers : worker'[w].job # NoJob => Present(worker[w].job)'
  BY <1>1, <1>2, <1>3 DEF RowsInHand, SameRows, Present, WorkerRecord
<1>12. QED BY <1>1, <1>8, <1>9, <1>10, <1>11 DEF RowsInHand

\* Every step, but the inserting ones, keeps the rows.
LEMMA StepRows ==
  ASSUME TypeOK, NamedJobs, RowsInHand, Next
  PROVE  \/ SameRows
         \/ \E h \in Handlers : /\ Insert(h) /\ handler[h].job \in Jobs
                               /\ CreateJob(handler[h].job, handler[h].key)
                               /\ ~Conflicts(handler[h].key)
<1>1. ASSUME NEW h \in Handlers, HandlerStep(h)
      PROVE  \/ SameRows
             \/ /\ Insert(h) /\ handler[h].job \in Jobs
                /\ CreateJob(handler[h].job, handler[h].key)
                /\ ~Conflicts(handler[h].key)
  <2>1. CASE Insert(h)
    <3>1. handler[h].job \in Jobs
      BY <2>1, JobsInHand DEF Insert
    <3>2. QED BY <2>1, <3>1, InsertRow
  <2>2. CASE ~Insert(h)
    BY <1>1, <2>2, HandlerKeepsRows
  <2>3. QED BY <2>1, <2>2
<1>2. QED BY <1>1, WorkerKeepsRows, ServerKeepsRows, EnvironmentRows DEF Next

LEMMA StepUniqueKeys ==
  ASSUME TypeOK, NamedJobs, RowsInHand, UniqueKeys, Next
  PROVE  UniqueKeys'
<1>1. CASE SameRows
  BY <1>1 DEF UniqueKeys, SameRows, Present
<1>2. ASSUME NEW h \in Handlers, handler[h].job \in Jobs,
             CreateJob(handler[h].job, handler[h].key), ~Conflicts(handler[h].key)
      PROVE  UniqueKeys'
  <2>1. \A i \in Jobs : jobs[i].status = "absent" \/ jobs[i].key # handler[h].key
                        \/ handler[h].key = NoKey
    BY <1>2 DEF Conflicts, RowsWithKey
  <2>2. /\ jobs'[handler[h].job].key = handler[h].key
        /\ \A i \in Jobs \ {handler[h].job} : jobs'[i] = jobs[i]
    BY <1>2, CreateJobRow DEF TypeOK
  <2>3. QED BY <2>1, <2>2 DEF UniqueKeys, Present
<1>3. QED BY <1>1, <1>2, StepRows

\* A 202 answer names a row that exists, under the key of the request.
LEMMA StepAnswers ==
  ASSUME TypeOK, NamedJobs, RowsInHand, Next
  PROVE  \A a \in accepted' : \/ a \in accepted
                             \/ /\ a[2] \in Jobs /\ jobs[a[2]].status # "absent"
                                /\ jobs[a[2]].key = a[1]
<1>1. ASSUME NEW h \in Handlers, Lookup(h) \/ Relookup(h), NEW a \in accepted'
      PROVE  \/ a \in accepted
             \/ a[2] \in Jobs /\ jobs[a[2]].status # "absent" /\ jobs[a[2]].key = a[1]
  <2>1. \/ accepted' = accepted
        \/ \E j \in RowsWithKey(handler[h].key) :
             accepted' = accepted \cup {<< handler[h].key, j >>}
    BY <1>1 DEF Lookup, Relookup, Accept
  <2>2. QED BY <2>1 DEF RowsWithKey
<1>2. ASSUME NEW h \in Handlers, Send(h), NEW a \in accepted'
      PROVE  \/ a \in accepted
             \/ a[2] \in Jobs /\ jobs[a[2]].status # "absent" /\ jobs[a[2]].key = a[1]
  <2>1. handler[h].job \in Jobs
    BY <1>2, JobsInHand DEF Send
  <2>2. jobs[handler[h].job].status # "absent" /\ jobs[handler[h].job].key = handler[h].key
    BY <1>2 DEF Send, RowsInHand, Inserted, Present
  <2>3. accepted' = accepted \/ accepted' = accepted \cup {<< handler[h].key, handler[h].job >>}
    BY <1>2 DEF Send, Accept
  <2>4. QED BY <2>1, <2>2, <2>3
<1>3. CASE ~\E h \in Handlers : Lookup(h) \/ Relookup(h) \/ Send(h)
  <2>1. accepted' = accepted
    BY <1>3
    DEF Next, HandlerStep, CheckStopped, Insert, EnqueueCheck, Refuse, Arrive,
        WorkerStep, Take, MarkRunning, ProfileFails, ProfileAndSave, Finish, WorkerExit,
        ServerStep, Boot, StartRecover, StartRequeue, CloseStore, Stop, FailQueuedJob, Exit,
        Signal, Crash, Vanish, TimePasses
  <2>2. QED BY <2>1
<1>4. QED BY <1>1, <1>2, <1>3

LEMMA StepIdempotentAnswers ==
  ASSUME TypeOK, NamedJobs, RowsInHand, UniqueKeys, IdempotentAnswers, Next
  PROVE  IdempotentAnswers'
<1>1. \A a \in accepted' : a[2] \in Jobs /\ jobs[a[2]].status # "absent" /\ jobs[a[2]].key = a[1]
  BY StepAnswers DEF IdempotentAnswers, TypeOK
<1>2. \A a \in accepted' : jobs'[a[2]].status # "absent" /\ jobs'[a[2]].key = a[1]
  <2>1. CASE SameRows
    BY <1>1, <2>1 DEF SameRows
  <2>2. ASSUME NEW h \in Handlers, Insert(h), handler[h].job \in Jobs,
               CreateJob(handler[h].job, handler[h].key)
        PROVE  \A a \in accepted' : jobs'[a[2]].status # "absent" /\ jobs'[a[2]].key = a[1]
    <3>1. jobs[handler[h].job].status = "absent"
      BY <2>2 DEF RowsInHand, Insert, Present
    <3>2. \A i \in Jobs \ {handler[h].job} : jobs'[i] = jobs[i]
      BY <2>2, CreateJobRow DEF TypeOK
    <3>3. QED BY <1>1, <3>1, <3>2
  <2>3. QED BY <2>1, <2>2, StepRows
<1>3. UniqueKeys'
  BY StepUniqueKeys
<1>4. ASSUME NEW a \in accepted', NEW b \in accepted', a[1] = b[1], a[1] # NoKey
      PROVE  a[2] = b[2]
  BY <1>1, <1>2, <1>3, <1>4 DEF UniqueKeys, Present
<1>5. QED BY <1>2, <1>4 DEF IdempotentAnswers

-----------------------------------------------------------------------------
(* Snapshots                                                               *)

\* A step takes no snapshot away.
LEMMA SnapshotsGrow ==
  ASSUME TypeOK, Next
  PROVE  \A j \in Jobs : snapshots'[j] \in Int /\ snapshots'[j] >= snapshots[j]
<1>1. StoreTypeOK
  BY DEF TypeOK
<1>2. \/ UNCHANGED snapshots
      \/ \E w \in Workers : SaveProfile(worker[w].job)
  BY DEF Next, HandlerStep, Lookup, CheckStopped, Insert, Relookup, EnqueueCheck, Send, Refuse,
     Arrive, WorkerStep, Take, MarkRunning, ProfileFails, ProfileAndSave, Finish, WorkerExit,
     ServerStep, Boot, StartRecover, StartRequeue, CloseStore, Stop, FailQueuedJob, Exit,
     Signal, Crash, Vanish, TimePasses, Write, UpdateJob, CreateJob, RecoverStaleRunningJobs,
     Age, storeVars
<1>3. ASSUME NEW j, SaveProfile(j)
      PROVE  \A i \in Jobs : snapshots'[i] \in Int /\ snapshots'[i] >= snapshots[i]
  BY <1>1, <1>3 DEF SaveProfile, StoreTypeOK
<1>4. CASE UNCHANGED snapshots
  BY <1>1, <1>4 DEF StoreTypeOK
<1>5. QED BY <1>2, <1>3, <1>4

\* Only a step of the worker itself brings it to "completing", after a
\* SaveProfile that succeeded.
LEMMA StepSavedFirst ==
  ASSUME TypeOK, NamedJobs, SavedFirst, Next
  PROVE  SavedFirst'
<1>1. \A j \in Jobs : snapshots'[j] >= snapshots[j] /\ snapshots[j] \in Nat /\ snapshots'[j] \in Int
  BY SnapshotsGrow DEF TypeOK, StoreTypeOK
<1>2. \A w \in Workers : worker[w].step = "completing" => worker[w].job \in Jobs
  BY JobsInHand
<1>3. SUFFICES ASSUME NEW v \in Workers, worker'[v].step = "completing"
               PROVE  snapshots'[worker'[v].job] > 0
  BY DEF SavedFirst
<1>4. CASE worker'[v] = worker[v]
  BY <1>1, <1>2, <1>3, <1>4 DEF SavedFirst
<1>5. ASSUME NEW w \in Workers, WorkerStep(w), worker'[v] # worker[v]
      PROVE  snapshots'[worker'[v].job] > 0
  <2>1. v = w /\ worker[w].step = "running" /\ worker'[w].job = worker[w].job
    <3>1. v = w
      BY <1>5, WorkerProgress
    <3>2. worker'[w] \notin {Waiting, Off} /\ worker'[w].step \notin {"taken", "running"}
      BY <1>3, <3>1 DEF Waiting, Off
    <3>3. worker'[w] # [step |-> "taken", job |-> Head(queue[Host[w]])]
      BY <3>2
    <3>4. QED BY <1>5, <3>1, <3>2, <3>3, WorkerProgress
  <2>2. ProfileAndSave(w)
    <3>1. ~ProfileFails(w)
      BY <1>3, <2>1 DEF ProfileFails, TypeOK, WorkerRecord, Proceed, AfterError
    <3>2. QED BY <1>5, <2>1, <3>1 DEF WorkerStep, Take, MarkRunning, Finish, WorkerExit
  <2>3. SaveProfile(worker[w].job)
    <3>1. PICK o \in Outcomes(Host[w]) :
            /\ IF o = "lost" THEN UNCHANGED storeVars ELSE SaveProfile(worker[w].job)
            /\ worker' = [worker EXCEPT ![w].step = IF o = "ok" THEN "completing" ELSE "failing"]
      BY <2>2 DEF ProfileAndSave, ProceedAfter, Proceed, AfterError
    <3>2. o = "ok"
      BY <1>3, <2>1, <3>1 DEF TypeOK, WorkerRecord
    <3>3. QED BY <3>1, <3>2
  <2>4. worker[w].job \in Jobs
    BY <2>1, JobsInHand
  <2>5. snapshots'[worker[w].job] = snapshots[worker[w].job] + 1
    BY <2>3, <2>4 DEF SaveProfile, TypeOK, StoreTypeOK
  <2>6. QED BY <1>1, <2>1, <2>4, <2>5
<1>6. CASE \A w \in Workers : ~WorkerStep(w)
  <2>1. worker'[v] \in {worker[v], Waiting, Off}
    BY <1>6 DEF Next, HandlerStep, Lookup, CheckStopped, Insert, Relookup, EnqueueCheck, Send,
       Refuse, Arrive, ServerStep, Boot, StartRecover, StartRequeue, CloseStore, Stop,
       FailQueuedJob, Exit, Signal, Crash, Vanish, TimePasses, procVars
  <2>2. QED BY <1>3, <1>4, <2>1 DEF Waiting, Off
<1>7. QED BY <1>4, <1>5, <1>6

\* A row becomes completed by the final UpdateJob of a worker only.
LEMMA StepCompleted ==
  ASSUME TypeOK, NamedJobs, SavedFirst, CompletedHasSnapshot, Next
  PROVE  CompletedHasSnapshot'
<1>1. StoreTypeOK
  BY DEF TypeOK
<1>2. \A j \in Jobs : snapshots[j] > 0 => snapshots'[j] > 0
  BY SnapshotsGrow DEF TypeOK, StoreTypeOK
<1>3. SUFFICES ASSUME NEW j \in Jobs, jobs'[j].status = "completed"
               PROVE  snapshots[j] > 0
  BY <1>2 DEF CompletedHasSnapshot, HasProfile
<1>4. CASE jobs[j].status = "completed"
  BY <1>4 DEF CompletedHasSnapshot, HasProfile
<1>5. CASE \E w \in Workers : Finish(w) /\ worker[w].step = "completing" /\ worker[w].job = j
  BY <1>5 DEF SavedFirst
<1>6. \A i, s, e : s # "completed" /\ UpdateJob(i, s, e) => jobs[j].status = "completed"
  BY <1>1, <1>3 DEF UpdateJob, StoreTypeOK, Row
<1>7. UNCHANGED storeVars \/ RecoverStaleRunningJobs \/ (\E i : SaveProfile(i) \/ Age(i))
        => jobs[j].status = "completed"
  BY <1>1, <1>3 DEF storeVars, RecoverStaleRunningJobs, SaveProfile, Age, StoreTypeOK, Row
<1>8. \A i, k : CreateJob(i, k) => jobs[j].status = "completed"
  BY <1>1, <1>3 DEF CreateJob, StoreTypeOK
<1>9. ASSUME NEW h \in Handlers, HandlerStep(h) PROVE snapshots[j] > 0
  BY <1>4, <1>6, <1>7, <1>8, <1>9
  DEF HandlerStep, Lookup, CheckStopped, Insert, Relookup, EnqueueCheck, Send, Refuse, Write
<1>10. ASSUME NEW w \in Workers, WorkerStep(w) PROVE snapshots[j] > 0
  <2>1. CASE Finish(w)
    <3>1. CASE worker[w].step = "completing"
      <4>1. UNCHANGED storeVars \/ UpdateJob(worker[w].job, "completed", "none")
        BY <2>1, <3>1 DEF Finish, Write
      <4>2. CASE worker[w].job = j
        BY <1>5, <2>1, <3>1, <4>2
      <4>3. CASE worker[w].job # j
        BY <1>1, <1>3, <1>4, <1>7, <4>1, <4>3 DEF UpdateJob, StoreTypeOK
      <4>4. QED BY <4>2, <4>3
    <3>2. CASE worker[w].step # "completing"
      BY <1>4, <1>6, <1>7, <2>1, <3>2 DEF Finish, Write
    <3>3. QED BY <3>1, <3>2
  <2>2. CASE ~Finish(w)
    BY <1>4, <1>6, <1>7, <1>10, <2>2
    DEF WorkerStep, Take, MarkRunning, ProfileFails, ProfileAndSave, WorkerExit, Write
  <2>3. QED BY <2>1, <2>2
<1>11. ASSUME NEW p \in Procs, ServerStep(p) \/ Signal(p) \/ Crash(p) PROVE snapshots[j] > 0
  BY <1>4, <1>6, <1>7, <1>11
  DEF ServerStep, Boot, StartRecover, StartRequeue, CloseStore, Stop, FailQueuedJob, Exit,
      Signal, Crash, Vanish, Write
<1>12. CASE (\E h \in Handlers : \E k \in Keys \cup {NoKey} : Arrive(h, k)) \/ TimePasses
  BY <1>4, <1>7, <1>12 DEF Arrive, TimePasses
<1>13. QED BY <1>9, <1>10, <1>11, <1>12 DEF Next

-----------------------------------------------------------------------------
(* Theorems for any number of instances                                    *)

LEMMA InitRowInv == Init => RowInv
BY DEF Init, StoreInit, NoRow, RowInv, NamedJobs, RowsInHand, UniqueKeys, IdempotentAnswers,
   SavedFirst, CompletedHasSnapshot, HasProfile, Present, Inserted, Off, NoRequest, NoJob

LEMMA StepRowInv ==
  ASSUME TypeOK, RowInv, [Next]_vars
  PROVE  TypeOK' /\ RowInv'
<1>1. CASE Next
  <2>1. NamedJobs /\ RowsInHand /\ UniqueKeys /\ IdempotentAnswers /\ SavedFirst
        /\ CompletedHasSnapshot
    BY DEF RowInv
  <2>2. \/ \E h \in Handlers : HandlerStep(h)
        \/ \E w \in Workers : WorkerStep(w)
        \/ \E p \in Procs : ServerStep(p) \/ Signal(p) \/ Crash(p)
        \/ (\E h \in Handlers : \E k \in Keys \cup {NoKey} : Arrive(h, k)) \/ TimePasses
    BY <1>1 DEF Next
  <2>3. TypeOK'
    BY <2>1, <2>2, HandlerTypes, WorkerTypes, ServerTypes, EnvironmentTypes
  <2>4. NamedJobs'
    BY <2>1, <2>2, HandlerNames, WorkerNames, ServerNames, EnvironmentNames
  <2>5. RowsInHand'
    BY <2>1, <2>2, HandlerRows, WorkerRows, ServerRows, EnvironmentRows
  <2>6. UniqueKeys' /\ IdempotentAnswers'
    BY <1>1, <2>1, StepUniqueKeys, StepIdempotentAnswers
  <2>7. SavedFirst' /\ CompletedHasSnapshot'
    BY <1>1, <2>1, StepSavedFirst, StepCompleted
  <2>8. QED BY <2>3, <2>4, <2>5, <2>6, <2>7 DEF RowInv
<1>2. CASE UNCHANGED vars
  <2>1. TypeOK'
    BY <1>2, StutterTypes
  <2>2. RowInv'
    BY <1>2 DEF vars, RowInv, NamedJobs, RowsInHand, UniqueKeys, IdempotentAnswers, SavedFirst,
       CompletedHasSnapshot, HasProfile, Present, Inserted
  <2>3. QED BY <2>1, <2>2
<1>3. QED BY <1>1, <1>2

\* Type correctness, the bound on the channel included.
THEOREM TypeCorrect == Spec => []TypeOK
<1>1. Init => TypeOK /\ RowInv
  BY InitTypes, InitRowInv
<1>2. TypeOK /\ RowInv /\ [Next]_vars => (TypeOK /\ RowInv)'
  BY StepRowInv
<1>3. QED BY <1>1, <1>2, PTL DEF Spec

\* The inductive invariant holds in every reachable state.
THEOREM RowInvariant == Spec => [](TypeOK /\ RowInv)
<1>1. Init => TypeOK /\ RowInv
  BY InitTypes, InitRowInv
<1>2. TypeOK /\ RowInv /\ [Next]_vars => (TypeOK /\ RowInv)'
  BY StepRowInv
<1>3. QED BY <1>1, <1>2, PTL DEF Spec

\* Two answers to one key name one job, on any instances, whatever fails.
THEOREM Idempotency == Spec => []IdempotentAnswers
<1>1. RowInv => IdempotentAnswers
  BY DEF RowInv
<1>2. QED BY <1>1, RowInvariant, PTL

\* A completed job has its result, on any instances, whatever fails.
THEOREM CompletedHasResult == Spec => []CompletedHasSnapshot
<1>1. RowInv => CompletedHasSnapshot
  BY DEF RowInv
<1>2. QED BY <1>1, RowInvariant, PTL

-----------------------------------------------------------------------------
(* Any number of instances: a job has one holder within an instance        *)

\* An instance that takes nothing on, and may let go of jobs, holds each of its
\* jobs once.  Its channel stays as it is, runs empty, or loses its first d slots.
LEMMA HoldsNoMore ==
  ASSUME TypeOK, NamedJobs, NEW q \in Procs, HeldOnce(q), NEW d \in Nat,
         \A a \in DOMAIN queue'[q] :
           a \in Int /\ a + d \in DOMAIN queue[q] /\ queue'[q][a] = queue[q][a + d],
         \A w \in WorkersOf(q) : worker'[w].job \in {worker[w].job, NoJob},
         \A h \in HandlersOf(q) :
           Inserted(h)' => Inserted(h) /\ handler'[h].job = handler[h].job
  PROVE  HeldOnce(q)'
<1>1. \A a \in DOMAIN queue[q] : queue[q][a] # NoJob
  BY DEF TypeOK, NoJob, Jobs
<1>2. \A h \in Handlers : Inserted(h) => handler[h].job # NoJob
  BY JobsInHand DEF Inserted, NoJob, Jobs
<1>3. ASSUME NEW a \in DOMAIN queue'[q], NEW b \in DOMAIN queue'[q], queue'[q][a] = queue'[q][b]
      PROVE  a = b
  <2>1. a + d = b + d
    BY <1>3 DEF HeldOnce
  <2>2. a \in Int /\ b \in Int
    OBVIOUS
  <2>3. QED BY <2>1, <2>2
<1>4. \A v, w \in WorkersOf(q) :
        worker'[v].job = worker'[w].job /\ worker'[v].job # NoJob => v = w
  BY DEF HeldOnce
<1>5. \A a \in DOMAIN queue'[q], w \in WorkersOf(q) : queue'[q][a] # worker'[w].job
  BY <1>1 DEF HeldOnce
<1>6. ASSUME NEW h \in HandlersOf(q), Inserted(h)'
      PROVE  /\ \A a \in DOMAIN queue'[q] : queue'[q][a] # handler'[h].job
             /\ \A w \in WorkersOf(q) : worker'[w].job # handler'[h].job
  <2>1. Inserted(h) /\ handler'[h].job = handler[h].job /\ h \in Handlers
    BY <1>6 DEF HandlersOf
  <2>2. QED BY <1>2, <2>1 DEF HeldOnce
<1>7. WorkersOf(q)' = WorkersOf(q) /\ HandlersOf(q)' = HandlersOf(q)
  BY DEF WorkersOf, HandlersOf
<1>8. QED BY <1>3, <1>4, <1>5, <1>6, <1>7 DEF HeldOnce

\* What the step of a handler leaves alone: the workers and main, and the channel
\* unless it sends to its own.
LEMMA HandlerLeaves ==
  ASSUME TypeOK, NEW h \in Handlers, HandlerStep(h), NEW q \in Procs
  PROVE  /\ UNCHANGED << worker, phase >>
         /\ handler[h].step # "idle"
         /\ \/ queue'[q] = queue[q]
            \/ q = Host[h] /\ Send(h) /\ ~Full(q)
<1>1. UNCHANGED << worker, phase >>
  BY DEF HandlerStep, Lookup, CheckStopped, Insert, Relookup, EnqueueCheck, Send, Refuse
<1>2. handler[h].step # "idle"
  BY DEF HandlerStep, Lookup, CheckStopped, Insert, Relookup, EnqueueCheck, Send, Refuse
<1>3. CASE Send(h)
  <2>1. queue' = queue \/ (queue' = [queue EXCEPT ![Host[h]] = Append(@, handler[h].job)]
                           /\ ~Full(Host[h]))
    BY <1>3 DEF Send
  <2>2. queue \in [Procs -> Seq(Jobs)]
    BY DEF TypeOK
  <2>3. QED BY <1>1, <1>2, <1>3, <2>1, <2>2
<1>4. CASE ~Send(h)
  <2>1. queue' = queue
    BY <1>4 DEF HandlerStep, Lookup, CheckStopped, Insert, Relookup, EnqueueCheck, Refuse
  <2>2. QED BY <1>1, <1>2, <2>1
<1>5. QED BY <1>3, <1>4

\* What the step of a worker leaves alone: the handlers and main, and the channel
\* unless it takes from its own.
LEMMA WorkerLeaves ==
  ASSUME TypeOK, NEW w \in Workers, WorkerStep(w), NEW q \in Procs
  PROVE  /\ UNCHANGED << handler, phase >>
         /\ worker[w].step # "off"
         /\ \/ queue'[q] = queue[q]
            \/ q = Host[w] /\ Take(w)
<1>1. UNCHANGED << handler, phase >>
  BY DEF WorkerStep, Take, MarkRunning, ProfileFails, ProfileAndSave, Finish, WorkerExit
<1>2. worker[w].step # "off"
  BY DEF WorkerStep, Take, MarkRunning, ProfileFails, ProfileAndSave, Finish, WorkerExit
<1>3. CASE Take(w)
  BY <1>1, <1>2, <1>3 DEF Take, TypeOK
<1>4. CASE ~Take(w)
  <2>1. queue' = queue
    BY <1>4 DEF WorkerStep, MarkRunning, ProfileFails, ProfileAndSave, Finish, WorkerExit
  <2>2. QED BY <1>1, <1>2, <2>1
<1>5. QED BY <1>3, <1>4

\* A handler brings a job into its instance when it inserts the row, which did
\* not exist, and hands it on to the channel when it sends it.
LEMMA HandlerHeld ==
  ASSUME TypeOK, RowInv, ExclusiveHandling, NEW h \in Handlers, HandlerStep(h),
         NEW q \in Procs
  PROVE  HeldOnce(q)'
<1> DEFINE p == Host[h]
           j == handler[h].job
<1>1. /\ worker' = worker
      /\ p \in Procs /\ queue \in [Procs -> Seq(Jobs)]
      /\ \A g \in Handlers \ {h} : handler'[g] = handler[g]
      /\ NamedJobs /\ HeldOnce(q)
      /\ h \in HandlersOf(p)
      /\ HandlersOf(q) \subseteq Handlers /\ WorkersOf(q) \subseteq Workers
  <2>1. worker' = worker
    BY HandlerLeaves
  <2>2. \A g \in Handlers \ {h} : handler'[g] = handler[g]
    BY HandlerProgress
  <2>3. NamedJobs /\ HeldOnce(q)
    BY DEF RowInv, ExclusiveHandling
  <2>4. p \in Procs /\ queue \in [Procs -> Seq(Jobs)]
    BY DEF TypeOK
  <2>5. QED BY <2>1, <2>2, <2>3, <2>4 DEF HandlersOf, WorkersOf
<1>2. j \in Jobs /\ j # NoJob
  <2>1. handler[h].step # "idle"
    BY HandlerLeaves
  <2>2. QED BY <1>1, <2>1, JobsInHand DEF NoJob, Jobs
<1>3. Inserted(h)' => handler'[h].job = j /\ (Inserted(h) \/ Insert(h))
  BY HandlerProgress DEF Inserted, NoRequest
<1>4. CASE queue'[q] = queue[q] /\ (q = p /\ Inserted(h)' => Inserted(h))
  <2>1. \A g \in HandlersOf(q) :
          Inserted(g)' => Inserted(g) /\ handler'[g].job = handler[g].job
    BY <1>1, <1>3, <1>4 DEF HandlersOf, Inserted
  <2>2. \A a \in DOMAIN queue'[q] :
          a \in Int /\ a + 0 \in DOMAIN queue[q] /\ queue'[q][a] = queue[q][a + 0]
    BY <1>1, <1>4
  <2>3. QED BY <1>1, <2>1, <2>2, HoldsNoMore
<1>5. CASE q = p /\ Insert(h) /\ Inserted(h)'
  <2>1. queue' = queue /\ ~Present(j)
    BY <1>5 DEF Insert, RowInv, RowsInHand
  <2>2. /\ \A a \in DOMAIN queue[q] : queue[q][a] # j
        /\ \A w \in WorkersOf(q) : worker[w].job # j
    BY <1>1, <1>2, <2>1 DEF RowInv, RowsInHand
  <2>3. ASSUME NEW g \in HandlersOf(q), Inserted(g)'
        PROVE  /\ \A a \in DOMAIN queue'[q] : queue'[q][a] # handler'[g].job
               /\ \A w \in WorkersOf(q) : worker'[w].job # handler'[g].job
    <3>1. CASE g = h
      BY <1>1, <1>3, <1>5, <2>1, <2>2, <3>1
    <3>2. CASE g # h
      <4>1. Inserted(g) /\ handler'[g] = handler[g]
        BY <1>1, <2>3, <3>2 DEF Inserted
      <4>2. QED BY <1>1, <2>1, <4>1 DEF HeldOnce
    <3>3. QED BY <3>1, <3>2
  <2>4. WorkersOf(q)' = WorkersOf(q) /\ HandlersOf(q)' = HandlersOf(q)
    BY DEF WorkersOf, HandlersOf
  <2>5. QED BY <1>1, <2>1, <2>3, <2>4 DEF HeldOnce
<1>6. CASE q = p /\ Send(h) /\ ~Full(p)
  <2>1. /\ queue'[q] = Append(queue[q], j) /\ queue[q] \in Seq(Jobs)
        /\ ~Inserted(h)' /\ Inserted(h)
    BY <1>1, <1>6 DEF Send, Accept, Reply, Inserted, NoRequest, TypeOK
  <2>2. /\ DOMAIN queue'[q] = 1 .. Len(queue[q]) + 1 /\ Len(queue[q]) \in Nat
        /\ DOMAIN queue[q] = 1 .. Len(queue[q])
        /\ \A a \in 1 .. Len(queue[q]) : queue'[q][a] = queue[q][a]
        /\ queue'[q][Len(queue[q]) + 1] = j
    BY <1>2, <2>1, ChannelSteps
  <2>3. /\ \A a \in DOMAIN queue[q] : queue[q][a] # j
        /\ \A w \in WorkersOf(q) : worker[w].job # j
    BY <1>1, <1>6, <2>1 DEF HeldOnce
  <2>4. \A a \in DOMAIN queue'[q] :
          \/ a \in DOMAIN queue[q] /\ queue'[q][a] = queue[q][a] /\ queue'[q][a] # j
          \/ a = Len(queue[q]) + 1 /\ queue'[q][a] = j
    BY <2>2, <2>3
  <2>5. \A a, b \in DOMAIN queue'[q] : queue'[q][a] = queue'[q][b] => a = b
    <3>1. \A a, b \in DOMAIN queue[q] : queue[q][a] = queue[q][b] => a = b
      BY <1>1 DEF HeldOnce
    <3>2. QED BY <2>4, <3>1
  <2>6. \A a \in DOMAIN queue'[q], w \in WorkersOf(q) : queue'[q][a] # worker'[w].job
    BY <1>1, <2>3, <2>4 DEF HeldOnce
  <2>7. ASSUME NEW g \in HandlersOf(q), Inserted(g)'
        PROVE  /\ \A a \in DOMAIN queue'[q] : queue'[q][a] # handler'[g].job
               /\ \A w \in WorkersOf(q) : worker'[w].job # handler'[g].job
    <3>1. g # h /\ Inserted(g) /\ handler'[g] = handler[g] /\ g \in Handlers
      BY <1>1, <2>1, <2>7 DEF Inserted
    <3>2. handler[g].job # j
      BY <1>1, <2>1, <3>1 DEF NamedJobs, Inserted
    <3>3. QED BY <1>1, <2>4, <3>1, <3>2 DEF HeldOnce
  <2>8. WorkersOf(q)' = WorkersOf(q) /\ HandlersOf(q)' = HandlersOf(q)
    BY DEF WorkersOf, HandlersOf
  <2>9. QED BY <1>1, <2>5, <2>6, <2>7, <2>8 DEF HeldOnce
<1>7. queue'[q] = queue[q] \/ (q = p /\ Send(h) /\ ~Full(p))
  BY HandlerLeaves
<1>8. QED BY <1>3, <1>4, <1>5, <1>6, <1>7

\* A worker takes the first job of the channel, and keeps or drops the one it has.
LEMMA WorkerHeld ==
  ASSUME TypeOK, RowInv, ExclusiveHandling, NEW w \in Workers, WorkerStep(w), NEW q \in Procs
  PROVE  HeldOnce(q)'
<1> DEFINE p == Host[w]
<1>1. /\ handler' = handler
      /\ p \in Procs /\ queue \in [Procs -> Seq(Jobs)]
      /\ \A v \in Workers \ {w} : worker'[v] = worker[v]
      /\ NamedJobs /\ HeldOnce(q)
      /\ HandlersOf(q) \subseteq Handlers /\ WorkersOf(q) \subseteq Workers
  <2>1. handler' = handler
    BY WorkerLeaves
  <2>2. \A v \in Workers \ {w} : worker'[v] = worker[v]
    BY WorkerProgress
  <2>3. NamedJobs /\ HeldOnce(q)
    BY DEF RowInv, ExclusiveHandling
  <2>4. p \in Procs /\ queue \in [Procs -> Seq(Jobs)]
    BY DEF TypeOK
  <2>5. QED BY <2>1, <2>2, <2>3, <2>4 DEF HandlersOf, WorkersOf
<1>2. \A h \in HandlersOf(q) : Inserted(h)' => Inserted(h) /\ handler'[h].job = handler[h].job
  BY <1>1 DEF Inserted
<1>3. CASE ~Take(w) \/ q # p
  <2>1. queue'[q] = queue[q]
    BY <1>3, WorkerLeaves
  <2>2. \A v \in WorkersOf(q) : worker'[v].job \in {worker[v].job, NoJob}
    <3>1. CASE q # p
      BY <1>1, <3>1 DEF WorkersOf
    <3>2. CASE ~Take(w)
      <4>1. worker'[w] \in {Waiting, Off} \/ worker'[w].job = worker[w].job
        BY <3>2, WorkerProgress
      <4>2. worker'[w].job \in {worker[w].job, NoJob}
        BY <4>1 DEF Waiting, Off
      <4>3. QED BY <1>1, <4>2
    <3>3. QED BY <1>3, <3>1, <3>2
  <2>3. \A a \in DOMAIN queue'[q] :
          a \in Int /\ a + 0 \in DOMAIN queue[q] /\ queue'[q][a] = queue[q][a + 0]
    BY <1>1, <2>1
  <2>4. QED BY <1>1, <1>2, <2>2, <2>3, HoldsNoMore
<1>4. CASE Take(w) /\ q = p
  <2>1. /\ queue[q] \in Seq(Jobs) /\ queue[q] # << >> /\ queue'[q] = Tail(queue[q])
        /\ worker'[w].job = Head(queue[q])
    BY <1>1, <1>4 DEF Take, TypeOK
  <2>2. /\ queue[q][1] \in Jobs /\ 1 \in DOMAIN queue[q] /\ worker'[w].job = queue[q][1]
        /\ \A a \in DOMAIN queue'[q] :
             a \in Int /\ a >= 1 /\ a + 1 \in DOMAIN queue[q] /\ queue'[q][a] = queue[q][a + 1]
    BY <2>1, ChannelSteps
  <2>3. \A a, b \in DOMAIN queue'[q] : queue'[q][a] = queue'[q][b] => a = b
    <3>1. SUFFICES ASSUME NEW a \in DOMAIN queue'[q], NEW b \in DOMAIN queue'[q],
                          queue'[q][a] = queue'[q][b]
                   PROVE  a = b
      OBVIOUS
    <3>2. a + 1 = b + 1
      BY <1>1, <2>2, <3>1 DEF HeldOnce
    <3>3. QED BY <2>2, <3>2
  <2>4. \A v \in WorkersOf(q) : v # w => worker'[v].job = worker[v].job
                                         /\ worker'[v].job # worker'[w].job
    BY <1>1, <2>2 DEF HeldOnce
  <2>5. \A a \in DOMAIN queue'[q] : queue'[q][a] # queue[q][1]
    <3>1. SUFFICES ASSUME NEW a \in DOMAIN queue'[q] PROVE queue[q][a + 1] # queue[q][1]
      BY <2>2
    <3>2. a + 1 # 1 /\ a + 1 \in DOMAIN queue[q]
      BY <2>2
    <3>3. QED BY <1>1, <2>2, <3>2 DEF HeldOnce
  <2>6. \A a \in DOMAIN queue'[q], v \in WorkersOf(q) : queue'[q][a] # worker'[v].job
    <3>1. SUFFICES ASSUME NEW a \in DOMAIN queue'[q], NEW v \in WorkersOf(q)
                   PROVE  queue'[q][a] # worker'[v].job
      OBVIOUS
    <3>2. CASE v = w
      BY <2>2, <2>5, <3>2
    <3>3. CASE v # w
      BY <1>1, <2>2, <2>4, <3>3 DEF HeldOnce
    <3>4. QED BY <3>2, <3>3
  <2>7. ASSUME NEW h \in HandlersOf(q), Inserted(h)'
        PROVE  /\ \A a \in DOMAIN queue'[q] : queue'[q][a] # handler'[h].job
               /\ \A v \in WorkersOf(q) : worker'[v].job # handler'[h].job
    BY <1>1, <1>2, <2>2, <2>4, <2>7 DEF HeldOnce
  <2>8. WorkersOf(q)' = WorkersOf(q) /\ HandlersOf(q)' = HandlersOf(q)
    BY DEF WorkersOf, HandlersOf
  <2>9. \A u, v \in WorkersOf(q) :
          worker'[u].job = worker'[v].job /\ worker'[u].job # NoJob => u = v
    <3>1. \A u, v \in WorkersOf(q) :
            worker[u].job = worker[v].job /\ worker[u].job # NoJob => u = v
      BY <1>1 DEF HeldOnce
    <3>2. QED BY <2>4, <3>1
  <2>10. QED BY <2>3, <2>6, <2>7, <2>8, <2>9 DEF HeldOnce
<1>5. QED BY <1>3, <1>4

\* Start fills the channel of an instance that holds nothing, with every listed
\* job once; Stop takes jobs off it; the end of a process drops them all.
LEMMA ServerHeld ==
  ASSUME TypeOK, RowInv, QuietStart, ExclusiveHandling,
         NEW p \in Procs, ServerStep(p) \/ Signal(p) \/ Crash(p), NEW q \in Procs
  PROVE  HeldOnce(q)'
<1>1. /\ queue \in [Procs -> Seq(Jobs)] /\ queue[q] \in Seq(Jobs)
      /\ NamedJobs /\ HeldOnce(q)
      /\ HandlersOf(q) \subseteq Handlers /\ WorkersOf(q) \subseteq Workers
  BY DEF RowInv, TypeOK, ExclusiveHandling, HandlersOf, WorkersOf
<1>2. /\ \A h \in HandlersOf(q) : handler'[h] \in {handler[h], NoRequest}
      /\ \A w \in WorkersOf(q) : worker'[w] \in {worker[w], Waiting, Off}
  BY <1>1 DEF ServerStep, Boot, StartRecover, StartRequeue, CloseStore, Stop, FailQueuedJob, Exit,
     Signal, Crash, Vanish
<1>3. /\ \A h \in HandlersOf(q) : Inserted(h)' => Inserted(h) /\ handler'[h].job = handler[h].job
      /\ \A w \in WorkersOf(q) : worker'[w].job \in {worker[w].job, NoJob}
  BY <1>2 DEF Inserted, NoRequest, Waiting, Off
<1>4. CASE queue'[q] = queue[q] \/ queue'[q] = << >>
  <2>1. \A a \in DOMAIN queue'[q] :
          a \in Int /\ a + 0 \in DOMAIN queue[q] /\ queue'[q][a] = queue[q][a + 0]
    BY <1>1, <1>4
  <2>2. QED BY <1>1, <1>3, <2>1, HoldsNoMore
<1>5. CASE FailQueuedJob(p) /\ q = p
  <2>1. queue[q] # << >> /\ queue'[q] = Tail(queue[q])
    BY <1>1, <1>5 DEF FailQueuedJob
  <2>2. \A a \in DOMAIN queue'[q] :
          a \in Int /\ a + 1 \in DOMAIN queue[q] /\ queue'[q][a] = queue[q][a + 1]
    BY <1>1, <2>1, ChannelSteps
  <2>3. QED BY <1>1, <1>3, <2>2, HoldsNoMore
<1>6. CASE StartRequeue(p) /\ q = p
  <2>1. /\ \A h \in HandlersOf(q) : handler'[h] = NoRequest
        /\ \A w \in WorkersOf(q) : worker'[w].job = NoJob
    BY <1>1, <1>6 DEF StartRequeue, Enter, QuietStart, HandlersOf, WorkersOf, Waiting
  <2>2. PICK s \in ListQueuedJobs(Cap) \cup {<< >>} : queue' = [queue EXCEPT ![p] = s]
    BY <1>6 DEF StartRequeue
  <2>3. /\ \A a \in DOMAIN s : s[a] \in Queued
        /\ \A a, b \in DOMAIN s : s[a] = s[b] => a = b
    <3>1. CASE s = << >>
      BY <3>1
    <3>2. CASE s \in ListQueuedJobs(Cap)
      <4>1. s \in Seq(Queued) /\ \A a, b \in DOMAIN s : s[a] = s[b] => a = b
        BY <3>2, OldestSeq DEF ListQueuedJobs, Queued
      <4>2. QED BY <4>1
    <3>3. QED BY <3>1, <3>2
  <2>4. queue'[q] = s /\ \A a \in DOMAIN s : s[a] # NoJob
    BY <1>1, <1>6, <2>2, <2>3 DEF Queued, Jobs, NoJob
  <2>5. WorkersOf(q)' = WorkersOf(q) /\ HandlersOf(q)' = HandlersOf(q)
    BY DEF WorkersOf, HandlersOf
  <2>6. QED BY <2>1, <2>3, <2>4, <2>5 DEF HeldOnce, Inserted, NoRequest
<1>7. \/ queue'[q] \in {queue[q], << >>}
      \/ q = p /\ (FailQueuedJob(p) \/ StartRequeue(p))
  BY <1>1 DEF ServerStep, Boot, StartRecover, StartRequeue, CloseStore, Stop, FailQueuedJob, Exit,
     Signal, Crash, Vanish
<1>8. QED BY <1>4, <1>5, <1>6, <1>7

LEMMA EnvironmentHeld ==
  ASSUME TypeOK, RowInv, ExclusiveHandling, NEW q \in Procs,
         \/ \E h \in Handlers : \E k \in Keys \cup {NoKey} : Arrive(h, k)
         \/ TimePasses
         \/ UNCHANGED vars
  PROVE  HeldOnce(q)'
<1>1. UNCHANGED << queue, worker >>
  BY DEF Arrive, TimePasses, procVars, vars
<1>2. \A h \in HandlersOf(q) : Inserted(h)' => Inserted(h) /\ handler'[h] = handler[h]
  BY DEF Arrive, TimePasses, procVars, vars, TypeOK, Inserted, HandlersOf
<1>3. NamedJobs /\ HeldOnce(q)
  BY DEF RowInv, ExclusiveHandling
<1>4. \A a \in DOMAIN queue'[q] :
        a \in Int /\ a + 0 \in DOMAIN queue[q] /\ queue'[q][a] = queue[q][a + 0]
  BY <1>1 DEF TypeOK
<1>5. QED BY <1>1, <1>2, <1>3, <1>4, HoldsNoMore

\* Until Start has listed the jobs no goroutine of the process is at work.
LEMMA StepQuiet ==
  ASSUME TypeOK, QuietStart, [Next]_vars
  PROVE  QuietStart'
<1>1. /\ queue \in [Procs -> Seq(Jobs)] /\ worker \in [Workers -> WorkerRecord]
      /\ handler \in [Handlers -> HandlerRecord] /\ phase \in [Procs -> Phases]
  BY DEF TypeOK
<1>2. SUFFICES ASSUME NEW q \in Procs, phase'[q] \in {"down", "starting", "listing"}
               PROVE  /\ queue'[q] = << >>
                      /\ \A w \in Workers : Host[w] = q => worker'[w] = Off
                      /\ \A h \in Handlers : Host[h] = q => handler'[h] = NoRequest
  BY DEF QuietStart, WorkersOf, HandlersOf
<1>3. phase[q] \in {"down", "starting", "listing"} =>
        /\ queue[q] = << >>
        /\ \A w \in Workers : Host[w] = q => worker[w] = Off
        /\ \A h \in Handlers : Host[h] = q => handler[h] = NoRequest
  BY DEF QuietStart, WorkersOf, HandlersOf
<1>4. ASSUME NEW h \in Handlers, HandlerStep(h)
      PROVE  /\ UNCHANGED << worker, phase >> /\ handler[h] # NoRequest
             /\ queue'[q] = queue[q] \/ q = Host[h]
  <2>1. handler[h].step # "idle"
    BY <1>4, HandlerLeaves
  <2>2. handler[h] # NoRequest
    BY <2>1 DEF NoRequest
  <2>3. QED BY <1>4, <2>2, HandlerLeaves
<1>5. ASSUME NEW h \in Handlers, HandlerStep(h)
      PROVE  /\ queue'[q] = << >>
             /\ \A w \in Workers : Host[w] = q => worker'[w] = Off
             /\ \A g \in Handlers : Host[g] = q => handler'[g] = NoRequest
  <2>1. \A g \in Handlers \ {h} : handler'[g] = handler[g]
    BY <1>5, HandlerProgress
  <2>2. QED BY <1>2, <1>3, <1>4, <1>5, <2>1
<1>6. ASSUME NEW w \in Workers, WorkerStep(w)
      PROVE  /\ queue'[q] = << >>
             /\ \A v \in Workers : Host[v] = q => worker'[v] = Off
             /\ \A h \in Handlers : Host[h] = q => handler'[h] = NoRequest
  <2>1. \A v \in Workers \ {w} : worker'[v] = worker[v]
    BY <1>6, WorkerProgress
  <2>2. UNCHANGED << handler, phase >> /\ (queue'[q] = queue[q] \/ q = Host[w])
    BY <1>6, WorkerLeaves
  <2>3. worker[w] # Off
    <3>1. worker[w].step # "off"
      BY <1>6, WorkerLeaves
    <3>2. QED BY <3>1 DEF Off
  <2>4. QED BY <1>2, <1>3, <2>1, <2>2, <2>3
<1>7. ASSUME NEW p \in Procs, ServerStep(p) \/ Signal(p) \/ Crash(p)
      PROVE  /\ queue'[q] = << >>
             /\ \A w \in Workers : Host[w] = q => worker'[w] = Off
             /\ \A h \in Handlers : Host[h] = q => handler'[h] = NoRequest
  <2>1. CASE Exit(p) \/ Crash(p)
    BY <1>1, <1>2, <1>3, <2>1 DEF Exit, Crash, Vanish
  <2>2. CASE Boot(p) \/ StartRecover(p) \/ CloseStore(p) \/ Stop(p) \/ Signal(p)
    BY <1>1, <1>2, <1>3, <2>2 DEF Boot, StartRecover, CloseStore, Stop, Signal, Enter
  <2>3. CASE StartRequeue(p) \/ FailQueuedJob(p)
    BY <1>1, <1>2, <1>3, <2>3 DEF StartRequeue, FailQueuedJob, Enter, Stopped
  <2>4. QED BY <1>7, <2>1, <2>2, <2>3 DEF ServerStep
<1>8. CASE (\E h \in Handlers : \E k \in Keys \cup {NoKey} : Arrive(h, k)) \/ TimePasses
  <2>1. UNCHANGED << queue, worker, phase >>
    BY <1>8 DEF Arrive, TimePasses, procVars
  <2>2. \A h \in Handlers : handler'[h] = handler[h] \/ phase[Host[h]] = "serving"
    BY <1>1, <1>8 DEF Arrive, TimePasses, procVars
  <2>3. QED BY <1>2, <1>3, <2>1, <2>2
<1>9. CASE UNCHANGED vars
  BY <1>2, <1>3, <1>9 DEF vars
<1>10. QED BY <1>5, <1>6, <1>7, <1>8, <1>9 DEF Next

\* What an instance holds, for any number of them.
THEOREM LocalInvariant == Spec => [](TypeOK /\ RowInv /\ QuietStart /\ ExclusiveHandling)
<1>1. Init => TypeOK /\ RowInv /\ QuietStart /\ ExclusiveHandling
  <2>1. Init => QuietStart /\ ExclusiveHandling
    BY DEF Init, QuietStart, ExclusiveHandling, HeldOnce, Inserted, Off, NoRequest, NoJob,
       WorkersOf, HandlersOf
  <2>2. QED BY <2>1, InitTypes, InitRowInv
<1>2. TypeOK /\ RowInv /\ QuietStart /\ ExclusiveHandling /\ [Next]_vars
        => (TypeOK /\ RowInv /\ QuietStart /\ ExclusiveHandling)'
  <2>1. SUFFICES ASSUME TypeOK, RowInv, QuietStart, ExclusiveHandling, [Next]_vars
                 PROVE  ExclusiveHandling'
    BY StepRowInv, StepQuiet
  <2>2. \/ \E h \in Handlers : HandlerStep(h)
        \/ \E w \in Workers : WorkerStep(w)
        \/ \E p \in Procs : ServerStep(p) \/ Signal(p) \/ Crash(p)
        \/ \/ \E h \in Handlers : \E k \in Keys \cup {NoKey} : Arrive(h, k)
           \/ TimePasses
           \/ UNCHANGED vars
    BY <2>1 DEF Next
  <2>3. \A q \in Procs : HeldOnce(q)'
    BY <2>1, <2>2, HandlerHeld, WorkerHeld, ServerHeld, EnvironmentHeld
  <2>4. QED BY <2>3 DEF ExclusiveHandling
<1>3. QED BY <1>1, <1>2, PTL DEF Spec

\* No job is in two places of an instance, of any number of them.
THEOREM Exclusion == Spec => []ExclusiveHandling
BY LocalInvariant, PTL

-----------------------------------------------------------------------------
(* One instance: a job has one holder, who may rely on its row             *)

\* With one instance, one holder in it is one holder of all there are.
LEMMA OneInstance ==
  ASSUME TypeOK, SingleInstance, ExclusiveHandling
  PROVE  OneHolder
<1>1. ASSUME NEW p \in Procs
      PROVE  HeldOnce(p) /\ WorkersOf(p) = Workers /\ HandlersOf(p) = Handlers
  BY DEF SingleInstance, ExclusiveHandling, WorkersOf, HandlersOf
<1>2. \A w \in Workers : Host[w] \in Procs
  OBVIOUS
<1>3. \A h \in Handlers : Host[h] \in Procs
  OBVIOUS
<1>4. \A v, w \in Workers : worker[v].job = worker[w].job /\ worker[v].job # NoJob => v = w
  BY <1>1, <1>2 DEF HeldOnce
<1>5. \A h \in Handlers : Inserted(h) => ~InChannel(handler[h].job) /\ ~AtWorker(handler[h].job)
  BY <1>1, <1>3 DEF HeldOnce, InChannel, AtWorker
<1>6. QED BY <1>1, <1>4, <1>5 DEF HeldOnce, OneHolder, InChannel


\* A write to the row of one job leaves the other rows alone, and tells the
\* status of that row.
LEMMA WriteRow ==
  ASSUME StoreTypeOK, NEW p, NEW o \in Outcomes(p), NEW j \in Jobs,
         NEW s, NEW e, Write(p, o, j, s, e)
  PROVE  /\ \A i \in Jobs \ {j} : jobs'[i] = jobs[i]
         /\ jobs'[j].status = IF o = "lost" THEN jobs[j].status ELSE s
BY DEF Write, UpdateJob, StoreTypeOK, Row, storeVars

\* The step of a worker but Take changes the row of its job only, and the
\* worker that still has a job afterwards has a running one.
LEMMA WorkerEffect ==
  ASSUME TypeOK, NamedJobs, StatusInHand, NEW w \in Workers, WorkerStep(w), ~Take(w)
  PROVE  /\ UNCHANGED << queue, handler, phase >>
         /\ \A i \in Jobs \ {worker[w].job} : jobs'[i] = jobs[i]
         /\ worker'[w].job \in {worker[w].job, NoJob}
         /\ worker'[w].job # NoJob =>
              worker'[w].step # "taken" /\ jobs'[worker'[w].job].status = "running"
<1>1. StoreTypeOK /\ worker \in [Workers -> WorkerRecord]
  BY DEF TypeOK
<1>2. UNCHANGED << queue, handler, phase >>
  BY DEF WorkerStep, MarkRunning, ProfileFails, ProfileAndSave, Finish, WorkerExit
<1>3. NoJob \notin Jobs
  BY DEF NoJob, Jobs
<1>4. CASE MarkRunning(w)
  <2>1. PICK o \in Outcomes(Host[w]) :
          /\ Write(Host[w], o, worker[w].job, "running", "none")
          /\ worker' = IF o = "ok" THEN [worker EXCEPT ![w].step = "running"]
                       ELSE [worker EXCEPT ![w] = Waiting]
    BY <1>4 DEF MarkRunning, ProceedAfter, Proceed, AfterError
  <2>2. worker[w].job \in Jobs
    BY <1>4, JobsInHand DEF MarkRunning
  <2>3. /\ \A i \in Jobs \ {worker[w].job} : jobs'[i] = jobs[i]
        /\ o = "ok" => jobs'[worker[w].job].status = "running"
    BY <1>1, <2>1, <2>2, WriteRow
  <2>4. CASE o = "ok"
    BY <1>1, <1>2, <2>1, <2>3, <2>4 DEF WorkerRecord
  <2>5. CASE o # "ok"
    BY <1>1, <1>2, <2>1, <2>3, <2>5 DEF Waiting
  <2>6. QED BY <2>4, <2>5
<1>5. CASE ProfileFails(w) \/ ProfileAndSave(w)
  <2>1. jobs' = jobs
    BY <1>5 DEF ProfileFails, ProfileAndSave, SaveProfile, storeVars
  <2>2. worker[w].step = "running" /\ worker[w].job \in Jobs
    BY <1>5, JobsInHand DEF ProfileFails, ProfileAndSave
  <2>3. jobs[worker[w].job].status = "running"
    BY <1>3, <2>2 DEF StatusInHand
  <2>4. worker'[w].job = worker[w].job /\ worker'[w].step \in {"completing", "failing"}
    BY <1>1, <1>5 DEF ProfileFails, ProfileAndSave, WorkerRecord, ProceedAfter, Proceed, AfterError
  <2>5. QED BY <1>2, <2>1, <2>3, <2>4
<1>6. CASE Finish(w)
  <2>1. worker[w].job \in Jobs
    BY <1>6, JobsInHand DEF Finish
  <2>2. \A i \in Jobs \ {worker[w].job} : jobs'[i] = jobs[i]
    <3>1. CASE worker[w].step = "completing"
      BY <1>1, <1>6, <2>1, <3>1, WriteRow DEF Finish
    <3>2. CASE worker[w].step # "completing"
      BY <1>1, <1>6, <2>1, <3>2, WriteRow DEF Finish
    <3>3. QED BY <3>1, <3>2
  <2>3. worker' = [worker EXCEPT ![w] = Waiting] /\ UNCHANGED << queue, handler, phase >>
    BY <1>6 DEF Finish, ProceedAfter, Proceed, AfterError
  <2>4. QED BY <1>1, <1>2, <2>2, <2>3 DEF Waiting
<1>7. CASE WorkerExit(w)
  BY <1>1, <1>2, <1>7 DEF WorkerExit, Off, storeVars
<1>8. QED BY <1>4, <1>5, <1>6, <1>7 DEF WorkerStep

LEMMA TakeHolds ==
  ASSUME TypeOK, RowInv, SingleInstance, StatusInHand, OneHolder,
         NEW w \in Workers, Take(w)
  PROVE  StatusInHand'
<1> DEFINE p == Host[w]
           j == Head(queue[p])
<1>1. /\ p \in Procs /\ queue[p] \in Seq(Jobs) /\ queue[p] # << >>
      /\ worker \in [Workers -> WorkerRecord] /\ queue \in [Procs -> Seq(Jobs)]
      /\ worker[w].step = "idle"
  BY DEF TypeOK, Take
<1>2. /\ UNCHANGED << jobs, handler, phase >>
      /\ queue' = [queue EXCEPT ![p] = Tail(queue[p])]
      /\ worker' = [worker EXCEPT ![w] = [step |-> "taken", job |-> j]]
  BY DEF Take, storeVars
<1>3. /\ j \in Jobs /\ j = queue[p][1] /\ 1 \in DOMAIN queue[p]
      /\ DOMAIN queue'[p] = 1 .. Len(queue[p]) - 1 /\ DOMAIN queue[p] = 1 .. Len(queue[p])
      /\ Len(queue[p]) \in Nat
      /\ \A a \in DOMAIN queue'[p] : a + 1 \in DOMAIN queue[p] /\ queue'[p][a] = queue[p][a + 1]
  BY <1>1, <1>2, ChannelSteps
<1>4. \A q \in Procs : q = p
  BY <1>1 DEF SingleInstance
<1>6. InChannel(j)
  BY <1>1, <1>3 DEF InChannel
<1>7. \A v \in Workers : worker[v].job # j
  BY <1>6 DEF OneHolder
<1>8. \A v \in Workers \ {w} : worker'[v] = worker[v] /\ worker[v].job # j
  BY <1>1, <1>2, <1>7
<1>9. worker'[w].job = j /\ worker'[w].step = "taken"
  BY <1>1, <1>2
<1>11. \A q \in Procs : \A a \in DOMAIN queue'[q] : jobs[queue'[q][a]].status = "queued"
  BY <1>3, <1>4 DEF StatusInHand
<1>12. jobs[j].status = "queued"
  BY <1>1, <1>3 DEF StatusInHand
<1>13. QED BY <1>2, <1>8, <1>9, <1>11, <1>12 DEF StatusInHand, Inserted

LEMMA WorkerHolds ==
  ASSUME TypeOK, RowInv, SingleInstance, StatusInHand, OneHolder,
         NEW w \in Workers, WorkerStep(w)
  PROVE  StatusInHand'
<1>1. CASE Take(w)
  BY <1>1, TakeHolds
<1>2. CASE ~Take(w)
  <2> DEFINE j == worker[w].job
  <2>1. /\ UNCHANGED << queue, handler, phase >>
        /\ \A i \in Jobs \ {j} : jobs'[i] = jobs[i]
        /\ worker'[w].job \in {j, NoJob}
        /\ worker'[w].job # NoJob =>
             worker'[w].step # "taken" /\ jobs'[worker'[w].job].status = "running"
    BY <1>2, WorkerEffect DEF RowInv
  <2>2. \A v \in Workers \ {w} : worker'[v] = worker[v]
    BY WorkerProgress
  <2>3. \A v \in Workers : worker[v].job \in Jobs \cup {NoJob}
    BY DEF TypeOK, WorkerRecord
  <2>4. \A q \in Procs : \A a \in DOMAIN queue[q] : queue[q][a] \in Jobs /\ queue[q][a] # j
    <3>1. \A q \in Procs : \A a \in DOMAIN queue[q] : queue[q][a] \in Jobs
      BY DEF TypeOK
    <3>2. \A q \in Procs : \A a \in DOMAIN queue[q] : queue[q][a] # j
      BY DEF OneHolder, InChannel
    <3>3. QED BY <3>1, <3>2
  <2>5. \A h \in Handlers : Inserted(h) => handler[h].job \in Jobs /\ handler[h].job # j
    BY JobsInHand DEF RowInv, OneHolder, AtWorker, Inserted
  <2>6. \A q \in Procs : \A a \in DOMAIN queue'[q] : jobs'[queue'[q][a]].status = "queued"
    BY <2>1, <2>4 DEF StatusInHand
  <2>7. \A v \in Workers : worker'[v].job # NoJob =>
          jobs'[worker'[v].job].status = IF worker'[v].step = "taken" THEN "queued" ELSE "running"
    <3>1. SUFFICES ASSUME NEW v \in Workers, worker'[v].job # NoJob
                   PROVE  jobs'[worker'[v].job].status
                            = IF worker'[v].step = "taken" THEN "queued" ELSE "running"
      OBVIOUS
    <3>2. CASE v = w
      BY <2>1, <3>1, <3>2
    <3>3. CASE v # w
      <4>1. worker'[v] = worker[v] /\ worker[v].job \in Jobs /\ worker[v].job # j
        BY <2>2, <2>3, <3>1, <3>3 DEF OneHolder
      <4>2. QED BY <2>1, <3>1, <4>1 DEF StatusInHand
    <3>4. QED BY <3>2, <3>3
  <2>8. \A h \in Handlers : Inserted(h)' => jobs'[handler'[h].job].status = "queued"
    BY <2>1, <2>5 DEF StatusInHand, Inserted
  <2>9. QED BY <2>6, <2>7, <2>8 DEF StatusInHand
<1>3. QED BY <1>1, <1>2

\* The step of a handler changes the row of its own job only.  That job is in
\* nobody else's hands, and the handler that goes on with it has it queued.
LEMMA HandlerEffect ==
  ASSUME TypeOK, RowInv, StatusInHand, OneHolder, NEW h \in Handlers, HandlerStep(h)
  PROVE  /\ UNCHANGED << worker, phase >>
         /\ handler[h].job \in Jobs
         /\ \A i \in Jobs \ {handler[h].job} : jobs'[i] = jobs[i]
         /\ \/ handler[h].step = "send"
            \/ queue' = queue
         /\ Inserted(h)' => /\ handler'[h].job = handler[h].job
                            /\ queue' = queue
                            /\ jobs'[handler[h].job].status = "queued"
         /\ (\/ InChannel(handler[h].job)
             \/ AtWorker(handler[h].job)) => jobs'[handler[h].job] = jobs[handler[h].job]
         /\ handler[h].step = "send" => jobs' = jobs
<1>1. StoreTypeOK /\ handler \in [Handlers -> HandlerRecord]
  BY DEF TypeOK
<1>2. handler[h].job \in Jobs
  <2>1. handler[h].step # "idle"
    BY DEF HandlerStep, Lookup, CheckStopped, Insert, Relookup, EnqueueCheck, Send, Refuse
  <2>2. QED BY <2>1, JobsInHand DEF RowInv
<1>3. UNCHANGED << worker, phase >>
  BY DEF HandlerStep, Lookup, CheckStopped, Insert, Relookup, EnqueueCheck, Send, Refuse
<1>4. handler[h].step = "send" \/ queue' = queue
  BY DEF HandlerStep, Lookup, CheckStopped, Insert, Relookup, EnqueueCheck, Send, Refuse
<1>5. CASE Lookup(h) \/ CheckStopped(h) \/ Relookup(h)
  <2>1. jobs' = jobs /\ handler[h].step \in {"lookup", "check", "relookup"}
    BY <1>5 DEF Lookup, CheckStopped, Relookup, storeVars
  <2>2. ~Inserted(h)'
    BY <1>5, <2>1, HandlerProgress DEF Inserted, NoRequest, Insert
  <2>3. QED BY <1>2, <1>3, <1>4, <2>1, <2>2
<1>6. CASE Insert(h)
  <2>1. ~Present(handler[h].job)
    BY <1>6 DEF RowInv, RowsInHand, Insert
  <2>2. ~InChannel(handler[h].job) /\ ~AtWorker(handler[h].job)
    BY <1>2, <2>1 DEF RowInv, RowsInHand, InChannel, AtWorker, NoJob, Jobs
  <2>3. /\ handler[h].step = "insert" /\ queue' = queue
    BY <1>6 DEF Insert
  <2>4. CASE UNCHANGED storeVars /\ handler'[h].step \in {"idle", "relookup"}
    BY <1>2, <1>3, <2>2, <2>3, <2>4 DEF storeVars, Inserted
  <2>5. CASE CreateJob(handler[h].job, handler[h].key)
    <3>1. /\ jobs'[handler[h].job].status = "queued"
          /\ \A i \in Jobs \ {handler[h].job} : jobs'[i] = jobs[i]
      BY <1>1, <1>2, <2>5, CreateJobRow
    <3>2. Inserted(h)' => handler'[h].job = handler[h].job
      BY HandlerProgress DEF Inserted, NoRequest
    <3>3. QED BY <1>2, <1>3, <2>2, <2>3, <3>1, <3>2
  <2>6. QED BY <1>6, <2>4, <2>5, InsertRow DEF RowInv
<1>7. CASE EnqueueCheck(h) \/ Send(h)
  <2>1. jobs' = jobs /\ Inserted(h)
    BY <1>7 DEF EnqueueCheck, Send, storeVars, Inserted
  <2>2. Inserted(h)' => handler'[h].job = handler[h].job
    BY HandlerProgress DEF Inserted, NoRequest
  <2>3. Inserted(h)' => queue' = queue
    <3>1. CASE Send(h)
      <4>1. CASE Len(queue[Host[h]]) < Cap
        <5>1. handler'[h] = NoRequest
          BY <1>1, <3>1, <4>1 DEF Send, Accept, Reply, Full
        <5>2. QED BY <5>1 DEF Inserted, NoRequest
      <4>2. CASE ~(Len(queue[Host[h]]) < Cap)
        BY <3>1, <4>2 DEF Send, Full
      <4>3. QED BY <4>1, <4>2
    <3>2. CASE EnqueueCheck(h)
      BY <3>2 DEF EnqueueCheck
    <3>3. QED BY <1>7, <3>1, <3>2
  <2>4. jobs[handler[h].job].status = "queued"
    BY <2>1 DEF StatusInHand
  <2>5. QED BY <1>2, <1>3, <1>4, <2>1, <2>2, <2>3, <2>4
<1>8. CASE Refuse(h)
  <2>1. handler'[h] = NoRequest /\ handler[h].step = "refuse" /\ queue' = queue
    BY <1>1, <1>8 DEF Refuse, Reply
  <2>2. \A i \in Jobs \ {handler[h].job} : jobs'[i] = jobs[i]
    <3>1. PICK o \in Outcomes(Host[h]) : Write(Host[h], o, handler[h].job, "failed", "queue full")
      BY <1>8 DEF Refuse
    <3>2. QED BY <1>1, <3>1 DEF Write, UpdateJob, StoreTypeOK, storeVars
  <2>3. ~InChannel(handler[h].job) /\ ~AtWorker(handler[h].job)
    BY <2>1 DEF OneHolder, Inserted
  <2>4. ~Inserted(h)'
    BY <2>1 DEF Inserted, NoRequest
  <2>5. QED BY <1>2, <1>3, <2>1, <2>2, <2>3, <2>4
<1>9. QED BY <1>5, <1>6, <1>7, <1>8 DEF HandlerStep

LEMMA HandlerHolds ==
  ASSUME TypeOK, RowInv, SingleInstance, StatusInHand, OneHolder,
         NEW h \in Handlers, HandlerStep(h)
  PROVE  StatusInHand'
<1> DEFINE j == handler[h].job
           p == Host[h]
<1>1. /\ UNCHANGED << worker, phase >>
      /\ j \in Jobs
      /\ \A i \in Jobs \ {j} : jobs'[i] = jobs[i]
      /\ \/ handler[h].step = "send"
         \/ queue' = queue
      /\ Inserted(h)' => /\ handler'[h].job = j
                         /\ queue' = queue
                         /\ jobs'[j].status = "queued"
      /\ InChannel(j) \/ AtWorker(j) => jobs'[j] = jobs[j]
      /\ handler[h].step = "send" => jobs' = jobs
  BY HandlerEffect
<1>2. /\ p \in Procs /\ queue \in [Procs -> Seq(Jobs)]
      /\ \A w \in Workers : worker[w].job \in Jobs \cup {NoJob}
  BY DEF TypeOK, WorkerRecord
<1>3. \A g \in Handlers \ {h} : handler'[g] = handler[g]
  BY HandlerProgress
<1>4. handler[h].step # "idle"
  BY DEF HandlerStep, Lookup, CheckStopped, Insert, Relookup, EnqueueCheck, Send, Refuse
<1>5. \A g \in Handlers \ {h} : Inserted(g) => handler[g].job \in Jobs /\ handler[g].job # j
  BY <1>4, JobsInHand DEF RowInv, NamedJobs, Inserted
<1>6. \A g \in Handlers \ {h} : Inserted(g)' <=> Inserted(g)
  BY <1>3 DEF Inserted
\* The channel is the same, or has the job of h last.
<1>7. \A q \in Procs : \A a \in DOMAIN queue'[q] :
        \/ a \in DOMAIN queue[q] /\ queue'[q][a] = queue[q][a] /\ queue'[q][a] \in Jobs
        \/ Send(h) /\ queue'[q][a] = j
  <2>1. SUFFICES ASSUME NEW q \in Procs, NEW a \in DOMAIN queue'[q], queue'[q] # queue[q]
                 PROVE  \/ a \in DOMAIN queue[q] /\ queue'[q][a] = queue[q][a]
                           /\ queue'[q][a] \in Jobs
                        \/ Send(h) /\ queue'[q][a] = j
    BY <1>2
  <2>2. Send(h) /\ ~Full(q) /\ q = p
    BY <2>1, HandlerLeaves
  <2>3. queue'[q] = Append(queue[q], j) /\ queue[q] \in Seq(Jobs)
    BY <1>2, <2>2 DEF Send
  <2>4. DOMAIN queue'[q] = 1 .. Len(queue[q]) + 1 /\ Len(queue[q]) \in Nat
    BY <1>1, <2>3, ChannelSteps
  <2>5. CASE a = Len(queue[q]) + 1
    BY <1>1, <2>2, <2>3, <2>5, ChannelSteps
  <2>6. CASE a \in 1 .. Len(queue[q])
    BY <1>1, <2>3, <2>6, ChannelSteps
  <2>7. QED BY <2>4, <2>5, <2>6
<1>8. \A q \in Procs : \A a \in DOMAIN queue'[q] : jobs'[queue'[q][a]].status = "queued"
  <2>1. SUFFICES ASSUME NEW q \in Procs, NEW a \in DOMAIN queue'[q]
                 PROVE  jobs'[queue'[q][a]].status = "queued"
    OBVIOUS
  <2>2. CASE a \in DOMAIN queue[q] /\ queue'[q][a] = queue[q][a] /\ queue'[q][a] \in Jobs
    <3>1. jobs[queue[q][a]].status = "queued" /\ InChannel(queue[q][a])
      BY <2>2 DEF StatusInHand, InChannel
    <3>2. QED BY <1>1, <2>2, <3>1
  <2>3. CASE Send(h) /\ queue'[q][a] = j
    BY <1>1, <2>3 DEF StatusInHand, Inserted, Send
  <2>4. QED BY <1>7, <2>2, <2>3
<1>9. \A w \in Workers : worker'[w].job # NoJob =>
        jobs'[worker'[w].job].status = IF worker'[w].step = "taken" THEN "queued" ELSE "running"
  <2>1. SUFFICES ASSUME NEW w \in Workers, worker[w].job # NoJob
                 PROVE  jobs'[worker[w].job] = jobs[worker[w].job]
    BY <1>1 DEF StatusInHand
  <2>2. worker[w].job \in Jobs /\ AtWorker(worker[w].job)
    BY <1>2, <2>1 DEF AtWorker
  <2>3. QED BY <1>1, <2>2
<1>10. \A g \in Handlers : Inserted(g)' => jobs'[handler'[g].job].status = "queued"
  BY <1>1, <1>3, <1>5, <1>6 DEF StatusInHand
<1>11. QED BY <1>8, <1>9, <1>10 DEF StatusInHand

\* main, Start and Stop: a process fills its channel from the queued rows when it
\* holds nothing yet, and empties it after the pool is closed, so no row changes.
LEMMA ServerHolds ==
  ASSUME TypeOK, RowInv, SingleInstance, StatusInHand, QuietStart,
         NEW p \in Procs, ServerStep(p) \/ Signal(p) \/ Crash(p)
  PROVE  StatusInHand'
<1>1. /\ \A q \in Procs : q = p
      /\ \A w \in Workers : Host[w] = p
      /\ \A h \in Handlers : Host[h] = p
      /\ queue \in [Procs -> Seq(Jobs)] /\ phase \in [Procs -> Phases]
  BY DEF SingleInstance, TypeOK
<1>2. CASE Boot(p) \/ CloseStore(p) \/ Stop(p) \/ Signal(p)
  BY <1>2 DEF Boot, CloseStore, Stop, Signal, storeVars, StatusInHand, Inserted
<1>3. CASE StartRecover(p)
  <2>1. UNCHANGED << queue, worker, handler >> /\ phase[p] = "starting"
    BY <1>3 DEF StartRecover, Enter
  <2>2. /\ queue[p] = << >>
        /\ \A w \in Workers : worker[w] = Off
        /\ \A h \in Handlers : handler[h] = NoRequest
    BY <1>1, <2>1 DEF QuietStart, WorkersOf, HandlersOf
  <2>3. QED BY <1>1, <2>1, <2>2 DEF StatusInHand, Inserted, Off, NoRequest
<1>4. CASE StartRequeue(p)
  <2>1. /\ \A h \in Handlers : handler'[h] = NoRequest
        /\ \A w \in Workers : worker'[w] = Waiting
        /\ jobs' = jobs
    BY <1>1, <1>4 DEF StartRequeue, Enter, QuietStart, HandlersOf, storeVars
  <2>2. PICK s \in ListQueuedJobs(Cap) \cup {<< >>} : queue' = [queue EXCEPT ![p] = s]
    BY <1>4 DEF StartRequeue
  <2>3. \A a \in DOMAIN s : s[a] \in Queued
    <3>1. CASE s = << >>
      BY <3>1
    <3>2. CASE s \in ListQueuedJobs(Cap)
      <4>1. s \in Seq(Queued)
        BY <3>2, OldestSeq DEF ListQueuedJobs, Queued
      <4>2. QED BY <4>1
    <3>3. QED BY <3>1, <3>2
  <2>4. \A q \in Procs : queue'[q] = s
    BY <1>1, <2>2
  <2>5. QED BY <2>1, <2>3, <2>4 DEF StatusInHand, Queued, Inserted, Waiting, NoRequest
<1>5. CASE FailQueuedJob(p)
  <2>1. UNCHANGED << jobs, worker, handler >>
    BY <1>5 DEF FailQueuedJob, Stopped, Outcomes, StoreOpen, Write, storeVars
  <2>2. queue[p] \in Seq(Jobs) /\ queue[p] # << >> /\ queue'[p] = Tail(queue[p])
    BY <1>1, <1>5 DEF FailQueuedJob
  <2>3. \A a \in DOMAIN queue'[p] : a + 1 \in DOMAIN queue[p] /\ queue'[p][a] = queue[p][a + 1]
    BY <2>2, ChannelSteps
  <2>4. QED BY <1>1, <2>1, <2>3 DEF StatusInHand, Inserted
<1>6. CASE Exit(p) \/ Crash(p)
  <2>1. /\ \A q \in Procs : queue'[q] = << >>
        /\ \A w \in Workers : worker'[w] = Off
        /\ \A h \in Handlers : handler'[h] = NoRequest
    BY <1>1, <1>6 DEF Exit, Crash, Vanish
  <2>2. QED BY <2>1 DEF StatusInHand, Inserted, Off, NoRequest
<1>7. QED BY <1>2, <1>3, <1>4, <1>5, <1>6 DEF ServerStep

LEMMA EnvironmentHolds ==
  ASSUME TypeOK, StatusInHand,
         \/ \E h \in Handlers : \E k \in Keys \cup {NoKey} : Arrive(h, k)
         \/ TimePasses
         \/ UNCHANGED vars
  PROVE  StatusInHand'
<1>1. UNCHANGED << jobs, queue, worker >>
  BY DEF Arrive, TimePasses, procVars, Age, storeVars, vars
<1>2. \A h \in Handlers : Inserted(h)' => Inserted(h) /\ handler'[h] = handler[h]
  BY DEF Arrive, TimePasses, procVars, vars, TypeOK, Inserted
<1>3. QED BY <1>1, <1>2 DEF StatusInHand

\* In one instance every job is in one place at most, and whoever has it may
\* rely on the status of its row.
THEOREM HandInvariant == Spec => [](TypeOK /\ RowInv /\ HandInv)
<1> DEFINE Local == TypeOK /\ RowInv /\ QuietStart /\ ExclusiveHandling
           Status == SingleInstance => StatusInHand
<1>1. Init => Status
  BY DEF Init, StatusInHand, Inserted, Off, NoRequest
<1>2. Local /\ Status /\ [Next]_vars => Status'
  <2>1. SUFFICES ASSUME Local, SingleInstance, StatusInHand, [Next]_vars
                 PROVE  StatusInHand'
    BY DEF SingleInstance
  <2>2. OneHolder
    BY <2>1, OneInstance
  <2>3. \/ \E h \in Handlers : HandlerStep(h)
        \/ \E w \in Workers : WorkerStep(w)
        \/ \E p \in Procs : ServerStep(p) \/ Signal(p) \/ Crash(p)
        \/ \/ \E h \in Handlers : \E k \in Keys \cup {NoKey} : Arrive(h, k)
           \/ TimePasses
           \/ UNCHANGED vars
    BY <2>1 DEF Next
  <2>4. QED BY <2>1, <2>2, <2>3, HandlerHolds, WorkerHolds, ServerHolds, EnvironmentHolds
<1>3. Local /\ Status => TypeOK /\ RowInv /\ HandInv
  BY OneInstance DEF HandInv
<1>4. Spec => []Local
  BY LocalInvariant
<1> HIDE DEF Local, Status
<1>5. QED BY <1>1, <1>2, <1>3, <1>4, PTL DEF Spec

=============================================================================
