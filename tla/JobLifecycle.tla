---------------------------- MODULE JobLifecycle ----------------------------
(***************************************************************************)
(* What one profiler instance promises about a profiling job, without      *)
(* processes, goroutines, channels or failures: the job lifecycle that     *)
(* internal/worker/manager.go and internal/store/store.go implement.  A    *)
(* job is submitted under a key no other job has, runs, leaves snapshots   *)
(* only while it runs, and ends completed, with a snapshot, or failed; it  *)
(* may be put back from running to queued, but once ended it stays as it   *)
(* is.                                                                     *)
(***************************************************************************)
EXTENDS Integers

CONSTANTS Jobs, Keys, NoKey

VARIABLES
  status,    \* of each job
  key,       \* the idempotency key of each job
  snapshots  \* how many profiles of the job are stored

vars == << status, key, snapshots >>

Init ==
  /\ status = [j \in Jobs |-> "absent"]
  /\ key = [j \in Jobs |-> NoKey]
  /\ snapshots = [j \in Jobs |-> 0]

Submit(j, k) ==
  /\ status[j] = "absent"
  /\ \A i \in Jobs : status[i] # "absent" /\ key[i] = k => k = NoKey
  /\ status' = [status EXCEPT ![j] = "queued"]
  /\ key' = [key EXCEPT ![j] = k]
  /\ UNCHANGED snapshots

Begin(j) ==
  /\ status[j] = "queued"
  /\ status' = [status EXCEPT ![j] = "running"]
  /\ UNCHANGED << key, snapshots >>

Snapshot(j) ==
  /\ status[j] = "running"
  /\ snapshots' = [snapshots EXCEPT ![j] = @ + 1]
  /\ UNCHANGED << status, key >>

Complete(j) ==
  /\ status[j] = "running"
  /\ snapshots[j] > 0
  /\ status' = [status EXCEPT ![j] = "completed"]
  /\ UNCHANGED << key, snapshots >>

\* A queued job fails when it is refused.
Fail(j) ==
  /\ status[j] \in {"queued", "running"}
  /\ status' = [status EXCEPT ![j] = "failed"]
  /\ UNCHANGED << key, snapshots >>

\* All the jobs of S at once, as one UPDATE does.
Requeue(S) ==
  /\ \A j \in S : status[j] = "running"
  /\ status' = [j \in Jobs |-> IF j \in S THEN "queued" ELSE status[j]]
  /\ UNCHANGED << key, snapshots >>

Next ==
  \/ \E j \in Jobs :
       \/ \E k \in Keys \cup {NoKey} : Submit(j, k)
       \/ Begin(j)
       \/ Snapshot(j)
       \/ Complete(j)
       \/ Fail(j)
  \/ \E S \in SUBSET Jobs : Requeue(S)

Spec == Init /\ [][Next]_vars

=============================================================================
