\* One instance, two workers, two concurrent requests and a channel that fills
\* up; two crashes, a graceful stop and a store failure, in any order.
SPECIFICATION Spec
CONSTANTS
  p1 = p1  p2 = p2  w1 = w1  w2 = w2  h1 = h1  h2 = h2  k1 = k1
  NoKey = NoKey
  Keys = {k1}
  Procs = {p1}
  Workers = {w1, w2}
  Handlers = {h1, h2}
  Host <- OneHost
  MaxJobs = 2
  Cap = 1
  MaxCrashes = 2
  MaxSignals = 1
  MaxFaults = 1
SYMMETRY Goroutines
INVARIANTS
  TypeOK
  ExclusiveHandling
  NoOrphanedRun
  SnapshotsBounded
PROPERTIES
  EndedIsFinal
  RefinesLifecycle
\* An idle server with no request left to come has nothing to do.
CHECK_DEADLOCK FALSE
