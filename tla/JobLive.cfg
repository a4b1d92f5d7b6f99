\* One instance with room for every job: a crash, a graceful stop and a store
\* failure, restarts, and the fairness of the goroutines.
SPECIFICATION FairSpec
CONSTANTS
  p1 = p1  p2 = p2  w1 = w1  w2 = w2  h1 = h1  h2 = h2  k1 = k1
  NoKey = NoKey
  Keys = {}
  Procs = {p1}
  Workers = {w1}
  Handlers = {h1, h2}
  Host <- OneHost
  MaxJobs = 3
  Cap = 3
  MaxCrashes = 1
  MaxSignals = 1
  MaxFaults = 1
INVARIANT
  NoStrandedJob
PROPERTIES
  QueuedJobsSettle
  ShutdownCompletes
\* An idle server with no request left to come has nothing to do.
CHECK_DEADLOCK FALSE
