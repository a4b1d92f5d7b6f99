\* Two instances with one worker and one request each on the same database; a
\* crash, a graceful stop and a store failure of either.
SPECIFICATION Spec
CONSTANTS
  p1 = p1  p2 = p2  w1 = w1  w2 = w2  h1 = h1  h2 = h2  k1 = k1
  NoKey = NoKey
  Keys = {k1}
  Procs = {p1, p2}
  Workers = {w1, w2}
  Handlers = {h1, h2}
  Host <- TwoHosts
  MaxJobs = 2
  Cap = 1
  MaxCrashes = 1
  MaxSignals = 1
  MaxFaults = 1
INVARIANTS
  ExclusiveHandling
  SnapshotsBounded
  IdempotentAnswers
  CompletedHasSnapshot
\* An idle server with no request left to come has nothing to do.
CHECK_DEADLOCK FALSE
