\* One graceful stop, no crash and no store failure.
SPECIFICATION Spec
CONSTANTS
  p1 = p1  p2 = p2  w1 = w1  w2 = w2  h1 = h1  h2 = h2  k1 = k1
  NoKey = NoKey
  Keys = {}
  Procs = {p1}
  Workers = {w1}
  Handlers = {h1}
  Host <- OneHost
  MaxJobs = 2
  Cap = 2
  MaxCrashes = 0
  MaxSignals = 1
  MaxFaults = 0
PROPERTY
  ShutdownSettlesJobs
\* An idle server with no request left to come has nothing to do.
CHECK_DEADLOCK FALSE
