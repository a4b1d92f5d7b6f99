\* Two workers and three runs while the table changes in two sources.
SPECIFICATION Spec
CONSTANTS
  w1 = w1  w2 = w2  s1 = s1  s2 = s2
  KeyNames = {}
  Workers = {w1, w2}
  Sources = {s1, s2}
  Tables <- ChangingTables
  RuleSets <- OneRuleSet
  MaxRuns = 3
SYMMETRY Interchangeable
INVARIANTS
  FreshBaseline
  DriftSincePrevious
  QuietHistoryAgrees
  CreepIsBounded
\* Every run is over.
CHECK_DEADLOCK FALSE
