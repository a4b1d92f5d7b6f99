\* One worker, and a table that never changes.
SPECIFICATION Spec
CONSTANTS
  w1 = w1  w2 = w2  s1 = s1  s2 = s2
  KeyNames = {}
  Workers = {w1}
  Sources = {s1}
  Tables <- QuietTables
  RuleSets <- OneRuleSet
  MaxRuns = 2
INVARIANT
  NoChangeNoDrift
\* Every run is over.
CHECK_DEADLOCK FALSE
