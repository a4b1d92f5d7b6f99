\* Every pair of successive profiles of some tables of twenty rows, and of a
\* column of cards before and after a number is mistyped.
SPECIFICATION Spec
CONSTANTS
  KeyNames = {"id"}
  Subjects <- SomeSubjects
  MaxRounds = 2
INVARIANTS
  ScoreIsExplained
  LooserRulesScoreHigher
  DriftMirrors
  EvidenceAdds
  ConfidenceTellsTypos
\* The second profile is the last.
CHECK_DEADLOCK FALSE
