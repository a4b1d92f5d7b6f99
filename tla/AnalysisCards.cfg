\* The column of a test: a card number under a name that says nothing.
SPECIFICATION Spec
CONSTANTS
  KeyNames = {"id"}
  Subjects <- UnnamedCard
  MaxRounds = 2
INVARIANT
  CardsAreRecognised
\* The second profile is the last.
CHECK_DEADLOCK FALSE
