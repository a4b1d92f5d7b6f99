\* A table that nobody writes to, and no failing query.
SPECIFICATION Spec
CONSTANTS
  r1 = r1  r2 = r2  r3 = r3
  Null = Null
  RowIds = {r1, r2, r3}
  Numbers <- SomeNumbers
  Types = {"postgres"}
  SampleSizes = {0}
  TopLimit = 2
  MaxWrites = 0
  MaxErrors = 0
SYMMETRY Interchangeable
INVARIANT
  HistogramIsThere
\* The run is over.
CHECK_DEADLOCK FALSE
