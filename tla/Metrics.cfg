\* Two writes during the run, a failing query, a type of every dialect and one
\* without, and samples of one or two of at most three rows.
SPECIFICATION Spec
CONSTANTS
  r1 = r1  r2 = r2  r3 = r3
  Null = Null
  RowIds = {r1, r2, r3}
  Numbers <- SomeNumbers
  Types = {"postgresql", "mysql", "sqlserver", "snowflake"}
  SampleSizes = {0, 1, 2}
  TopLimit = 2
  MaxWrites = 2
  MaxErrors = 1
SYMMETRY Interchangeable
INVARIANTS
  
  BinsHoldTheirValues
\* The run is over.
CHECK_DEADLOCK FALSE
