\* Four columns of different types, three at a time over two connections, and a
\* failing query; the context may end at any step.
SPECIFICATION Spec
CONSTANTS
  c1 = c1  c2 = c2  c3 = c3  c4 = c4
  Main = Main
  Cols = {c1, c2, c3, c4}
  Kinds <- FourKinds
  MaxActive = 3
  MaxConns <- Conns
  MaxErrors = 1
INVARIANTS
  TypeOK
  SavedIsWhole
  CancelLosesNothing
  NoLateGoroutine
PROPERTY
  RunEnds
\* A run ends.
CHECK_DEADLOCK FALSE
