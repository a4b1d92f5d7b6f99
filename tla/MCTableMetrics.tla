--------------------------- MODULE MCTableMetrics ---------------------------
(* A table of three rows, for TLC.                                         *)
EXTENDS TableMetrics, TLC

CONSTANTS r1, r2, r3

\* Zero, values of either sign, and ranges that ten divides and does not.
SomeNumbers == {-1, 0, 3, 9}

Interchangeable == Permutations(RowIds)

=============================================================================
