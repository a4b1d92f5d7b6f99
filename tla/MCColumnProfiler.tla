-------------------------- MODULE MCColumnProfiler --------------------------
(* An instance of the column profiler for TLC.                             *)
EXTENDS ColumnProfiler, SourceAdapter

CONSTANTS c1, c2, c3, c4

\* A text, a date and two numeric columns, so that correlations are wanted.
FourKinds ==
  [c \in Cols |-> IF c = c1 THEN {"text"} ELSE IF c = c2 THEN {"date"} ELSE {"numeric"}]

\* PROFILE_SOURCE_MAX_OPEN_CONNS is set to 2, the other variable is not.
Conns == MaxOpenConns([open |-> 2, idle |-> 0])

=============================================================================
