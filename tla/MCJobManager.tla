---------------------------- MODULE MCJobManager ----------------------------
(* Instances of the job manager for TLC.                                   *)
EXTENDS JobProperties, TLC

CONSTANTS p1, p2, w1, w2, h1, h2, k1

\* Every worker and handler in one process.
OneHost == [a \in Workers \cup Handlers |-> p1]

\* One worker and one handler in each of two processes.
TwoHosts == [a \in Workers \cup Handlers |-> IF a \in {w1, h1} THEN p1 ELSE p2]

\* Goroutines of one process are interchangeable.
Goroutines == Permutations(Workers) \cup Permutations(Handlers)

=============================================================================
