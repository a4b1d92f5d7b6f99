-------------------------- MODULE MCProfileHistory --------------------------
(* A small table that changes, for TLC.                                    *)
EXTENDS ProfileHistory, TLC

CONSTANTS w1, w2, s1, s2

Text(nulls) ==
  [type |-> "text", nullable |-> TRUE, nulls |-> nulls, distinct |-> 1, top |-> 20 - nulls,
   empty |-> 0, blank |-> 0, outliers |-> 0, future |-> 0, zeros |-> 0]

\* A column named "email_address", which two header rules match.
TwoHeaders == [headers |-> {"email", "address"}, bare |-> FALSE, top |-> {}]

OneHeader == [TwoHeaders EXCEPT !.headers = {"email"}]

Table(names, nulls, evidence) ==
  [rows |-> 20, dups |-> IF nulls = 0 THEN 19 ELSE 18, columns |-> [n \in names |-> Text(nulls)],
   evidence |-> [n \in names |-> evidence]]

\* One more NULL, which is no drift, and another, which is one only to who missed
\* the step between; many more; and another column.
ChangingTables ==
  {Table({"email"}, n, OneHeader) : n \in {1, 2, 3, 8}} \cup {Table({"email", "e_mail"}, 1, OneHeader)}

\* The same data throughout.
QuietTables == {Table({"email_address"}, 0, TwoHeaders)}

Interchangeable == Permutations(Workers) \cup Permutations(Sources)

OneRuleSet == {DefaultRules}

=============================================================================
