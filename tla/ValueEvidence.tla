---------------------------- MODULE ValueEvidence ----------------------------
(***************************************************************************)
(* internal/pii/detect.go: what the top values of a column say about it.   *)
(*                                                                         *)
(* A value is what the patterns tell apart, after the blanks around it are *)
(* trimmed:                                                                *)
(*   shape   "blank", "email", "uuid", "pan" (a tax id, in either case),   *)
(*           "number" (a digit, then digits and the characters of a phone  *)
(*           number), "octets" (the same, four numbers joined by dots) or  *)
(*           "other"                                                       *)
(*   digits  its digits, in order                                          *)
(*   length  its characters, a leading plus left out                       *)
(*   octets  the four numbers                                              *)
(***************************************************************************)
EXTENDS PIIDetection, Functions

\* mutant: the digits of a doubled digit are not added up
LuhnDigit_NoCarry(n, alternate) == IF alternate THEN 2 * n ELSE n

LuhnDigit(n, alternate) ==
  IF ~alternate THEN n ELSE IF 2 * n > 9 THEN 2 * n - 9 ELSE 2 * n

\* Every second digit from the right, the last but one being the first of them.
Luhn(s) ==
  /\ Len(s) \in 13 .. 19
  /\ SumFunction([i \in DOMAIN s |-> LuhnDigit(s[i], (Len(s) - i) % 2 = 1)]) % 10 = 0

Phone(v) ==
  v.shape \in {"number", "octets"} /\ v.length \in 8 .. 21 /\ Len(v.digits) >= 10

MatchesLabel(label, v) ==
  \/ label = "email" /\ v.shape = "email"
  \/ label = "phone" /\ Phone(v)
  \/ label = "credit_card" /\ Luhn(v.digits)
  \/ label = "government_id" /\ (v.shape = "pan" \/ Len(v.digits) = 12)
  \/ label = "uuid" /\ v.shape = "uuid"
  \/ label = "ip_address" /\ v.shape = "octets" /\ \A i \in 1 .. 4 : v.octets[i] <= 255

\* How many rows hold one of the values of S.
RowsOf(S) == SumFunction([x \in S |-> x.count])

\* The percentage of the rows of top, a set of values with their counts, that
\* match; blank ones are not looked at.
ValueMatchRatio(label, top) ==
  LET checked == {x \in top : x.value.shape # "blank"}
  IN  IF RowsOf(checked) = 0 THEN 0
      ELSE (100 * RowsOf({x \in checked : MatchesLabel(label, x.value)})) \div RowsOf(checked)

\* What DetectProfile knows of a column: the labels its name matches, whether
\* it is "name", and the ratio of its top values for each label.
Evidence(e) ==
  [headers |-> e.headers, bare |-> e.bare,
   ratio |-> [l \in Labels |-> ValueMatchRatio(l, e.top)]]

=============================================================================
