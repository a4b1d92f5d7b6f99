---------------------------- MODULE PIIDetection ----------------------------
(***************************************************************************)
(* internal/pii/detect.go: the class of personal data a column is labelled *)
(* with.  What the strings decide is the evidence of a column:             *)
(*   headers  the labels one of whose rules occurs in its name ("email_    *)
(*            address" has two, email and address)                         *)
(*   ratio    the percentage of its top values that match each label       *)
(***************************************************************************)
EXTENDS Integers, Sequences

Labels == {"email", "phone", "person_name", "date_of_birth", "address",
           "government_id", "credit_card", "ip_address", "uuid"}

\* The labels with a pattern for values, in the order the patterns are tried.
ValueLabels == << "email", "phone", "credit_card", "government_id", "uuid", "ip_address" >>

NoDetection == [label |-> "none", confidence |-> 0]

\* mutant: the weaker evidence is tested first
HeaderConfidence_HalfFirst(label, bare, ratio) ==
  IF ratio >= 50 THEN 85
  ELSE IF ratio >= 80 THEN 95
  ELSE IF label = "person_name" /\ bare THEN 65
  ELSE 75

\* How sure a label is that the header names: bare says the column is "name".
HeaderConfidence(label, bare, ratio) ==
  IF ratio >= 80 THEN 95
  ELSE IF ratio >= 50 THEN 85
  ELSE IF label = "person_name" /\ bare THEN 65
  ELSE 75

\* The first label half of the values match.
ValueMatches(ratio) ==
  {i \in DOMAIN ValueLabels :
     /\ ratio[ValueLabels[i]] >= 50
     /\ \A k \in 1 .. i - 1 : ratio[ValueLabels[k]] < 50}

ByValue(ratio) ==
  {[label |-> ValueLabels[i],
    confidence |-> IF ratio[ValueLabels[i]] >= 80 THEN 90 ELSE 80] :
     i \in ValueMatches(ratio)}

\* What DetectProfile can return: the labels the header names come first, and
\* headerRules is a map, so that any of them may be the first.
DetectProfile(e) ==
  IF e.headers # {}
    THEN {[label |-> l, confidence |-> HeaderConfidence(l, e.bare, e.ratio[l])] : l \in e.headers}
  ELSE IF ByValue(e.ratio) # {} THEN ByValue(e.ratio)
  ELSE {NoDetection}

=============================================================================
