------------------------- MODULE AnalysisProperties -------------------------
(***************************************************************************)
(* A table that is profiled again and again, each time with whatever it    *)
(* holds by then and the rules of that request, and what a reader of two   *)
(* successive profiles relies on.                                          *)
(***************************************************************************)
EXTENDS Analysis, FiniteSets

CONSTANTS
  Subjects,  \* tables over time: sets of pairs <<contents, rules>> to be profiled
  MaxRounds  \* bound: how often the table is profiled

\* What a table is made of: finitely many columns with counts, each with finitely
\* many top values, which were counted at least once.  For the properties, a value
\* also has the digits that were meant.
Counts == {"nulls", "distinct", "empty", "blank", "outliers", "future"}

Measured(t) ==
  /\ t.rows \in Nat /\ IsFiniteSet(DOMAIN t.columns)
  /\ \A n \in DOMAIN t.columns :
       LET c == t.columns[n]
           e == t.evidence[n]
       IN  /\ \A x \in Counts : x \in DOMAIN c /\ c[x] \in Nat
           /\ e.headers \subseteq Labels
           /\ IsFiniteSet(e.top)
           /\ \A v \in e.top :
                v.count \in Nat \ {0} /\ v.value.digits \in Seq(0 .. 9) /\ v.meant \in Seq(0 .. 9)

ASSUME SubjectsAssumption == \A s \in Subjects : \A o \in s : Measured(o[1])

VARIABLES
  subject, \* the table that is profiled
  before,  \* the observation before the last
  after,   \* the last one: its table, its rules, and its profile
  round    \* how often the table was profiled

vars == << subject, before, after, round >>

Observed(o) == {[table |-> o[1], rules |-> o[2], profile |-> p] : p \in Profiles(o[1], o[2])}

Init ==
  /\ subject \in Subjects
  /\ \E o \in subject : after \in Observed(o)
  /\ before = after
  /\ round = 1

\* The table is profiled once more.
Observe ==
  /\ round < MaxRounds
  /\ round' = round + 1
  /\ before' = after
  /\ \E o \in subject : after' \in Observed(o)
  /\ UNCHANGED subject

Next == Observe

Spec == Init /\ [][Next]_vars

-----------------------------------------------------------------------------
FailedChecks(o) == {c \in Checks(o.table, o.rules) : ~c.passed}

\* "Always inspect the individual checks to understand why the score changed":
\* two profiles with the same failed checks have the same score, under whatever
\* rules, although Evaluate decides checks and deductions separately.
ScoreIsExplained ==
  FailedChecks(before) = FailedChecks(after) => before.profile.score = after.profile.score

\* The rules of r allow whatever those of s allow.
Looser(r, s) ==
  /\ Threshold(r, "nulls") >= Threshold(s, "nulls")
  /\ s.empty => r.empty
  /\ s.blank => r.blank

\* Rules that tolerate more never lower the score of the same table.
LooserRulesScoreHigher ==
  before.table = after.table /\ Looser(after.rules, before.rules)
    => after.profile.score >= before.profile.score

\* Drift seen backwards is the same drift: what one comparison reports and the
\* other does not would hide a table that went back to what it was.
Mirror == [added |-> "removed", removed |-> "added"]

Mirrored(changes) ==
  {IF c.what \in DOMAIN Mirror THEN [c EXCEPT !.what = Mirror[c.what]] ELSE c : c \in changes}

DriftMirrors ==
  LET there == Compare(before.profile, after.profile)
      back  == Compare(after.profile, before.profile)
  IN  /\ back.changes = Mirrored(there.changes)
      /\ back.changed = there.changed
      /\ back.scoreDelta = -there.scoreDelta

\* More evidence for the label of a column never makes it less certain: neither
\* a matching header nor more matching values (DetectProfile grades the two on
\* separate scales).
Supports(e, f) ==
  /\ f.headers \subseteq e.headers /\ f.bare = e.bare
  /\ \A l \in Labels : ValueMatchRatio(l, e.top) >= ValueMatchRatio(l, f.top)

EvidenceAdds ==
  \A n \in DOMAIN before.table.columns \cap DOMAIN after.table.columns :
    LET old == before.profile.columns[n]
        new == after.profile.columns[n]
    IN  Supports(after.table.evidence[n], before.table.evidence[n]) /\ old.pii = new.pii
          => new.confidence >= old.confidence

\* The checksum of the standard: of every second digit, from the last but one, the
\* digits of its double are added up, of the others the digit itself.
CardNumber(s) ==
  LET DigitSum(n) == (n \div 10) + (n % 10)
  IN  /\ Len(s) \in 13 .. 19
      /\ SumFunction([i \in DOMAIN s |-> DigitSum((1 + ((Len(s) - i) % 2)) * s[i])]) % 10 = 0

\* One digit is another, or two neighbours have changed places; 0 and 9, which
\* the checksum cannot tell apart next to each other, are left out.
Typo(s, t) ==
  /\ DOMAIN t = DOMAIN s
  /\ \E i \in DOMAIN s :
       \/ t[i] # s[i] /\ \A k \in DOMAIN s \ {i} : t[k] = s[k]
       \/ /\ i + 1 \in DOMAIN s /\ s[i] # s[i + 1] /\ {s[i], s[i + 1]} # {0, 9}
          /\ t[i] = s[i + 1] /\ t[i + 1] = s[i]
          /\ \A k \in DOMAIN s \ {i, i + 1} : t[k] = s[k]

\* "Credit-card-like values can use Luhn validation": in a column named after
\* cards, whose values were meant to be card numbers, every value with a wrong
\* digit, or with two digits swapped, counts against the label, so that the
\* confidence says how many rows are right (luhn, valueMatchRatio, DetectProfile).
ConfidenceTellsTypos ==
  \A n \in DOMAIN after.table.columns :
    LET e     == after.table.evidence[n]
        right == RowsOf({x \in e.top : x.value.digits = x.meant})
        all   == RowsOf(e.top)
        Meant(x) == /\ x.value.shape # "blank" /\ CardNumber(x.meant)
                    /\ x.value.digits = x.meant \/ Typo(x.meant, x.value.digits)
    IN  e.headers = {"credit_card"} /\ e.top # {} /\ (\A x \in e.top : Meant(x)) =>
          after.profile.columns[n].confidence = IF 5 * right >= 4 * all THEN 95
                                                ELSE IF 2 * right >= all THEN 85 ELSE 75

-----------------------------------------------------------------------------
(* What the tests say and the code does not do                             *)

\* "expected credit_card": a column whose name says nothing and whose values are
\* card numbers, by the checksum of the standard, is labelled as one of card
\* numbers.  Phone numbers are tried first, and the digits of a card pass for one.
CardsAreRecognised ==
  \A n \in DOMAIN after.table.columns :
    LET e == after.table.evidence[n]
    IN  e.headers = {} /\ e.top # {} /\ (\A x \in e.top : CardNumber(x.value.digits))
          => after.profile.columns[n].pii = "credit_card"

=============================================================================
