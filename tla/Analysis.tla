------------------------------ MODULE Analysis ------------------------------
(***************************************************************************)
(* What run makes of a measured table before it is stored: the detection   *)
(* of each column, the score under the rules of the request, and the       *)
(* difference from the snapshot it is compared with                        *)
(* (internal/worker/manager.go, with the packages pii, quality and drift). *)
(*                                                                         *)
(* A table is what the source holds: its measured counts (TableMetrics     *)
(* says how they come to be) and, for each column, the evidence: the       *)
(* labels its name matches, and its top values.                            *)
(***************************************************************************)
EXTENDS Quality, Drift, ValueEvidence

\* The detections of the columns of t.
Detections(t) ==
  LET names == DOMAIN t.columns
      Of(n) == DetectProfile(Evidence(t.evidence[n]))
  IN  {d \in [names -> UNION {Of(n) : n \in names}] : \A n \in names : d[n] \in Of(n)}

\* Column c with its detection d.
Labelled(c, d) ==
  [field \in DOMAIN c \cup {"pii", "confidence"} |->
     CASE field = "pii" -> d.label [] field = "confidence" -> d.confidence [] OTHER -> c[field]]

\* The profile of t with detections d, of a request with rules r.
Profile(t, r, d) ==
  [rows |-> t.rows, dups |-> t.dups,
   columns |-> [n \in DOMAIN t.columns |-> Labelled(t.columns[n], d[n])],
   score |-> Score(t, r)]

Profiles(t, r) == {Profile(t, r, d) : d \in Detections(t)}

=============================================================================
