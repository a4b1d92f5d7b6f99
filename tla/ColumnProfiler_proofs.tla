------------------------ MODULE ColumnProfiler_proofs ------------------------
(***************************************************************************)
(* Theorems about one profiling run, for any columns, any limits on the    *)
(* columns and connections in use, and any number of failing queries.      *)
(***************************************************************************)
EXTENDS ColumnProfiler, FiniteSetTheorems, SequenceTheorems, TLAPS

USE ColumnsAssumption, LimitsAssumption

\* What a plan is: a sequence of queries (profileColumn).
LEMMA PlanLength == ASSUME NEW c \in Cols PROVE Len(Plan(c)) \in Nat
<1> DEFINE Queries == {"aggregates", "dates", "top", "patterns", "entropy",
                       "moments", "stats", "histogram", "outliers"}
           a == << "aggregates" >>
           b == If("date" \in Kinds[c], << "dates" >>)
           d == << "top" >>
           e == If("text" \in Kinds[c], << "patterns", "entropy" >>)
           f == If("numeric" \in Kinds[c], << "moments", "stats", "histogram", "outliers" >>)
<1>1. a \in Seq(Queries) /\ b \in Seq(Queries) /\ d \in Seq(Queries)
      /\ e \in Seq(Queries) /\ f \in Seq(Queries)
  <2>1. a \in Seq(Queries) /\ d \in Seq(Queries)
    BY SMT
  <2>2. << "dates" >> \in Seq(Queries) /\ << "patterns", "entropy" >> \in Seq(Queries)
    BY SMT
  <2>3. << "moments", "stats", "histogram", "outliers" >> \in Seq(Queries)
    BY SMT
  <2>4. << >> \in Seq(Queries)
    BY SMT
  <2>5. QED BY <2>1, <2>2, <2>3, <2>4 DEF If
<1>2. ((((a \o b) \o d) \o e) \o f) \in Seq(Queries)
  <2> HIDE DEF a, b, d, e, f, Queries
  <2> QED BY <1>1
<1>3. Plan(c) \in Seq(Queries)
  BY <1>2 DEF Plan
<1>4. QED BY <1>3

\* The position a column goes on to is one of its plan, or the end of it.
LEMMA GoOnTypes ==
  ASSUME TypeOK, NEW c \in Cols, NEW ok \in BOOLEAN, GoOn(c, ok), step[c] = "active"
  PROVE  /\ at' \in [Cols -> Nat \ {0}]
         /\ step' \in [Cols -> ColumnSteps]
         /\ step'[c] \in {"active", "ending"}
         /\ \A d \in Cols \ {c} : step'[d] = step[d]
<1>1. PICK n \in Following(c, ok) :
        /\ at' = [at EXCEPT ![c] = n]
        /\ step' = IF n > Len(Plan(c)) THEN [step EXCEPT ![c] = "ending"] ELSE step
  BY DEF GoOn
<1>2. at[c] \in Nat \ {0} /\ Len(Plan(c)) \in Nat
  BY PlanLength DEF TypeOK
<1>3. n \in Nat \ {0}
  BY <1>2 DEF Following
<1>4. QED BY <1>1, <1>3 DEF TypeOK, ColumnSteps

\* Connections that are given back keep the pool within its limit.
LEMMA PoolShrinks ==
  ASSUME TypeOK, open' \subseteq open
  PROVE  IsFiniteSet(open') /\ Cardinality(open') <= MaxConns
<1>1. IsFiniteSet(open') /\ Cardinality(open') <= Cardinality(open)
  BY FS_Subset DEF TypeOK
<1>2. Cardinality(open) \in Nat /\ Cardinality(open') \in Nat
  BY <1>1, FS_CardinalityType DEF TypeOK
<1>3. QED BY <1>1, <1>2 DEF TypeOK

\* A query that ends leaves the other connections and the types alone.
LEMMA EndsTypes ==
  ASSUME TypeOK, NEW t \in Threads, NEW ok \in BOOLEAN, Ends(t, ok), Release(t)
  PROVE  /\ errors' \in 0 .. MaxErrors
         /\ open' \subseteq open
         /\ IsFiniteSet(open') /\ Cardinality(open') <= MaxConns
<1>1. open' \subseteq open
  BY DEF Release
<1>2. errors' \in 0 .. MaxErrors
  BY DEF Ends, TypeOK
<1>3. QED BY <1>1, <1>2, PoolShrinks

\* The goroutines with a slot are finitely many, and no more than the slots as
\* long as no other takes one.
LEMMA SlotsShrink ==
  ASSUME TypeOK, Active' \subseteq Active
  PROVE  Cardinality(Active') <= MaxActive
<1>1. IsFiniteSet(Active)
  BY FS_Subset DEF Active
<1>2. IsFiniteSet(Active') /\ Cardinality(Active') <= Cardinality(Active)
  BY <1>1, FS_Subset
<1>3. Cardinality(Active) \in Nat /\ Cardinality(Active') \in Nat
  BY <1>1, <1>2, FS_CardinalityType
<1>4. QED BY <1>2, <1>3 DEF TypeOK

LEMMA ConnectTypes ==
  ASSUME TypeOK, NEW t \in Threads, Connect(t)
  PROVE  TypeOK'
<1>1. IsFiniteSet(open') /\ Cardinality(open') <= MaxConns
  <2>1. /\ open' = open \cup {<< t, Current(t) >>}
        /\ << t, Current(t) >> \notin open
    BY DEF Connect, InFlight
  <2>2. IsFiniteSet(open') /\ Cardinality(open') = Cardinality(open) + 1
    BY <2>1, FS_AddElement DEF TypeOK
  <2>3. Cardinality(open) \in Nat /\ Cardinality(open) < MaxConns
    BY FS_CardinalityType DEF TypeOK, Connect
  <2>4. QED BY <2>2, <2>3
<1>2. Active' = Active
  BY DEF Active, Connect
<1>3. QED BY <1>1, <1>2 DEF TypeOK, Connect

LEMMA ColumnTypes ==
  ASSUME TypeOK, NEW c \in Cols, ColumnStep(c)
  PROVE  TypeOK'
<1>1. CASE Connect(c)
  BY <1>1, ConnectTypes DEF Threads
<1>2. CASE GetSlot(c)
  <2>1. step' = [step EXCEPT ![c] = "active"] /\ step' \in [Cols -> ColumnSteps]
    BY <1>2 DEF GetSlot, TypeOK, ColumnSteps
  <2>2. Active' = Active \cup {c} /\ c \notin Active
    BY <1>2, <2>1 DEF GetSlot, Active, TypeOK
  <2>3. IsFiniteSet(Active)
    BY FS_Subset DEF Active
  <2>4. Cardinality(Active') = Cardinality(Active) + 1 /\ Cardinality(Active) \in Nat
    BY <2>2, <2>3, FS_AddElement, FS_CardinalityType
  <2>5. Cardinality(Active') <= MaxActive
    BY <1>2, <2>4 DEF GetSlot
  <2>6. QED BY <1>2, <2>1, <2>5 DEF GetSlot, TypeOK
<1>3. CASE GiveUp(c)
  <2>1. step' \in [Cols -> ColumnSteps] /\ Active' \subseteq Active
    BY <1>3 DEF GiveUp, TypeOK, ColumnSteps, Active
  <2>2. QED BY <1>3, <2>1, SlotsShrink DEF GiveUp, TypeOK
<1>4. CASE Aggregates(c)
  <2>1. PICK ok \in BOOLEAN :
          /\ Ends(c, ok)
          /\ IF ok THEN GoOn(c, ok)
             ELSE step' = [step EXCEPT ![c] = "ending"] /\ UNCHANGED at
    BY <1>4 DEF Aggregates
  <2>2. /\ errors' \in 0 .. MaxErrors
        /\ IsFiniteSet(open') /\ Cardinality(open') <= MaxConns
    BY <1>4, <2>1, EndsTypes DEF Aggregates, Threads
  <2>3. /\ at' \in [Cols -> Nat \ {0}] /\ step' \in [Cols -> ColumnSteps]
        /\ \A d \in Cols \ {c} : step'[d] = step[d]
    <3>1. CASE ok
      BY <1>4, <2>1, <3>1, GoOnTypes DEF Aggregates
    <3>2. CASE ~ok
      BY <2>1, <3>2 DEF TypeOK, ColumnSteps
    <3>3. QED BY <3>1, <3>2
  <2>4. Active' \subseteq Active
    BY <1>4, <2>3 DEF Aggregates, Active
  <2>5. QED BY <1>4, <2>2, <2>3, <2>4, SlotsShrink DEF Aggregates, TypeOK
<1>5. CASE Metric(c)
  <2>1. PICK ok \in BOOLEAN : Ends(c, ok) /\ GoOn(c, ok) /\ Thins(c, ok)
    BY <1>5 DEF Metric
  <2>2. /\ errors' \in 0 .. MaxErrors
        /\ IsFiniteSet(open') /\ Cardinality(open') <= MaxConns
    BY <1>5, <2>1, EndsTypes DEF Metric, Threads
  <2>3. /\ at' \in [Cols -> Nat \ {0}] /\ step' \in [Cols -> ColumnSteps]
        /\ \A d \in Cols \ {c} : step'[d] = step[d]
    BY <1>5, <2>1, GoOnTypes DEF Metric
  <2>4. Active' \subseteq Active
    BY <1>5, <2>3 DEF Metric, Active
  <2>5. thin' \subseteq Threads
    BY <2>1 DEF Thins, Threads, TypeOK
  <2>6. QED BY <1>5, <2>2, <2>3, <2>4, <2>5, SlotsShrink DEF Metric, TypeOK
<1>6. CASE Return(c)
  <2>1. step' \in [Cols -> ColumnSteps] /\ Active' \subseteq Active
    BY <1>6 DEF Return, TypeOK, ColumnSteps, Active
  <2>2. IsFiniteSet(open') /\ Cardinality(open') <= MaxConns
    <3>1. open' \subseteq open
      BY <1>6 DEF Return
    <3>2. QED BY <3>1, PoolShrinks
  <2>3. out' \in [Cols -> {"zero", "partial", "profile"}] /\ first' \in Threads
    BY <1>6 DEF Return, TypeOK, Threads
  <2>4. QED BY <1>6, <2>1, <2>2, <2>3, SlotsShrink DEF Return, TypeOK
<1>7. QED BY <1>1, <1>2, <1>3, <1>4, <1>5, <1>6 DEF ColumnStep

LEMMA MainTypes ==
  ASSUME TypeOK, MainStep
  PROVE  TypeOK'
<1>1. CASE Connect(Main)
  BY <1>1, ConnectTypes DEF Threads
<1>2. CASE Require
  <2>1. PICK ok \in BOOLEAN :
          /\ Ends(Main, ok)
          /\ main' \in IF ~ok THEN {"failed"}
                       ELSE IF main = "count" THEN {"sampled", "columns", "failed"}
                       ELSE IF main = "sampled" THEN {"columns"}
                       ELSE {"wait"}
    BY <1>2 DEF Require
  <2>2. /\ errors' \in 0 .. MaxErrors
        /\ IsFiniteSet(open') /\ Cardinality(open') <= MaxConns
    BY <1>2, <2>1, EndsTypes DEF Require, Threads
  <2>3. main' \in MainSteps
    BY <2>1 DEF MainSteps, Required
  <2>4. step' \in [Cols -> ColumnSteps] /\ Active' \subseteq Active
    BY <1>2 DEF Require, TypeOK, ColumnSteps, Active
  <2>5. QED BY <1>2, <2>2, <2>3, <2>4, SlotsShrink DEF Require, TypeOK
<1>3. CASE Wait
  <2>1. Active' \subseteq Active
    BY <1>3 DEF Wait, Active
  <2>2. QED BY <1>3, <2>1, SlotsShrink DEF Wait, TypeOK, MainSteps, Extras
<1>4. CASE Extra
  <2>1. /\ thin' \subseteq Threads /\ errors' \in 0 .. MaxErrors
        /\ IsFiniteSet(open') /\ Cardinality(open') <= MaxConns
    <3>1. CASE Wanted
      <4>1. PICK ok \in BOOLEAN : Ends(Main, ok) /\ Thins(Main, ok)
        BY <1>4, <3>1 DEF Extra
      <4>2. /\ errors' \in 0 .. MaxErrors
            /\ IsFiniteSet(open') /\ Cardinality(open') <= MaxConns
        BY <1>4, <4>1, EndsTypes DEF Extra, Threads
      <4>3. thin' \subseteq Threads
        BY <4>1 DEF Thins, Threads, TypeOK
      <4>4. QED BY <4>2, <4>3
    <3>2. CASE ~Wanted
      <4>1. open' \subseteq open
        BY <1>4 DEF Extra, Release
      <4>2. IsFiniteSet(open') /\ Cardinality(open') <= MaxConns
        BY <4>1, PoolShrinks
      <4>3. UNCHANGED << thin, errors >>
        BY <1>4, <3>2 DEF Extra
      <4>4. QED BY <4>2, <4>3 DEF TypeOK
    <3>3. QED BY <3>1, <3>2
  <2>2. main' \in MainSteps
    BY <1>4 DEF Extra, AfterExtra, MainSteps, Extras
  <2>3. Active' \subseteq Active
    BY <1>4 DEF Extra, Active
  <2>4. QED BY <1>4, <2>1, <2>2, <2>3, SlotsShrink DEF Extra, TypeOK
<1>5. CASE Previous \/ Save
  <2>1. Active' \subseteq Active
    BY <1>5 DEF Previous, Save, Active
  <2>2. main' \in MainSteps
    BY <1>5 DEF Previous, Save, MainSteps
  <2>3. QED BY <1>5, <2>1, <2>2, SlotsShrink DEF Previous, Save, TypeOK
<1>6. QED BY <1>1, <1>2, <1>3, <1>4, <1>5 DEF MainStep

\* Every step keeps the types, the pool and the slots within their limits.
LEMMA StepTypes ==
  ASSUME TypeOK, [Next]_vars
  PROVE  TypeOK'
<1>1. CASE Cancel
  <2>1. Active' = Active
    BY <1>1 DEF Cancel, Active
  <2>2. QED BY <1>1, <2>1 DEF Cancel, TypeOK
<1>2. CASE UNCHANGED vars
  <2>1. Active' = Active
    BY <1>2 DEF vars, Active
  <2>2. QED BY <1>2, <2>1 DEF vars, TypeOK
<1>3. QED BY <1>1, <1>2, ColumnTypes, MainTypes DEF Next

LEMMA InitTypes == Init => TypeOK
<1> SUFFICES ASSUME Init PROVE TypeOK
  OBVIOUS
<1>1. Active = {}
  BY DEF Init, Active
<1>2. Cardinality(Active) = 0 /\ Cardinality(open) = 0 /\ IsFiniteSet(open)
  BY <1>1, FS_EmptySet DEF Init
<1>3. QED BY <1>2 DEF Init, TypeOK, MainSteps, Required, ColumnSteps, Threads

\* The types, and that neither the pool nor the semaphore is ever overdrawn,
\* whatever the columns, the limits and the failures (ProfileTable, Open).
THEOREM TypeCorrect == Spec => []TypeOK
<1>1. Init => TypeOK
  BY InitTypes
<1>2. TypeOK /\ [Next]_vars => TypeOK'
  BY StepTypes
<1>3. QED BY <1>1, <1>2, PTL DEF Spec

-----------------------------------------------------------------------------
(* The invariant of the run                                                *)

\* ProfileTable is past its wait exactly when it is at none of these steps.
LEMMA BeforeReturn ==
  /\ Required \cap Returned = {}
  /\ "wait" \notin Required \cup Returned
  /\ MainSteps = Required \cup {"wait"} \cup Returned
BY DEF Required, Returned, MainSteps, Extras

\* A failing query is counted, or the context is done.
LEMMA EndsCounts ==
  ASSUME TypeOK, NEW t \in Threads, NEW ok \in BOOLEAN, Ends(t, ok), Thins(t, ok),
         ctx' = ctx, ctx = "live" /\ errors = 0 => thin = {}
  PROVE  ctx' = "live" /\ errors' = 0 => thin' = {}
BY DEF Ends, Thins, TypeOK

\* A goroutine that has a slot is at work: ProfileTable waits for it.
LEMMA AtWork ==
  ASSUME TypeOK, RunInv, NEW c \in Cols, step[c] \notin {"unborn", "done"}
  PROVE  main = "wait"
BY BeforeReturn DEF TypeOK, RunInv

LEMMA ColumnInv ==
  ASSUME TypeOK, RunInv, NEW c \in Cols, ColumnStep(c)
  PROVE  RunInv'
<1>1. step[c] \in {"waiting", "active", "ending"}
  BY DEF ColumnStep, Connect, Querying, GetSlot, GiveUp, Aggregates, Metric, Return
<1>2. main = "wait" /\ main' = main /\ ctx' = ctx
  BY <1>1, AtWork DEF ColumnStep, Connect, GetSlot, GiveUp, Aggregates, Metric, Return
<1>3. main' \notin Required \cup Returned /\ main' # "saved"
  BY <1>2, BeforeReturn
<1>4. SUFFICES /\ \A d \in Cols : step'[d] = "done" =>
                    out'[d] = "profile" \/ first' # Main \/ ctx' = "done"
               /\ \A o \in open' : /\ o[1] \in Threads
                                   /\ o[1] # Main => step'[o[1]] \in {"active", "ending"}
               /\ ctx' = "live" /\ errors' = 0 => thin' = {}
  BY <1>3 DEF RunInv, SavedIsWhole, CancelLosesNothing
<1>5. CASE Connect(c)
  <2>1. open' = open \cup {<< c, Current(c) >>} /\ step[c] = "active" /\ UNCHANGED << step, out, first, thin, errors >>
    BY <1>5 DEF Connect, Querying
  <2>2. QED BY <1>2, <2>1 DEF RunInv, Threads
<1>6. CASE GetSlot(c)
  BY <1>2, <1>6 DEF GetSlot, RunInv, TypeOK
<1>7. CASE GiveUp(c)
  BY <1>2, <1>7 DEF GiveUp, RunInv, TypeOK
<1>8. CASE Aggregates(c)
  <2>1. PICK ok \in BOOLEAN :
          /\ Ends(c, ok)
          /\ IF ok THEN GoOn(c, ok)
             ELSE step' = [step EXCEPT ![c] = "ending"] /\ UNCHANGED at
    BY <1>8 DEF Aggregates
  <2>2. step'[c] \in {"active", "ending"} /\ \A d \in Cols \ {c} : step'[d] = step[d]
    <3>1. CASE ok
      BY <1>8, <2>1, <3>1, GoOnTypes DEF Aggregates
    <3>2. CASE ~ok
      BY <2>1, <3>2 DEF TypeOK
    <3>3. QED BY <3>1, <3>2
  <2>3. UNCHANGED << out, first, thin >> /\ open' \subseteq open
    BY <1>8 DEF Aggregates, Release
  <2>4. \A o \in open' : /\ o[1] \in Threads
                         /\ o[1] # Main => step'[o[1]] \in {"active", "ending"}
    BY <2>2, <2>3 DEF RunInv, Threads
  <2>5. ctx' = "live" /\ errors' = 0 => thin' = {}
    BY <1>2, <2>1, <2>3 DEF Ends, RunInv, TypeOK
  <2>6. QED BY <1>2, <2>2, <2>3, <2>4, <2>5 DEF RunInv
<1>9. CASE Metric(c)
  <2>1. PICK ok \in BOOLEAN : Ends(c, ok) /\ GoOn(c, ok) /\ Thins(c, ok)
    BY <1>9 DEF Metric
  <2>2. step'[c] \in {"active", "ending"} /\ \A d \in Cols \ {c} : step'[d] = step[d]
    BY <1>9, <2>1, GoOnTypes DEF Metric
  <2>3. UNCHANGED << out, first >> /\ open' \subseteq open
    BY <1>9 DEF Metric, Release
  <2>4. \A o \in open' : /\ o[1] \in Threads
                         /\ o[1] # Main => step'[o[1]] \in {"active", "ending"}
    BY <2>2, <2>3 DEF RunInv, Threads
  <2>5. ctx' = "live" /\ errors' = 0 => thin' = {}
    BY <1>2, <2>1, EndsCounts DEF RunInv, Threads
  <2>6. QED BY <1>2, <2>2, <2>3, <2>4, <2>5 DEF RunInv
<1>10. CASE Return(c)
  <2>1. /\ \A d \in Cols \ {c} : step'[d] = step[d] /\ out'[d] = out[d]
        /\ out'[c] = "profile" \/ first' # Main
        /\ first # Main => first' # Main
    BY <1>10, ColumnsAssumption DEF Return, TypeOK
  <2>2. \A o \in open' : /\ o[1] \in Threads
                         /\ o[1] # Main => step'[o[1]] \in {"active", "ending"}
    BY <1>10, <2>1 DEF Return, RunInv, Threads
  <2>3. UNCHANGED << thin, errors >>
    BY <1>10 DEF Return
  <2>4. QED BY <1>2, <2>1, <2>2, <2>3 DEF RunInv
<1>11. QED BY <1>5, <1>6, <1>7, <1>8, <1>9, <1>10 DEF ColumnStep

LEMMA MainInv ==
  ASSUME TypeOK, RunInv, MainStep
  PROVE  RunInv'
<1>1. CASE Connect(Main)
  <2>1. open' = open \cup {<< Main, main >>} /\ UNCHANGED << ctx, main, step, out, first, thin, errors >>
    BY <1>1 DEF Connect, Current
  <2>2. \A o \in open' : o[1] \in Threads /\ (o[1] # Main => step'[o[1]] \in {"active", "ending"})
    BY <2>1 DEF RunInv, Threads
  <2>3. QED BY <2>1, <2>2 DEF RunInv, SavedIsWhole, CancelLosesNothing, Returned
<1>2. CASE Require
  <2>1. PICK ok \in BOOLEAN :
          /\ Ends(Main, ok)
          /\ main' \in IF ~ok THEN {"failed"}
                       ELSE IF main = "count" THEN {"sampled", "columns", "failed"}
                       ELSE IF main = "sampled" THEN {"columns"}
                       ELSE {"wait"}
    BY <1>2 DEF Require
  <2>2. /\ main \in Required /\ \A c \in Cols : step[c] = "unborn"
        /\ main' \in {"failed", "sampled", "columns", "wait"}
    BY <1>2, <2>1 DEF Require, RunInv
  <2>3. /\ main' = "wait" => \A c \in Cols : step'[c] = "waiting"
        /\ main' # "wait" => step' = step
        /\ UNCHANGED << ctx, out, first, thin >> /\ open' \subseteq open
    BY <1>2 DEF Require, Release
  <2>4. \A o \in open' : o[1] \in Threads /\ o[1] = Main
    BY <2>2, <2>3 DEF RunInv, Threads
  <2>5. ctx' = "live" /\ errors' = 0 => thin' = {}
    BY <2>1, <2>3 DEF Ends, RunInv, TypeOK
  <2>6. \A c \in Cols : step'[c] # "done"
    BY <2>2, <2>3
  <2>7. main' \in Required => step' = step
    BY <2>3 DEF Required
  <2>8. main' \in Returned => main' = "failed" /\ step' = step
    BY <2>2, <2>3 DEF Returned
  <2>9. QED BY <2>2, <2>4, <2>5, <2>6, <2>7, <2>8 DEF RunInv, SavedIsWhole, CancelLosesNothing, Returned
<1>3. CASE Wait
  <2>1. /\ \A c \in Cols : step[c] = "done"
        /\ main' = IF first = Main THEN "relations" ELSE "failed"
        /\ UNCHANGED << ctx, step, open, out, first, thin, errors >>
    BY <1>3 DEF Wait
  <2>2. main' \notin Required /\ main' # "saved"
    BY <2>1 DEF Required
  <2>3. QED BY <2>1, <2>2 DEF RunInv, SavedIsWhole, CancelLosesNothing
<1>4. CASE Extra
  <2>1. (\E ok \in BOOLEAN : Ends(Main, ok) /\ Thins(Main, ok)) \/ UNCHANGED << thin, errors >>
    BY <1>4 DEF Extra
  <2>2. /\ main \in Returned \ {"failed"} /\ main' \in Returned
        /\ main' \notin Required /\ main' # "saved"
    BY <1>4 DEF Extra, AfterExtra, Returned, Required
  <2>3. UNCHANGED << ctx, step, out, first >> /\ open' \subseteq open
    BY <1>4 DEF Extra, Release
  <2>4. ctx' = "live" /\ errors' = 0 => thin' = {}
    BY <2>1, <2>3, EndsCounts DEF RunInv, Threads
  <2>5. \A o \in open' : o[1] \in Threads /\ (o[1] # Main => step'[o[1]] \in {"active", "ending"})
    BY <2>3 DEF RunInv
  <2>6. QED BY <2>2, <2>3, <2>4, <2>5 DEF RunInv, SavedIsWhole, CancelLosesNothing
<1>5. CASE Previous
  BY <1>5 DEF Previous, RunInv, SavedIsWhole, CancelLosesNothing, Returned, Required
<1>6. CASE Save
  <2>1. /\ main = "save" /\ main' \in {"saved", "failed"}
        /\ main' = "saved" => ctx = "live"
        /\ UNCHANGED << ctx, step, open, out, first, thin, errors >>
    BY <1>6 DEF Save, TypeOK
  <2>2. first = Main /\ \A c \in Cols : step[c] = "done"
    BY <2>1 DEF RunInv, Returned
  <2>3. SavedIsWhole' /\ CancelLosesNothing'
    BY <2>1, <2>2 DEF SavedIsWhole, CancelLosesNothing, RunInv
  <2>4. main' \notin Required /\ main' \in Returned
    BY <2>1 DEF Required, Returned
  <2>5. QED BY <2>1, <2>2, <2>3, <2>4 DEF RunInv
<1>7. QED BY <1>1, <1>2, <1>3, <1>4, <1>5, <1>6 DEF MainStep

LEMMA StepRunInv ==
  ASSUME TypeOK, RunInv, [Next]_vars
  PROVE  RunInv'
<1>1. CASE Cancel
  <2>1. ctx' = "done" /\ UNCHANGED << main, step, open, out, first, thin, errors >>
    BY <1>1 DEF Cancel
  <2>2. QED BY <2>1 DEF RunInv, SavedIsWhole, CancelLosesNothing, Returned
<1>2. CASE UNCHANGED vars
  BY <1>2 DEF vars, RunInv, SavedIsWhole, CancelLosesNothing, Returned
<1>3. QED BY <1>1, <1>2, ColumnInv, MainInv DEF Next

\* Everything below follows from this invariant: a goroutine that gave up is
\* known by the done context, a failed one by the recorded error, and thin
\* entries by the done context or the failed query.
THEOREM RunInvariant == Spec => [](TypeOK /\ RunInv)
<1>1. Init => TypeOK /\ RunInv
  <2> SUFFICES ASSUME Init PROVE TypeOK /\ RunInv
    OBVIOUS
  <2>1. main = "count" /\ main \notin Returned /\ open = {} /\ thin = {}
        /\ \A c \in Cols : step[c] = "unborn"
    BY DEF Init, Returned
  <2>2. QED BY <2>1, InitTypes DEF RunInv, SavedIsWhole, CancelLosesNothing
<1>2. TypeOK /\ RunInv /\ [Next]_vars => (TypeOK /\ RunInv)'
  BY StepTypes, StepRunInv
<1>3. QED BY <1>1, <1>2, PTL DEF Spec

\* A stored snapshot has every column, although the goroutines that meet a
\* done context return without an error (ProfileTable, run).
THEOREM WholeSnapshots == Spec => []SavedIsWhole
<1>1. TypeOK /\ RunInv => SavedIsWhole
  BY DEF RunInv
<1>2. QED BY <1>1, RunInvariant, PTL

\* Unless the source fails a query, a stored snapshot lacks no metric: the end
\* of the context never shows in it (profileColumn, run).
THEOREM NothingLostToCancel == Spec => []CancelLosesNothing
<1>1. TypeOK /\ RunInv => CancelLosesNothing
  BY DEF RunInv
<1>2. QED BY <1>1, RunInvariant, PTL

\* No goroutine outlives the wait of ProfileTable, nor holds a connection of
\* the adapter that run closes.
THEOREM NoneLate == Spec => []NoLateGoroutine
<1>1. TypeOK /\ RunInv => NoLateGoroutine
  BY DEF RunInv, NoLateGoroutine, Threads
<1>2. QED BY <1>1, RunInvariant, PTL

=============================================================================
