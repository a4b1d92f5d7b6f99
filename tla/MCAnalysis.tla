----------------------------- MODULE MCAnalysis -----------------------------
(* Tables of a few rows, for TLC.                                          *)
EXTENDS AnalysisProperties, FiniteSetsExt, TLC

\* A column without an oddity: one value, in every row.
Plain(type) ==
  [type |-> type, nullable |-> TRUE, nulls |-> 0, distinct |-> 1, top |-> 20,
   empty |-> 0, blank |-> 0, outliers |-> 0, future |-> 0, zeros |-> 0]

\* Text with some NULLs, an empty and a blank value, the rest equal or all
\* different.
TextColumns ==
  {[Plain("text") EXCEPT !.nulls = n, !.empty = e, !.blank = b,
                         !.distinct = IF same THEN e + b + 1 ELSE 20 - n,
                         !.top = IF same THEN 20 - n - e - b ELSE 1] :
     n \in {0, 4, 5}, e \in {0, 1}, b \in {0, 1}, same \in BOOLEAN}

\* An id: every row another; or nineteen zeros and one value far away.
IdColumns ==
  {[Plain("numeric") EXCEPT !.distinct = 20, !.top = 1],
   [Plain("numeric") EXCEPT !.distinct = 2, !.top = 19, !.zeros = 19, !.outliers = 1]}

\* A date that is absent from the table, past, or in the future once.
DateColumns == {Plain("date"), [Plain("date") EXCEPT !.distinct = 2, !.top = 19, !.future = 1]}

NoEvidence == [headers |-> {}, bare |-> FALSE, top |-> {}]

Table(columns, dups) ==
  [rows |-> 20, dups |-> dups, columns |-> columns,
   evidence |-> [n \in DOMAIN columns |-> NoEvidence]]

\* Duplicates are the rows beyond the first that agree in every column; the row
\* with the other id has the common note.
CountedTables ==
  {Table("id" :> i @@ "note" :> t,
         IF i.distinct = 20 \/ t.distinct = 20 THEN 0 ELSE 20 - t.distinct - 1) :
     i \in IdColumns, t \in {u \in TextColumns : u.nulls = 0}}
  \cup {Table("id" :> i @@ "note" :> t, 0) :
     i \in {c \in IdColumns : c.distinct = 20}, t \in TextColumns}
  \cup {Table("id" :> [Plain("numeric") EXCEPT !.distinct = 20, !.top = 1]
                @@ "note" :> Plain("text") @@ "born" :> d, 0) : d \in DateColumns}

\* One text column that holds each value of top as often as it says.
Noted(headers, top) ==
  [rows |-> RowsOf(top), dups |-> RowsOf(top) - Cardinality(top),
   columns |-> "note" :> [Plain("text") EXCEPT
                            !.distinct = Cardinality(top), !.top = Max({x.count : x \in top}),
                            !.blank = RowsOf({x \in top : x.value.shape = "blank"})],
   evidence |-> "note" :> [headers |-> headers, bare |-> FALSE, top |-> top]]

Value(shape, digits, length) == [shape |-> shape, digits |-> digits, length |-> length]

Counted(value, count) == [value |-> value, count |-> count, meant |-> value.digits]

\* A table whose column is named after none, one or two labels ("contact",
\* "email", "email_address"), and whose values are addresses and numbers.
EvidenceTables ==
  {Noted(h, {x \in {Counted(Value("email", << >>, 9), m[1]),
                    Counted(Value("number", [i \in 1 .. 10 |-> 5], 12), m[2]),
                    Counted(Value("other", << >>, 5), 10 - m[1] - m[2]),
                    Counted(Value("blank", << >>, 0), 10)} : x.count > 0}) :
     h \in {{}, {"email"}, {"email", "address"}},
     m \in {<< 0, 0 >>, << 5, 0 >>, << 5, 5 >>, << 8, 0 >>, << 0, 8 >>}}

\* "4111 1111 1111 1111", as the test has it, and numbers with every digit at
\* odd and at even places.
Cards ==
  << Value("number", << 4, 1, 1, 1, 1, 1, 1, 1, 1, 1, 1, 1, 1, 1, 1, 1 >>, 19),
     Value("number", << 6, 7, 8, 9, 1, 2, 3, 4, 5, 0, 9, 8, 7, 6, 0, 1 >>, 16),
     Value("number", << 4, 2, 2, 2, 2, 2, 2, 2, 2, 2, 2, 2, 2 >>, 13),
     Value("number", << 0, 1, 2, 3, 4, 5, 6, 7, 8, 9, 9, 8, 7, 6, 5, 4, 3, 2, 1 >>, 19) >>

\* One digit is another, or two neighbours have changed places.
OneOff(s) ==
  {[s EXCEPT ![i] = d] : i \in DOMAIN s, d \in 0 .. 9}
    \cup {[s EXCEPT ![i] = s[i + 1], ![i + 1] = s[i]] : i \in 1 .. Len(s) - 1}

Mistyped(x) ==
  {[x EXCEPT !.value.digits = s] : s \in {t \in OneOff(x.value.digits) : Typo(x.meant, t)}}

TwoCards ==
  {c \in {Counted(Cards[i], n) : i \in 1 .. 4, n \in {1, 4}}
           \X {Counted(Cards[i], n) : i \in 1 .. 2, n \in {1, 4}} : c[1].value # c[2].value}

\* Two cards with their counts in a column named after cards, before and after the
\* first is mistyped.
CardSubjects ==
  UNION {{{<< Noted({"credit_card"}, {c[1], c[2]}), DefaultRules >>,
           << Noted({"credit_card"}, {x, c[2]}), DefaultRules >>} : x \in Mistyped(c[1])} :
            c \in TwoCards}

\* The column of the test: "4111 1111 1111 1111" twice, under the name
\* "payment_value", which no header rule matches.
UnnamedCard == {{<< Noted({}, {Counted(Cards[1], 2)}), DefaultRules >>}}

\* The default, a threshold out of range, and rules that forbid or allow more.
SomeRules ==
  {DefaultRules,
   [DefaultRules EXCEPT !.nulls = 101],
   [DefaultRules EXCEPT !.nulls = 25, !.empty = TRUE],
   [DefaultRules EXCEPT !.nulls = 0, !.blank = TRUE],
   [nulls |-> Unset, dominant |-> Unset, high |-> 50, empty |-> TRUE, blank |-> TRUE]}

\* One table under all rules and with all the values; and the cards.
SomeSubjects ==
  {(CountedTables \X SomeRules) \cup (EvidenceTables \X {DefaultRules})}
    \cup CardSubjects

=============================================================================
