---------------------------- MODULE QuestionSession ----------------------------
(***************************************************************************)
(* A conversation's session state (QuestionAnalyzer of task2.py), and the  *)
(* answers it leads to.                                                    *)
(*                                                                         *)
(* A question says some things and leaves others to be taken from the      *)
(* slots of the session, until there is enough for a query; what earlier   *)
(* questions said stays in the slots unless it is replaced or the company  *)
(* changes.  A question is what the analyzer recognizes in its text.       *)
(*                                                                         *)
(* Beside the slots the specification keeps what has been said: which      *)
(* company, metrics and reports the user means.  The properties compare    *)
(* the answers with that.  Charts are drawn from the rows of an answer and *)
(* left out, but for the question that asks to draw the last answer.       *)
(***************************************************************************)
EXTENDS QueryAnswering

CONSTANT Questions   \* the questions a user may ask

\* What resolve_periods recognizes.  One report, several listed ones, a range of
\* years with the last report of its last year, or something relative.
Phrases ==
  [kind : {"none", "last_year", "three_years", "three_quarters", "half_year"}] \cup
  [kind : {"report"}, period : Periods] \cup
  [kind : {"listed"}, periods : SUBSET Periods] \cup
  [kind : {"range"}, from : Years, end : Periods]

Cues == {"none", "intersection", "trend", "compare", "top", "positive", "above_mean"}

Question ==
  [company : Companies \cup {NoCompany}, metrics : Seq(Metrics), phrase : Phrases,
   cue : Cues, ratio : BOOLEAN, draw : BOOLEAN]

ASSUME QuestionAssumption ==
  /\ Questions \subseteq Question
  /\ \A q \in Questions :
       /\ q.phrase.kind = "listed" => q.phrase.periods # {}
       /\ q.phrase.kind = "range" => 10 * q.phrase.from + 1 <= q.phrase.end
       /\ q.ratio => Len(q.metrics) >= 2

VARIABLES
  slots,   \* SessionState.slots
  spec,    \* the query specification of the last turn, or NoSpec
  answer,  \* the rows of the last turn, or Failed
  said,    \* history: what the user has said since naming the company
  shown    \* history: what had been said at the last query

vars == <<slots, spec, answer, said, shown>>

-----------------------------------------------------------------------------
NoSpec == [type |-> "none"]

Slots ==
  [company : Companies \cup {NoCompany}, metrics : Seq(Metrics), report : Periods \cup {0},
   start : Periods \cup {0}, end : Periods \cup {0}, periods : SUBSET Periods,
   anchorless : BOOLEAN, last : QuerySpec \cup {NoSpec}]

EmptySlots ==
  [company |-> NoCompany, metrics |-> << >>, report |-> 0, start |-> 0, end |-> 0,
   periods |-> {}, anchorless |-> FALSE, last |-> NoSpec]

\* The reports that were last spoken of; none if there was no word of any.
Said == [company : Companies \cup {NoCompany}, metrics : Seq(Metrics), reports : SUBSET Periods]
NothingSaid == [company |-> NoCompany, metrics |-> << >>, reports |-> {}]

\* A period and a range exclude each other, a list of reports keeps its bounds,
\* and the mark of a phrase without an anchor goes when there is one.
SessionTypeOK ==
  /\ slots \in Slots
  /\ slots.report # 0 => slots.start = 0 /\ slots.end = 0
  /\ slots.periods # {} => slots.start = Min(slots.periods) /\ slots.end = Max(slots.periods)
  /\ slots.anchorless => slots.report = 0 /\ slots.end = 0
  /\ spec \in QuerySpec \cup {NoSpec}
  /\ said \in Said /\ shown \in Said

Init ==
  /\ slots = EmptySlots
  /\ spec = NoSpec /\ answer = {}
  /\ said = NothingSaid /\ shown = NothingSaid

-----------------------------------------------------------------------------
(* analyze_turn.                                                           *)

Year(p) == p \div 10

\* The anchor of a relative phrase.
Anchor(s) == IF s.report # 0 THEN s.report ELSE s.end

\* Bug: the last year of a range survives the change.
NamedKeepingEnd(s, company) ==
  IF company = NoCompany THEN s
  ELSE IF s.company \in {NoCompany, company} THEN [s EXCEPT !.company = company]
  ELSE [EmptySlots EXCEPT !.company = company, !.end = s.end]

\* Another company clears what was said of the one before.
Named(s, company) ==
  IF company = NoCompany THEN s
  ELSE IF s.company \in {NoCompany, company} THEN [s EXCEPT !.company = company]
  ELSE [EmptySlots EXCEPT !.company = company]

WithMetrics(s, metrics) == IF metrics = << >> THEN s ELSE [s EXCEPT !.metrics = metrics]

WithReport(s, p) ==
  [s EXCEPT !.report = p, !.start = 0, !.end = 0, !.periods = {}, !.anchorless = FALSE]

\* Bug: the report of an earlier question is not popped.
WithRangeBeside(s, from, to) ==
  [s EXCEPT !.start = from, !.end = to, !.periods = {}, !.anchorless = FALSE]

WithRange(s, from, to) ==
  [s EXCEPT !.report = 0, !.start = from, !.end = to, !.periods = {}, !.anchorless = FALSE]

WithListed(s, P) ==
  [s EXCEPT !.report = 0, !.start = Min(P), !.end = Max(P), !.periods = P, !.anchorless = FALSE]

Relative == {"last_year", "three_years", "three_quarters", "half_year"}

\* resolve_periods and the slots it replaces
Dated(s, phrase) ==
  LET anchor == Anchor(s)
  IN  CASE phrase.kind = "none" -> s
        [] phrase.kind = "report" -> WithReport(s, phrase.period)
        [] phrase.kind = "listed" -> WithListed(s, phrase.periods)
        [] phrase.kind = "range" -> WithRange(s, 10 * phrase.from + 1, phrase.end)
        [] phrase.kind \in Relative /\ anchor = 0 -> [s EXCEPT !.anchorless = TRUE]
        [] phrase.kind = "last_year" /\ anchor # 0 -> WithReport(s, 10 * (Year(anchor) - 1) + 4)
        [] phrase.kind = "three_years" /\ anchor # 0 ->
             WithRange(s, 10 * (Year(anchor) - 2) + 1, anchor)
        [] phrase.kind = "three_quarters" /\ anchor # 0 -> WithReport(s, 10 * Year(anchor) + 3)
        [] phrase.kind = "half_year" /\ anchor # 0 -> WithReport(s, 10 * Year(anchor) + 2)

\* _detect_analysis_type: the first that fits.
AnalysisType(q, s) ==
  IF q.cue = "intersection" THEN "intersection_topn"
  ELSE IF q.cue = "trend" \/ q.phrase.kind = "three_years" THEN "trend"
  ELSE IF q.cue = "compare" \/ Cardinality(s.periods) >= 2 THEN "comparison"
  ELSE IF q.cue = "top" THEN "topn_metric"
  ELSE IF q.cue \in {"positive", "above_mean"} /\ s.metrics # << >> THEN "filter"
  ELSE "single_metric"

\* _clarify_question has something to ask.
Unclear(type, s) ==
  \/ s.anchorless
  \/ s.company = NoCompany /\ type \in {"single_metric", "trend", "comparison"}
  \/ s.metrics = << >>
  \/ /\ type \in {"single_metric", "filter", "topn_metric", "comparison"}
     /\ s.report = 0 /\ s.start = 0

Operator(type, q, s) ==
  CASE type = "intersection_topn" -> "intersection_topn"
    [] type = "comparison" -> IF Cardinality(s.periods) >= 2 THEN "period_comparison" ELSE "none"
    [] type = "filter" /\ q.cue = "above_mean" /\ Len(s.metrics) > 1 -> "above_industry_mean"
    [] OTHER -> IF q.ratio THEN "ratio" ELSE "none"

\* _build_query_spec
BuildQuerySpec(type, q, s) ==
  [type |-> type, metrics |-> s.metrics, company |-> s.company, report |-> s.report,
   start |-> s.start, end |-> IF s.end # 0 THEN s.end ELSE s.report,
   periods |-> IF type = "comparison" THEN s.periods ELSE {},
   positive |-> type = "filter" /\ q.cue = "positive", post |-> Operator(type, q, s)]

-----------------------------------------------------------------------------
(* What the user means.                                                    *)

Latest(reports) == Max(reports)

\* The reports a phrase speaks of, after those spoken of before.
SpokenOf(phrase, before) ==
  LET year == Year(Latest(before))
  IN  CASE phrase.kind = "none" -> before
        [] phrase.kind = "report" -> {phrase.period}
        [] phrase.kind = "listed" -> phrase.periods
        [] phrase.kind = "range" ->
             {p \in Periods : Year(p) >= phrase.from /\ p <= phrase.end}
        [] phrase.kind \in Relative /\ before = {} -> {}
        [] phrase.kind = "last_year" /\ before # {} -> {10 * (year - 1) + 4}
        [] phrase.kind = "three_years" /\ before # {} ->
             {p \in Periods : Year(p) >= year - 2 /\ p <= Latest(before)}
        [] phrase.kind = "three_quarters" /\ before # {} -> {10 * year + 3}
        [] phrase.kind = "half_year" /\ before # {} -> {10 * year + 2}

\* Another company is another topic.
Heard(q) ==
  LET topic == IF q.company \in {NoCompany, said.company} \/ said.company = NoCompany
                 THEN said ELSE NothingSaid
  IN  [company |-> IF q.company = NoCompany THEN said.company ELSE q.company,
       metrics |-> IF q.metrics = << >> THEN topic.metrics ELSE q.metrics,
       reports |-> SpokenOf(q.phrase, topic.reports)]

\* To draw what was answered, a question names nothing.
NamesNothing(q) ==
  q.company = NoCompany /\ q.metrics = << >> /\ q.phrase.kind = "none"

-----------------------------------------------------------------------------
(* A turn.                                                                 *)

\* Bound: nothing before the first of Years.
InReach(q) ==
  q.phrase.kind \in Relative /\ Anchor(slots) # 0 =>
    Year(Anchor(slots)) - (IF q.phrase.kind = "three_years" THEN 2 ELSE 1) \in Years

\* The last query is run again, whatever else the question says.
Draw(q) ==
  /\ q.draw /\ slots.last # NoSpec
  /\ spec' = slots.last
  /\ answer' \in Outcomes(spec')
  /\ said' = IF NamesNothing(q) THEN said ELSE Heard(q)
  /\ shown' = IF NamesNothing(q) THEN shown ELSE Heard(q)
  /\ UNCHANGED slots

\* The slots after the question, and the type of the answer wanted.
Understood(q) == Dated(WithMetrics(Named(slots, q.company), q.metrics), q.phrase)

Clarify(q) ==
  /\ ~(q.draw /\ slots.last # NoSpec) /\ InReach(q)
  /\ LET s == Understood(q) IN Unclear(AnalysisType(q, s), s) /\ slots' = s
  /\ spec' = NoSpec /\ answer' = {}
  /\ said' = Heard(q)
  /\ UNCHANGED shown

Query(q) ==
  /\ ~(q.draw /\ slots.last # NoSpec) /\ InReach(q)
  /\ LET s == Understood(q)
         type == AnalysisType(q, s)
     IN  /\ ~Unclear(type, s)
         /\ spec' = BuildQuerySpec(type, q, s)
         /\ slots' = [s EXCEPT !.last = spec']
  /\ answer' \in Outcomes(spec')
  /\ said' = Heard(q) /\ shown' = Heard(q)

Next == \E q \in Questions : Draw(q) \/ Clarify(q) \/ Query(q)

Spec == Init /\ [][Next]_vars

-----------------------------------------------------------------------------
(* Properties.                                                             *)

\* A trend or a ranking over listed reports covers those between them.
Meant(reports, type) ==
  IF reports = {} THEN Periods
  ELSE IF type = "comparison" THEN reports
  ELSE {p \in Periods : Min(reports) <= p /\ p <= Max(reports)}

\* A query is about the company, the metrics and exactly the reports that were
\* said since the company was named, by whichever questions: a slot of another
\* company, of a replaced period or of a question that is still unclear is never
\* in it (README: SessionState handles the change of company, explicit anchors in
\* time and clarification).
AnswersWhatWasSaid ==
  spec # NoSpec =>
    /\ spec.company = shown.company
    /\ spec.metrics = shown.metrics
    /\ {p \in Periods : PeriodMatches(spec, p)} = Meant(shown.reports, spec.type)

\* The figures an answer has to be given from.
Population ==
  {key \in Companies \X Meant(shown.reports, spec.type) :
     /\ shown.company \in {NoCompany, key[1]}
     /\ \A m \in Fields(spec) : Table[key][m] # Untrusted
     /\ spec.positive => Table[key][shown.metrics[1]] > 0}

Ahead(a, b, m) ==
  Table[a][m] > Table[b][m] \/ (Table[a][m] = Table[b][m] /\ a[1] < b[1])

\* What must be there of each figure.
Expected(key) ==
  CASE spec.post = "period_comparison" ->
         LET before == {b \in Population : b[2] < key[2]}
         IN  {<<Table[b][spec.metrics[1]]>> : b \in {c \in before : \A d \in before : d[2] <= c[2]}}
    [] spec.post = "ratio" ->
         {<<Table[key][spec.metrics[Len(spec.metrics) - 1]], Table[key][spec.metrics[Len(spec.metrics)]]>>}
    [] OTHER -> {}

\* An answer is all of the result and nothing else: the row limit refuses a result
\* rather than cut it off (ARCHITECTURE: a partial result is never presented as
\* complete), a ranking has the companies with fewer than TopN ahead of them, and a
\* change is that to the report before, not to any other row.
AnswersAreWhole ==
  spec # NoSpec /\ answer # Failed =>
    LET rows == {row[1] : row \in answer}
    IN  /\ CASE spec.type = "topn_metric" ->
                  /\ rows \subseteq Population
                  /\ rows = Population \/ Cardinality(rows) = TopN
                  /\ \A a \in rows, b \in Population \ rows :
                       Table[a][shown.metrics[1]] >= Table[b][shown.metrics[1]]
             [] spec.post = "intersection_topn" ->
                  rows = {key \in Population : \A m \in MetricsOf(spec) :
                            Cardinality({b \in Population : Ahead(b, key, m)}) < TopN}
             [] spec.post = "above_industry_mean" ->
                  rows = {key \in Population : \A m \in MetricsOf(spec) :
                            FoldSet(LAMBDA b, sum : Table[key][m] - Table[b][m] + sum, 0,
                                    Population) > 0}
             [] OTHER -> rows = Population
        /\ \A row \in answer : {row[2]} \ {<< >>} = Expected(row[1])
        /\ spec.post = "ratio" => \A row \in answer : row[2][2] # 0
=============================================================================
