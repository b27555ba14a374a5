---------------------------- MODULE QueryAnswering ----------------------------
(***************************************************************************)
(* From a query specification to the rows of an answer: the WHERE clause   *)
(* and the trust joins of sql_planner.py, the row limit of safe_query.py,  *)
(* the operators of calculations.py and the evidence application.py wants  *)
(* of what they return; each either returns rows or raises, here the value *)
(* Failed.                                                                 *)
(*                                                                         *)
(* The table has, for a company, a period and a metric, the value of its   *)
(* trusted fact, if it has one.  Companies are ordered by their codes; a    *)
(* period is 10 * year + part, as _period_order_value has it, and the      *)
(* parts are Q1, Q2, Q3 and FY.                                            *)
(***************************************************************************)
EXTENDS Integers, SequencesExt

CONSTANTS
  Companies,   \* stock codes
  Years,       \* bound: the years a question can come to
  Metrics,
  Table,       \* the trusted values
  Untrusted,   \* no VALIDATED fact of a CURRENT source
  MaxRows,     \* max_rows of the executor
  TopN         \* top_n of a query

NoCompany == 0
Periods == {10 * y + part : y \in Years, part \in 1..4}

ASSUME QueryAssumption ==
  /\ Companies \subseteq Nat \ {0} /\ IsFiniteSet(Companies)
  /\ Years \subseteq Nat \ {0} /\ IsFiniteSet(Years)
  /\ Untrusted \notin Int
  /\ Table \in [Companies \X Periods -> [Metrics -> Int \cup {Untrusted}]]
  /\ MaxRows \in Nat \ {0} /\ TopN \in Nat \ {0}

AnalysisTypes == {"single_metric", "trend", "comparison", "topn_metric",
                  "intersection_topn", "filter"}
Operators == {"none", "ratio", "intersection_topn", "period_comparison", "above_industry_mean"}

\* Period 0 is an empty string.
QuerySpec ==
  [type : AnalysisTypes, metrics : Seq(Metrics) \ {<< >>}, company : Companies \cup {NoCompany},
   report : Periods \cup {0}, start : Periods \cup {0}, end : Periods \cup {0},
   periods : SUBSET Periods, positive : BOOLEAN, post : Operators]

Failed == {<<"failed">>}

-----------------------------------------------------------------------------
(* The query.                                                              *)

\* The metrics of select_fields: of a company's figures only the first.
Fields(spec) ==
  IF spec.type \in {"single_metric", "trend", "comparison"} THEN {spec.metrics[1]}
  ELSE {spec.metrics[i] : i \in DOMAIN spec.metrics}

PeriodMatches(spec, p) ==
  /\ spec.report # 0 => p = spec.report
  /\ spec.periods # {} => p \in spec.periods
  /\ spec.start # 0 => spec.start <= p
  /\ spec.end # 0 => p <= spec.end

\* What the WHERE clause leaves; an inner join with a trusted fact for each metric
\* selected.
Matching(spec) ==
  {key \in Companies \X Periods :
     /\ spec.company \in {NoCompany, key[1]}
     /\ PeriodMatches(spec, key[2])
     /\ \A m \in Fields(spec) : Table[key][m] # Untrusted
     /\ spec.positive => Table[key][spec.metrics[1]] > 0}

\* The rows in ORDER BY metric DESC ... LIMIT top_n, ties as the database likes.
Topmost(spec, keys) ==
  {top \in SUBSET keys :
     /\ Cardinality(top) = IF Cardinality(keys) < TopN THEN Cardinality(keys) ELSE TopN
     /\ \A a \in top, b \in keys \ top : Table[a][spec.metrics[1]] >= Table[b][spec.metrics[1]]}

Selections(spec) ==
  IF spec.type = "topn_metric" THEN Topmost(spec, Matching(spec)) ELSE {Matching(spec)}

\* Bug: the limit is the number of rows allowed.
FetchLimitOnly(rows) ==
  IF Cardinality(rows) <= MaxRows THEN {rows} ELSE kSubset(MaxRows, rows)

\* LIMIT max_rows + 1: what the database may return.
Fetch(rows) ==
  IF Cardinality(rows) <= MaxRows + 1 THEN {rows}
  ELSE kSubset(MaxRows + 1, rows)

-----------------------------------------------------------------------------
(* apply_post_compute.  A row of an answer is its key with what was         *)
(* calculated for it.                                                      *)

Plain(keys) == {<<key, << >> >> : key \in keys}

MetricsOf(spec) == {spec.metrics[i] : i \in DOMAIN spec.metrics}

\* A metric whose value the rows were not asked for raises.
HasFields(spec) == MetricsOf(spec) \subseteq Fields(spec)

Ratio(spec, keys) ==
  LET n == spec.metrics[Len(spec.metrics) - 1]
      d == spec.metrics[Len(spec.metrics)]
  IN  IF keys # {} /\ (~({n, d} \subseteq Fields(spec)) \/ \E key \in keys : Table[key][d] = 0)
        THEN Failed
      ELSE {<<key, <<Table[key][n], Table[key][d]>> >> : key \in keys}

\* A row for each of keys, sorted.
Sorted(keys, before(_, _)) ==
  CHOOSE rows \in [1..Cardinality(keys) -> keys] :
    \A i, j \in 1..Cardinality(keys) : i < j => before(rows[i], rows[j])

\* Companies by falling value, then by code; one row each.
Ranking(keys, m) ==
  Sorted(keys, LAMBDA a, b : \/ Table[a][m] > Table[b][m]
                             \/ Table[a][m] = Table[b][m] /\ a[1] < b[1])

IntersectionTopN(spec, keys) ==
  IF \/ Cardinality({key[1] : key \in keys}) < Cardinality(keys)
     \/ Len(spec.metrics) < 2
    THEN Failed
  ELSE LET ranked(m) == {Ranking(keys, m)[i] : i \in {j \in 1..TopN : j <= Cardinality(keys)}}
       IN  Plain({key \in keys : \A m \in MetricsOf(spec) : key \in ranked(m)})

\* Each row of the company with the value of the one before it.
PeriodComparison(spec, keys) ==
  IF keys # {} /\ ~HasFields(spec) THEN Failed
  ELSE LET rows == Sorted(keys, LAMBDA a, b : a[2] < b[2])
       IN  {<<rows[i], IF i = 1 THEN << >> ELSE <<Table[rows[i - 1]][spec.metrics[1]]>> >>
              : i \in DOMAIN rows}

Total(keys, m) == FoldSet(LAMBDA key, sum : Table[key][m] + sum, 0, keys)

AboveIndustryMean(spec, keys) ==
  IF keys = {} THEN Failed
  ELSE Plain({key \in keys : \A m \in MetricsOf(spec) :
                Table[key][m] * Cardinality(keys) > Total(keys, m)})

PostCompute(spec, keys) ==
  CASE spec.post = "none" -> Plain(keys)
    [] spec.post = "ratio" -> Ratio(spec, keys)
    [] spec.post = "intersection_topn" -> IntersectionTopN(spec, keys)
    [] spec.post = "period_comparison" -> PeriodComparison(spec, keys)
    [] spec.post = "above_industry_mean" -> AboveIndustryMean(spec, keys)

\* _validated_fact_sources: the fact of each figure is looked up once more, by the
\* company and the period of its row; the rows of a ranking or a filter do not have
\* a period, and take that of the query.
Evidenced(spec, answer) ==
  answer # {} =>
    /\ HasFields(spec)
    /\ spec.type \in {"single_metric", "trend", "comparison"} \/ spec.report # 0

Executed(rows) == Cardinality(rows) <= MaxRows

\* SafeQueryExecutor.execute, apply_post_compute and the evidence: what may come of
\* a query.
Outcomes(spec) ==
  LET fetched == UNION {Fetch(rows) : rows \in Selections(spec)}
      calculated == {PostCompute(spec, rows) : rows \in {f \in fetched : Executed(f)}}
  IN  {answer \in calculated : Evidenced(spec, answer)} \cup
      (IF \/ \E rows \in fetched : ~Executed(rows)
          \/ \E answer \in calculated : ~Evidenced(spec, answer)
         THEN {Failed} ELSE {})
=============================================================================
