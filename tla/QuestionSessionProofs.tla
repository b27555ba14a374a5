------------------------- MODULE QuestionSessionProofs -------------------------
(***************************************************************************)
(* Proofs about QuestionSession, for any companies, years, table and       *)
(* questions.                                                              *)
(*                                                                         *)
(* The slots of the session hold the reports that the user means: none,    *)
(* one, a list or a range (Holds).  Every way of dating a question keeps   *)
(* that (DatedHolds), so the query that is built matches the reports that  *)
(* were said (QueryMatchesMeant).                                          *)
(*                                                                         *)
(* What comes of a query is the whole of its result or refused             *)
(* (OutcomesAreWhole): a selection that is fetched and executed is all of  *)
(* it; a sorted sequence of rows has at each place the row with as many    *)
(* before it in the order (SortedPlaces); a sum over the rows exists and   *)
(* to be above the mean is to have more above the others than below them   *)
(* (MeanIsCompared).                                                       *)
(***************************************************************************)
EXTENDS QuestionSession, FiniteSetTheorems, WellFoundedInduction, TLAPS

-----------------------------------------------------------------------------
(* Periods.                                                                *)

LEMMA PeriodParts ==
  ASSUME NEW p \in Periods
  PROVE  /\ p \in Nat \ {0} /\ Year(p) \in Years
         /\ \E part \in 1..4 : p = 10 * Year(p) + part
<1>1. PICK y \in Years, part \in 1..4 : p = 10 * y + part
  BY DEF Periods
<1>2. y \in Nat \ {0}
  BY QueryAssumption
<1>3. Year(p) = y
  BY <1>1, <1>2 DEF Year
<1>4. QED
  BY <1>1, <1>2, <1>3

LEMMA PeriodOfYear ==
  ASSUME NEW y \in Years, NEW part \in 1..4
  PROVE  /\ 10 * y + part \in Periods /\ Year(10 * y + part) = y
         /\ 10 * y + part \in Nat \ {0}
<1>1. y \in Nat \ {0}
  BY QueryAssumption
<1>2. QED
  BY <1>1 DEF Periods, Year

\* The reports from a year on are those from its first quarter on.
LEMMA FromYear ==
  ASSUME NEW p \in Periods, NEW y \in Nat
  PROVE  Year(p) >= y <=> 10 * y + 1 <= p
<1>1. PICK part \in 1..4 : p = 10 * Year(p) + part
  BY PeriodParts
<1>2. Year(p) \in Nat
  BY PeriodParts, QueryAssumption
<1>3. QED
  BY <1>1, <1>2

LEMMA PeriodsFinite == IsFiniteSet(Periods) /\ IsFiniteSet(Companies \X Periods)
<1> DEFINE f == [x \in Years \X (1..4) |-> 10 * x[1] + x[2]]
<1>1. IsFiniteSet(Years \X (1..4))
  <2>1. IsFiniteSet(1..4)
    <3>1. \A a, b \in Int : IsFiniteSet(a..b)
      BY FS_Interval
    <3>2. 1 \in Int /\ 4 \in Int
      OBVIOUS
    <3>3. QED
      BY <3>1, <3>2, Zenon
  <2>2. IsFiniteSet(Years)
    BY QueryAssumption
  <2>3. QED
    BY <2>1, <2>2, FS_Product
<1>2. f \in Surjection(Years \X (1..4), Periods)
  <2>1. \A x \in Years \X (1..4) : f[x] \in Periods
    BY DEF Periods
  <2>2. ASSUME NEW p \in Periods PROVE \E x \in Years \X (1..4) : f[x] = p
    <3>1. PICK y \in Years, part \in 1..4 : p = 10 * y + part
      BY DEF Periods
    <3>2. <<y, part>> \in Years \X (1..4) /\ f[<<y, part>>] = p
      BY <3>1
    <3>3. QED
      BY <3>2
  <2>3. QED
    BY <2>1, <2>2 DEF Surjection
<1>3. IsFiniteSet(Periods)
  BY <1>1, <1>2, FS_Surjection
<1>4. QED
  BY <1>3, FS_Product, QueryAssumption

\* A finite set has no infinite descent of its subsets, so a finite set of numbers
\* that is not empty has bounds of its own.
LEMMA Bounded ==
  ASSUME NEW S, IsFiniteSet(S), S \subseteq Int, S # {}
  PROVE  /\ \E x \in S : \A y \in S : x >= y
         /\ \E x \in S : \A y \in S : x <= y
<1>1. IsWellFoundedOn(StrictSubsetOrdering(S), SUBSET S)
  BY FS_FiniteSubsetsOfFinite, FS_StrictSubsetOrderingWellFounded
<1> DEFINE Bad == {T \in SUBSET S : T # {} /\ ~ (/\ \E x \in T : \A y \in T : x >= y
                                                 /\ \E x \in T : \A y \in T : x <= y)}
<1>2. SUFFICES ASSUME Bad # {} PROVE FALSE
  OBVIOUS
<1>3. PICK T \in Bad : \A U \in Bad : ~(<<U, T>> \in StrictSubsetOrdering(S))
  <2> HIDE DEF Bad
  <2>1. Bad \subseteq SUBSET S
    BY DEF Bad
  <2>2. QED
    BY <1>1, <1>2, <2>1, WFMin
<1>4. PICK x \in T : TRUE
  OBVIOUS
<1> DEFINE U == T \ {x}
<1>5. <<U, T>> \in StrictSubsetOrdering(S)
  BY DEF StrictSubsetOrdering
<1>6. U \notin Bad /\ U \in SUBSET S
  BY <1>3, <1>5
<1>7. CASE U = {}
  <2>1. T = {x}
    BY <1>4, <1>7
  <2>2. QED
    BY <2>1
<1>8. CASE U # {}
  <2>1. /\ \E m \in U : \A y \in U : m >= y
        /\ \E m \in U : \A y \in U : m <= y
    BY <1>6, <1>8
  <2>2. PICK most \in U : \A y \in U : most >= y
    BY <2>1
  <2>3. PICK least \in U : \A y \in U : least <= y
    BY <2>1
  <2>4. T = U \cup {x} /\ T \subseteq Int
    BY <1>4
  <2>5. \E m \in T : \A y \in T : m >= y
    <3>1. CASE most >= x
      BY <2>2, <2>4, <3>1
    <3>2. CASE ~(most >= x)
      BY <2>2, <2>4, <3>2
    <3>3. QED
      BY <3>1, <3>2
  <2>6. \E m \in T : \A y \in T : m <= y
    <3>1. CASE least <= x
      BY <2>3, <2>4, <3>1
    <3>2. CASE ~(least <= x)
      BY <2>3, <2>4, <3>2
    <3>3. QED
      BY <3>1, <3>2
  <2>7. QED
    BY <2>5, <2>6
<1>9. QED
  BY <1>7, <1>8

LEMMA MaxMin ==
  ASSUME NEW R, R \subseteq Periods, R # {}
  PROVE  /\ Max(R) \in R /\ \A p \in R : p <= Max(R)
         /\ Min(R) \in R /\ \A p \in R : Min(R) <= p
<1>1. IsFiniteSet(R)
  BY PeriodsFinite, FS_Subset
<1>2. R \subseteq Int
  BY PeriodParts
<1>3. /\ \E x \in R : \A y \in R : x >= y
      /\ \E x \in R : \A y \in R : x <= y
  BY <1>1, <1>2, Bounded
<1>4. Max(R) \in R /\ \A p \in R : Max(R) >= p
  BY <1>3 DEF Max
<1>5. Min(R) \in R /\ \A p \in R : Min(R) <= p
  BY <1>3 DEF Min
<1>6. QED
  BY <1>2, <1>4, <1>5

LEMMA MaxIs ==
  ASSUME NEW R, R \subseteq Periods, NEW m \in R, \A p \in R : p <= m
  PROVE  Max(R) = m
<1>1. Max(R) \in R /\ m <= Max(R) /\ Max(R) <= m /\ m \in Nat /\ Max(R) \in Nat
  BY MaxMin, PeriodParts
<1>2. QED
  BY <1>1

LEMMA MinIs ==
  ASSUME NEW R, R \subseteq Periods, NEW m \in R, \A p \in R : m <= p
  PROVE  Min(R) = m
<1>1. Min(R) \in R /\ m <= Min(R) /\ Min(R) <= m /\ m \in Nat /\ Min(R) \in Nat
  BY MaxMin, PeriodParts
<1>2. QED
  BY <1>1

-----------------------------------------------------------------------------
(* Slots.                                                                  *)

\* The conjuncts of SessionTypeOK that are about slots.
WellFormed(s) ==
  /\ s \in Slots
  /\ s.report # 0 => s.start = 0 /\ s.end = 0
  /\ s.periods # {} => s.start = Min(s.periods) /\ s.end = Max(s.periods)
  /\ s.anchorless => s.report = 0 /\ s.end = 0

\* The slots hold the reports R: none, one, a list, or a range.
HoldsNone(s, R) == R = {} /\ s.report = 0 /\ s.start = 0 /\ s.end = 0 /\ s.periods = {}
HoldsOne(s, R) == s.report \in Periods /\ R = {s.report} /\ s.start = 0 /\ s.end = 0 /\ s.periods = {}
HoldsList(s, R) ==
  /\ R # {} /\ R \subseteq Periods /\ s.periods = R
  /\ s.report = 0 /\ s.start = Min(R) /\ s.end = Max(R)
HoldsRange(s, R) ==
  /\ s.report = 0 /\ s.periods = {}
  /\ s.start \in Periods /\ s.end \in Periods /\ s.start <= s.end
  /\ R = {p \in Periods : s.start <= p /\ p <= s.end}

Holds(s, R) == HoldsNone(s, R) \/ HoldsOne(s, R) \/ HoldsList(s, R) \/ HoldsRange(s, R)

\* A relative phrase is anchored at the latest of the reports held.
LEMMA AnchorIsLatest ==
  ASSUME NEW s, NEW R, Holds(s, R)
  PROVE  /\ R \subseteq Periods
         /\ R = {} => Anchor(s) = 0
         /\ R # {} => Anchor(s) = Max(R) /\ Anchor(s) \in Periods /\ Anchor(s) # 0
<1>1. CASE HoldsNone(s, R)
  BY <1>1 DEF HoldsNone, Anchor
<1>2. CASE HoldsOne(s, R)
  <2>1. R \subseteq Periods /\ s.report \in R /\ \A p \in R : p <= s.report
    BY <1>2, PeriodParts DEF HoldsOne
  <2>2. Max(R) = s.report
    BY <2>1, MaxIs
  <2>3. QED
    BY <1>2, <2>1, <2>2, PeriodParts DEF HoldsOne, Anchor
<1>3. CASE HoldsList(s, R)
  <2>1. Max(R) \in Periods
    BY <1>3, MaxMin DEF HoldsList
  <2>2. QED
    BY <1>3, <2>1, PeriodParts DEF HoldsList, Anchor
<1>4. CASE HoldsRange(s, R)
  <2>1. R \subseteq Periods /\ s.end \in R /\ \A p \in R : p <= s.end
    BY <1>4, PeriodParts DEF HoldsRange
  <2>2. Max(R) = s.end
    BY <2>1, MaxIs
  <2>3. QED
    BY <1>4, <2>1, <2>2, PeriodParts DEF HoldsRange, Anchor
<1>5. QED
  BY <1>1, <1>2, <1>3, <1>4 DEF Holds

\* What each way of dating a question does to the slots.
Redated(s, t) ==
  t.company = s.company /\ t.metrics = s.metrics /\ t.last = s.last

LEMMA WithReportHolds ==
  ASSUME NEW s, WellFormed(s), NEW p \in Periods
  PROVE  /\ WellFormed(WithReport(s, p)) /\ Holds(WithReport(s, p), {p})
         /\ Redated(s, WithReport(s, p))
<1> DEFINE t == WithReport(s, p)
<1>1. /\ t \in Slots /\ t.report = p /\ t.start = 0 /\ t.end = 0 /\ t.periods = {}
      /\ t.anchorless = FALSE /\ Redated(s, t)
  BY DEF WellFormed, WithReport, Slots, Redated
<1> HIDE DEF t
<1>2. WellFormed(t)
  BY <1>1 DEF WellFormed
<1>3. Holds(t, {p})
  BY <1>1 DEF Holds, HoldsOne
<1>4. QED
  BY <1>1, <1>2, <1>3 DEF t

LEMMA WithListedHolds ==
  ASSUME NEW s, WellFormed(s), NEW R, R \subseteq Periods, R # {}
  PROVE  /\ WellFormed(WithListed(s, R)) /\ Holds(WithListed(s, R), R)
         /\ Redated(s, WithListed(s, R))
<1> DEFINE t == WithListed(s, R)
<1>1. Min(R) \in Periods /\ Max(R) \in Periods
  BY MaxMin
<1>2. /\ t \in Slots /\ t.report = 0 /\ t.start = Min(R) /\ t.end = Max(R) /\ t.periods = R
      /\ t.anchorless = FALSE /\ Redated(s, t)
  BY <1>1 DEF WellFormed, WithListed, Slots, Redated
<1> HIDE DEF t
<1>3. WellFormed(t)
  BY <1>2 DEF WellFormed
<1>4. Holds(t, R)
  BY <1>2 DEF Holds, HoldsList
<1>5. QED
  BY <1>2, <1>3, <1>4 DEF t

LEMMA WithRangeHolds ==
  ASSUME NEW s, WellFormed(s), NEW from \in Periods, NEW to \in Periods, from <= to
  PROVE  /\ WellFormed(WithRange(s, from, to))
         /\ Holds(WithRange(s, from, to), {p \in Periods : from <= p /\ p <= to})
         /\ Redated(s, WithRange(s, from, to))
<1> DEFINE t == WithRange(s, from, to)
<1>1. /\ t \in Slots /\ t.report = 0 /\ t.start = from /\ t.end = to /\ t.periods = {}
      /\ t.anchorless = FALSE /\ Redated(s, t)
  BY DEF WellFormed, WithRange, Slots, Redated
<1> HIDE DEF t
<1>2. WellFormed(t)
  BY <1>1 DEF WellFormed
<1>3. Holds(t, {p \in Periods : from <= p /\ p <= to})
  BY <1>1 DEF Holds, HoldsRange
<1>4. QED
  BY <1>1, <1>2, <1>3 DEF t

\* A relative phrase stays within the years there are.
Reachable(s, phrase) ==
  phrase.kind \in Relative /\ Anchor(s) # 0 =>
    Year(Anchor(s)) - (IF phrase.kind = "three_years" THEN 2 ELSE 1) \in Years

LEMMA DatedHolds ==
  ASSUME NEW s, NEW R, WellFormed(s), Holds(s, R), NEW phrase \in Phrases, Reachable(s, phrase),
         phrase.kind = "listed" => phrase.periods # {},
         phrase.kind = "range" => 10 * phrase.from + 1 <= phrase.end
  PROVE  /\ WellFormed(Dated(s, phrase)) /\ Holds(Dated(s, phrase), SpokenOf(phrase, R))
         /\ Redated(s, Dated(s, phrase))
<1> DEFINE anchor == Anchor(s)
<1>0. /\ R \subseteq Periods
      /\ R = {} => anchor = 0
      /\ R # {} => anchor = Max(R) /\ anchor \in Periods /\ anchor # 0
  BY AnchorIsLatest
<1>1. CASE phrase.kind = "none"
  <2>1. Dated(s, phrase) = s /\ SpokenOf(phrase, R) = R
    BY <1>1 DEF Dated, SpokenOf, Relative
  <2>2. QED
    BY <2>1 DEF Redated
<1>2. CASE phrase.kind = "report"
  <2>1. phrase.period \in Periods
    BY <1>2 DEF Phrases
  <2>2. Dated(s, phrase) = WithReport(s, phrase.period) /\ SpokenOf(phrase, R) = {phrase.period}
    BY <1>2 DEF Dated, SpokenOf, Relative
  <2>3. QED
    BY <2>1, <2>2, WithReportHolds
<1>3. CASE phrase.kind = "listed"
  <2>1. phrase.periods \subseteq Periods /\ phrase.periods # {}
    BY <1>3 DEF Phrases
  <2>2. Dated(s, phrase) = WithListed(s, phrase.periods) /\ SpokenOf(phrase, R) = phrase.periods
    BY <1>3 DEF Dated, SpokenOf, Relative
  <2>3. QED
    BY <2>1, <2>2, WithListedHolds
<1>4. CASE phrase.kind = "range"
  <2>1. phrase.from \in Years /\ phrase.end \in Periods /\ 10 * phrase.from + 1 <= phrase.end
    BY <1>4 DEF Phrases
  <2>2. /\ Dated(s, phrase) = WithRange(s, 10 * phrase.from + 1, phrase.end)
        /\ SpokenOf(phrase, R) = {p \in Periods : Year(p) >= phrase.from /\ p <= phrase.end}
    BY <1>4 DEF Dated, SpokenOf, Relative
  <2>3. 10 * phrase.from + 1 \in Periods /\ phrase.from \in Nat
    BY <2>1, PeriodOfYear, QueryAssumption
  <2>4. SpokenOf(phrase, R) = {p \in Periods : 10 * phrase.from + 1 <= p /\ p <= phrase.end}
    <3>1. \A p \in Periods : Year(p) >= phrase.from <=> 10 * phrase.from + 1 <= p
      BY <2>3, FromYear
    <3>2. QED
      BY <2>2, <3>1
  <2> DEFINE from == 10 * phrase.from + 1
             to == phrase.end
  <2>5. from \in Periods /\ to \in Periods /\ from <= to
    BY <2>1, <2>3
  <2>6. /\ Dated(s, phrase) = WithRange(s, from, to)
        /\ SpokenOf(phrase, R) = {p \in Periods : from <= p /\ p <= to}
    BY <2>2, <2>4
  <2> HIDE DEF from, to
  <2>7. QED
    BY <2>5, <2>6, WithRangeHolds
<1>5. CASE phrase.kind \in Relative /\ R = {}
  <2>1. anchor = 0 /\ phrase.kind \notin {"none", "report", "listed", "range"}
    BY <1>0, <1>5 DEF Relative
  <2>2. Dated(s, phrase) = [s EXCEPT !.anchorless = TRUE] /\ SpokenOf(phrase, R) = {}
    BY <1>5, <2>1 DEF Dated, SpokenOf
  <2>3. HoldsNone(s, R)
    BY <1>5, PeriodParts DEF Holds, HoldsNone, HoldsOne, HoldsList, HoldsRange
  <2> DEFINE t == [s EXCEPT !.anchorless = TRUE]
  <2>4. /\ t \in Slots /\ t.report = s.report /\ t.start = s.start /\ t.end = s.end
        /\ t.periods = s.periods /\ Redated(s, t)
    BY DEF WellFormed, Slots, Redated
  <2> HIDE DEF t
  <2>5. WellFormed(t) /\ Holds(t, {})
    BY <2>3, <2>4 DEF WellFormed, Holds, HoldsNone
  <2>6. QED
    BY <2>2, <2>4, <2>5 DEF t
<1>6. CASE phrase.kind \in Relative /\ R # {}
  <2> DEFINE year == Year(anchor)
  <2>0. /\ anchor # 0 /\ anchor \in Periods /\ anchor = Latest(R)
        /\ phrase.kind \notin {"none", "report", "listed", "range"}
    BY <1>0, <1>6 DEF Relative, Latest
  <2>1. year \in Years /\ year \in Nat /\ anchor \in Nat
    BY <2>0, PeriodParts, QueryAssumption
  <2>2. CASE phrase.kind = "last_year"
    <3>1. /\ Dated(s, phrase) = WithReport(s, 10 * (year - 1) + 4)
          /\ SpokenOf(phrase, R) = {10 * (year - 1) + 4}
      BY <1>6, <2>0, <2>2 DEF Dated, SpokenOf, Relative
    <3>2. year - 1 \in Years
      BY <2>0, <2>2 DEF Reachable, Relative
    <3>3. 10 * (year - 1) + 4 \in Periods
      BY <3>2, PeriodOfYear
    <3>4. QED
      BY <3>1, <3>3, WithReportHolds
  <2>3. CASE phrase.kind = "three_years"
    <3>1. /\ Dated(s, phrase) = WithRange(s, 10 * (year - 2) + 1, anchor)
          /\ SpokenOf(phrase, R) = {p \in Periods : Year(p) >= year - 2 /\ p <= anchor}
      BY <1>6, <2>0, <2>3 DEF Dated, SpokenOf, Relative
    <3>2. year - 2 \in Years
      BY <2>0, <2>3 DEF Reachable, Relative
    <3>3. 10 * (year - 2) + 1 \in Periods /\ year - 2 \in Nat
      <4> DEFINE first == year - 2
      <4>1. first \in Years /\ 1 \in 1..4
        BY <3>2
      <4> HIDE DEF first
      <4>2. 10 * first + 1 \in Periods /\ first \in Nat
        BY <4>1, PeriodOfYear, QueryAssumption
      <4>3. QED
        BY <4>2 DEF first
    <3>4. 10 * (year - 2) + 1 <= anchor
      <4>1. PICK part \in 1..4 : anchor = 10 * year + part
        BY <2>0, PeriodParts
      <4> HIDE DEF year, anchor
      <4>2. QED
        BY <2>1, <4>1
    <3>5. SpokenOf(phrase, R) = {p \in Periods : 10 * (year - 2) + 1 <= p /\ p <= anchor}
      BY <3>1, <3>3, FromYear
    <3>6. QED
      BY <2>0, <3>1, <3>3, <3>4, <3>5, WithRangeHolds
  <2>4. CASE phrase.kind = "three_quarters"
    <3>1. /\ Dated(s, phrase) = WithReport(s, 10 * year + 3)
          /\ SpokenOf(phrase, R) = {10 * year + 3}
      BY <1>6, <2>0, <2>4 DEF Dated, SpokenOf, Relative
    <3>2. 10 * year + 3 \in Periods
      BY <2>1, PeriodOfYear
    <3>3. QED
      BY <3>1, <3>2, WithReportHolds
  <2>5. CASE phrase.kind = "half_year"
    <3>1. /\ Dated(s, phrase) = WithReport(s, 10 * year + 2)
          /\ SpokenOf(phrase, R) = {10 * year + 2}
      BY <1>6, <2>0, <2>5 DEF Dated, SpokenOf, Relative
    <3>2. 10 * year + 2 \in Periods
      BY <2>1, PeriodOfYear
    <3>3. QED
      BY <3>1, <3>2, WithReportHolds
  <2>6. QED
    BY <1>6, <2>2, <2>3, <2>4, <2>5 DEF Relative
<1>7. phrase.kind \in {"none", "report", "listed", "range"} \cup Relative
  BY DEF Phrases, Relative
<1>8. QED
  BY <1>1, <1>2, <1>3, <1>4, <1>5, <1>6, <1>7
-----------------------------------------------------------------------------
(* A turn.                                                                 *)

\* The slots know of the company, the metrics and the reports h.
Know(s, h) ==
  /\ WellFormed(s) /\ Holds(s, h.reports)
  /\ s.company = h.company /\ s.metrics = h.metrics

LEMMA EmptyKnowsNothing == Know(EmptySlots, NothingSaid) /\ NothingSaid \in Said
<1>1. EmptySlots \in Slots /\ NothingSaid \in Said
  BY DEF EmptySlots, Slots, NothingSaid, Said, NoCompany
<1>2. Holds(EmptySlots, NothingSaid.reports)
  BY DEF Holds, HoldsNone, EmptySlots, NothingSaid
<1>3. QED
  BY <1>1, <1>2 DEF Know, WellFormed, EmptySlots, NothingSaid

\* A company is a new topic when the slots have another.
LEMMA NamedKnows ==
  ASSUME NEW s, NEW h \in Said, Know(s, h), NEW company \in Companies \cup {NoCompany}
  PROVE  LET topic == IF company \in {NoCompany, h.company} \/ h.company = NoCompany
                        THEN h ELSE NothingSaid
             now == [topic EXCEPT !.company = IF company = NoCompany THEN h.company ELSE company]
         IN  /\ Know(Named(s, company), now) /\ now \in Said
             /\ Anchor(Named(s, company)) \in {0, Anchor(s)}
             /\ Named(s, company).last \in {s.last, NoSpec}
<1>0. s \in Slots /\ s.company = h.company
  BY DEF Know, WellFormed
<1>1. CASE company = NoCompany
  <2>1. [h EXCEPT !.company = h.company] = h
    BY DEF Said
  <2>2. QED
    BY <1>1, <2>1 DEF Named
<1>2. CASE company # NoCompany /\ h.company \in {NoCompany, company}
  <2> DEFINE t == [s EXCEPT !.company = company]
             now == [h EXCEPT !.company = company]
  <2>1. /\ t \in Slots /\ t.company = company /\ t.metrics = s.metrics /\ t.report = s.report
        /\ t.start = s.start /\ t.end = s.end /\ t.periods = s.periods
        /\ t.anchorless = s.anchorless /\ t.last = s.last
    BY <1>0 DEF Slots
  <2>2. /\ now \in Said /\ now.company = company /\ now.metrics = h.metrics
        /\ now.reports = h.reports
    BY DEF Said
  <2>3. Named(s, company) = t
    BY <1>0, <1>2 DEF Named
  <2> HIDE DEF t, now
  <2>4. Know(t, now) /\ Anchor(t) = Anchor(s)
    BY <2>1, <2>2 DEF Know, WellFormed, Holds, HoldsNone, HoldsOne, HoldsList, HoldsRange, Anchor
  <2>5. QED
    BY <1>2, <2>1, <2>2, <2>3, <2>4 DEF now
<1>3. CASE company # NoCompany /\ h.company \notin {NoCompany, company}
  <2> DEFINE t == [EmptySlots EXCEPT !.company = company]
             now == [NothingSaid EXCEPT !.company = company]
  <2>1. /\ t \in Slots /\ t.company = company /\ t.metrics = << >> /\ t.report = 0
        /\ t.start = 0 /\ t.end = 0 /\ t.periods = {} /\ t.anchorless = FALSE
        /\ t.last = NoSpec
    <3>1. EmptySlots \in Slots
      BY EmptyKnowsNothing DEF Know, WellFormed
    <3>2. t \in Slots /\ t.company = company
      BY <3>1 DEF Slots
    <3>3. /\ t.metrics = EmptySlots.metrics /\ t.report = EmptySlots.report
          /\ t.start = EmptySlots.start /\ t.end = EmptySlots.end
          /\ t.periods = EmptySlots.periods /\ t.anchorless = EmptySlots.anchorless
          /\ t.last = EmptySlots.last
      BY <3>1 DEF Slots
    <3>4. QED
      BY <3>2, <3>3 DEF EmptySlots
  <2>2. /\ now \in Said /\ now.company = company /\ now.metrics = << >> /\ now.reports = {}
    <3>1. NothingSaid \in Said
      BY EmptyKnowsNothing
    <3>2. /\ now \in Said /\ now.company = company
          /\ now.metrics = NothingSaid.metrics /\ now.reports = NothingSaid.reports
      BY <3>1 DEF Said
    <3>3. QED
      BY <3>2 DEF NothingSaid
  <2>3. Named(s, company) = t
    BY <1>0, <1>3 DEF Named
  <2> HIDE DEF t, now
  <2>4. Know(t, now) /\ Anchor(t) = 0
    BY <2>1, <2>2 DEF Know, WellFormed, Holds, HoldsNone, Anchor
  <2>5. QED
    BY <1>3, <2>1, <2>2, <2>3, <2>4 DEF now
<1>4. QED
  BY <1>1, <1>2, <1>3

LEMMA WithMetricsKnows ==
  ASSUME NEW s, NEW h \in Said, Know(s, h), NEW metrics \in Seq(Metrics)
  PROVE  LET now == [h EXCEPT !.metrics = IF metrics = << >> THEN h.metrics ELSE metrics]
         IN  /\ Know(WithMetrics(s, metrics), now) /\ now \in Said
             /\ Anchor(WithMetrics(s, metrics)) = Anchor(s)
             /\ WithMetrics(s, metrics).last = s.last
<1>1. CASE metrics = << >>
  <2>1. [h EXCEPT !.metrics = h.metrics] = h
    BY DEF Said
  <2>2. QED
    BY <1>1, <2>1 DEF WithMetrics
<1>2. CASE metrics # << >>
  <2> DEFINE t == [s EXCEPT !.metrics = metrics]
             now == [h EXCEPT !.metrics = metrics]
  <2>1. /\ t \in Slots /\ t.company = s.company /\ t.metrics = metrics /\ t.report = s.report
        /\ t.start = s.start /\ t.end = s.end /\ t.periods = s.periods
        /\ t.anchorless = s.anchorless /\ t.last = s.last
    BY DEF Know, WellFormed, Slots
  <2>2. /\ now \in Said /\ now.company = h.company /\ now.metrics = metrics
        /\ now.reports = h.reports
    BY DEF Said
  <2>3. WithMetrics(s, metrics) = t
    BY <1>2 DEF WithMetrics
  <2> HIDE DEF t, now
  <2>4. Know(t, now) /\ Anchor(t) = Anchor(s)
    BY <2>1, <2>2 DEF Know, WellFormed, Holds, HoldsNone, HoldsOne, HoldsList, HoldsRange, Anchor
  <2>5. QED
    BY <1>2, <2>1, <2>2, <2>3, <2>4 DEF now
<1>3. QED
  BY <1>1, <1>2

\* What was said, after a question (Heard), for any h said before it.
HeardAfter(h, q) ==
  LET topic == IF q.company \in {NoCompany, h.company} \/ h.company = NoCompany
                 THEN h ELSE NothingSaid
  IN  [company |-> IF q.company = NoCompany THEN h.company ELSE q.company,
       metrics |-> IF q.metrics = << >> THEN topic.metrics ELSE q.metrics,
       reports |-> SpokenOf(q.phrase, topic.reports)]

\* The slots understand a question as the user means it.
LEMMA UnderstoodKnows ==
  ASSUME NEW q \in Questions, NEW h \in Said, Know(slots, h), InReach(q)
  PROVE  /\ Know(Understood(q), HeardAfter(h, q)) /\ HeardAfter(h, q) \in Said
         /\ Understood(q).last \in {slots.last, NoSpec}
<1> DEFINE topic == IF q.company \in {NoCompany, h.company} \/ h.company = NoCompany
                      THEN h ELSE NothingSaid
           h1 == [topic EXCEPT !.company = IF q.company = NoCompany THEN h.company
                                             ELSE q.company]
           s1 == Named(slots, q.company)
           h2 == [h1 EXCEPT !.metrics = IF q.metrics = << >> THEN h1.metrics ELSE q.metrics]
           s2 == WithMetrics(s1, q.metrics)
           s3 == Dated(s2, q.phrase)
<1>1. /\ q.company \in Companies \cup {NoCompany} /\ q.metrics \in Seq(Metrics)
      /\ q.phrase \in Phrases
      /\ q.phrase.kind = "listed" => q.phrase.periods # {}
      /\ q.phrase.kind = "range" => 10 * q.phrase.from + 1 <= q.phrase.end
  BY QuestionAssumption DEF Question
<1>2. /\ Know(s1, h1) /\ h1 \in Said /\ Anchor(s1) \in {0, Anchor(slots)}
      /\ s1.last \in {slots.last, NoSpec}
  BY <1>1, NamedKnows
<1>3. Know(s2, h2) /\ h2 \in Said /\ Anchor(s2) = Anchor(s1) /\ s2.last = s1.last
  <2> HIDE DEF s1, h1
  <2>1. QED
    BY <1>1, <1>2, WithMetricsKnows
<1>4. Reachable(s2, q.phrase)
  BY <1>2, <1>3 DEF Reachable, InReach
<1>5. /\ WellFormed(s3) /\ Holds(s3, SpokenOf(q.phrase, h2.reports))
      /\ Redated(s2, s3)
  <2> HIDE DEF s2, h2
  <2>1. WellFormed(s2) /\ Holds(s2, h2.reports)
    BY <1>3 DEF Know
  <2>2. QED
    BY <1>1, <1>4, <2>1, DatedHolds
<1>6. topic \in Said
  BY EmptyKnowsNothing
<1>7. /\ h2.company = (IF q.company = NoCompany THEN h.company ELSE q.company)
      /\ h2.metrics = (IF q.metrics = << >> THEN topic.metrics ELSE q.metrics)
      /\ h2.reports = topic.reports
  <2> HIDE DEF topic
  <2>1. QED
    BY <1>6 DEF Said
<1>8. HeardAfter(h, q) = [company |-> h2.company, metrics |-> h2.metrics,
                          reports |-> SpokenOf(q.phrase, h2.reports)]
  BY <1>7 DEF HeardAfter
<1>9. Understood(q) = s3
  BY DEF Understood
<1> HIDE DEF h1, h2, s1, s2, s3
<1>10. SpokenOf(q.phrase, h2.reports) \subseteq Periods
  BY <1>5, AnchorIsLatest
<1>11. HeardAfter(h, q) \in Said
  BY <1>3, <1>8, <1>10 DEF Said
<1>12. Know(s3, HeardAfter(h, q))
  BY <1>3, <1>5, <1>8 DEF Know, Redated
<1>13. s3.last \in {slots.last, NoSpec}
  BY <1>2, <1>3, <1>5 DEF Redated
<1>14. QED
  BY <1>9, <1>11, <1>12, <1>13

-----------------------------------------------------------------------------
(* The query.                                                              *)

\* A query is about what was said.
Answers(query, h) ==
  /\ query.company = h.company
  /\ query.metrics = h.metrics
  /\ {p \in Periods : PeriodMatches(query, p)} = Meant(h.reports, query.type)

LEMMA TypeIsKnown ==
  ASSUME NEW q, NEW s
  PROVE  AnalysisType(q, s) \in AnalysisTypes
BY DEF AnalysisType, AnalysisTypes

LEMMA OperatorIsKnown ==
  ASSUME NEW type \in AnalysisTypes, NEW q, NEW s
  PROVE  Operator(type, q, s) \in Operators
<1>1. CASE type = "intersection_topn"
  BY <1>1 DEF Operator, Operators
<1>2. CASE type = "comparison"
  BY <1>2 DEF Operator, Operators
<1>3. CASE type = "filter" /\ q.cue = "above_mean" /\ Len(s.metrics) > 1
  BY <1>3 DEF Operator, Operators
<1>4. CASE ~(type = "filter" /\ q.cue = "above_mean" /\ Len(s.metrics) > 1) /\ type \notin {"intersection_topn", "comparison"}
  BY <1>4 DEF Operator, Operators
<1>5. QED
  BY <1>1, <1>2, <1>3, <1>4

LEMMA QueryIsTyped ==
  ASSUME NEW type \in AnalysisTypes, NEW q, NEW s, WellFormed(s), s.metrics # << >>
  PROVE  BuildQuerySpec(type, q, s) \in QuerySpec
<1>1. /\ s.metrics \in Seq(Metrics) \ {<< >>} /\ s.company \in Companies \cup {NoCompany}
      /\ s.report \in Periods \cup {0} /\ s.start \in Periods \cup {0}
      /\ s.end \in Periods \cup {0} /\ s.periods \in SUBSET Periods
  BY DEF WellFormed, Slots
<1>2. Operator(type, q, s) \in Operators
  BY OperatorIsKnown
<1>3. (type = "filter" /\ q.cue = "positive") \in BOOLEAN
  OBVIOUS
<1>4. QED
  BY <1>1, <1>2, <1>3 DEF BuildQuerySpec, QuerySpec

LEMMA QueryMatchesMeant ==
  ASSUME NEW type, NEW q, NEW s, NEW R, Holds(s, R)
  PROVE  {p \in Periods : PeriodMatches(BuildQuerySpec(type, q, s), p)} = Meant(R, type)
<1> DEFINE b == BuildQuerySpec(type, q, s)
<1>0. /\ b.report = s.report /\ b.start = s.start
      /\ b.end = (IF s.end # 0 THEN s.end ELSE s.report)
      /\ b.periods = (IF type = "comparison" THEN s.periods ELSE {})
  BY DEF BuildQuerySpec
<1>00. \A p \in Periods : p # 0 /\ p \in Nat
  BY PeriodParts
<1> HIDE DEF b
<1>1. CASE HoldsNone(s, R)
  BY <1>0, <1>1 DEF HoldsNone, PeriodMatches, Meant, b
<1>2. CASE HoldsOne(s, R)
  <2>1. Max(R) = s.report /\ Min(R) = s.report
    <3>1. R \subseteq Periods /\ s.report \in R /\ \A p \in R : p <= s.report /\ s.report <= p
      BY <1>2, <1>00 DEF HoldsOne
    <3>2. QED
      BY <3>1, MaxIs, MinIs
  <2>2. \A p \in Periods : PeriodMatches(b, p) <=> p = s.report
    BY <1>0, <1>00, <1>2 DEF HoldsOne, PeriodMatches
  <2>3. \A p \in Periods : Min(R) <= p /\ p <= Max(R) <=> p = s.report
    BY <1>00, <1>2, <2>1 DEF HoldsOne
  <2>4. QED
    BY <1>2, <2>2, <2>3 DEF HoldsOne, Meant, b
<1>3. CASE HoldsList(s, R)
  <2>1. /\ Max(R) \in Periods /\ Min(R) \in Periods
        /\ \A p \in R : Min(R) <= p /\ p <= Max(R)
    BY <1>3, MaxMin DEF HoldsList
  <2>2. \A p \in Periods : PeriodMatches(b, p) <=>
          (type = "comparison" => p \in R) /\ Min(R) <= p /\ p <= Max(R)
    BY <1>0, <1>00, <1>3, <2>1 DEF HoldsList, PeriodMatches
  <2>3. QED
    BY <1>3, <2>1, <2>2 DEF HoldsList, Meant, b
<1>4. CASE HoldsRange(s, R)
  <2>1. Max(R) = s.end /\ Min(R) = s.start /\ R # {}
    <3>1. /\ R \subseteq Periods /\ s.end \in R /\ s.start \in R
          /\ \A p \in R : p <= s.end /\ s.start <= p
      BY <1>00, <1>4 DEF HoldsRange
    <3>2. QED
      BY <3>1, MaxIs, MinIs
  <2>2. \A p \in Periods : PeriodMatches(b, p) <=> s.start <= p /\ p <= s.end
    BY <1>0, <1>00, <1>4 DEF HoldsRange, PeriodMatches
  <2>3. QED
    BY <1>4, <2>1, <2>2 DEF HoldsRange, Meant, b
<1>5. QED
  BY <1>1, <1>2, <1>3, <1>4 DEF Holds

LEMMA QueryAnswers ==
  ASSUME NEW type, NEW q, NEW s, NEW h, Know(s, h)
  PROVE  Answers(BuildQuerySpec(type, q, s), h)
<1>1. {p \in Periods : PeriodMatches(BuildQuerySpec(type, q, s), p)} = Meant(h.reports, type)
  BY QueryMatchesMeant DEF Know
<1>2. QED
  BY <1>1 DEF Answers, Know, BuildQuerySpec

-----------------------------------------------------------------------------
(* Sorting: R is the order, as a set of pairs.                             *)

Orders(R, S) ==
  /\ \A a \in S : <<a, a>> \notin R
  /\ \A a, b \in S : a # b => <<a, b>> \in R \/ <<b, a>> \in R
  /\ \A a, b, c \in S : <<a, b>> \in R /\ <<b, c>> \in R => <<a, c>> \in R

AheadOf(a, S, R) == {b \in S : <<b, a>> \in R}

InOrder(rows, S, R) ==
  /\ rows \in [1..Cardinality(S) -> S]
  /\ \A i, j \in 1..Cardinality(S) : i < j => <<rows[i], rows[j]>> \in R

LEMMA AheadGrows ==
  ASSUME NEW S, IsFiniteSet(S), NEW R, Orders(R, S), NEW a \in S, NEW b \in S, <<a, b>> \in R
  PROVE  Cardinality(AheadOf(a, S, R)) < Cardinality(AheadOf(b, S, R))
<1>1. AheadOf(b, S, R) \subseteq S /\ IsFiniteSet(AheadOf(b, S, R))
  BY FS_Subset DEF AheadOf
<1>2. AheadOf(a, S, R) \in SUBSET AheadOf(b, S, R)
  BY DEF AheadOf, Orders
<1>3. a \in AheadOf(b, S, R) /\ a \notin AheadOf(a, S, R)
  BY DEF AheadOf, Orders
<1>4. Cardinality(AheadOf(a, S, R)) # Cardinality(AheadOf(b, S, R))
  BY <1>1, <1>2, <1>3, FS_Subset
<1>5. Cardinality(AheadOf(a, S, R)) <= Cardinality(AheadOf(b, S, R))
  BY <1>1, <1>2, FS_Subset
<1>6. IsFiniteSet(AheadOf(a, S, R))
  BY <1>1, <1>2, FS_Subset
<1>7. Cardinality(AheadOf(a, S, R)) \in Nat /\ Cardinality(AheadOf(b, S, R)) \in Nat
  BY <1>1, <1>6, FS_CardinalityType
<1>8. QED
  BY <1>4, <1>5, <1>7

\* A finite set can be sorted: each member goes to the place after those ahead of it.
LEMMA SortedExists ==
  ASSUME NEW S, IsFiniteSet(S), NEW R, Orders(R, S)
  PROVE  \E rows : InOrder(rows, S, R)
<1> DEFINE n == Cardinality(S)
           place == [a \in S |-> Cardinality(AheadOf(a, S, R)) + 1]
           rows == [i \in 1..n |-> CHOOSE a \in S : place[a] = i]
<1>0. n \in Nat
  BY FS_CardinalityType
<1>1. \A a \in S : Cardinality(AheadOf(a, S, R)) \in Nat /\ Cardinality(AheadOf(a, S, R)) < n
  <2> SUFFICES ASSUME NEW a \in S
               PROVE  Cardinality(AheadOf(a, S, R)) \in Nat /\ Cardinality(AheadOf(a, S, R)) < n
    OBVIOUS
  <2>1. AheadOf(a, S, R) \in SUBSET S /\ a \notin AheadOf(a, S, R)
    BY DEF AheadOf, Orders
  <2>2. /\ IsFiniteSet(AheadOf(a, S, R)) /\ Cardinality(AheadOf(a, S, R)) <= n
        /\ Cardinality(AheadOf(a, S, R)) # n
    BY <2>1, FS_Subset
  <2>3. Cardinality(AheadOf(a, S, R)) \in Nat
    BY <2>2, FS_CardinalityType
  <2>4. QED
    BY <1>0, <2>2, <2>3
<1>2. place \in Injection(S, 1..n)
  <2>1. place \in [S -> 1..n]
    BY <1>0, <1>1
  <2>2. ASSUME NEW a \in S, NEW b \in S, a # b PROVE place[a] # place[b]
    <3>1. CASE <<a, b>> \in R
      BY <1>1, <3>1, AheadGrows
    <3>2. CASE <<b, a>> \in R
      BY <1>1, <3>2, AheadGrows
    <3>3. QED
      BY <2>2, <3>1, <3>2 DEF Orders
  <2>3. QED
    BY <2>1, <2>2 DEF Injection, IsInjective
<1>3. place \in Surjection(S, 1..n)
  <2> HIDE DEF place
  <2>1. IsFiniteSet(1..n) /\ Cardinality(1..n) = n
    <3>1. \A a, b \in Int : IsFiniteSet(a..b) /\ Cardinality(a..b) = IF a > b THEN 0 ELSE b - a + 1
      BY FS_Interval
    <3>2. 1 \in Int /\ n \in Int
      BY <1>0
    <3>3. QED
      BY <1>0, <3>1, <3>2
  <2>2. QED
    BY <1>2, <2>1, FS_Injection
<1>4. \A i \in 1..n : rows[i] \in S /\ place[rows[i]] = i
  <2>1. \A i \in 1..n : \E a \in S : place[a] = i
    <3> HIDE DEF place
    <3>1. QED
      BY <1>3 DEF Surjection
  <2>2. QED
    BY <2>1
<1>5. ASSUME NEW i \in 1..n, NEW j \in 1..n, i < j PROVE <<rows[i], rows[j]>> \in R
  <2> DEFINE a == rows[i]
             b == rows[j]
  <2>1. a \in S /\ b \in S /\ place[a] = i /\ place[b] = j
    BY <1>4
  <2> HIDE DEF a, b
  <2>2. Cardinality(AheadOf(a, S, R)) < Cardinality(AheadOf(b, S, R))
    BY <1>0, <1>1, <1>5, <2>1
  <2>3. <<b, a>> \notin R
    BY <1>1, <2>1, <2>2, AheadGrows
  <2>4. a # b
    BY <1>5, <2>1
  <2>5. <<a, b>> \in R
    BY <2>1, <2>3, <2>4 DEF Orders
  <2>6. QED
    BY <2>5 DEF a, b
<1>6. rows \in [1..n -> S]
  BY <1>4
<1>7. InOrder(rows, S, R)
  <2> HIDE DEF rows
  <2>1. QED
    BY <1>5, <1>6 DEF InOrder
<1>8. QED
  BY <1>7

RowsBefore(rows, i) == {rows[j] : j \in 1..(i - 1)}

\* What is ahead of a row of a sorted sequence are the rows before it.
LEMMA SortedPlaces ==
  ASSUME NEW S, IsFiniteSet(S), NEW R, Orders(R, S), NEW rows, InOrder(rows, S, R)
  PROVE  /\ S = {rows[i] : i \in 1..Cardinality(S)}
         /\ \A i \in 1..Cardinality(S) :
              /\ AheadOf(rows[i], S, R) = RowsBefore(rows, i)
              /\ Cardinality(AheadOf(rows[i], S, R)) = i - 1
<1> DEFINE n == Cardinality(S)
<1>0. n \in Nat
  BY FS_CardinalityType
<1>1. \A i, j \in 1..n : i < j => <<rows[i], rows[j]>> \in R /\ rows[i] # rows[j]
  BY DEF InOrder, Orders
<1>2. rows \in Injection(1..n, S)
  <2>1. ASSUME NEW i \in 1..n, NEW j \in 1..n, rows[i] = rows[j] PROVE i = j
    <3>1. ~(i < j) /\ ~(j < i)
      BY <1>1, <2>1
    <3>2. i \in Int /\ j \in Int
      BY <1>0
    <3>3. QED
      BY <3>1, <3>2
  <2>2. QED
    BY <2>1 DEF InOrder, Injection, IsInjective
<1>00. \A a, b \in Int : IsFiniteSet(a..b) /\ Cardinality(a..b) = IF a > b THEN 0 ELSE b - a + 1
  BY FS_Interval
<1>3. IsFiniteSet(1..n) /\ Cardinality(1..n) = n
  <2>1. 1 \in Int /\ n \in Int
    BY <1>0
  <2>2. QED
    BY <1>0, <1>00, <2>1
<1>4. rows \in Surjection(1..n, S)
  BY <1>2, <1>3, FS_Injection
<1>5. S = {rows[i] : i \in 1..n}
  BY <1>4 DEF Surjection
<1>6. ASSUME NEW i \in 1..n
      PROVE  /\ AheadOf(rows[i], S, R) = RowsBefore(rows, i)
             /\ Cardinality(AheadOf(rows[i], S, R)) = i - 1
  <2> DEFINE before == {rows[j] : j \in 1..(i - 1)}
  <2>0. 1..(i - 1) \subseteq 1..n /\ i - 1 \in Nat /\ i \in Nat /\ \A j \in 1..(i - 1) : j < i
    BY <1>0
  <2>1. before \subseteq AheadOf(rows[i], S, R)
    BY <1>1, <1>5, <2>0 DEF AheadOf
  <2>2. ASSUME NEW b \in AheadOf(rows[i], S, R) PROVE b \in before
    <3>1. b \in S /\ <<b, rows[i]>> \in R
      BY DEF AheadOf
    <3>2. PICK j \in 1..n : b = rows[j]
      BY <1>5, <3>1
    <3>3. rows[i] \in S /\ rows[j] \in S
      BY <1>5
    <3>4. j # i
      BY <3>1, <3>2, <3>3 DEF Orders
    <3>5. ~(i < j)
      BY <1>1, <3>1, <3>2, <3>3 DEF Orders
    <3>6. j \in 1..(i - 1)
      BY <1>0, <3>4, <3>5
    <3>7. QED
      BY <3>2, <3>6
  <2>3. AheadOf(rows[i], S, R) = before
    BY <2>1, <2>2
  <2> DEFINE first == [j \in 1..(i - 1) |-> rows[j]]
  <2>4. first \in Surjection(1..(i - 1), before)
    BY DEF Surjection
  <2>5. first \in Injection(1..(i - 1), before)
    <3>1. first \in [1..(i - 1) -> before]
      OBVIOUS
    <3>2. ASSUME NEW j \in 1..(i - 1), NEW k \in 1..(i - 1), first[j] = first[k] PROVE j = k
      <4>1. j \in 1..n /\ k \in 1..n /\ rows[j] = rows[k]
        BY <2>0, <3>2
      <4>2. QED
        BY <1>2, <4>1 DEF Injection, IsInjective
    <3>3. QED
      BY <3>1, <3>2 DEF Injection, IsInjective
  <2>6. IsFiniteSet(1..(i - 1)) /\ Cardinality(1..(i - 1)) = i - 1
    <3>1. 1 \in Int /\ i - 1 \in Int
      BY <2>0
    <3>2. /\ IsFiniteSet(1..(i - 1))
          /\ Cardinality(1..(i - 1)) = IF 1 > i - 1 THEN 0 ELSE (i - 1) - 1 + 1
      BY <1>00, <3>1
    <3>3. QED
      BY <2>0, <3>2
  <2> HIDE DEF before, first
  <2>7. Cardinality(before) = i - 1
    BY <2>4, <2>5, <2>6, FS_Surjection
  <2>8. QED
    BY <2>3, <2>7 DEF before, RowsBefore
<1>7. QED
  BY <1>5, <1>6

-----------------------------------------------------------------------------
(* Adding up.                                                              *)

Chosen(s) == CHOOSE x \in s : TRUE

\* sum adds up f, a member at a time, for the subsets in D.
AddsUp(sum, f, D) ==
  sum = [s \in D |-> IF s = {} THEN 0 ELSE f[Chosen(s)] + sum[s \ {Chosen(s)}]]

LEMMA AnyIsIn ==
  ASSUME NEW s, s # {}
  PROVE  Chosen(s) \in s
BY DEF Chosen

LEMMA AddsUpExists ==
  ASSUME NEW S, IsFiniteSet(S), NEW f
  PROVE  \E sum : AddsUp(sum, f, SUBSET S)
<1> DEFINE n == Cardinality(S)
           Upto(k) == {s \in SUBSET S : Cardinality(s) <= k}
           Bad == {k \in 0..n : ~\E sum : AddsUp(sum, f, Upto(k))}
<1>0. n \in Nat /\ \A s \in SUBSET S : IsFiniteSet(s) /\ Cardinality(s) \in Nat /\ Cardinality(s) <= n
  BY FS_CardinalityType, FS_Subset
<1>1. Bad = {}
  <2> SUFFICES ASSUME Bad # {} PROVE FALSE
    OBVIOUS
  <2>1. Bad \subseteq Int /\ IsFiniteSet(Bad)
    <3>1. 0 \in Int /\ n \in Int
      BY <1>0
    <3>2. IsFiniteSet(0..n)
      BY <3>1, FS_Interval
    <3>3. Bad \in SUBSET (0..n)
      OBVIOUS
    <3>4. QED
      BY <3>1, <3>2, <3>3, FS_Subset
  <2>2. PICK k \in Bad : \A j \in Bad : k <= j
    <3> HIDE DEF Bad
    <3>1. QED
      BY <2>1, Bounded
  <2>3. CASE k = 0
    <3> DEFINE none == [s \in Upto(0) |-> 0]
    <3>1. \A s \in Upto(0) : s = {}
      BY <1>0, FS_EmptySet
    <3>2. AddsUp(none, f, Upto(0))
      BY <3>1 DEF AddsUp
    <3>3. QED
      BY <2>3, <3>2
  <2>4. CASE k # 0
    <3>1. k - 1 \in 0..n /\ k - 1 \notin Bad /\ k \in Nat
      <4>1. k \in Nat /\ k - 1 \in 0..n
        BY <1>0, <2>4
      <4>2. k - 1 \notin Bad
        <5> HIDE DEF Bad
        <5>1. ~(k <= k - 1)
          BY <4>1
        <5>2. QED
          BY <2>2, <5>1
      <4>3. QED
        BY <4>1, <4>2
    <3>2. PICK g : AddsUp(g, f, Upto(k - 1))
      BY <3>1
    <3> DEFINE h == [s \in Upto(k) |-> IF s = {} THEN 0 ELSE f[Chosen(s)] + g[s \ {Chosen(s)}]]
    <3>3. ASSUME NEW s \in Upto(k), s # {}
          PROVE  s \ {Chosen(s)} \in Upto(k) /\ h[s \ {Chosen(s)}] = g[s \ {Chosen(s)}]
      <4> DEFINE t == s \ {Chosen(s)}
      <4>1. Cardinality(t) = Cardinality(s) - 1
        BY <1>0, <3>3, AnyIsIn, FS_RemoveElement
      <4>2. t \in Upto(k - 1) /\ t \in Upto(k)
        BY <1>0, <3>1, <4>1
      <4> HIDE DEF t
      <4>3. g[t] = IF t = {} THEN 0 ELSE f[Chosen(t)] + g[t \ {Chosen(t)}]
        <5> HIDE DEF Upto
        <5>1. QED
          BY <3>2, <4>2 DEF AddsUp
      <4>4. h[t] = IF t = {} THEN 0 ELSE f[Chosen(t)] + g[t \ {Chosen(t)}]
        <5> HIDE DEF Upto
        <5>1. QED
          BY <4>2
      <4>5. QED
        BY <4>2, <4>3, <4>4 DEF t
    <3>4. AddsUp(h, f, Upto(k))
      <4>1. \A s \in Upto(k) : (IF s = {} THEN 0 ELSE f[Chosen(s)] + g[s \ {Chosen(s)}]) =
                               (IF s = {} THEN 0 ELSE f[Chosen(s)] + h[s \ {Chosen(s)}])
        BY <3>3
      <4> HIDE DEF Upto
      <4>2. QED
        BY <4>1 DEF AddsUp
    <3>5. QED
      BY <3>4
  <2>5. QED
    BY <2>3, <2>4
<1>2. \E sum : AddsUp(sum, f, Upto(n))
  <2>1. n \in 0..n
    BY <1>0
  <2>2. QED
    BY <1>1, <2>1
<1>3. Upto(n) = SUBSET S
  BY <1>0
<1>4. QED
  BY <1>2, <1>3

-----------------------------------------------------------------------------
\* What a row has above each of the others, added up (AnswersAreWhole).
Excess(key, keys, m) ==
  FoldSet(LAMBDA b, sum : Table[key][m] - Table[b][m] + sum, 0, keys)

LEMMA TotalAddsUp ==
  ASSUME NEW keys, NEW m, IsFiniteSet(keys)
  PROVE  \E sum : AddsUp(sum, [b \in keys |-> Table[b][m]], SUBSET keys) /\ Total(keys, m) = sum[keys]
<1> DEFINE f == [b \in keys |-> Table[b][m]]
<1>1. ASSUME NEW s \in SUBSET keys, s # {} PROVE f[Chosen(s)] = Table[Chosen(s)][m]
  BY <1>1, AnyIsIn
<1>2. PICK g : AddsUp(g, f, SUBSET keys)
  <2> HIDE DEF f
  <2>1. QED
    BY AddsUpExists
<1>3. \A g0 : AddsUp(g0, f, SUBSET keys) <=>
        g0 = [s \in SUBSET keys |-> IF s = {} THEN 0 ELSE Table[Chosen(s)][m] + g0[s \ {Chosen(s)}]]
  <2> HIDE DEF f
  <2>1. QED
    BY <1>1 DEF AddsUp
<1>4. \E sum :
        /\ sum = [s \in SUBSET keys |-> IF s = {} THEN 0 ELSE Table[Chosen(s)][m] + sum[s \ {Chosen(s)}]]
        /\ Total(keys, m) = sum[keys]
  <2>1. \E sum : sum = [s \in SUBSET keys |->
                          IF s = {} THEN 0 ELSE Table[Chosen(s)][m] + sum[s \ {Chosen(s)}]]
    BY <1>2, <1>3
  <2>2. QED
    BY <2>1 DEF Total, FoldSet, MapThenFoldSet, Chosen
<1>5. QED
  BY <1>3, <1>4

LEMMA ExcessAddsUp ==
  ASSUME NEW keys, NEW m, IsFiniteSet(keys), NEW key
  PROVE  \E sum : /\ AddsUp(sum, [b \in keys |-> Table[key][m] - Table[b][m]], SUBSET keys)
                  /\ Excess(key, keys, m) = sum[keys]
<1> DEFINE f == [b \in keys |-> Table[key][m] - Table[b][m]]
<1>1. ASSUME NEW s \in SUBSET keys, s # {} PROVE f[Chosen(s)] = Table[key][m] - Table[Chosen(s)][m]
  BY <1>1, AnyIsIn
<1>2. PICK g : AddsUp(g, f, SUBSET keys)
  <2> HIDE DEF f
  <2>1. QED
    BY AddsUpExists
<1>3. \A g0 : AddsUp(g0, f, SUBSET keys) <=>
        g0 = [s \in SUBSET keys |->
                IF s = {} THEN 0 ELSE Table[key][m] - Table[Chosen(s)][m] + g0[s \ {Chosen(s)}]]
  <2> HIDE DEF f
  <2>1. QED
    BY <1>1 DEF AddsUp
<1>4. \E sum :
        /\ sum = [s \in SUBSET keys |->
                    IF s = {} THEN 0 ELSE Table[key][m] - Table[Chosen(s)][m] + sum[s \ {Chosen(s)}]]
        /\ Excess(key, keys, m) = sum[keys]
  <2>1. \E sum : sum = [s \in SUBSET keys |->
                   IF s = {} THEN 0 ELSE Table[key][m] - Table[Chosen(s)][m] + sum[s \ {Chosen(s)}]]
    BY <1>2, <1>3
  <2>2. QED
    BY <2>1 DEF Excess, FoldSet, MapThenFoldSet, Chosen
<1>5. QED
  BY <1>3, <1>4

\* To be above the mean is to have more above the others than below them.
LEMMA MeanIsCompared ==
  ASSUME NEW keys, IsFiniteSet(keys), NEW m, \A b \in keys : Table[b][m] \in Int, NEW key \in keys
  PROVE  Table[key][m] * Cardinality(keys) > Total(keys, m) <=> Excess(key, keys, m) > 0
<1> DEFINE a == Table[key][m]
           f == [b \in keys |-> Table[b][m]]
           d == [b \in keys |-> Table[key][m] - Table[b][m]]
<1>0. a \in Int /\ \A b \in keys : f[b] \in Int /\ d[b] = a - f[b]
  OBVIOUS
<1>1. PICK sum : AddsUp(sum, f, SUBSET keys) /\ Total(keys, m) = sum[keys]
  BY TotalAddsUp
<1>2. PICK dif : AddsUp(dif, d, SUBSET keys) /\ Excess(key, keys, m) = dif[keys]
  BY ExcessAddsUp
<1>3. \A s \in SUBSET keys : IsFiniteSet(s) /\ Cardinality(s) \in Nat
  BY FS_Subset, FS_CardinalityType
<1> DEFINE Right(s) == sum[s] \in Int /\ dif[s] = a * Cardinality(s) - sum[s]
           Bad == {s \in SUBSET keys : ~Right(s)}
<1> HIDE DEF a, f, d
<1>4. Bad = {}
  <2> SUFFICES ASSUME Bad # {} PROVE FALSE
    OBVIOUS
  <2>1. PICK s \in Bad : \A t \in Bad : ~(<<t, s>> \in StrictSubsetOrdering(keys))
    <3>1. IsWellFoundedOn(StrictSubsetOrdering(keys), SUBSET keys)
      BY FS_FiniteSubsetsOfFinite, FS_StrictSubsetOrderingWellFounded
    <3> HIDE DEF Bad
    <3>2. Bad \subseteq SUBSET keys
      BY DEF Bad
    <3>3. QED
      BY <3>1, <3>2, WFMin
  <2>2. /\ sum[s] = IF s = {} THEN 0 ELSE f[Chosen(s)] + sum[s \ {Chosen(s)}]
        /\ dif[s] = IF s = {} THEN 0 ELSE d[Chosen(s)] + dif[s \ {Chosen(s)}]
    <3>1. s \in SUBSET keys
      OBVIOUS
    <3> HIDE DEF Bad
    <3>2. QED
      BY <1>1, <1>2, <3>1 DEF AddsUp
  <2>3. CASE s = {}
    <3>1. sum[s] = 0 /\ dif[s] = 0 /\ Cardinality(s) = 0
      BY <2>2, <2>3, FS_EmptySet
    <3>2. Right(s)
      BY <1>0, <3>1
    <3>3. QED
      BY <3>2
  <2>4. CASE s # {}
    <3> DEFINE x == Chosen(s)
               t == s \ {x}
               c == Cardinality(t)
    <3>1. x \in s /\ x \in keys /\ t \in SUBSET keys
      BY <2>4, AnyIsIn
    <3>2. <<t, s>> \in StrictSubsetOrdering(keys)
      BY <3>1 DEF StrictSubsetOrdering
    <3>3. sum[t] \in Int /\ dif[t] = a * c - sum[t]
      BY <2>1, <3>1, <3>2
    <3>4. c \in Nat /\ Cardinality(s) = c + 1
      BY <1>3, <3>1, FS_RemoveElement
    <3>5. sum[s] = f[x] + sum[t] /\ dif[s] = (a - f[x]) + dif[t] /\ f[x] \in Int
      BY <1>0, <2>2, <2>4, <3>1
    <3> HIDE DEF x, t, c
    <3>6. a * (c + 1) = a * c + a /\ a * c \in Int
      BY <1>0, <3>4
    <3>7. Right(s)
      BY <1>0, <3>3, <3>4, <3>5, <3>6
    <3>8. QED
      BY <3>7
  <2>5. QED
    BY <2>3, <2>4
<1>5. Right(keys)
  BY <1>4
<1>6. a * Cardinality(keys) \in Int
  BY <1>0, <1>3
<1>7. a * Cardinality(keys) > Total(keys, m) <=> Excess(key, keys, m) > 0
  BY <1>1, <1>2, <1>5, <1>6
<1>8. QED
  BY <1>7 DEF a

-----------------------------------------------------------------------------
(* What comes of a query.                                                  *)

\* What _build_query_spec makes of a type.
Coherent(query) ==
  /\ query \in QuerySpec
  /\ query.type = "topn_metric" => query.post \in {"none", "ratio"}
  /\ query.post = "intersection_topn" => query.type = "intersection_topn"
  /\ query.post = "period_comparison" => query.type = "comparison" /\ query.company # NoCompany
  /\ query.post = "above_industry_mean" => query.type = "filter"

LEMMA FetchedIsAll ==
  ASSUME NEW keys, IsFiniteSet(keys), NEW rows \in Fetch(keys), Executed(rows)
  PROVE  rows = keys
<1>1. CASE Cardinality(keys) <= MaxRows + 1
  BY <1>1 DEF Fetch
<1>2. CASE ~(Cardinality(keys) <= MaxRows + 1)
  <2>1. Cardinality(rows) = MaxRows + 1
    BY <1>2 DEF Fetch, kSubset
  <2>2. QED
    BY <2>1, QueryAssumption DEF Executed
<1>3. QED
  BY <1>1, <1>2

LEMMA MatchingIsFinite ==
  ASSUME NEW query
  PROVE  IsFiniteSet(Matching(query)) /\ Matching(query) \subseteq Companies \X Periods
<1>1. Matching(query) \in SUBSET (Companies \X Periods)
  BY DEF Matching
<1>2. QED
  BY <1>1, PeriodsFinite, FS_Subset

\* An answer that was not refused is calculated from one whole selection.
LEMMA OutcomeOfSelection ==
  ASSUME NEW query, NEW result \in Outcomes(query), result # Failed
  PROVE  \E keys \in Selections(query) :
           /\ IsFiniteSet(keys) /\ keys \subseteq Matching(query)
           /\ result = PostCompute(query, keys) /\ Evidenced(query, result)
<1>0. PICK keys \in Selections(query) : \E rows \in Fetch(keys) :
        Executed(rows) /\ result = PostCompute(query, rows) /\ Evidenced(query, result)
  BY DEF Outcomes
<1>1. PICK rows \in Fetch(keys) :
        Executed(rows) /\ result = PostCompute(query, rows) /\ Evidenced(query, result)
  BY <1>0
<1>2. keys \in SUBSET Matching(query)
  BY DEF Selections, Topmost
<1>3. IsFiniteSet(keys)
  BY <1>2, MatchingIsFinite, FS_Subset
<1>4. rows = keys
  BY <1>1, <1>3, FetchedIsAll
<1>5. QED
  BY <1>1, <1>2, <1>3, <1>4

LEMMA RowsHaveValues ==
  ASSUME NEW query \in QuerySpec, NEW key \in Matching(query), NEW m \in Fields(query)
  PROVE  Table[key][m] \in Int
<1>1. m \in Metrics
  <2>1. query.metrics \in Seq(Metrics) /\ query.metrics # << >>
    BY DEF QuerySpec
  <2>2. \A i \in DOMAIN query.metrics : query.metrics[i] \in Metrics
    BY <2>1
  <2>3. 1 \in DOMAIN query.metrics
    BY <2>1
  <2>4. QED
    BY <2>2, <2>3 DEF Fields
<1>2. key \in Companies \X Periods /\ Table[key][m] # Untrusted
  BY DEF Matching
<1>3. QED
  BY <1>1, <1>2, QueryAssumption

-----------------------------------------------------------------------------
(* What is calculated.                                                     *)

\* Ahead, as the order of a ranking.
RankOrder(keys, m) == {pair \in keys \X keys : Ahead(pair[1], pair[2], m)}
DateOrder(keys) == {pair \in keys \X keys : pair[1][2] < pair[2][2]}

LEMMA CompaniesDiffer ==
  ASSUME NEW keys, IsFiniteSet(keys),
         ~(Cardinality({key[1] : key \in keys}) < Cardinality(keys))
  PROVE  \A a, b \in keys : a # b => a[1] # b[1]
<1> DEFINE f == [key \in keys |-> key[1]]
           T == {key[1] : key \in keys}
<1>1. f \in Surjection(keys, T)
  BY DEF Surjection
<1> HIDE DEF f, T
<1>2. IsFiniteSet(T) /\ Cardinality(T) <= Cardinality(keys)
  BY <1>1, FS_Surjection
<1>3. Cardinality(T) = Cardinality(keys)
  BY <1>2, FS_CardinalityType DEF T
<1>4. f \in Injection(keys, T)
  BY <1>1, <1>3, FS_Surjection
<1>5. QED
  BY <1>4 DEF f, Injection, IsInjective

LEMMA RankOrders ==
  ASSUME NEW keys, keys \subseteq Companies \X Periods, NEW m,
         \A key \in keys : Table[key][m] \in Int,
         \A a, b \in keys : a # b => a[1] # b[1]
  PROVE  Orders(RankOrder(keys, m), keys)
<1> DEFINE v == [key \in keys |-> Table[key][m]]
           c == [key \in keys |-> key[1]]
<1>1. \A a \in keys : v[a] \in Int /\ c[a] \in Nat
  BY QueryAssumption
<1>2. \A a, b \in keys : <<a, b>> \in RankOrder(keys, m) <=>
        v[a] > v[b] \/ (v[a] = v[b] /\ c[a] < c[b])
  BY DEF RankOrder, Ahead
<1>3. \A a, b \in keys : a # b => c[a] # c[b]
  OBVIOUS
<1> HIDE DEF v, c
<1>4. QED
  BY <1>1, <1>2, <1>3 DEF Orders

LEMMA DateOrders ==
  ASSUME NEW keys, keys \subseteq Companies \X Periods, \A a, b \in keys : a[1] = b[1]
  PROVE  Orders(DateOrder(keys), keys)
<1> DEFINE d == [key \in keys |-> key[2]]
<1>1. \A a \in keys : d[a] \in Nat /\ a = <<a[1], d[a]>>
  BY PeriodParts
<1>2. \A a, b \in keys : <<a, b>> \in DateOrder(keys) <=> d[a] < d[b]
  BY DEF DateOrder
<1>3. \A a, b \in keys : a # b => d[a] # d[b]
  BY <1>1
<1> HIDE DEF d
<1>4. QED
  BY <1>1, <1>2, <1>3 DEF Orders

LEMMA RankingIsInOrder ==
  ASSUME NEW keys, IsFiniteSet(keys), NEW m, Orders(RankOrder(keys, m), keys)
  PROVE  InOrder(Ranking(keys, m), keys, RankOrder(keys, m))
<1>1. PICK rows : InOrder(rows, keys, RankOrder(keys, m))
  BY SortedExists
<1>2. \A r : InOrder(r, keys, RankOrder(keys, m)) <=>
        /\ r \in [1..Cardinality(keys) -> keys]
        /\ \A i, j \in 1..Cardinality(keys) : i < j =>
             \/ Table[r[i]][m] > Table[r[j]][m]
             \/ Table[r[i]][m] = Table[r[j]][m] /\ r[i][1] < r[j][1]
  BY DEF InOrder, RankOrder, Ahead
<1>3. QED
  BY <1>1, <1>2 DEF Ranking, Sorted

\* The first TopN of a ranking are the rows with fewer than TopN ahead of them.
LEMMA RankedHaveFewAhead ==
  ASSUME NEW keys, IsFiniteSet(keys), NEW m, Orders(RankOrder(keys, m), keys), NEW key \in keys
  PROVE  key \in {Ranking(keys, m)[i] : i \in {j \in 1..TopN : j <= Cardinality(keys)}} <=>
         Cardinality({b \in keys : Ahead(b, key, m)}) < TopN
<1> DEFINE rows == Ranking(keys, m)
           R == RankOrder(keys, m)
           n == Cardinality(keys)
           ranked == {rows[i] : i \in {j \in 1..TopN : j <= n}}
<1>0. n \in Nat /\ TopN \in Nat \ {0}
  BY FS_CardinalityType, QueryAssumption
<1>1. InOrder(rows, keys, R)
  BY RankingIsInOrder
<1> HIDE DEF rows, R
<1>2. /\ keys = {rows[i] : i \in 1..n}
      /\ \A i \in 1..n : Cardinality(AheadOf(rows[i], keys, R)) = i - 1
  BY <1>1, SortedPlaces DEF R
<1>3. {b \in keys : Ahead(b, key, m)} = AheadOf(key, keys, R)
  BY DEF AheadOf, R, RankOrder
<1>4. ASSUME key \in ranked PROVE Cardinality(AheadOf(key, keys, R)) < TopN
  <2>1. PICK i \in 1..TopN : i <= n /\ key = rows[i]
    BY <1>4
  <2>2. i \in 1..n
    BY <1>0, <2>1
  <2>3. Cardinality(AheadOf(key, keys, R)) = i - 1
    BY <1>2, <2>1, <2>2
  <2>4. QED
    BY <1>0, <2>1, <2>3
<1>5. ASSUME Cardinality(AheadOf(key, keys, R)) < TopN PROVE key \in ranked
  <2>1. PICK i \in 1..n : key = rows[i]
    BY <1>2
  <2>2. i - 1 < TopN
    BY <1>2, <1>5, <2>1
  <2>3. i \in 1..TopN /\ i <= n
    BY <1>0, <2>2
  <2>4. QED
    BY <2>1, <2>3
<1>6. QED
  BY <1>3, <1>4, <1>5 DEF rows

\* A change is that to the latest report before.
LatestBefore(keys, key) ==
  LET before == {b \in keys : b[2] < key[2]}
  IN  {c \in before : \A d \in before : d[2] <= c[2]}

LEMMA ComparedInOrder ==
  ASSUME NEW keys, IsFiniteSet(keys), Orders(DateOrder(keys), keys)
  PROVE  LET rows == Sorted(keys, LAMBDA a, b : a[2] < b[2])
         IN  InOrder(rows, keys, DateOrder(keys))
<1>1. PICK rows : InOrder(rows, keys, DateOrder(keys))
  BY SortedExists
<1>2. \A r : InOrder(r, keys, DateOrder(keys)) <=>
        /\ r \in [1..Cardinality(keys) -> keys]
        /\ \A i, j \in 1..Cardinality(keys) : i < j => r[i][2] < r[j][2]
  BY DEF InOrder, DateOrder
<1>3. QED
  BY <1>1, <1>2 DEF Sorted

LEMMA RowBeforeIsLatest ==
  ASSUME NEW keys, IsFiniteSet(keys), keys \subseteq Companies \X Periods,
         Orders(DateOrder(keys), keys), NEW rows, InOrder(rows, keys, DateOrder(keys)),
         NEW i \in 1..Cardinality(keys)
  PROVE  LatestBefore(keys, rows[i]) = IF i = 1 THEN {} ELSE {rows[i - 1]}
<1> DEFINE n == Cardinality(keys)
           before == {b \in keys : b[2] < rows[i][2]}
<1>0. n \in Nat
  BY FS_CardinalityType
<1>1. /\ keys = {rows[j] : j \in 1..n}
      /\ AheadOf(rows[i], keys, DateOrder(keys)) = {rows[j] : j \in 1..(i - 1)}
  <2>1. /\ keys = {rows[j] : j \in 1..n}
        /\ AheadOf(rows[i], keys, DateOrder(keys)) = RowsBefore(rows, i)
    BY SortedPlaces
  <2>2. QED
    BY <2>1 DEF RowsBefore
<1>2. rows[i] \in keys
  BY <1>1
<1>3. before = {rows[j] : j \in 1..(i - 1)}
  BY <1>1, <1>2 DEF AheadOf, DateOrder
<1>4. CASE i = 1
  <2>1. before = {}
    BY <1>3, <1>4
  <2>2. QED
    BY <1>4, <2>1 DEF LatestBefore
<1>5. CASE i # 1
  <2>1. i - 1 \in 1..n /\ i - 1 \in 1..(i - 1)
    BY <1>0, <1>5
  <2>2. \A j \in 1..n : rows[j] \in keys /\ rows[j][2] \in Nat
    BY <1>1, PeriodParts
  <2>3. \A j, k \in 1..n : j < k => rows[j][2] < rows[k][2]
    BY DEF InOrder, DateOrder
  <2>4. \A j \in 1..(i - 1) : j \in 1..n /\ (j = i - 1 \/ j < i - 1)
    BY <1>0
  <2>5. \A j \in 1..(i - 1) : rows[j][2] <= rows[i - 1][2]
    BY <2>1, <2>2, <2>3, <2>4
  <2>6. \A j \in 1..(i - 1) : rows[i - 1][2] <= rows[j][2] => rows[j] = rows[i - 1]
    <3> SUFFICES ASSUME NEW j \in 1..(i - 1), rows[i - 1][2] <= rows[j][2], j # i - 1 PROVE FALSE
      OBVIOUS
    <3>1. rows[j][2] < rows[i - 1][2]
      BY <2>1, <2>3, <2>4
    <3>2. QED
      BY <2>1, <2>2, <2>4, <3>1
  <2> HIDE DEF before
  <2>7. {c \in before : \A d \in before : d[2] <= c[2]} = {rows[i - 1]}
    <3>1. rows[i - 1] \in before /\ \A d \in before : d[2] <= rows[i - 1][2]
      BY <1>3, <2>1, <2>5
    <3>2. ASSUME NEW c \in before, \A d \in before : d[2] <= c[2] PROVE c = rows[i - 1]
      BY <1>3, <2>6, <3>1, <3>2
    <3>3. QED
      BY <3>1, <3>2
  <2>8. QED
    BY <1>5, <2>7 DEF LatestBefore, before
<1>6. QED
  BY <1>4, <1>5

-----------------------------------------------------------------------------
(* AnswersAreWhole, for any query and the figures P it has to be given from. *)

ExpectedOf(query, P, key) ==
  CASE query.post = "period_comparison" ->
         {<<Table[b][query.metrics[1]]>> : b \in LatestBefore(P, key)}
    [] query.post = "ratio" ->
         {<<Table[key][query.metrics[Len(query.metrics) - 1]],
            Table[key][query.metrics[Len(query.metrics)]]>>}
    [] OTHER -> {}

WholeRanking(query, P, rows) ==
  /\ rows \subseteq P
  /\ rows = P \/ Cardinality(rows) = TopN
  /\ \A a \in rows, b \in P \ rows : Table[a][query.metrics[1]] >= Table[b][query.metrics[1]]

WholeIntersection(query, P, rows) ==
  rows = {key \in P : \A m \in MetricsOf(query) :
            Cardinality({b \in P : Ahead(b, key, m)}) < TopN}

WholeAboveMean(query, P, rows) ==
  rows = {key \in P : \A m \in MetricsOf(query) : Excess(key, P, m) > 0}

RowsAreWhole(query, P, rows) ==
  CASE query.type = "topn_metric" -> WholeRanking(query, P, rows)
    [] query.post = "intersection_topn" -> WholeIntersection(query, P, rows)
    [] query.post = "above_industry_mean" -> WholeAboveMean(query, P, rows)
    [] OTHER -> rows = P

Whole(query, P, result) ==
  /\ RowsAreWhole(query, P, {row[1] : row \in result})
  /\ \A row \in result : {row[2]} \ {<< >>} = ExpectedOf(query, P, row[1])
  /\ query.post = "ratio" => \A row \in result : row[2][2] # 0

LEMMA PlainRows ==
  ASSUME NEW keys
  PROVE  {row[1] : row \in Plain(keys)} = keys /\ \A row \in Plain(keys) : row[2] = << >>
<1>1. \A key \in keys : <<key, << >> >> \in Plain(keys) /\ <<key, << >> >>[1] = key
  BY DEF Plain
<1>2. \A row \in Plain(keys) : row[1] \in keys /\ row[2] = << >>
  BY DEF Plain
<1>3. QED
  BY <1>1, <1>2

LEMMA RatioRows ==
  ASSUME NEW query, NEW keys, Ratio(query, keys) # Failed
  PROVE  /\ {row[1] : row \in Ratio(query, keys)} = keys
         /\ \A row \in Ratio(query, keys) :
              /\ row[2] = <<Table[row[1]][query.metrics[Len(query.metrics) - 1]],
                            Table[row[1]][query.metrics[Len(query.metrics)]]>>
              /\ row[2][2] # 0
<1> DEFINE n == query.metrics[Len(query.metrics) - 1]
           d == query.metrics[Len(query.metrics)]
<1>1. /\ Ratio(query, keys) = {<<key, <<Table[key][n], Table[key][d]>> >> : key \in keys}
      /\ keys = {} \/ \A key \in keys : Table[key][d] # 0
  BY DEF Ratio
<1> HIDE DEF n, d
<1>2. \A row \in Ratio(query, keys) :
        /\ row[1] \in keys
        /\ row[2] = <<Table[row[1]][n], Table[row[1]][d]>> /\ row[2][2] # 0
  BY <1>1
<1>3. \A key \in keys : \E row \in Ratio(query, keys) : row[1] = key
  <2> DEFINE row(key) == <<key, <<Table[key][n], Table[key][d]>> >>
  <2>1. \A key \in keys : row(key) \in Ratio(query, keys) /\ row(key)[1] = key
    BY <1>1
  <2>2. QED
    BY <2>1
<1>4. {row[1] : row \in Ratio(query, keys)} = keys
  BY <1>2, <1>3
<1>5. QED
  BY <1>2, <1>4 DEF n, d

\* The rows a ranking selects.
LEMMA TopmostIsWhole ==
  ASSUME NEW query, NEW P, IsFiniteSet(P), NEW keys \in Topmost(query, P)
  PROVE  WholeRanking(query, P, keys)
<1>1. /\ keys \in SUBSET P
      /\ Cardinality(keys) = IF Cardinality(P) < TopN THEN Cardinality(P) ELSE TopN
      /\ \A a \in keys, b \in P \ keys : Table[a][query.metrics[1]] >= Table[b][query.metrics[1]]
  BY DEF Topmost
<1>2. Cardinality(keys) = Cardinality(P) => keys = P
  BY <1>1, FS_Subset
<1>3. QED
  BY <1>1, <1>2 DEF WholeRanking

LEMMA IntersectionIsWhole ==
  ASSUME NEW query, Coherent(query), query.post = "intersection_topn",
         IntersectionTopN(query, Matching(query)) # Failed
  PROVE  LET result == IntersectionTopN(query, Matching(query))
         IN  /\ WholeIntersection(query, Matching(query), {row[1] : row \in result})
             /\ \A row \in result : row[2] = << >>
<1> DEFINE P == Matching(query)
           ranked(m) == {Ranking(P, m)[i] : i \in {j \in 1..TopN : j <= Cardinality(P)}}
           top == {key \in P : \A m \in MetricsOf(query) : key \in ranked(m)}
<1>1. /\ IntersectionTopN(query, P) = Plain(top)
      /\ ~(Cardinality({key[1] : key \in P}) < Cardinality(P))
  BY DEF IntersectionTopN
<1>2. IsFiniteSet(P) /\ P \subseteq Companies \X Periods
  BY MatchingIsFinite
<1>3. \A a, b \in P : a # b => a[1] # b[1]
  <2> HIDE DEF P
  <2>1. QED
    BY <1>1, <1>2, CompaniesDiffer
<1>4. Fields(query) = MetricsOf(query) /\ query \in QuerySpec
  BY DEF Coherent, Fields, MetricsOf
<1>5. \A m \in MetricsOf(query), key \in P : Table[key][m] \in Int
  BY <1>4, RowsHaveValues
<1> HIDE DEF P
<1>6. ASSUME NEW m \in MetricsOf(query), NEW key \in P
      PROVE  key \in ranked(m) <=> Cardinality({b \in P : Ahead(b, key, m)}) < TopN
  <2>1. Orders(RankOrder(P, m), P)
    BY <1>2, <1>3, <1>5, RankOrders
  <2>2. QED
    BY <1>2, <2>1, RankedHaveFewAhead
<1> HIDE DEF ranked
<1>7. top = {key \in P : \A m \in MetricsOf(query) :
               Cardinality({b \in P : Ahead(b, key, m)}) < TopN}
  BY <1>6
<1> HIDE DEF top
<1>8. /\ {row[1] : row \in Plain(top)} = top
      /\ \A row \in Plain(top) : row[2] = << >>
  BY PlainRows
<1>9. QED
  BY <1>1, <1>7, <1>8 DEF WholeIntersection, P

LEMMA AboveMeanIsWhole ==
  ASSUME NEW query, Coherent(query), query.post = "above_industry_mean",
         AboveIndustryMean(query, Matching(query)) # Failed
  PROVE  LET result == AboveIndustryMean(query, Matching(query))
         IN  /\ WholeAboveMean(query, Matching(query), {row[1] : row \in result})
             /\ \A row \in result : row[2] = << >>
<1> DEFINE P == Matching(query)
           above == {key \in P : \A m \in MetricsOf(query) :
                       Table[key][m] * Cardinality(P) > Total(P, m)}
<1>1. AboveIndustryMean(query, P) = Plain(above)
  BY DEF AboveIndustryMean
<1>2. IsFiniteSet(P)
  BY MatchingIsFinite
<1>3. Fields(query) = MetricsOf(query) /\ query \in QuerySpec
  BY DEF Coherent, Fields, MetricsOf
<1>4. \A m \in MetricsOf(query), key \in P : Table[key][m] \in Int
  BY <1>3, RowsHaveValues
<1> HIDE DEF P
<1>5. \A m \in MetricsOf(query), key \in P :
        Table[key][m] * Cardinality(P) > Total(P, m) <=> Excess(key, P, m) > 0
  BY <1>2, <1>4, MeanIsCompared
<1>6. above = {key \in P : \A m \in MetricsOf(query) : Excess(key, P, m) > 0}
  BY <1>5
<1> HIDE DEF above
<1>7. /\ {row[1] : row \in Plain(above)} = above
      /\ \A row \in Plain(above) : row[2] = << >>
  BY PlainRows
<1>8. QED
  BY <1>1, <1>6, <1>7 DEF WholeAboveMean, P

LEMMA ComparisonIsWhole ==
  ASSUME NEW query, Coherent(query), query.post = "period_comparison",
         PeriodComparison(query, Matching(query)) # Failed
  PROVE  LET result == PeriodComparison(query, Matching(query))
         IN  /\ {row[1] : row \in result} = Matching(query)
             /\ \A row \in result :
                  {row[2]} \ {<< >>} =
                    {<<Table[b][query.metrics[1]]>> : b \in LatestBefore(Matching(query), row[1])}
<1> DEFINE P == Matching(query)
           n == Cardinality(P)
           rows == Sorted(P, LAMBDA a, b : a[2] < b[2])
           value(b) == <<Table[b][query.metrics[1]]>>
<1>1. PeriodComparison(query, P) =
        {<<rows[i], IF i = 1 THEN << >> ELSE value(rows[i - 1])>> : i \in DOMAIN rows}
  BY DEF PeriodComparison
<1>2. IsFiniteSet(P) /\ P \subseteq Companies \X Periods
  BY MatchingIsFinite
<1>3. \A a, b \in P : a[1] = b[1]
  BY DEF Coherent, Matching
<1>4. Orders(DateOrder(P), P)
  <2> HIDE DEF P
  <2>1. QED
    BY <1>2, <1>3, DateOrders
<1>5. InOrder(rows, P, DateOrder(P))
  <2> HIDE DEF P
  <2>1. QED
    BY <1>2, <1>4, ComparedInOrder
<1> HIDE DEF P, rows
<1>6. DOMAIN rows = 1..n
  BY <1>5 DEF InOrder
<1>7. P = {rows[i] : i \in 1..n}
  BY <1>2, <1>4, <1>5, SortedPlaces
<1>8. \A i \in 1..n : LatestBefore(P, rows[i]) = IF i = 1 THEN {} ELSE {rows[i - 1]}
  BY <1>2, <1>4, <1>5, RowBeforeIsLatest
<1>9. {row[1] : row \in PeriodComparison(query, P)} = P
  <2> DEFINE row(i) == <<rows[i], IF i = 1 THEN << >> ELSE value(rows[i - 1])>>
  <2>1. \A i \in 1..n : row(i) \in PeriodComparison(query, P) /\ row(i)[1] = rows[i]
    BY <1>1, <1>6
  <2>2. \A r \in PeriodComparison(query, P) : \E i \in 1..n : r[1] = rows[i]
    BY <1>1, <1>6
  <2> HIDE DEF row
  <2>3. QED
    BY <1>7, <2>1, <2>2
<1>10. ASSUME NEW row \in PeriodComparison(query, P)
       PROVE  {row[2]} \ {<< >>} = {value(b) : b \in LatestBefore(P, row[1])}
  <2>1. PICK i \in 1..n : row = <<rows[i], IF i = 1 THEN << >> ELSE value(rows[i - 1])>>
    BY <1>1, <1>6
  <2>2. row[1] = rows[i] /\ row[2] = IF i = 1 THEN << >> ELSE value(rows[i - 1])
    BY <2>1
  <2>3. CASE i = 1
    BY <1>8, <2>2, <2>3
  <2>4. CASE i # 1
    <3>1. value(rows[i - 1]) # << >>
      OBVIOUS
    <3>2. LatestBefore(P, row[1]) = {rows[i - 1]} /\ row[2] = value(rows[i - 1])
      BY <1>8, <2>2, <2>4
    <3>3. {value(b) : b \in {rows[i - 1]}} = {value(rows[i - 1])}
      OBVIOUS
    <3> HIDE DEF value
    <3>4. {row[2]} \ {<< >>} = {value(rows[i - 1])}
      BY <3>1, <3>2
    <3>5. QED
      BY <3>2, <3>3, <3>4
  <2>5. QED
    BY <2>3, <2>4
<1>11. QED
  BY <1>9, <1>10 DEF P

\* Whatever the table holds, an answer that is not refused is the whole of it.
LEMMA OutcomesAreWhole ==
  ASSUME NEW query, Coherent(query), NEW result \in Outcomes(query), result # Failed
  PROVE  Whole(query, Matching(query), result)
<1> DEFINE P == Matching(query)
           rows == {row[1] : row \in result}
<1>1. PICK keys \in Selections(query) :
        IsFiniteSet(keys) /\ keys \subseteq P /\ result = PostCompute(query, keys)
  BY OutcomeOfSelection
<1>2. query.post \in Operators
  BY DEF Coherent, QuerySpec
<1>3. IsFiniteSet(P)
  BY MatchingIsFinite
<1>4. query.type # "topn_metric" => keys = P
  BY DEF Selections
<1>5. query.type = "topn_metric" => WholeRanking(query, P, keys)
  <2>1. query.type = "topn_metric" => keys \in Topmost(query, P)
    BY DEF Selections
  <2> HIDE DEF P
  <2>2. QED
    BY <1>3, <2>1, TopmostIsWhole
<1>6. CASE query.post = "none"
  <2>1. result = Plain(keys)
    BY <1>1, <1>6 DEF PostCompute
  <2>2. rows = keys /\ \A row \in result : row[2] = << >>
    BY <2>1, PlainRows
  <2>3. \A row \in result : ExpectedOf(query, P, row[1]) = {}
    BY <1>6 DEF ExpectedOf
  <2>4. RowsAreWhole(query, P, rows)
    <3> HIDE DEF P, rows
    <3>1. QED
      BY <1>4, <1>5, <1>6, <2>2 DEF RowsAreWhole
  <2>5. QED
    BY <1>6, <2>2, <2>3, <2>4 DEF Whole
<1>7. CASE query.post = "ratio"
  <2> DEFINE value(key) == <<Table[key][query.metrics[Len(query.metrics) - 1]],
                             Table[key][query.metrics[Len(query.metrics)]]>>
  <2>1. result = Ratio(query, keys)
    BY <1>1, <1>7 DEF PostCompute
  <2>2. rows = keys /\ \A row \in result : row[2] = value(row[1]) /\ row[2][2] # 0
    BY <2>1, RatioRows
  <2>3. \A row \in result : ExpectedOf(query, P, row[1]) = {value(row[1])}
    BY <1>7 DEF ExpectedOf
  <2>4. \A key : value(key) # << >>
    OBVIOUS
  <2>5. RowsAreWhole(query, P, rows)
    <3> HIDE DEF P, rows
    <3>1. QED
      BY <1>4, <1>5, <1>7, <2>2 DEF RowsAreWhole
  <2> HIDE DEF value
  <2>6. QED
    BY <1>7, <2>2, <2>3, <2>4, <2>5 DEF Whole
<1>8. CASE query.post = "intersection_topn"
  <2>1. query.type = "intersection_topn" /\ keys = P
    BY <1>4, <1>8 DEF Coherent
  <2>2. result = IntersectionTopN(query, P)
    BY <1>1, <1>8, <2>1 DEF PostCompute
  <2>3. WholeIntersection(query, P, rows) /\ \A row \in result : row[2] = << >>
    BY <1>8, <2>2, IntersectionIsWhole
  <2>4. \A row \in result : ExpectedOf(query, P, row[1]) = {}
    BY <1>8 DEF ExpectedOf
  <2>5. RowsAreWhole(query, P, rows)
    <3> HIDE DEF P, rows
    <3>1. QED
      BY <1>8, <2>1, <2>3 DEF RowsAreWhole
  <2>6. QED
    BY <1>8, <2>3, <2>4, <2>5 DEF Whole
<1>9. CASE query.post = "period_comparison"
  <2>1. query.type = "comparison" /\ keys = P
    BY <1>4, <1>9 DEF Coherent
  <2>2. result = PeriodComparison(query, P)
    BY <1>1, <1>9, <2>1 DEF PostCompute
  <2>3. /\ rows = P
        /\ \A row \in result : {row[2]} \ {<< >>} =
             {<<Table[b][query.metrics[1]]>> : b \in LatestBefore(P, row[1])}
    BY <1>9, <2>2, ComparisonIsWhole
  <2>4. \A row \in result : ExpectedOf(query, P, row[1]) =
             {<<Table[b][query.metrics[1]]>> : b \in LatestBefore(P, row[1])}
    BY <1>9 DEF ExpectedOf
  <2>5. RowsAreWhole(query, P, rows)
    <3> HIDE DEF P, rows
    <3>1. QED
      BY <1>9, <2>1, <2>3 DEF RowsAreWhole
  <2>6. QED
    BY <1>9, <2>3, <2>4, <2>5 DEF Whole
<1>10. CASE query.post = "above_industry_mean"
  <2>1. query.type = "filter" /\ keys = P
    BY <1>4, <1>10 DEF Coherent
  <2>2. result = AboveIndustryMean(query, P)
    BY <1>1, <1>10, <2>1 DEF PostCompute
  <2>3. WholeAboveMean(query, P, rows) /\ \A row \in result : row[2] = << >>
    BY <1>10, <2>2, AboveMeanIsWhole
  <2>4. \A row \in result : ExpectedOf(query, P, row[1]) = {}
    BY <1>10 DEF ExpectedOf
  <2>5. RowsAreWhole(query, P, rows)
    <3> HIDE DEF P, rows
    <3>1. QED
      BY <1>10, <2>1, <2>3 DEF RowsAreWhole
  <2>6. QED
    BY <1>10, <2>3, <2>4, <2>5 DEF Whole
<1>11. QED
  BY <1>2, <1>6, <1>7, <1>8, <1>9, <1>10 DEF Operators

-----------------------------------------------------------------------------
(* The session.                                                            *)

\* The slots by themselves, whatever the questions that ask for a chart say.
SlotsInv ==
  /\ WellFormed(slots) /\ \E R : Holds(slots, R)
  /\ slots.last # NoSpec => Coherent(slots.last)
  /\ spec # NoSpec => Coherent(spec) /\ answer \in Outcomes(spec)

LEMMA QueryIsCoherent ==
  ASSUME NEW q, NEW s, WellFormed(s), ~Unclear(AnalysisType(q, s), s)
  PROVE  Coherent(BuildQuerySpec(AnalysisType(q, s), q, s))
<1> DEFINE type == AnalysisType(q, s)
           b == BuildQuerySpec(type, q, s)
<1>1. type \in AnalysisTypes
  BY TypeIsKnown
<1>2. s.metrics # << >> /\ (type = "comparison" => s.company # NoCompany)
  BY DEF Unclear
<1> HIDE DEF type
<1>3. b \in QuerySpec
  BY <1>1, <1>2, QueryIsTyped
<1>4. b.type = type /\ b.company = s.company /\ b.post = Operator(type, q, s)
  BY DEF BuildQuerySpec
<1>5. /\ type = "topn_metric" => b.post \in {"none", "ratio"}
      /\ b.post = "intersection_topn" => type = "intersection_topn"
      /\ b.post = "period_comparison" => type = "comparison"
      /\ b.post = "above_industry_mean" => type = "filter"
  <2>1. CASE type = "intersection_topn"
    BY <1>4, <2>1 DEF Operator
  <2>2. CASE type = "comparison"
    BY <1>4, <2>2 DEF Operator
  <2>3. CASE type = "filter" /\ q.cue = "above_mean" /\ Len(s.metrics) > 1
    BY <1>4, <2>3 DEF Operator
  <2>4. CASE /\ type \notin {"intersection_topn", "comparison"}
             /\ ~(type = "filter" /\ q.cue = "above_mean" /\ Len(s.metrics) > 1)
    <3>1. b.post \in {"none", "ratio"}
      BY <1>4, <2>4 DEF Operator
    <3>2. QED
      BY <3>1
  <2>5. QED
    BY <2>1, <2>2, <2>3, <2>4
<1>6. QED
  BY <1>2, <1>3, <1>4, <1>5 DEF Coherent, type

LEMMA QueryKeepsSlots ==
  ASSUME NEW s, NEW h, Know(s, h), NEW query \in QuerySpec
  PROVE  Know([s EXCEPT !.last = query], h) /\ [s EXCEPT !.last = query].last = query
<1> DEFINE t == [s EXCEPT !.last = query]
<1>1. /\ t \in Slots /\ t.company = s.company /\ t.metrics = s.metrics /\ t.report = s.report
      /\ t.start = s.start /\ t.end = s.end /\ t.periods = s.periods
      /\ t.anchorless = s.anchorless /\ t.last = query
  BY DEF Know, WellFormed, Slots
<1> HIDE DEF t
<1>2. Know(t, h)
  BY <1>1 DEF Know, WellFormed, Holds, HoldsNone, HoldsOne, HoldsList, HoldsRange
<1>3. QED
  BY <1>1, <1>2 DEF t

LEMMA SlotsInvInit == Init => SlotsInv
<1>1. WellFormed(EmptySlots) /\ Holds(EmptySlots, NothingSaid.reports)
  BY EmptyKnowsNothing DEF Know
<1>2. EmptySlots.last = NoSpec
  BY DEF EmptySlots
<1>3. QED
  BY <1>1, <1>2 DEF Init, SlotsInv

LEMMA SlotsInvNext == SlotsInv /\ [Next]_vars => SlotsInv'
<1> SUFFICES ASSUME SlotsInv, [Next]_vars PROVE SlotsInv'
  OBVIOUS
<1>0. PICK R : Holds(slots, R)
  BY DEF SlotsInv
<1> DEFINE h == [company |-> slots.company, metrics |-> slots.metrics, reports |-> R]
<1>1. h \in Said /\ Know(slots, h)
  <2>1. R \subseteq Periods
    BY <1>0, AnchorIsLatest
  <2>2. QED
    BY <1>0, <2>1 DEF SlotsInv, WellFormed, Slots, Said, Know
<1> HIDE DEF h
<1>2. ASSUME NEW q \in Questions, Draw(q) PROVE SlotsInv'
  BY <1>2 DEF Draw, SlotsInv
<1>3. ASSUME NEW q \in Questions, Clarify(q) PROVE SlotsInv'
  <2>1. Know(Understood(q), HeardAfter(h, q)) /\ Understood(q).last \in {slots.last, NoSpec}
    BY <1>1, <1>3, UnderstoodKnows DEF Clarify
  <2>2. slots' = Understood(q) /\ spec' = NoSpec
    BY <1>3 DEF Clarify
  <2>3. QED
    BY <2>1, <2>2 DEF SlotsInv, Know
<1>4. ASSUME NEW q \in Questions, Query(q) PROVE SlotsInv'
  <2> DEFINE s == Understood(q)
  <2>1. Know(s, HeardAfter(h, q))
    BY <1>1, <1>4, UnderstoodKnows DEF Query
  <2>2. /\ ~Unclear(AnalysisType(q, s), s) /\ spec' = BuildQuerySpec(AnalysisType(q, s), q, s)
        /\ slots' = [s EXCEPT !.last = spec'] /\ answer' \in Outcomes(spec')
    BY <1>4 DEF Query
  <2> HIDE DEF s
  <2>3. Coherent(spec')
    BY <2>1, <2>2, QueryIsCoherent DEF Know
  <2>4. Know(slots', HeardAfter(h, q)) /\ slots'.last = spec'
    BY <2>1, <2>2, <2>3, QueryKeepsSlots DEF Coherent
  <2>5. QED
    BY <2>2, <2>3, <2>4 DEF SlotsInv, Know
<1>5. CASE UNCHANGED vars
  BY <1>5 DEF vars, SlotsInv
<1>6. QED
  BY <1>2, <1>3, <1>4, <1>5 DEF Next

\* Whatever is asked, the slots stay well formed: a period and a range exclude each
\* other, a list keeps its bounds, and the reports they hold are none, one, a list or
\* a range that is not empty (resolve_periods and the assignments of analyze_turn);
\* and what was answered came of the query of the turn, which is one that
\* _build_query_spec builds.
THEOREM SlotsAreWellFormed == Spec => []SlotsInv
BY SlotsInvInit, SlotsInvNext, PTL DEF Spec

\* An answer that is not refused is the whole result of the turn's query, for any
\* table and any questions (SafeQueryExecutor.execute and apply_post_compute).
THEOREM AnswersAreTheWholeResult ==
  Spec => [](spec # NoSpec /\ answer # Failed => Whole(spec, Matching(spec), answer))
<1>1. SlotsInv => (spec # NoSpec /\ answer # Failed => Whole(spec, Matching(spec), answer))
  BY OutcomesAreWhole DEF SlotsInv
<1>2. QED
  BY <1>1, SlotsAreWellFormed, PTL

\* A chart that is asked for with something else in the question redraws the last
\* answer all the same; what is said below is about sessions without such a question.
DrawsNameNothing == \A q \in Questions : q.draw => NamesNothing(q)

SessionInv ==
  /\ said \in Said /\ shown \in Said /\ Know(slots, said)
  /\ spec \in QuerySpec \cup {NoSpec}
  /\ spec # NoSpec => Answers(spec, shown)
  /\ slots.last # NoSpec => Answers(slots.last, shown)

LEMMA SessionInvInit == Init => SessionInv
BY EmptyKnowsNothing DEF Init, SessionInv, EmptySlots

LEMMA SessionInvNext ==
  ASSUME DrawsNameNothing
  PROVE  SessionInv /\ [Next]_vars => SessionInv'
<1> SUFFICES ASSUME SessionInv, [Next]_vars PROVE SessionInv'
  OBVIOUS
<1>1. \A q : Heard(q) = HeardAfter(said, q)
  BY DEF Heard, HeardAfter
<1>2. ASSUME NEW q \in Questions, Draw(q) PROVE SessionInv'
  <2>1. NamesNothing(q)
    BY <1>2 DEF DrawsNameNothing, Draw
  <2>2. spec' = slots.last /\ slots.last # NoSpec /\ UNCHANGED <<slots, said, shown>>
    BY <1>2, <2>1 DEF Draw
  <2>3. slots.last \in QuerySpec \cup {NoSpec}
    BY DEF SessionInv, Know, WellFormed, Slots
  <2>4. QED
    BY <2>2, <2>3 DEF SessionInv
<1>3. ASSUME NEW q \in Questions, Clarify(q) PROVE SessionInv'
  <2>1. /\ Know(Understood(q), Heard(q)) /\ Heard(q) \in Said
        /\ Understood(q).last \in {slots.last, NoSpec}
    BY <1>1, <1>3, UnderstoodKnows DEF Clarify, SessionInv
  <2>2. slots' = Understood(q) /\ spec' = NoSpec /\ said' = Heard(q) /\ shown' = shown
    BY <1>3 DEF Clarify
  <2>3. QED
    BY <2>1, <2>2 DEF SessionInv
<1>4. ASSUME NEW q \in Questions, Query(q) PROVE SessionInv'
  <2> DEFINE s == Understood(q)
             type == AnalysisType(q, s)
  <2>1. Know(s, Heard(q)) /\ Heard(q) \in Said
    BY <1>1, <1>4, UnderstoodKnows DEF Query, SessionInv
  <2>2. /\ ~Unclear(type, s) /\ spec' = BuildQuerySpec(type, q, s)
        /\ slots' = [s EXCEPT !.last = spec'] /\ said' = Heard(q) /\ shown' = Heard(q)
    BY <1>4 DEF Query
  <2>3. type \in AnalysisTypes /\ s.metrics # << >>
    BY <2>2, TypeIsKnown DEF Unclear
  <2> HIDE DEF s, type
  <2>4. spec' \in QuerySpec
    BY <2>1, <2>2, <2>3, QueryIsTyped DEF Know
  <2>5. Know(slots', said') /\ slots'.last = spec'
    BY <2>1, <2>2, <2>4, QueryKeepsSlots
  <2>6. Answers(spec', shown')
    BY <2>1, <2>2, QueryAnswers
  <2>7. QED
    BY <2>1, <2>2, <2>4, <2>5, <2>6 DEF SessionInv
<1>5. CASE UNCHANGED vars
  BY <1>5 DEF vars, SessionInv
<1>6. QED
  BY <1>2, <1>3, <1>4, <1>5 DEF Next

LEMMA SessionInvHolds == DrawsNameNothing => (Spec => []SessionInv)
<1> SUFFICES ASSUME DrawsNameNothing PROVE Spec => []SessionInv
  OBVIOUS
<1>1. SessionInv /\ [Next]_vars => SessionInv'
  BY SessionInvNext
<1>2. QED
  BY SessionInvInit, <1>1, PTL DEF Spec

\* SessionTypeOK.
THEOREM SessionIsTyped == DrawsNameNothing => (Spec => []SessionTypeOK)
<1>1. SessionInv => SessionTypeOK
  BY DEF SessionInv, SessionTypeOK, Know, WellFormed
<1>2. QED
  BY <1>1, SessionInvHolds, PTL

\* A query is about the company, the metrics and exactly the reports that were said.
THEOREM QueriesAreAboutWhatWasSaid == DrawsNameNothing => (Spec => []AnswersWhatWasSaid)
<1>1. SessionInv => AnswersWhatWasSaid
  BY DEF SessionInv, AnswersWhatWasSaid, Answers
<1>2. QED
  BY <1>1, SessionInvHolds, PTL

\* The figures the answer has to be given from are what the query matches.
LEMMA PopulationIsMatching ==
  ASSUME spec \in QuerySpec, Answers(spec, shown)
  PROVE  Population = Matching(spec)
<1>1. Meant(shown.reports, spec.type) = {p \in Periods : PeriodMatches(spec, p)}
  BY DEF Answers
<1>2. shown.company = spec.company /\ shown.metrics = spec.metrics
  BY DEF Answers
<1>3. \A key : key \in Companies \X Meant(shown.reports, spec.type) <=>
               key \in Companies \X Periods /\ PeriodMatches(spec, key[2])
  BY <1>1
<1>4. QED
  BY <1>2, <1>3 DEF Population, Matching

LEMMA WholeMeansAnswersAreWhole ==
  ASSUME Answers(spec, shown), Whole(spec, Population, answer)
  PROVE  AnswersAreWhole
<1>1. shown.metrics = spec.metrics
  BY DEF Answers
<1>2. \A key : Expected(key) = ExpectedOf(spec, Population, key)
  BY DEF Expected, ExpectedOf, LatestBefore
<1> DEFINE rows == {row[1] : row \in answer}
<1>3. RowsAreWhole(spec, Population, rows) =
        CASE spec.type = "topn_metric" ->
               /\ rows \subseteq Population
               /\ rows = Population \/ Cardinality(rows) = TopN
               /\ \A a \in rows, b \in Population \ rows :
                    Table[a][shown.metrics[1]] >= Table[b][shown.metrics[1]]
          [] spec.post = "intersection_topn" ->
               rows = {key \in Population : \A m \in MetricsOf(spec) :
                         Cardinality({b \in Population : Ahead(b, key, m)}) < TopN}
          [] spec.post = "above_industry_mean" ->
               rows = {key \in Population : \A m \in MetricsOf(spec) :
                         FoldSet(LAMBDA b, sum : Table[key][m] - Table[b][m] + sum, 0,
                                 Population) > 0}
          [] OTHER -> rows = Population
  BY <1>1 DEF RowsAreWhole, WholeRanking, WholeIntersection, WholeAboveMean, Excess
<1>4. QED
  BY <1>2, <1>3 DEF Whole, AnswersAreWhole

\* The rows of an answer are the figures of the company, the metrics and the reports
\* that were said, all of them, ranked, compared and filtered as was asked.
THEOREM AnswersCoverWhatWasSaid == DrawsNameNothing => (Spec => []AnswersAreWhole)
<1>1. SessionInv /\ SlotsInv => AnswersAreWhole
  <2> SUFFICES ASSUME SessionInv, SlotsInv PROVE AnswersAreWhole
    OBVIOUS
  <2>1. CASE spec # NoSpec /\ answer # Failed
    <3>1. Answers(spec, shown) /\ Coherent(spec) /\ answer \in Outcomes(spec)
      BY <2>1 DEF SessionInv, SlotsInv
    <3>2. Whole(spec, Matching(spec), answer)
      BY <2>1, <3>1, OutcomesAreWhole
    <3>3. Population = Matching(spec)
      BY <3>1, PopulationIsMatching DEF Coherent
    <3>4. QED
      BY <3>1, <3>2, <3>3, WholeMeansAnswersAreWhole
  <2>2. CASE ~(spec # NoSpec /\ answer # Failed)
    BY <2>2 DEF AnswersAreWhole
  <2>3. QED
    BY <2>1, <2>2
<1>2. QED
  BY <1>1, SessionInvHolds, SlotsAreWellFormed, PTL
================================================================================
