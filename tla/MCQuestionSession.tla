-------------------------- MODULE MCQuestionSession --------------------------
(* Two companies, two metrics and three years; a value that is zero, one   *)
(* negative, one tie, and reports without trusted facts.                   *)
EXTENDS QuestionSession

CONSTANTS m1, m2

MCYears == 2020..2023

Value(v, w) == [m \in {m1, m2} |-> IF m = m1 THEN v ELSE w]
MCTable ==
  [key \in Companies \X Periods |->
     CASE key = <<1, 20214>> -> Value(0, 5)
       [] key = <<1, 20224>> -> Value(3, 4)
       [] key = <<1, 20232>> -> Value(4, Untrusted)
       [] key = <<1, 20234>> -> Value(-1, 2)
       [] key = <<2, 20224>> -> Value(3, 0)
       [] key = <<2, 20233>> -> Value(1, 1)
       [] key = <<2, 20234>> -> Value(6, 1)
       [] OTHER -> Value(Untrusted, Untrusted)]

Ask(company, metrics, phrase, cue) ==
  [company |-> company, metrics |-> metrics, phrase |-> phrase, cue |-> cue,
   ratio |-> FALSE, draw |-> FALSE]

NoPhrase == [kind |-> "none"]
MCPhrases ==
  {[kind |-> k] : k \in {"none", "last_year", "three_years", "half_year"}} \cup
  {[kind |-> "report", period |-> 20234],
   [kind |-> "listed", periods |-> {20224, 20234}],
   [kind |-> "range", from |-> 2022, end |-> 20233]}

Drawing(q) == [q EXCEPT !.draw = TRUE]
MCQuestions ==
  {Ask(c, ms, phrase, cue) :
     c \in {0, 1, 2}, ms \in {<< >>, <<m2>>, <<m1, m2>>}, phrase \in MCPhrases,
     cue \in {"none", "trend"}} \cup
  {Ask(0, ms, NoPhrase, cue) :
     ms \in {<< >>, <<m1, m2>>},
     cue \in {"intersection", "compare", "top", "positive", "above_mean"}} \cup
  {[Ask(0, <<m1, m2>>, NoPhrase, cue) EXCEPT !.ratio = TRUE] : cue \in {"none", "top"}} \cup
  {Drawing(Ask(0, << >>, NoPhrase, "none"))}
=============================================================================
