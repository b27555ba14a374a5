---------------------------- MODULE MCLlmExtraction ----------------------------
(* Two pages with a region each, laid out one by one.  The second content  *)
(* of the file has the same values and does not name the company.  The     *)
(* model comes up with a fragment of each page, and with facts that stand  *)
(* there in the column they claim or in another.  The value y is a piece   *)
(* of the number x: the cell of the first page has both.                   *)
EXTENDS LlmExtraction, TLC

CONSTANTS r1, r2, x, y, company, m, n

MCPageOf == r1 :> 1 @@ r2 :> 2
MCText == <<r1 :> {company, x, y} @@ r2 :> {x, y}, r1 :> {x, y} @@ r2 :> {x, y}>>

Cell(r, values, c) == [region |-> r, values |-> values, column |-> c]
MCFragments ==
  {[name |-> "a", scope |-> "consolidated",
    cells |-> {Cell(r1, {x, y}, "current")}],
   [name |-> "b", scope |-> "consolidated",
    cells |-> {Cell(r2, {x}, "current"), Cell(r2, {x, y}, "comparison")}]}

Fact(r, v) ==
  [region |-> r, value |-> v, column |-> "current", metric |-> m, scope |-> "consolidated"]
MCFacts == {Fact(r1, x), Fact(r1, y), Fact(r2, x), Fact(r2, y)}
MCConvertible == MCFacts \ {Fact(r2, x)}
=============================================================================
