--------------------------- MODULE MCBatchIngestion ---------------------------
(* The first path holds a plain report that ranks with the second path's,  *)
(* then a revision that outranks it, then a report of another period that  *)
(* has no statement and no value, then one without text; its file also     *)
(* comes and goes.                                                         *)
EXTENDS BatchIngestion

CONSTANTS a, b, k1, k2

Report(period, revised, date, yield) ==
  [kind |-> "full", period |-> period, revised |-> revised, date |-> date, copy |-> 0,
   yield |-> yield, sections |-> yield = "facts"]

MCReports == {a, b}
MCPeriods == {k1, k2}
MCReplaced == {a}
MCMoved == {a}
MCWebPeriods == {k2}
MCAbout ==
  [p \in MCReports |->
     IF p = a
     THEN <<Report(k1, 0, 2, "facts"), Report(k1, 1, 1, "facts"), Report(k2, 0, 1, "none"),
            Report(k1, 1, 2, "short")>>
     ELSE [c \in 1..4 |-> Report(k1, 0, 2, "facts")]]
=============================================================================
