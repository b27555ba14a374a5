---------------------------- MODULE ReportSelection ----------------------------
(***************************************************************************)
(* Which report of a directory speaks for a company and a period           *)
(* (select_authoritative_reports of ingestion.py).  What the inspection of *)
(* a report file found is a record; a company with its period is a Period. *)
(***************************************************************************)
EXTENDS Naturals

CONSTANT Periods   \* (stock_code, report_period) pairs

Kinds == {"full", "summary", "english", "pre_revision", "outside", "unreadable"}
Yields == {"facts", "none", "short"}

\* yield is what parsing the whole document would give: facts, no value at all,
\* or less than 80 characters of text; sections, whether that text has one of the
\* statements (available_tables is not empty).
Metadata ==
  [kind : Kinds, period : Periods, revised : 0..1, date : Nat, copy : Nat, yield : Yields,
   sections : BOOLEAN]

\* _authority_score: (revised, published_date, -copy_index), compared in order.
Outranks(m, n) ==
  \/ m.revised > n.revised
  \/ m.revised = n.revised /\ m.date > n.date
  \/ m.revised = n.revised /\ m.date = n.date /\ m.copy < n.copy

\* The reports that compete with p; meta is what is known of each report of R.
Rivals(R, meta, p) ==
  {q \in R : meta[q].kind = "full" /\ meta[q].period = meta[p].period}

Winners(group, meta) ==
  {q \in group : \A r \in group : ~Outranks(meta[r], meta[q])}

Decision(R, meta, p) ==
  LET winners == Winners(Rivals(R, meta, p), meta)
  IN  CASE meta[p].kind = "outside" -> "needs_review"
        [] meta[p].kind = "summary" -> "skipped_summary"
        [] meta[p].kind \in {"english", "pre_revision"} -> "superseded"
        [] OTHER -> IF p \notin winners THEN "superseded"
                    ELSE IF winners = {p} THEN "selected" ELSE "needs_review"
=============================================================================
