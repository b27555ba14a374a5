---------------------------- MODULE AuthorityStore ----------------------------
(***************************************************************************)
(* The authority of one (stock_code, period): its sources, its financial   *)
(* facts, the wide projection row rebuilt from them and the reviews that   *)
(* turn a candidate into a trusted fact (database.py, and the promotion    *)
(* and review transactions of web_store.py).                               *)
(*                                                                         *)
(* Four writers meet here, each transaction one step: workers promoting a  *)
(* document, reviewers on the Web page, the batch command (reconcile,      *)
(* upsert, then a projection refresh that READS in one transaction and     *)
(* writes in a later one), and the offline review interface.  The three    *)
(* BOOLEAN constants open the behaviours the code permits and its          *)
(* documents do not speak of, so that a run can show what each one costs.  *)
(*                                                                         *)
(* A metric lives in one wide table, a document's bytes still match its    *)
(* digest and its candidates carry complete evidence coordinates: where    *)
(* one does not, the transaction raises and nothing happens.               *)
(***************************************************************************)
EXTENDS Naturals, FiniteSets

CONSTANTS
  WebSources,        \* sources that are uploaded documents (owner WEB)
  BatchSources,      \* sources the report directory holds (owner BATCH)
  NoSource,          \* the directory holds no report of this company and period
  Metrics,           \* metric columns of the wide table
  Scopes,            \* statement scopes besides consolidated
  Values,            \* normalized values
  Blank,             \* NULL in the wide row
  Extracted,         \* per source, the candidates extraction finds in it
  MaxDecisions,      \* bound: review events
  CorrectionsMove,   \* a correction may change the metric or the scope
  BatchInterleaves,  \* others may write between a refresh's read and its write
  OfflineOnWeb       \* review_financial_fact is applied to Web documents' facts

Sources == WebSources \cup BatchSources
AllScopes == Scopes \cup {"consolidated"}

\* A fact key is the digest of everything that identifies the reading.
FactKeys ==
  [source : Sources, metric : Metrics, scope : AllScopes, value : Values]

ASSUME AuthorityAssumption ==
  /\ WebSources \cap BatchSources = {}
  /\ NoSource \notin Sources
  /\ Blank \notin Values
  /\ Extracted \in [Sources -> SUBSET FactKeys]
  /\ \A s \in Sources : \A f \in Extracted[s] : f.source = s
  /\ MaxDecisions \in Nat
  /\ {CorrectionsMove, BatchInterleaves, OfflineOnWeb} \subseteq BOOLEAN

VARIABLES
  authority,  \* financial_source.authority_status
  facts,      \* financial_fact: validation_status and review_version
  row,        \* whether the wide row exists
  cells,      \* its metric columns
  review,     \* document.status, as the review of its facts sets it
  events,     \* fact_review_event, append-only
  shown,      \* what a Web reviewer may have on the screen
  batch       \* the batch command: where it is, its source, what it read

vars == <<authority, facts, row, cells, review, events, shown, batch>>

-----------------------------------------------------------------------------
AuthorityStatuses == {"ABSENT", "CURRENT", "SUPERSEDED", "REMOVED"}
FactStatuses == {"ABSENT", "NEEDS_REVIEW", "VALIDATED", "REJECTED"}
Actions == {"VALIDATE", "REJECT", "CORRECT"}
BatchPoints == {"idle", "reconciled", "stored", "read"}

FactRow == [status : FactStatuses, version : Nat]
Row == [Metrics -> Values \cup {Blank}]
Reading == [fact : FactKeys, version : Nat, status : FactStatuses]

\* The replacement of a decision that is not a CORRECT is the fact itself.
Event == [fact : FactKeys, version : Nat, action : Actions, replacement : FactKeys]

AbsentFact == [status |-> "ABSENT", version |-> 0]
Candidate == [status |-> "NEEDS_REVIEW", version |-> 1]
BlankRow == [m \in Metrics |-> Blank]
IdleBatch == [at |-> "idle", source |-> NoSource, seen |-> BlankRow]

TypeOK ==
  /\ authority \in [Sources -> AuthorityStatuses]
  /\ facts \in [FactKeys -> FactRow]
  /\ row \in BOOLEAN
  /\ cells \in Row
  /\ review \in [WebSources -> {"PROCESSING", "NEEDS_REVIEW", "COMPLETED"}]
  /\ events \subseteq Event
  /\ shown \subseteq Reading
  /\ batch \in [at : BatchPoints, source : BatchSources \cup {NoSource}, seen : Row]
  /\ batch.at = "idle" <=> batch.source = NoSource

Init ==
  /\ authority = [s \in Sources |-> "ABSENT"]
  /\ facts = [f \in FactKeys |-> AbsentFact]
  /\ row = FALSE
  /\ cells = BlankRow
  /\ review = [s \in WebSources |-> "PROCESSING"]
  /\ events = {}
  /\ shown = {}
  /\ batch = IdleBatch

-----------------------------------------------------------------------------
(* Queries and writes that several transactions share.                     *)

CurrentSources == {s \in Sources : authority[s] = "CURRENT"}
Present(f) == facts[f].status # "ABSENT"
SameKey(f, g) == f.metric = g.metric /\ f.scope = g.scope

\* The join of financial_fact and financial_source every projection reads.
Trusted(F, A, m) ==
  {f \in FactKeys : /\ F[f].status = "VALIDATED"
                    /\ A[f.source] = "CURRENT"
                    /\ f.metric = m
                    /\ f.scope = "consolidated"}

\* More than one trusted fact for a metric and the rebuilding method raises.
Unambiguous(F, A) ==
  \A m \in Metrics : \A f, g \in Trusted(F, A, m) : f = g

CellOf(trusted) ==
  IF trusted = {} THEN Blank ELSE (CHOOSE f \in trusted : TRUE).value

Projection(F, A) == [m \in Metrics |-> CellOf(Trusted(F, A, m))]

\* The source that was CURRENT is superseded by s.
Activate(s) ==
  [t \in Sources |-> IF t = s THEN "CURRENT"
                     ELSE IF authority[t] = "CURRENT" THEN "SUPERSEDED"
                     ELSE authority[t]]

\* _rebuild_period_projections_in_transaction: an UPDATE, which a missing row
\* ignores.
Rebuild(A) ==
  /\ Unambiguous(facts, A)
  /\ cells' = IF row THEN Projection(facts, A) ELSE cells

\* list_facts, get_fact: what is committed of a document's fact may be read, and kept
\* on a screen.
Display ==
  shown' = shown \cup
    {[fact |-> f, version |-> facts'[f].version, status |-> facts'[f].status] :
       f \in {g \in FactKeys : g.source \in WebSources /\ facts'[g].status # "ABSENT"}}

\* _refresh_document_review_status_in_transaction, for a document that has
\* facts; a promoted document is never FAILED.
RefreshReview(s, F) ==
  review' = [review EXCEPT ![s] =
    IF \E f \in FactKeys : f.source = s /\ F[f].status = "NEEDS_REVIEW"
      THEN "NEEDS_REVIEW" ELSE "COMPLETED"]

\* Between the two halves of a projection refresh.
Undisturbed == BatchInterleaves \/ batch.at # "read"

-----------------------------------------------------------------------------
(* A worker promotes a document (at most once: the job store sees to it).  *)

PromoteDocument(s) ==
  /\ Undisturbed
  /\ review[s] = "PROCESSING"
  /\ Extracted[s] # {}
  /\ authority' = Activate(s)
  /\ facts' = [f \in FactKeys |->
       IF f \in Extracted[s] /\ ~Present(f) THEN Candidate ELSE facts[f]]
  /\ Display
  /\ Unambiguous(facts, authority')
  /\ row' = TRUE
  /\ cells' = Projection(facts', authority')
  /\ RefreshReview(s, facts')
  /\ UNCHANGED <<events, batch>>

-----------------------------------------------------------------------------
(* The batch command.                                                      *)

\* reconcile_batch_authoritative_sources: the directory's report becomes the
\* CURRENT source, unless a Web source is.
BatchReconcile(s) ==
  /\ batch.at = "idle"
  /\ CurrentSources \cap WebSources = {}
  /\ authority' = Activate(s)
  /\ Rebuild(authority')
  /\ batch' = [IdleBatch EXCEPT !.at = "reconciled", !.source = s]
  /\ UNCHANGED <<facts, row, review, events, shown>>

\* The same with no report left: the batch's CURRENT source is REMOVED.
BatchRemove ==
  /\ batch.at = "idle"
  /\ CurrentSources \cap BatchSources # {}
  /\ authority' = [s \in Sources |->
       IF s \in CurrentSources \cap BatchSources THEN "REMOVED" ELSE authority[s]]
  /\ Rebuild(authority')
  /\ UNCHANGED <<facts, row, review, events, shown, batch>>

\* upsert_financial_facts: a fact already stored keeps its review state.
BatchUpsert ==
  /\ batch.at = "reconciled"
  /\ facts' = [f \in FactKeys |->
       IF f \in Extracted[batch.source] /\ ~Present(f) THEN Candidate ELSE facts[f]]
  /\ Display
  /\ batch' = [batch EXCEPT !.at = "stored"]
  /\ UNCHANGED <<authority, row, cells, review, events>>

\* refresh_fact_projection, first half: the query, on its own.
BatchRead ==
  /\ batch.at = "stored"
  /\ Unambiguous(facts, authority)
  /\ batch' = [batch EXCEPT !.at = "read", !.seen = Projection(facts, authority)]
  /\ UNCHANGED <<authority, facts, row, cells, review, events, shown>>

\* refresh_fact_projection, second half: DELETE and INSERT in a transaction.
BatchWrite ==
  /\ batch.at = "read"
  /\ row' = TRUE
  /\ cells' = batch.seen
  /\ batch' = IdleBatch
  /\ UNCHANGED <<authority, facts, review, events, shown>>

\* Bug: the command forgets where it is and keeps the source.
BatchStopsHolding ==
  /\ batch.at # "idle"
  /\ batch' = [batch EXCEPT !.at = "idle"]
  /\ UNCHANGED <<authority, facts, row, cells, review, events, shown>>

\* The report is unchanged and skipped, or the command is killed.
BatchStops ==
  /\ batch.at # "idle"
  /\ batch' = IdleBatch
  /\ UNCHANGED <<authority, facts, row, cells, review, events, shown>>

-----------------------------------------------------------------------------
(* Reviews.                                                                *)

\* Another VALIDATED fact of a CURRENT source holds the business key of g.
Conflicting(g, excluded) ==
  \E h \in FactKeys \ {excluded} :
    /\ facts[h].status = "VALIDATED"
    /\ h.source \in CurrentSources
    /\ SameKey(h, g)

\* Bug: only the facts of other sources are looked at.
ProjectableAgainstOthers(g, excluded) ==
  /\ ~ \E h \in FactKeys \ {excluded} :
         /\ facts[h].status = "VALIDATED"
         /\ h.source \in CurrentSources \ {g.source}
         /\ SameKey(h, g)
  /\ g.scope = "consolidated" => row

\* _require_projection_and_no_conflict
Projectable(g, excluded) ==
  /\ ~Conflicting(g, excluded)
  /\ g.scope = "consolidated" => row

\* _update_projection: only consolidated facts have a cell.
Project(f, value) ==
  cells' = IF f.scope = "consolidated" THEN [cells EXCEPT ![f.metric] = value] ELSE cells

\* Bug: any version the reviewer was ever shown will do.
ReviewableAnyVersion(f, v) ==
  /\ Undisturbed
  /\ Cardinality(events) < MaxDecisions
  /\ f.source \in WebSources \cap CurrentSources
  /\ Present(f)

\* The guards every decision of review_fact passes first.  A fact without a
\* document, as the batch command stores them, is refused.
Reviewable(f, v) ==
  /\ Undisturbed
  /\ Cardinality(events) < MaxDecisions
  /\ f.source \in WebSources \cap CurrentSources
  /\ Present(f)
  /\ facts[f].version = v

Decision(f, v, action, g) ==
  /\ events' = events \cup {[fact |-> f, version |-> v, action |-> action, replacement |-> g]}
  /\ RefreshReview(f.source, facts')
  /\ UNCHANGED <<authority, row, batch>>

ReviewValidate(f, v) ==
  /\ Reviewable(f, v)
  /\ Projectable(f, f)
  /\ facts' = [facts EXCEPT ![f] = [status |-> "VALIDATED", version |-> @.version + 1]]
  /\ Display
  /\ Project(f, f.value)
  /\ Decision(f, v, "VALIDATE", f)

\* Bug: rejecting leaves the projection alone.
ReviewRejectOnly(f, v) ==
  /\ Reviewable(f, v)
  /\ facts' = [facts EXCEPT ![f] = [status |-> "REJECTED", version |-> @.version + 1]]
  /\ Display
  /\ UNCHANGED cells
  /\ Decision(f, v, "REJECT", f)

ReviewReject(f, v) ==
  /\ Reviewable(f, v)
  /\ facts' = [facts EXCEPT ![f] = [status |-> "REJECTED", version |-> @.version + 1]]
  /\ Display
  /\ IF facts[f].status = "VALIDATED" THEN Project(f, Blank) ELSE UNCHANGED cells
  /\ Decision(f, v, "REJECT", f)

\* What the corrected fields may turn f into.  A key that is already stored,
\* f itself included, is refused by the primary key.
Corrections(f) ==
  {g \in FactKeys : /\ g.source = f.source
                    /\ ~Present(g)
                    /\ CorrectionsMove \/ SameKey(f, g)}

\* Bug: the original is rejected without a new version.
ReviewCorrectSameVersion(f, v, g) ==
  /\ Reviewable(f, v)
  /\ Projectable(g, f)
  /\ facts' = [facts EXCEPT ![f].status = "REJECTED",
                           ![g] = [status |-> "VALIDATED", version |-> 1]]
  /\ Display
  /\ Project(g, g.value)
  /\ Decision(f, v, "CORRECT", g)

ReviewCorrect(f, v, g) ==
  /\ Reviewable(f, v)
  /\ Projectable(g, f)
  /\ facts' = [facts EXCEPT ![f] = [status |-> "REJECTED", version |-> @.version + 1],
                           ![g] = [status |-> "VALIDATED", version |-> 1]]
  /\ Display
  /\ Project(g, g.value)
  /\ Decision(f, v, "CORRECT", g)

\* review_financial_fact: no version, no event, no document.
ReviewOffline(f, status) ==
  /\ Undisturbed
  /\ Present(f)
  /\ f.source \in CurrentSources
  /\ f.source \in BatchSources \/ OfflineOnWeb
  /\ status = "VALIDATED" => ~Conflicting(f, f)
  /\ f.scope = "consolidated" => row
  /\ facts' = [facts EXCEPT ![f].status = status]
  /\ Display
  /\ IF status = "VALIDATED" THEN Project(f, f.value)
     ELSE IF facts[f].status = "VALIDATED" THEN Project(f, Blank)
     ELSE UNCHANGED cells
  /\ UNCHANGED <<authority, row, review, events, batch>>

\* The version a reviewer sends is one some page has shown.
WebReview ==
  \E reading \in shown :
    \/ ReviewValidate(reading.fact, reading.version)
    \/ ReviewReject(reading.fact, reading.version)
    \/ \E g \in Corrections(reading.fact) : ReviewCorrect(reading.fact, reading.version, g)

Batch ==
  \/ \E s \in BatchSources : BatchReconcile(s)
  \/ BatchRemove
  \/ BatchUpsert
  \/ BatchRead
  \/ BatchWrite
  \/ BatchStops

Next ==
  \/ \E s \in WebSources : PromoteDocument(s)
  \/ Batch
  \/ WebReview
  \/ \E f \in FactKeys, status \in {"VALIDATED", "REJECTED"} : ReviewOffline(f, status)

Spec == Init /\ [][Next]_vars

-----------------------------------------------------------------------------
(* Invariants.                                                             *)

\* No two sources are CURRENT for the period.  The UNIQUE constraint on
\* current_slot is not modelled: the selectors never rely on it to refuse a
\* second source.
OneCurrentSource == \A s, t \in CurrentSources : s = t

\* No source, CURRENT or not, has two VALIDATED facts for one metric and scope,
\* whichever reviewers, corrections and reactivations came before.  A source
\* that had them would make every later rebuild of the period raise, and with
\* it every promotion and every batch run.
OneTrustedReading ==
  \A f, g \in FactKeys :
    /\ facts[f].status = "VALIDATED" /\ facts[g].status = "VALIDATED"
    /\ f.source = g.source /\ SameKey(f, g)
    => f = g

\* The wide row shows exactly the VALIDATED consolidated facts of the CURRENT
\* source: not a value that was rejected, replaced or superseded, and none of
\* the trusted ones missing.
ProjectionIsTrusted == row => cells = Projection(facts, authority)

\* Two decisions on one fact never started from the same version of it: the
\* later of two reviewers with the same page open is refused.
DecisionsAreSerial ==
  \A e1, e2 \in events : e1.fact = e2.fact /\ e1.version = e2.version => e1 = e2

\* What a Web reviewer saw under a version is what the decision is applied to.
VersionNamesOneState ==
  \A r1, r2 \in shown :
    r1.fact = r2.fact /\ r1.version = r2.version => r1.status = r2.status

\* A fact that was corrected is not trusted again beside its replacement.
ReplacedIsNotTrusted ==
  \A e \in events :
    e.action = "CORRECT" =>
      ~(facts[e.fact].status = "VALIDATED" /\ facts[e.replacement].status = "VALIDATED")

\* A promoted document asks for review exactly while one of its facts does.
DocumentMirrorsReview ==
  \A s \in WebSources :
    review[s] # "PROCESSING" =>
      (review[s] = "NEEDS_REVIEW" <=>
         \E f \in FactKeys : f.source = s /\ facts[f].status = "NEEDS_REVIEW")

-----------------------------------------------------------------------------
(* Strengthenings that make the invariants above inductive.                *)

\* Every recorded decision lies behind the present version of its fact, and a
\* replacement came from the fact it replaced.
EventsBehind ==
  \A e \in events :
    /\ Present(e.fact) /\ Present(e.replacement)
    /\ e.version < facts[e.fact].version
    /\ e.action = "CORRECT" =>
         /\ e.replacement # e.fact
         /\ e.replacement.source = e.fact.source
         /\ CorrectionsMove \/ SameKey(e.fact, e.replacement)

\* A document has a source exactly once it was promoted.
PromotedHasSource ==
  \A s \in WebSources : review[s] = "PROCESSING" <=> authority[s] = "ABSENT"

\* What is on a screen is the present state of its fact, or an older version.
ShownIsPast ==
  \A r \in shown :
    /\ r.fact.source \in WebSources
    /\ Present(r.fact)
    /\ r.version <= facts[r.fact].version
    /\ r.version = facts[r.fact].version => r.status = facts[r.fact].status

\* Nothing consolidated is trusted before the wide row exists.
RowBeforeTrust ==
  ~row => \A f \in FactKeys : f.scope = "consolidated" => facts[f].status # "VALIDATED"

\* What an undisturbed refresh has read is still so.
ReadIsFresh == batch.at = "read" => batch.seen = Projection(facts, authority)

-----------------------------------------------------------------------------
(* Action properties.                                                      *)

\* A Web document gives up its authority only to another Web document, in the
\* step that promotes that one: no batch run takes it.
WebYieldsToWeb ==
  [][\A s \in WebSources :
       authority[s] = "CURRENT" /\ authority'[s] # "CURRENT" =>
         \E t \in WebSources : authority[t] = "ABSENT" /\ authority'[t] = "CURRENT"]_vars
=============================================================================
