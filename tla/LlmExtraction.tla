----------------------------- MODULE LlmExtraction -----------------------------
(***************************************************************************)
(* The extraction of one PDF by a language model (_run_pdf of              *)
(* llm_document_pipeline.py, stages executed by llm_extraction.py).        *)
(*                                                                         *)
(* Every stage asks the model and gets any answer there is: the code keeps *)
(* what it can check against the pages it read and against what earlier    *)
(* stages produced, and fails the document over everything else.  A        *)
(* response that breaks its schema is repaired once, by the model too.  The *)
(* PDF may be replaced while it is being worked on, the audit file outlives *)
(* the run, and the command may be killed and run again.                   *)
(*                                                                         *)
(* A text, that of a region or of a cell, is the set of values that occur  *)
(* in it, the pieces of a longer number among them: the code looks for one *)
(* string in another.  A file is known by its digest and does not return   *)
(* to bytes that were replaced.                                            *)
(***************************************************************************)
EXTENDS ModelClient, FiniteSets

CONSTANTS
  Pages,        \* physical pages of the PDF, numbers
  Regions,      \* regions of text (lines), with their page
  PageOf,
  MaxContent,   \* bound: contents of the file one after the other
  Text,         \* per content and region, the values its text has
  Titles,       \* the values that name the company and the report period
  WindowSize,   \* page_window_size
  Fragments,    \* table fragments a model may come up with
  Facts,        \* facts a model may come up with
  Convertible,  \* facts with a parsable value and a unit conversion rule
  Relations,    \* metrics tied by an equation or a ratio, a set each
  MaxFacts      \* bound: facts of one response

Contents == 1..MaxContent

ASSUME ExtractionAssumption ==
  /\ Pages \subseteq Nat /\ PageOf \in [Regions -> Pages]
  /\ WindowSize \in Nat \ {0} /\ MaxContent \in Nat \ {0}
  /\ Convertible \subseteq Facts

VARIABLES
  file,     \* content of the PDF
  run,      \* what the command holds in memory
  audit,    \* the audit file of the digest the last run was started for
  result    \* history: how the last run ended

vars == <<client, file, run, audit, result>>

-----------------------------------------------------------------------------
\* The column of a cell or a fact is one of the current period or not.
Stages == {"routing", "research", "layout", "facts", "crosspage", "normalization",
           "validation", "arbitration", "review"}
Points == {"idle", "hashed"} \cup Stages \cup {"closing", "raising"}

\* A fact, with the fragment it was extracted from.
Candidates == [fact : Facts, of : Fragments]
Persistence == {"NEEDS_REVIEW", "DO_NOT_PERSIST"}
Recommendations == Candidates \X Persistence

Run ==
  [at : Points, hash : 0..MaxContent, read : 0..MaxContent, section : SUBSET Pages,
   left : SUBSET Pages, fragments : SUBSET Fragments, asked : SUBSET Fragments,
   candidates : SUBSET Candidates, normalized : SUBSET Candidates,
   recommended : SUBSET Recommendations, repairing : BOOLEAN,
   original : SUBSET (Fragments \cup Facts), stated : SUBSET Facts]

IdleRun ==
  [at |-> "idle", hash |-> 0, read |-> 0, section |-> {}, left |-> {}, fragments |-> {},
   asked |-> {}, candidates |-> {}, normalized |-> {}, recommended |-> {},
   repairing |-> FALSE, original |-> {}, stated |-> {}]

Audit ==
  [of : 0..MaxContent, status : {"NONE", "NEEDS_REVIEW", "FAILED"}, error : BOOLEAN,
   verified : BOOLEAN, section : SUBSET Pages, candidates : SUBSET Candidates,
   recommended : SUBSET Recommendations]

NoAudit(d) ==
  [of |-> d, status |-> "NONE", error |-> FALSE, verified |-> FALSE, section |-> {},
   candidates |-> {}, recommended |-> {}]

ExtractionTypeOK ==
  /\ client \in Call
  /\ file \in Contents
  /\ run \in Run
  /\ audit \in Audit
  /\ result \in {"none", "returned", "raised"}

Init ==
  /\ client = NoCall
  /\ file = 1
  /\ run = IdleRun
  /\ audit = NoAudit(0)
  /\ result = "none"

-----------------------------------------------------------------------------
(* What is checked of the answers.                                         *)

\* assign_candidate_ids: what the server's id of a candidate is computed from.
Identity(c) == <<c.fact.region, c.fact.metric, c.fact.value, c.fact.scope>>
DistinctIdentities(C) == \A c, d \in C : Identity(c) = Identity(d) => c = d

\* _trusted_financial_metadata: the answer can point to a page for what it says is
\* the company and the period.
TrustedMetadata == \A t \in Titles : \E r \in Regions : t \in Text[run.read][r]

\* _chunked: the next pages to be laid out.
NextWindow == {p \in run.left : Cardinality({q \in run.left : q < p}) < WindowSize}

\* _validate_layout_regions, _validate_layout_evidence
SoundLayout(F) ==
  \A f \in F : \A cell \in f.cells :
    PageOf[cell.region] \in NextWindow /\ cell.values \subseteq Text[run.read][cell.region]

\* _validate_extracted_facts: the value stands in the region the request gave, and
\* the fact says itself that its column is of the current period.
StandsInEvidence(fact) ==
  /\ fact.value \in Text[run.read][fact.region]
  /\ fact.column = "current"

\* Bug: what the fact says of its column is not compared with the fragment.
BoundToAnyColumn(fact, fragment) ==
  /\ fact.scope = fragment.scope
  /\ \E cell \in fragment.cells : cell.region = fact.region /\ fact.value \in cell.values

\* _validate_fact_fragment_binding: the value occurs in one recovered cell of the
\* region and the column the fact names.
BoundToCell(fact, fragment) ==
  /\ fact.scope = fragment.scope
  /\ \E cell \in fragment.cells :
       cell.region = fact.region /\ fact.value \in cell.values /\ cell.column = fact.column

\* _require_exact_partition of records that name what they are about first: each
\* expected element is named once, nothing else is.
ExactPartition(records, expected) ==
  /\ {r[1] : r \in records} = expected
  /\ \A r, s \in records : r[1] = s[1] => r = s

\* _candidate_groups, with their candidates
Groups ==
  {[key |-> <<c.fact.metric, c.fact.scope>>,
    candidates |-> {d \in run.candidates : d.fact.metric = c.fact.metric
                                           /\ d.fact.scope = c.fact.scope}]
     : c \in run.candidates}

NormalizedOf(group) == Cardinality(group.candidates \cap run.normalized)

\* Ids of the deterministic checks: one per candidate, one per business key with
\* several normalized values, and, per scope, one for each relation of which a
\* metric has a single one.
CheckIds ==
  {<<"normalization", c>> : c \in run.candidates} \cup
  {<<"unique", g.key>> : g \in {h \in Groups : NormalizedOf(h) > 1}} \cup
  {<<"relation", rg[1], rg[2].key[2]>> :
     rg \in {rh \in Relations \X Groups : rh[2].key[1] \in rh[1] /\ NormalizedOf(rh[2]) = 1}}

\* _validate_repair_changes: whatever was there is there, and only empty
\* structure is new.
Preserves(original, repaired) == repaired = original

\* execute returns this payload, of the first response or of its repair.
Accepted(payload) ==
  /\ client.at = "answered"
  /\ run.repairing => Preserves(run.original, payload)

-----------------------------------------------------------------------------
(* A run.                                                                  *)

StartRun ==
  /\ run.at = "idle"
  /\ run' = [IdleRun EXCEPT !.at = "hashed", !.hash = file]
  /\ audit' = IF audit.of = file THEN audit ELSE NoAudit(file)
  /\ result' = "none"
  /\ UNCHANGED <<client, file>>

\* The pages are extracted and the digest is compared again.  The file is not
\* yet in the audit's care: if it has changed, or has no text, there is none.
ReadPages ==
  /\ run.at = "hashed"
  /\ run' = IF file = run.hash THEN [run EXCEPT !.at = "routing", !.read = file] ELSE IdleRun
  /\ UNCHANGED <<client, file, audit, result>>

\* A stage's request: three attempts, or one for the repair.
AskModel ==
  /\ run.at \in Stages
  /\ Invoke(IF run.repairing THEN 1 ELSE MaxAttempts)
  /\ UNCHANGED <<file, run, audit, result>>

CallModel == ClientStep /\ UNCHANGED <<file, run, audit, result>>

\* The response is valid JSON and breaks its schema: repaired once.
InvalidResponse(payload) ==
  /\ client.at = "answered" /\ ~run.repairing
  /\ client' = NoCall
  /\ run' = [run EXCEPT !.repairing = TRUE, !.original = payload,
                        !.stated = @ \cup (payload \cap Facts)]
  /\ UNCHANGED <<file, audit, result>>

\* What a stage that took its payload leaves behind.
Proceed(next) ==
  /\ client' = NoCall
  /\ run' = [next EXCEPT !.repairing = FALSE, !.original = {}]
  /\ UNCHANGED <<file, audit, result>>

\* The routing stage names the pages of the statements, or that there is nothing
\* to extract (STOP_NEEDS_REVIEW).
Route(route, first, last) ==
  /\ run.at = "routing" /\ Accepted({})
  /\ LET section == {p \in Pages : first <= p /\ p <= last}
     IN  /\ route = "financial" => section # {} /\ TrustedMetadata
         /\ Proceed(CASE route = "financial" ->
                           [run EXCEPT !.at = "layout", !.section = section, !.left = section]
                      [] route = "research" -> [run EXCEPT !.at = "research", !.left = Pages]
                      [] OTHER -> [run EXCEPT !.at = "closing"])

\* _run_research_chain: claims, window by window; they are counted.
Research ==
  /\ run.at = "research" /\ Accepted({})
  /\ Proceed([run EXCEPT !.left = @ \ NextWindow,
                         !.at = IF run.left = NextWindow THEN "closing" ELSE "research"])

\* Fragments of all windows have different names; those without cells are not
\* asked about.
RecoverLayout(F) ==
  /\ run.at = "layout" /\ Accepted(F)
  /\ SoundLayout(F)
  /\ LET fragments == run.fragments \cup F
         last == run.left = NextWindow
     IN  /\ last => \A f, g \in fragments : f.name = g.name => f = g
         /\ Proceed([run EXCEPT !.left = @ \ NextWindow, !.fragments = fragments,
                       !.at = IF ~last THEN "layout"
                              ELSE IF \A f \in fragments : f.cells = {} THEN "crosspage"
                              ELSE "facts"])

\* One fragment's facts become candidates; when all are in, no two of the
\* document may have the same identity.
ExtractFacts(f, S) ==
  /\ run.at = "facts" /\ Accepted(S)
  /\ f \in run.fragments \ run.asked /\ f.cells # {}
  /\ \A fact \in S : StandsInEvidence(fact) /\ BoundToCell(fact, f)
  /\ LET new == {[fact |-> fact, of |-> f] : fact \in S}
         candidates == run.candidates \cup new
         asked == run.asked \cup {f}
         last == \A g \in run.fragments : g \in asked \/ g.cells = {}
     IN  /\ DistinctIdentities(new) /\ (last => DistinctIdentities(candidates))
         /\ Proceed([run EXCEPT !.asked = asked, !.candidates = candidates,
                       !.stated = IF run.repairing THEN @ ELSE @ \cup S,
                       !.at = IF last THEN "crosspage" ELSE "facts"])

\* _validate_cross_page_closure: groups cover the fragments, assessments the
\* candidates, and nothing is merged.
ReconcilePages(grouped, assessed) ==
  /\ run.at = "crosspage" /\ Accepted({})
  /\ grouped = run.fragments
  /\ assessed = run.candidates
  /\ Proceed([run EXCEPT !.at = "normalization"])

\* normalize_candidates: the plan repeats the fact, and is the one the rule registry
\* and the decimal parser give.
Normalizes(plans, c) == <<c, "right">> \in plans /\ c.fact \in Convertible

\* _normalize_with_checks: each candidate has one plan, and those whose plan does
\* not stand stay without a normalized value.
Normalize(plans) ==
  /\ run.at = "normalization" /\ Accepted({})
  /\ ExactPartition(plans, run.candidates)
  /\ Proceed([run EXCEPT !.at = "validation",
                !.normalized = {c \in run.candidates : Normalizes(plans, c)}])

Explain(explained) ==
  /\ run.at = "validation" /\ Accepted({})
  /\ explained = CheckIds
  /\ Proceed([run EXCEPT !.at = "arbitration"])

Arbitrate(groups) ==
  /\ run.at = "arbitration" /\ Accepted({})
  /\ groups = Groups
  /\ Proceed([run EXCEPT !.at = "review"])

\* Bug: the recommendations need not cover the candidates.
ReviewSome(recommended) ==
  /\ run.at = "review" /\ Accepted({})
  /\ \A r \in recommended : r[1] \in run.candidates
       /\ (r[2] = "NEEDS_REVIEW" => r[1] \in run.normalized)
  /\ Proceed([run EXCEPT !.at = "closing", !.recommended = recommended])

\* _validate_review_closure
Review(recommended) ==
  /\ run.at = "review" /\ Accepted({})
  /\ ExactPartition(recommended, run.candidates)
  /\ \A r \in recommended : r[2] = "NEEDS_REVIEW" => r[1] \in run.normalized
  /\ Proceed([run EXCEPT !.at = "closing", !.recommended = recommended])

\* The call failed, or its response was refused, incomplete, not for this
\* request, or did not stand one of the checks.
StageFails ==
  /\ client.at \in {"answered", "failed"}
  /\ client' = NoCall
  /\ run' = [run EXCEPT !.at = "raising"]
  /\ UNCHANGED <<file, audit, result>>

Audited(status, error) ==
  [of |-> run.hash, status |-> status, error |-> error, verified |-> file = run.hash,
   section |-> run.section, candidates |-> run.candidates, recommended |-> run.recommended]

\* The digest is compared once more and the audit file replaced; what raises here
\* is audited as a failure too.
Conclude(recommendation) ==
  /\ run.at = "closing"
  /\ recommendation = "FAILED" => run.section # {}
  /\ IF file = run.hash
       THEN /\ audit' = Audited(recommendation, FALSE)
            /\ result' = "returned"
            /\ run' = IdleRun
       ELSE /\ run' = [run EXCEPT !.at = "raising"]
            /\ UNCHANGED <<audit, result>>
  /\ UNCHANGED <<client, file>>

AuditNotWritten ==
  /\ run.at = "closing"
  /\ run' = [run EXCEPT !.at = "raising"]
  /\ UNCHANGED <<client, file, audit, result>>

RecordFailure ==
  /\ run.at = "raising"
  /\ audit' = Audited("FAILED", TRUE)
  /\ result' = "raised"
  /\ run' = IdleRun
  /\ UNCHANGED <<client, file>>

\* The command is killed, or cannot even write the failure.
RunLost ==
  /\ run.at # "idle"
  /\ client' = NoCall
  /\ run' = IdleRun
  /\ UNCHANGED <<file, audit, result>>

SourceChanges ==
  /\ file < MaxContent
  /\ file' = file + 1
  /\ UNCHANGED <<client, run, audit, result>>

RunStep ==
  \/ ReadPages \/ AskModel \/ CallModel
  \/ \E r \in {"financial", "research", "stop"}, first, last \in Pages : Route(r, first, last)
  \/ Research
  \/ \E F \in SUBSET Fragments : RecoverLayout(F)
  \/ \E f \in run.fragments, S \in {T \in SUBSET Facts : Cardinality(T) <= MaxFacts} :
       ExtractFacts(f, S)
  \/ \E F \in SUBSET run.fragments, C \in SUBSET run.candidates : ReconcilePages(F, C)
  \/ \E plans \in SUBSET (run.candidates \X {"right", "wrong"}) : Normalize(plans)
  \/ \E explained \in SUBSET CheckIds : Explain(explained)
  \/ \E groups \in SUBSET Groups : Arbitrate(groups)
  \/ \E R \in SUBSET (run.candidates \X Persistence) : Review(R)
  \/ StageFails
  \/ \E s \in {"NEEDS_REVIEW", "FAILED"} : Conclude(s)
  \/ AuditNotWritten \/ RecordFailure

\* The payload of an invalid response matters where candidates come from.
InvalidPayloads ==
  CASE run.at = "layout" -> SUBSET Fragments
    [] run.at = "facts" -> {T \in SUBSET Facts : Cardinality(T) <= MaxFacts}
    [] OTHER -> {{}}

Next ==
  \/ StartRun \/ RunStep
  \/ \E payload \in InvalidPayloads : InvalidResponse(payload)
  \/ RunLost \/ SourceChanges

Spec == Init /\ [][Next]_vars

\* The command runs in one thread and every attempt has a timeout.
FairSpec == Spec /\ WF_vars(RunStep)

-----------------------------------------------------------------------------
(* Properties.                                                             *)

\* What an audit of a document recommends for persistence stands in the very
\* bytes the audit names, which also name the company and the period, on a page of
\* its financial statements, in a column of the current period, and has been
\* recomputed; whatever the model answered, and however often the PDF was replaced
\* under the run.  Nothing is a candidate that the extraction stage has not stated
\* itself: a repair is a matter of form.  To stand in a text is to occur in it: a
\* piece of a longer number passes, as it does in the code.
RecommendedIsEvidenced ==
  /\ \A c \in run.candidates : c.fact \in run.stated
  /\ audit.status = "NEEDS_REVIEW" =>
    \A c \in Candidates : <<c, "NEEDS_REVIEW">> \in audit.recommended =>
      /\ c.fact.value \in Text[audit.of][c.fact.region]
      /\ PageOf[c.fact.region] \in audit.section
      /\ \E cell \in c.of.cells : cell.region = c.fact.region /\ c.fact.value \in cell.values
                                  /\ cell.column = "current"
      /\ c.fact \in Convertible
      /\ \A t \in Titles : \E r \in Regions : t \in Text[audit.of][r]

\* The audit file tells how the last run ended: one that returned left every
\* candidate with one recommendation and an unchanged source, one that raised
\* left an error and not an older success.
AuditTellsOutcome ==
  /\ result = "returned" =>
       /\ ~audit.error /\ audit.verified
       /\ ExactPartition(audit.recommended, audit.candidates)
       /\ DistinctIdentities(audit.candidates)
  /\ result = "raised" => audit.error

\* A run ends, also when the model answers nothing but nonsense and errors.
ExtractionEnds == run.at # "idle" ~> run.at = "idle"
=============================================================================
