---------------------------- MODULE DocumentStorage ----------------------------
(***************************************************************************)
(* Stored PDFs and the document rows that name them: the import of a batch *)
(* baseline (web_bootstrap.py), the upload and download of api.py, and what *)
(* batch runs and reviewers do to an imported baseline meanwhile.          *)
(*                                                                         *)
(* A file and a row are written apart, the file first; what fails in       *)
(* between removes the file again, what is killed in between leaves it.    *)
(* A document is named by its source: its id is computed from the URI and  *)
(* digest of the source.  Content 1 is the content with the digest that    *)
(* source and row record, 0 is no file.                                    *)
(***************************************************************************)
EXTENDS Naturals, FiniteSets

CONSTANTS
  Sources,        \* sources of the batch baseline, each of a period of its own
  Uploads,        \* uploaded documents
  Importers,      \* runs of the bootstrap command that may overlap
  Facts,          \* facts extracted from the sources
  SourceOf        \* the source of each fact

Documents == Sources \cup Uploads

ASSUME StorageAssumption ==
  /\ Sources \cap Uploads = {}
  /\ SourceOf \in [Facts -> Sources]

VARIABLES
  dataset,    \* content of each source's PDF in the dataset directory
  files,      \* content under each document's storage key
  hardlinks,  \* documents whose file is a link to the source's
  documents,  \* document.status, or NONE
  current,    \* sources that are CURRENT
  linked,     \* sources whose financial_source.document_id is set
  facts,      \* financial_fact: status, and whether document_id is set
  importers,  \* bootstrap runs: place, plan, what is left of it, files created
  uploads,    \* upload requests: place
  fresh       \* history: sources imported since batch or offline review wrote

vars == <<dataset, files, hardlinks, documents, current, linked, facts, importers,
          uploads, fresh>>

-----------------------------------------------------------------------------
Contents == 0..2
\* Whether a decision validated or rejected a fact makes no difference here.
FactStatuses == {"ABSENT", "NEEDS_REVIEW", "DECIDED"}
ImportPoints == {"idle", "materializing", "copying"}
UploadPoints == {"new", "stored", "registered", "done", "failed"}

Import == [at : ImportPoints, plan : SUBSET Sources, left : SUBSET Sources,
           copies : SUBSET Sources, created : SUBSET Sources]
IdleImport == [at |-> "idle", plan |-> {}, left |-> {}, copies |-> {}, created |-> {}]

StorageTypeOK ==
  /\ dataset \in [Sources -> Contents \ {0}]
  /\ files \in [Documents -> Contents]
  /\ hardlinks \subseteq Sources
  /\ documents \in [Documents -> {"NONE", "STORED", "NEEDS_REVIEW", "COMPLETED"}]
  /\ current \subseteq Sources /\ linked \subseteq Sources /\ fresh \subseteq Sources
  /\ facts \in [Facts -> [status : FactStatuses, linked : BOOLEAN]]
  /\ importers \in [Importers -> Import]
  /\ \A i \in Importers : importers[i].at = "idle" => importers[i] = IdleImport
  /\ uploads \in [Uploads -> UploadPoints]

Init ==
  /\ dataset = [s \in Sources |-> 1]
  /\ files = [d \in Documents |-> 0]
  /\ hardlinks = {}
  /\ documents = [d \in Documents |-> "NONE"]
  /\ current = {} /\ linked = {} /\ fresh = {}
  /\ facts = [f \in Facts |-> [status |-> "ABSENT", linked |-> FALSE]]
  /\ importers = [i \in Importers |-> IdleImport]
  /\ uploads = [u \in Uploads |-> "new"]

-----------------------------------------------------------------------------
FactsOf(s) == {f \in Facts : SourceOf[f] = s /\ facts[f].status # "ABSENT"}
Pending(F) == \E f \in F : facts[f].status = "NEEDS_REVIEW"

\* _validate_fact_rows: the status a document must have for these facts.
StatusFor(F) == IF Pending(F) THEN "NEEDS_REVIEW" ELSE "COMPLETED"

-----------------------------------------------------------------------------
(* The bootstrap command.                                                  *)

\* _build_plans: every CURRENT batch source, its PDF unchanged, with facts.
BuildPlans(i) ==
  /\ importers[i].at = "idle"
  /\ current # {}
  /\ \A s \in current : dataset[s] = 1 /\ FactsOf(s) # {}
  /\ importers' = [importers EXCEPT ![i] =
       [IdleImport EXCEPT !.at = "materializing", !.plan = current, !.left = current]]
  /\ UNCHANGED <<dataset, files, hardlinks, documents, current, linked, facts, uploads, fresh>>

\* A file that exists is only validated; otherwise it is copied, or linked if
\* the command was told to.
Materialize(i, s) ==
  /\ importers[i].at = "materializing"
  /\ s \in importers[i].left
  /\ \/ /\ files[s] = 1
        /\ importers' = [importers EXCEPT ![i].left = @ \ {s}]
        /\ UNCHANGED <<files, hardlinks>>
     \/ /\ files[s] = 0
        /\ importers' = [importers EXCEPT ![i].at = "copying", ![i].copies = {s}]
        /\ UNCHANGED <<files, hardlinks>>
     \/ /\ files[s] = 0 /\ dataset[s] = 1
        /\ files' = [files EXCEPT ![s] = 1]
        /\ hardlinks' = hardlinks \cup {s}
        /\ importers' = [importers EXCEPT ![i].left = @ \ {s}, ![i].created = @ \cup {s}]
  /\ UNCHANGED <<dataset, documents, current, linked, facts, uploads, fresh>>

\* _copy_file_atomically replaces whatever is there by now; then the copy is
\* validated.
FinishCopy(i, s) ==
  /\ importers[i].at = "copying" /\ s \in importers[i].copies
  /\ dataset[s] = 1
  /\ files' = [files EXCEPT ![s] = 1]
  /\ hardlinks' = hardlinks \ {s}
  /\ importers' = [importers EXCEPT ![i].at = "materializing", ![i].copies = {},
                     ![i].left = @ \ {s}, ![i].created = @ \cup {s}]
  /\ UNCHANGED <<dataset, documents, current, linked, facts, uploads, fresh>>

\* The source has changed: the copy is removed again, then all this run created.
RejectCopy(i, s) ==
  /\ importers[i].at = "copying" /\ s \in importers[i].copies
  /\ dataset[s] # 1
  /\ files' = [d \in Documents |-> IF d \in importers[i].created \cup {s} THEN 0 ELSE files[d]]
  /\ hardlinks' = hardlinks \ (importers[i].created \cup {s})
  /\ importers' = [importers EXCEPT ![i] = IdleImport]
  /\ UNCHANGED <<dataset, documents, current, linked, facts, uploads, fresh>>

\* Bug: the status of a document that exists is not compared.
AcceptsAnyStatus(s) == FactsOf(s) # {}

\* _validate_fact_rows and _validate_existing_document: an existing row must
\* have the very status its facts give a new one.
Accepts(s) ==
  /\ FactsOf(s) # {}
  /\ documents[s] \in {"NONE", StatusFor(FactsOf(s))}

\* Bug: only the source is linked.
RegisterPlansSourcesOnly(i) ==
  /\ importers[i].at = "materializing" /\ importers[i].left = {}
  /\ current = importers[i].plan
  /\ \A s \in current : Accepts(s)
  /\ documents' = [d \in Documents |-> IF d \in current /\ documents[d] = "NONE"
                                      THEN StatusFor(FactsOf(d)) ELSE documents[d]]
  /\ linked' = linked \cup current
  /\ fresh' = fresh \cup current
  /\ importers' = [importers EXCEPT ![i] = IdleImport]
  /\ UNCHANGED <<dataset, files, hardlinks, current, facts, uploads>>

\* _link_source_and_facts: the facts of the sources, those that have a document
\* already included.
LinkedFacts ==
  [f \in Facts |-> IF f \in UNION {FactsOf(s) : s \in current}
                     THEN [facts[f] EXCEPT !.linked = TRUE] ELSE facts[f]]

\* _register_plans, one transaction: the CURRENT sources are still the plan's,
\* rows are inserted or found equal, sources and facts without a document are
\* linked.
RegisterPlans(i) ==
  /\ importers[i].at = "materializing" /\ importers[i].left = {}
  /\ current = importers[i].plan
  /\ \A s \in current : Accepts(s)
  /\ documents' = [d \in Documents |-> IF d \in current /\ documents[d] = "NONE"
                                      THEN StatusFor(FactsOf(d)) ELSE documents[d]]
  /\ linked' = linked \cup current
  /\ facts' = LinkedFacts
  /\ fresh' = fresh \cup current
  /\ importers' = [importers EXCEPT ![i] = IdleImport]
  /\ UNCHANGED <<dataset, files, hardlinks, current, uploads>>

\* Bug: everything planned is removed, not only what this run created.
ImportFailsRemovingPlan(i) ==
  /\ importers[i].at # "idle"
  /\ files' = [d \in Documents |-> IF d \in importers[i].plan THEN 0 ELSE files[d]]
  /\ hardlinks' = hardlinks \ importers[i].plan
  /\ importers' = [importers EXCEPT ![i] = IdleImport]
  /\ UNCHANGED <<dataset, documents, current, linked, facts, uploads, fresh>>

\* Bug: the run forgets that it is over with what it created.
ImportFailsHolding(i) ==
  /\ importers[i].at # "idle"
  /\ files' = [d \in Documents |-> IF d \in importers[i].created THEN 0 ELSE files[d]]
  /\ hardlinks' = hardlinks \ importers[i].created
  /\ importers' = [importers EXCEPT ![i].at = "idle"]
  /\ UNCHANGED <<dataset, documents, current, linked, facts, uploads, fresh>>

\* Anything raises before the commit: _cleanup_created_files.
ImportFails(i) ==
  /\ importers[i].at # "idle"
  /\ files' = [d \in Documents |-> IF d \in importers[i].created THEN 0 ELSE files[d]]
  /\ hardlinks' = hardlinks \ importers[i].created
  /\ importers' = [importers EXCEPT ![i] = IdleImport]
  /\ UNCHANGED <<dataset, documents, current, linked, facts, uploads, fresh>>

\* The command is killed; what it created stays.
ImportKilled(i) ==
  /\ importers[i].at # "idle"
  /\ importers' = [importers EXCEPT ![i] = IdleImport]
  /\ UNCHANGED <<dataset, files, hardlinks, documents, current, linked, facts, uploads, fresh>>

-----------------------------------------------------------------------------
(* The batch command and the reviewers.                                    *)

\* reconcile_batch_authoritative_sources writes every selected source anew,
\* without a document, those it selected before included.
BatchReconcile(S) ==
  /\ current' = S
  /\ linked' = linked \ S
  /\ fresh' = fresh \ (S \cup current)
  /\ UNCHANGED <<dataset, files, hardlinks, documents, facts, importers, uploads>>

\* upsert_financial_facts: a new candidate has no document.
BatchUpsert(f) ==
  /\ SourceOf[f] \in current
  /\ facts[f].status = "ABSENT"
  /\ facts' = [facts EXCEPT ![f].status = "NEEDS_REVIEW"]
  /\ fresh' = fresh \ {SourceOf[f]}
  /\ UNCHANGED <<dataset, files, hardlinks, documents, current, linked, importers, uploads>>

\* Bug: the document keeps its status.
ReviewFactOnly(f) ==
  /\ facts[f].linked
  /\ SourceOf[f] \in current
  /\ files[SourceOf[f]] = 1
  /\ facts[f].status # "ABSENT"
  /\ facts' = [facts EXCEPT ![f].status = "DECIDED"]
  /\ UNCHANGED <<dataset, files, hardlinks, documents, current, linked, importers, uploads, fresh>>

\* review_fact: the fact has a document whose bytes match, its source is
\* CURRENT; the document's status follows from all facts linked to it.
ReviewFact(f) ==
  /\ facts[f].linked
  /\ SourceOf[f] \in current
  /\ files[SourceOf[f]] = 1
  /\ facts[f].status # "ABSENT"
  /\ facts' = [facts EXCEPT ![f].status = "DECIDED"]
  /\ documents' = [documents EXCEPT ![SourceOf[f]] =
       IF \E g \in Facts : SourceOf[g] = SourceOf[f] /\ facts'[g].linked
                           /\ facts'[g].status = "NEEDS_REVIEW"
         THEN "NEEDS_REVIEW" ELSE "COMPLETED"]
  /\ UNCHANGED <<dataset, files, hardlinks, current, linked, importers, uploads, fresh>>

\* review_financial_fact, the offline interface, knows of no document.
OfflineReview(f) ==
  /\ SourceOf[f] \in current
  /\ facts[f].status # "ABSENT"
  /\ facts' = [facts EXCEPT ![f].status = "DECIDED"]
  /\ fresh' = fresh \ {SourceOf[f]}
  /\ UNCHANGED <<dataset, files, hardlinks, documents, current, linked, importers, uploads>>

\* Somebody writes another PDF over a source's.
SourceChanges(s) ==
  /\ dataset[s] = 1
  /\ dataset' = [dataset EXCEPT ![s] = 2]
  /\ files' = IF s \in hardlinks THEN [files EXCEPT ![s] = 2] ELSE files
  /\ UNCHANGED <<hardlinks, documents, current, linked, facts, importers, uploads, fresh>>

-----------------------------------------------------------------------------
(* Uploads.                                                                *)

UploadTo(u, point) == uploads' = [uploads EXCEPT ![u] = point]

\* _store_pdf, which removes what it wrote when it raises.
StorePdf(u) ==
  /\ uploads[u] = "new"
  /\ files' = [files EXCEPT ![u] = 1]
  /\ UploadTo(u, "stored")
  /\ UNCHANGED <<dataset, hardlinks, documents, current, linked, facts, importers, fresh>>

\* create_document commits.
RegisterUpload(u) ==
  /\ uploads[u] = "stored"
  /\ documents' = [documents EXCEPT ![u] = "STORED"]
  /\ UploadTo(u, "registered")
  /\ UNCHANGED <<dataset, files, hardlinks, current, linked, facts, importers, fresh>>

\* It raises, before its commit or when it reads the row back: upload_document
\* removes the file in either case.
RegisterFails(u) ==
  /\ uploads[u] \in {"stored", "registered"}
  /\ files' = [files EXCEPT ![u] = 0]
  /\ UploadTo(u, "failed")
  /\ UNCHANGED <<dataset, hardlinks, documents, current, linked, facts, importers, fresh>>

\* The row is read back and answered.
AnswerUpload(u) ==
  /\ uploads[u] = "registered"
  /\ UploadTo(u, "done")
  /\ UNCHANGED <<dataset, files, hardlinks, documents, current, linked, facts, importers, fresh>>

Next ==
  \/ \E i \in Importers :
       \/ BuildPlans(i) \/ RegisterPlans(i) \/ ImportFails(i) \/ ImportKilled(i)
       \/ \E s \in Sources : Materialize(i, s) \/ FinishCopy(i, s) \/ RejectCopy(i, s)
  \/ \E S \in SUBSET Sources : BatchReconcile(S)
  \/ \E f \in Facts : BatchUpsert(f) \/ ReviewFact(f) \/ OfflineReview(f)
  \/ \E s \in Sources : SourceChanges(s)
  \/ \E u \in Uploads : StorePdf(u) \/ RegisterUpload(u) \/ RegisterFails(u) \/ AnswerUpload(u)

Spec == Init /\ [][Next]_vars

-----------------------------------------------------------------------------
(* Properties.                                                             *)

\* A document row names a stored file with the digest it records, whatever
\* import or upload failed, was killed or was repeated, and whatever happened to
\* the PDF a copy was made from.  Two exceptions are the code's: a hard link
\* follows its source (README), and an upload whose row could not be read back
\* loses its file though the row is committed; its client was told it failed.
RowHasItsFile ==
  \A d \in Documents : documents[d] # "NONE" =>
    \/ files[d] = 1
    \/ d \in hardlinks /\ dataset[d] # 1
    \/ d \in Uploads /\ uploads[d] = "failed"

\* As long as no batch run or offline review has written since, an imported
\* source is linked like its facts: the evidence check of a VERIFIED answer that
\* cites one of them (require_current_document_content) finds its one CURRENT
\* source, and every fact can be reviewed.
EvidenceFindsItsSource ==
  \A s \in fresh : s \in linked /\ \A f \in FactsOf(s) : facts[f].linked

\* Importing an unchanged baseline again is accepted, at every stage of its
\* review: the status the reviews gave a document is the one the bootstrap
\* computes from the facts.
ImportIsRepeatable ==
  \A s \in fresh : Accepts(s)

\* A COMPLETED document has no linked fact left to review, also when batch runs
\* add facts to its source and imports link them.
CompletedIsReviewed ==
  \A s \in Sources : documents[s] = "COMPLETED" =>
    \A f \in FactsOf(s) : facts[f].linked => facts[f].status # "NEEDS_REVIEW"
=============================================================================
