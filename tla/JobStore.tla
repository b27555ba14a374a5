------------------------------- MODULE JobStore -------------------------------
(***************************************************************************)
(* The durable control plane of web_store.py: documents, jobs and leases.  *)
(*                                                                         *)
(* Every public method of WebStore that writes is one BEGIN IMMEDIATE      *)
(* transaction (WebStore._transaction), so each is one action here.  A     *)
(* method that raises rolls its transaction back: it is a step that does   *)
(* not happen.  What is not atomic is kept: the caller of claim_job,       *)
(* heartbeat_job and recover_interrupted reads its clock BEFORE it waits   *)
(* for the database lock, so the time it acts on may be up to LockWait     *)
(* older than the time of the commit (sqlite_busy_timeout_ms bounds the    *)
(* wait).                                                                  *)
(*                                                                         *)
(* The callers are any processes that hold a grant, that is, the           *)
(* (job, worker, token) triple claim_job returned to them, however long    *)
(* ago.  IngestionWorker is the one real caller.                           *)
(***************************************************************************)
EXTENDS Naturals

CONSTANTS
  Documents,     \* document ids (uuid4)
  Workers,       \* worker ids
  Keys,          \* idempotency keys the clients send
  NoDocument,    \* "no document": a job that is not a document_ingestion job
  NoWorker,      \* lease_owner IS NULL
  NoKey,         \* the key of a row that does not exist
  LeaseSeconds,  \* the lease a claim or a heartbeat grants
  LockWait,      \* the longest wait between reading the clock and the commit
  MaxJobs,       \* bound: rows of the job table
  MaxClock       \* bound: the clock

ASSUME ModelAssumption ==
  /\ NoDocument \notin Documents
  /\ NoWorker \notin Workers
  /\ NoKey \notin Keys
  /\ LeaseSeconds \in Nat \ {0}
  /\ LockWait \in Nat
  /\ MaxJobs \in Nat
  /\ MaxClock \in Nat

VARIABLES
  clock,      \* wall-clock time
  documents,  \* the document table
  jobs,       \* the job table, in created_at order
  created,    \* the number of job rows
  issued,     \* the number of lease tokens drawn so far
  grants,     \* what claim_job returned: [job, worker, token]
  facts,      \* per document: the jobs whose plan wrote its authoritative facts
  artifacts   \* the jobs that have artifact rows

vars == <<clock, documents, jobs, created, issued, grants, facts, artifacts>>

-----------------------------------------------------------------------------
JobIds == 1..MaxJobs
NoJob == 0     \* a NULL job reference
NoToken == 0   \* a NULL lease token

DocumentStatuses ==
  {"ABSENT", "STORED", "QUEUED", "PROCESSING", "NEEDS_REVIEW", "COMPLETED", "FAILED"}
JobStatuses == {"ABSENT", "QUEUED", "RUNNING", "SUCCEEDED", "FAILED", "INTERRUPTED"}
ErrorCodes == {"NONE", "INGESTION_FAILED", "HANDLER_FAILED", "LEASE_EXPIRED"}

DocumentRow == [status : DocumentStatuses, active : Nat, error : ErrorCodes]

JobRow == [status   : JobStatuses,
           document : Documents \cup {NoDocument},
           key      : Keys \cup {NoKey},
           parent   : Nat,
           attempt  : Nat,
           owner    : Workers \cup {NoWorker},
           token    : Nat,
           expires  : Nat]

Grant == [job : JobIds, worker : Workers, token : Nat]

TypeOK ==
  /\ clock \in 0..MaxClock
  /\ documents \in [Documents -> DocumentRow]
  /\ jobs \in [JobIds -> JobRow]
  /\ created \in 0..MaxJobs
  /\ issued \in Nat
  /\ grants \subseteq Grant
  /\ facts \in [Documents -> SUBSET JobIds]
  /\ artifacts \subseteq JobIds

Exists(j) == j \in JobIds /\ j <= created
Open(j) == jobs[j].status \in {"QUEUED", "RUNNING"}
Ended(j) == jobs[j].status \in {"SUCCEEDED", "FAILED", "INTERRUPTED"}
Ingestion(j) == jobs[j].document # NoDocument

\* The times a call that commits now may have read before waiting for the lock.
SampledTimes == {t \in 0..clock : clock <= t + LockWait}

AbsentDocument == [status |-> "ABSENT", active |-> NoJob, error |-> "NONE"]

AbsentJob ==
  [status |-> "ABSENT", document |-> NoDocument, key |-> NoKey, parent |-> NoJob,
   attempt |-> 0, owner |-> NoWorker, token |-> NoToken, expires |-> 0]

Init ==
  /\ clock = 0
  /\ documents = [d \in Documents |-> AbsentDocument]
  /\ jobs = [j \in JobIds |-> AbsentJob]
  /\ created = 0
  /\ issued = 0
  /\ grants = {}
  /\ facts = [d \in Documents |-> {}]
  /\ artifacts = {}

-----------------------------------------------------------------------------
(* Guards and writes that several transactions share.                      *)

\* Bug: the lease is proved by its token alone, expired or not.
HoldsToken(g, now) ==
  /\ jobs[g.job].status = "RUNNING"
  /\ jobs[g.job].owner = g.worker
  /\ jobs[g.job].token = g.token

\* _require_active_job_lease: the clock is read inside the transaction unless
\* the caller passes an earlier reading.
HoldsLease(g, now) ==
  /\ jobs[g.job].status = "RUNNING"
  /\ jobs[g.job].owner = g.worker
  /\ jobs[g.job].token = g.token
  /\ jobs[g.job].expires > now

\* _require_active_document_attempt
IsActiveAttempt(j, d) ==
  /\ jobs[j].document = d
  /\ documents[d].active = j

\* A replayed idempotency key returns the row it is bound to or is refused:
\* either way no row is written.
FreshKey(k) == \A j \in 1..created : jobs[j].key # k

\* Bug: two columns of the INSERT are swapped.
InsertJobSwapped(d, k, p, n) ==
  /\ created < MaxJobs
  /\ FreshKey(k)
  /\ created' = created + 1
  /\ jobs' = [jobs EXCEPT ![created + 1] =
                [AbsentJob EXCEPT !.status = "QUEUED", !.document = k, !.key = d,
                                  !.parent = p, !.attempt = n]]

\* _create_job_in_transaction
InsertJob(d, k, p, n) ==
  /\ created < MaxJobs
  /\ FreshKey(k)
  /\ created' = created + 1
  /\ jobs' = [jobs EXCEPT ![created + 1] =
                [AbsentJob EXCEPT !.status = "QUEUED", !.document = d, !.key = k,
                                  !.parent = p, !.attempt = n]]

\* The row of job j once its lease is cleared and its final status is written.
FinishedRow(j, status) ==
  [jobs[j] EXCEPT !.status = status, !.owner = NoWorker,
                  !.token = NoToken, !.expires = 0]

\* _release_document_attempt for a job that did not succeed: the document fails,
\* keeps the pointer to the attempt, and keeps the first error recorded.
FailedDocument(row, error) ==
  [row EXCEPT !.status = "FAILED", !.error = IF @ = "NONE" THEN error ELSE @]

-----------------------------------------------------------------------------
(* The API process.                                                        *)

CreateDocument(d) ==
  /\ documents[d].status = "ABSENT"
  /\ documents' = [documents EXCEPT ![d].status = "STORED"]
  /\ UNCHANGED <<clock, jobs, created, issued, grants, facts, artifacts>>

EnqueueDocumentJob(d, k) ==
  /\ documents[d].active = NoJob
  /\ documents[d].status = "STORED"
  /\ InsertJob(d, k, NoJob, 1)
  /\ documents' = [documents EXCEPT ![d].status = "QUEUED", ![d].active = created + 1]
  /\ UNCHANGED <<clock, issued, grants, facts, artifacts>>

\* create_job: any job type but document_ingestion.
CreateJob(k) ==
  /\ InsertJob(NoDocument, k, NoJob, 1)
  /\ UNCHANGED <<clock, documents, issued, grants, facts, artifacts>>

\* Bug: any attempt that failed may be retried, the current one or not.
RetryAnyFailed(j, k) ==
  /\ jobs[j].status \in {"FAILED", "INTERRUPTED"}
  /\ InsertJob(jobs[j].document, k, j, jobs[j].attempt + 1)
  /\ documents' = [d \in Documents |->
       IF jobs[j].document = d
       THEN [documents[d] EXCEPT !.status = "QUEUED", !.active = created + 1, !.error = "NONE"]
       ELSE documents[d]]
  /\ UNCHANGED <<clock, issued, grants, facts, artifacts>>

\* Bug: a retry copies the attempt number.
RetrySameNumber(j, k) ==
  /\ jobs[j].status \in {"FAILED", "INTERRUPTED"}
  /\ Ingestion(j)
  /\ InsertJob(jobs[j].document, k, j, jobs[j].attempt)
  /\ LET d == jobs[j].document
     IN  /\ documents[d].active = j
         /\ documents' = [documents EXCEPT ![d] =
              [@ EXCEPT !.status = "QUEUED", !.active = created + 1, !.error = "NONE"]]
  /\ UNCHANGED <<clock, issued, grants, facts, artifacts>>

RetryJob(j, k) ==
  /\ jobs[j].status \in {"FAILED", "INTERRUPTED"}
  /\ InsertJob(jobs[j].document, k, j, jobs[j].attempt + 1)
  /\ \/ /\ ~Ingestion(j)
        /\ UNCHANGED documents
     \/ /\ Ingestion(j)
        /\ LET d == jobs[j].document
           IN  /\ documents[d].active = j
               /\ documents[d].status = "FAILED"
               /\ documents' = [documents EXCEPT ![d] =
                    [@ EXCEPT !.status = "QUEUED", !.active = created + 1, !.error = "NONE"]]
  /\ UNCHANGED <<clock, issued, grants, facts, artifacts>>

\* review_fact ends with _refresh_document_review_status: a document that has
\* facts is COMPLETED when none of them is pending, unless it is FAILED.
ReviewDocument(d) ==
  /\ facts[d] # {}
  /\ documents[d].status # "FAILED"
  /\ \E status \in {"NEEDS_REVIEW", "COMPLETED"} :
       documents' = [documents EXCEPT ![d] = [@ EXCEPT !.status = status, !.error = "NONE"]]
  /\ UNCHANGED <<clock, jobs, created, issued, grants, facts, artifacts>>

-----------------------------------------------------------------------------
(* The worker processes.                                                   *)

\* The oldest QUEUED job: the rows are numbered in created_at order.
OldestQueued(j) ==
  /\ Exists(j)
  /\ jobs[j].status = "QUEUED"
  /\ \A i \in 1..created : i < j => jobs[i].status # "QUEUED"

ClaimJob(w, j, now) ==
  /\ OldestQueued(j)
  /\ now \in SampledTimes
  /\ issued' = issued + 1
  /\ jobs' = [jobs EXCEPT ![j] =
                [@ EXCEPT !.status = "RUNNING", !.owner = w,
                          !.token = issued + 1, !.expires = now + LeaseSeconds]]
  /\ grants' = grants \cup {[job |-> j, worker |-> w, token |-> issued + 1]}
  /\ UNCHANGED <<clock, documents, created, facts, artifacts>>

\* The heartbeats of one grant are serialised by the worker's renewal lock, so
\* a later call reads a clock no earlier than the previous one did.
HeartbeatJob(g, now) ==
  /\ now \in SampledTimes
  /\ now + LeaseSeconds >= jobs[g.job].expires
  /\ HoldsLease(g, now)
  /\ jobs' = [jobs EXCEPT ![g.job].expires = now + LeaseSeconds]
  /\ UNCHANGED <<clock, documents, created, issued, grants, facts, artifacts>>

\* The document handler writes PROCESSING before it extracts and FAILED, with
\* an error, when anything raises.
UpdateDocumentStatusForJob(g, d, status) ==
  /\ HoldsLease(g, clock)
  /\ IsActiveAttempt(g.job, d)
  /\ documents' = [documents EXCEPT ![d] =
       [@ EXCEPT !.status = status,
                 !.error = IF status = "FAILED" THEN "INGESTION_FAILED" ELSE "NONE"]]
  /\ UNCHANGED <<clock, jobs, created, issued, grants, facts, artifacts>>

\* promote_document_ingestion: facts, projections, artifacts, document and job in
\* one transaction.  A new plan's facts all need review, unless the rows were
\* already there and reviewed.
PromoteDocumentIngestion(g, d) ==
  /\ HoldsLease(g, clock)
  /\ IsActiveAttempt(g.job, d)
  /\ facts' = [facts EXCEPT ![d] = @ \cup {g.job}]
  /\ artifacts' = artifacts \cup {g.job}
  /\ jobs' = [jobs EXCEPT ![g.job] = FinishedRow(g.job, "SUCCEEDED")]
  /\ documents' = [documents EXCEPT ![d] =
       IF @.status = "FAILED" THEN [@ EXCEPT !.active = NoJob]
       ELSE [@ EXCEPT !.active = NoJob, !.status = "NEEDS_REVIEW", !.error = "NONE"]]
  /\ UNCHANGED <<clock, created, issued, grants>>

\* fail_job: for an ingestion job the attempt must still be the current one.
FailJob(g) ==
  /\ HoldsLease(g, clock)
  /\ Ingestion(g.job) => IsActiveAttempt(g.job, jobs[g.job].document)
  /\ jobs' = [jobs EXCEPT ![g.job] = FinishedRow(g.job, "FAILED")]
  /\ documents' = [d \in Documents |->
       IF IsActiveAttempt(g.job, d) THEN FailedDocument(documents[d], "HANDLER_FAILED")
       ELSE documents[d]]
  /\ UNCHANGED <<clock, created, issued, grants, facts, artifacts>>

\* complete_job is refused for an ingestion job: it succeeds by promotion only.
CompleteJob(g) ==
  /\ HoldsLease(g, clock)
  /\ ~Ingestion(g.job)
  /\ jobs' = [jobs EXCEPT ![g.job] = FinishedRow(g.job, "SUCCEEDED")]
  /\ UNCHANGED <<clock, documents, created, issued, grants, facts, artifacts>>

\* Bug: artifacts of an ingestion job are recorded before its promotion.
CreateAnyArtifact(g) ==
  /\ HoldsLease(g, clock)
  /\ artifacts' = artifacts \cup {g.job}
  /\ UNCHANGED <<clock, documents, jobs, created, issued, grants, facts>>

\* create_artifact is refused for an ingestion job.
CreateArtifact(g) ==
  /\ HoldsLease(g, clock)
  /\ ~Ingestion(g.job)
  /\ artifacts' = artifacts \cup {g.job}
  /\ UNCHANGED <<clock, documents, jobs, created, issued, grants, facts>>

\* recover_interrupted takes every RUNNING job whose lease ended strictly
\* before the time it read.
Expired(j, now) == jobs[j].status = "RUNNING" /\ jobs[j].expires < now

\* Bug: the recovery does not release the documents of the jobs it ends.
RecoverJobsOnly(now) ==
  /\ now \in SampledTimes
  /\ jobs' = [j \in JobIds |->
       IF Expired(j, now) THEN FinishedRow(j, "INTERRUPTED") ELSE jobs[j]]
  /\ UNCHANGED <<clock, documents, created, issued, grants, facts, artifacts>>

RecoverInterrupted(now) ==
  /\ now \in SampledTimes
  /\ jobs' = [j \in JobIds |->
       IF Expired(j, now) THEN FinishedRow(j, "INTERRUPTED") ELSE jobs[j]]
  /\ documents' = [d \in Documents |->
       IF \E j \in JobIds : Expired(j, now) /\ IsActiveAttempt(j, d)
       THEN FailedDocument(documents[d], "LEASE_EXPIRED")
       ELSE documents[d]]
  /\ UNCHANGED <<clock, created, issued, grants, facts, artifacts>>

Tick ==
  /\ clock < MaxClock
  /\ clock' = clock + 1
  /\ UNCHANGED <<documents, jobs, created, issued, grants, facts, artifacts>>

-----------------------------------------------------------------------------
ApiStep ==
  \/ \E d \in Documents : CreateDocument(d)
  \/ \E d \in Documents, k \in Keys : EnqueueDocumentJob(d, k)
  \/ \E k \in Keys : CreateJob(k)
  \/ \E j \in JobIds, k \in Keys : RetryJob(j, k)
  \/ \E d \in Documents : ReviewDocument(d)

WorkerStep ==
  \/ \E w \in Workers, j \in JobIds, now \in SampledTimes : ClaimJob(w, j, now)
  \/ \E g \in grants, now \in SampledTimes : HeartbeatJob(g, now)
  \/ \E g \in grants, d \in Documents, status \in {"PROCESSING", "FAILED"} :
       UpdateDocumentStatusForJob(g, d, status)
  \/ \E g \in grants, d \in Documents : PromoteDocumentIngestion(g, d)
  \/ \E g \in grants : FailJob(g)
  \/ \E g \in grants : CompleteJob(g)
  \/ \E g \in grants : CreateArtifact(g)
  \/ \E now \in SampledTimes : RecoverInterrupted(now)

Next == ApiStep \/ WorkerStep \/ Tick

Spec == Init /\ [][Next]_vars

-----------------------------------------------------------------------------
(* Safety.                                                                 *)

Attempts(d) == {j \in JobIds : jobs[j].document = d}

\* A document has at most one attempt that is queued or running, and it is the
\* one its active_ingestion_job_id names (ARCHITECTURE invariant 13).
OneOpenAttempt ==
  \A d \in Documents : \A j \in Attempts(d) : Open(j) => documents[d].active = j

\* The pointer of a document names its latest attempt: every other attempt has a
\* smaller number and ended without success, so only the latest can be retried.
ActiveAttemptIsLatest ==
  \A d \in Documents : documents[d].active # NoJob =>
    /\ documents[d].active \in Attempts(d)
    /\ jobs[documents[d].active].status # "SUCCEEDED"
    /\ \A j \in Attempts(d) \ {documents[d].active} :
         /\ jobs[j].status \in {"FAILED", "INTERRUPTED"}
         /\ jobs[j].attempt < jobs[documents[d].active].attempt

\* The two tables agree although a job row and a document row change in different
\* statements: a QUEUED attempt has a QUEUED document, a failed or interrupted
\* one a FAILED document with an error, and a document without an attempt is
\* absent, stored, or was promoted.
DocumentMirrorsAttempt ==
  \A d \in Documents :
    LET row == documents[d]
    IN  /\ row.status = "FAILED" <=> row.error # "NONE"
        /\ row.active = NoJob =>
             IF facts[d] = {} THEN row.status \in {"ABSENT", "STORED"}
             ELSE row.status \in {"NEEDS_REVIEW", "COMPLETED", "FAILED"}
        /\ row.active # NoJob =>
             CASE jobs[row.active].status = "QUEUED"  -> row.status = "QUEUED"
               [] jobs[row.active].status = "RUNNING" ->
                    row.status \in {"QUEUED", "PROCESSING", "FAILED"}
               [] OTHER -> row.status = "FAILED"

\* An attempt numbered n > 1 retries an attempt numbered n - 1 of the same
\* document that ended in failure, and no ingestion attempt is retried twice.
RetriesFormAChain ==
  /\ \A j \in JobIds : jobs[j].parent # NoJob =>
       /\ jobs[j].parent \in 1..(j - 1)
       /\ jobs[jobs[j].parent].status \in {"FAILED", "INTERRUPTED"}
       /\ jobs[jobs[j].parent].document = jobs[j].document
       /\ jobs[j].attempt = jobs[jobs[j].parent].attempt + 1
  /\ \A i, j \in JobIds :
       /\ jobs[i].parent = jobs[j].parent
       /\ Ingestion(i) /\ jobs[i].document = jobs[j].document
       => i = j

\* The authoritative facts of a document come from exactly one attempt, the one
\* that is SUCCEEDED; an ingestion job has artifacts only when it succeeded
\* (ARCHITECTURE invariant 11).
PromotedOnce ==
  /\ \A d \in Documents :
       /\ facts[d] = {j \in Attempts(d) : jobs[j].status = "SUCCEEDED"}
       /\ facts[d] # {} => documents[d].active = NoJob
       /\ \A i, j \in facts[d] : i = j
  /\ \A j \in artifacts : Ingestion(j) => jobs[j].status = "SUCCEEDED"

\* A job is handed to one worker only, once: no second grant for a job exists,
\* not even after its lease expired, and a running job is held by its grant.
HandedOutOnce ==
  /\ \A g, h \in grants : g.job = h.job => g = h
  /\ \A j \in JobIds : jobs[j].status = "RUNNING" =>
       [job |-> j, worker |-> jobs[j].owner, token |-> jobs[j].token] \in grants

-----------------------------------------------------------------------------
(* The inductive invariant: the properties above and what they rest on.    *)

\* Rows are numbered without gaps; a missing row is all NULL.
RowsInOrder ==
  \A j \in JobIds : IF j > created THEN jobs[j] = AbsentJob ELSE jobs[j].status # "ABSENT"

\* A grant is for a job that has been claimed, so a QUEUED job has none; and
\* only a claimed job has artifacts.
GrantsWereClaimed ==
  /\ \A g \in grants : jobs[g.job].status \notin {"ABSENT", "QUEUED"}
  /\ \A j \in artifacts : jobs[j].status \notin {"ABSENT", "QUEUED"}

\* A document without a pointer has had no attempt, or was promoted.
NoPointerNoAttempt ==
  \A d \in Documents :
    documents[d].active = NoJob /\ facts[d] = {} => Attempts(d) = {}

IndInv ==
  /\ TypeOK
  /\ RowsInOrder
  /\ GrantsWereClaimed
  /\ HandedOutOnce
  /\ NoPointerNoAttempt
  /\ OneOpenAttempt
  /\ ActiveAttemptIsLatest
  /\ DocumentMirrorsAttempt
  /\ PromotedOnce
  /\ RetriesFormAChain

-----------------------------------------------------------------------------
(* Action properties.                                                      *)

\* A job only moves QUEUED -> RUNNING -> a terminal status; a terminal row never
\* changes again, whatever a late worker or a recovery does.
JobsOnlyMoveForward ==
  [][\A j \in JobIds :
       /\ Ended(j) => jobs'[j] = jobs[j]
       /\ jobs[j].status = "RUNNING" => jobs'[j].status # "QUEUED"
       /\ jobs[j].status = "QUEUED" => jobs'[j].status \in {"QUEUED", "RUNNING"}]_vars

\* The facts of a document change only in the step in which a running attempt
\* with an unexpired lease, named by the document, becomes SUCCEEDED: a worker
\* that lost its lease never writes the authority store (ARCHITECTURE
\* invariant 12).
FactsAreFenced ==
  [][\A d \in Documents : facts'[d] # facts[d] =>
       LET j == documents[d].active
       IN  /\ j \in JobIds
           /\ jobs[j].status = "RUNNING" /\ jobs[j].expires > clock
           /\ jobs'[j].status = "SUCCEEDED"
           /\ documents'[d].active = NoJob]_vars

-----------------------------------------------------------------------------
(* The control plane implements the ingestion life cycle.                  *)

PhaseOf(d) ==
  IF documents[d].active # NoJob
  THEN IF Open(documents[d].active) THEN "attempting" ELSE "failed"
  ELSE IF facts[d] # {} THEN "ingested"
  ELSE IF documents[d].status = "ABSENT" THEN "absent" ELSE "stored"

AttemptOf(d) ==
  IF documents[d].active # NoJob THEN jobs[documents[d].active].attempt
  ELSE IF facts[d] # {} THEN jobs[CHOOSE j \in facts[d] : TRUE].attempt
  ELSE 0

Lifecycle == INSTANCE IngestionLifecycle WITH
               phase   <- [d \in Documents |-> PhaseOf(d)],
               attempt <- [d \in Documents |-> AttemptOf(d)]

\* Leases, tokens, late workers, recoveries and replayed requests are invisible
\* from outside: per document the store behaves as the life cycle says.
ImplementsLifecycle == Lifecycle!Spec
=============================================================================
