------------------------- MODULE IngestionWorkerProofs -------------------------
(***************************************************************************)
(* Proofs about JobStore and IngestionWorker, for every set of documents,  *)
(* workers and keys and every lease length, lock wait and bound.           *)
(*                                                                         *)
(* The first part is about the store alone, whoever calls it.  The second  *)
(* is about the processes, daemons or not: they use the store as JobStore  *)
(* describes it, so all that the first part shows of the store holds when  *)
(* they run it.                                                            *)
(***************************************************************************)
EXTENDS IngestionWorker, TLAPS

-----------------------------------------------------------------------------
(* The store: types.                                                       *)

LEMMA RowTypes ==
  /\ AbsentDocument \in DocumentRow
  /\ AbsentJob \in JobRow
BY ModelAssumption DEF AbsentDocument, DocumentRow, DocumentStatuses, ErrorCodes,
   AbsentJob, JobRow, JobStatuses, NoJob, NoToken

\* The rows the transactions write are rows of their tables.
LEMMA FinishedRowType ==
  ASSUME TypeOK, NEW j \in JobIds, NEW s \in JobStatuses
  PROVE  FinishedRow(j, s) \in JobRow
BY DEF TypeOK, FinishedRow, JobRow, NoToken

LEMMA FailedDocumentType ==
  ASSUME NEW row \in DocumentRow, NEW e \in ErrorCodes
  PROVE  FailedDocument(row, e) \in DocumentRow
BY DEF FailedDocument, DocumentRow, DocumentStatuses, ErrorCodes

LEMMA InsertJobType ==
  ASSUME TypeOK, NEW d \in Documents \cup {NoDocument}, NEW k \in Keys,
         NEW p \in Nat, NEW n \in Nat, InsertJob(d, k, p, n)
  PROVE  /\ created + 1 \in JobIds /\ created + 1 \in Nat
         /\ created' \in 0..MaxJobs
         /\ jobs' \in [JobIds -> JobRow]
<1>1. created + 1 \in JobIds /\ created + 1 \in Nat /\ created' \in 0..MaxJobs
  BY ModelAssumption DEF TypeOK, InsertJob, JobIds
<1>2. [AbsentJob EXCEPT !.status = "QUEUED", !.document = d, !.key = k,
                        !.parent = p, !.attempt = n] \in JobRow
  BY RowTypes DEF AbsentJob, JobRow, JobStatuses, NoJob, NoToken
<1>3. QED
  BY <1>1, <1>2 DEF TypeOK, InsertJob

LEMMA TypeInit == Init => TypeOK
<1> SUFFICES ASSUME Init PROVE TypeOK
  OBVIOUS
<1>1. 0 \in 0..MaxClock /\ 0 \in 0..MaxJobs
  BY ModelAssumption
<1>2. QED
  BY <1>1, RowTypes DEF Init, TypeOK

LEMMA TypeNext == TypeOK /\ [Next]_vars => TypeOK'
<1> SUFFICES ASSUME TypeOK, [Next]_vars PROVE TypeOK'
  OBVIOUS
<1>1. ASSUME NEW d \in Documents, CreateDocument(d) PROVE TypeOK'
  BY <1>1 DEF CreateDocument, TypeOK, DocumentRow, DocumentStatuses
<1>2. ASSUME NEW d \in Documents, NEW k \in Keys, EnqueueDocumentJob(d, k)
      PROVE  TypeOK'
  <2>1. created' \in 0..MaxJobs /\ created + 1 \in Nat /\ jobs' \in [JobIds -> JobRow]
    BY <1>2, InsertJobType DEF EnqueueDocumentJob, NoJob
  <2>2. documents' \in [Documents -> DocumentRow]
    BY <1>2, <2>1 DEF EnqueueDocumentJob, TypeOK, DocumentRow, DocumentStatuses
  <2>3. QED
    BY <1>2, <2>1, <2>2 DEF EnqueueDocumentJob, TypeOK
<1>3. ASSUME NEW k \in Keys, CreateJob(k) PROVE TypeOK'
  <2>1. created' \in 0..MaxJobs /\ jobs' \in [JobIds -> JobRow]
    BY <1>3, InsertJobType DEF CreateJob, NoJob
  <2>2. QED
    BY <1>3, <2>1 DEF CreateJob, TypeOK
<1>4. ASSUME NEW j \in JobIds, NEW k \in Keys, RetryJob(j, k) PROVE TypeOK'
  <2>1. /\ jobs[j].document \in Documents \cup {NoDocument}
        /\ jobs[j].attempt + 1 \in Nat
        /\ j \in Nat
    BY DEF TypeOK, JobRow, JobIds
  <2>2. created' \in 0..MaxJobs /\ created + 1 \in Nat /\ jobs' \in [JobIds -> JobRow]
    BY <1>4, <2>1, InsertJobType DEF RetryJob
  <2>3. documents' \in [Documents -> DocumentRow]
    <3>1. CASE ~Ingestion(j)
      BY <1>4, <3>1 DEF RetryJob, TypeOK
    <3>2. CASE Ingestion(j)
      <4> DEFINE d == jobs[j].document
      <4>1. d \in Documents
        BY <2>1, <3>2 DEF Ingestion
      <4>2. [documents[d] EXCEPT !.status = "QUEUED", !.active = created + 1,
                                 !.error = "NONE"] \in DocumentRow
        BY <2>2, <4>1 DEF TypeOK, DocumentRow, DocumentStatuses, ErrorCodes
      <4>3. QED
        BY <1>4, <3>2, <4>1, <4>2 DEF RetryJob, TypeOK
    <3>3. QED
      BY <3>1, <3>2
  <2>4. QED
    BY <1>4, <2>2, <2>3 DEF RetryJob, TypeOK
<1>5. ASSUME NEW d \in Documents, ReviewDocument(d) PROVE TypeOK'
  BY <1>5 DEF ReviewDocument, TypeOK, DocumentRow, DocumentStatuses, ErrorCodes
<1>6. ASSUME NEW w \in Workers, NEW j \in JobIds, NEW now \in SampledTimes,
             ClaimJob(w, j, now)
      PROVE  TypeOK'
  <2>1. now + LeaseSeconds \in Nat
    BY ModelAssumption DEF SampledTimes, TypeOK
  <2>2. [jobs[j] EXCEPT !.status = "RUNNING", !.owner = w, !.token = issued + 1,
                        !.expires = now + LeaseSeconds] \in JobRow
    <3>1. jobs[j] \in JobRow /\ issued + 1 \in Nat
      BY DEF TypeOK
    <3>2. QED
      BY <2>1, <3>1 DEF JobRow, JobStatuses
  <2>3. jobs' \in [JobIds -> JobRow]
    BY <1>6, <2>2 DEF ClaimJob, TypeOK
  <2>4. grants' \subseteq Grant /\ issued' \in Nat
    BY <1>6 DEF ClaimJob, TypeOK, Grant
  <2>5. QED
    BY <1>6, <2>3, <2>4 DEF ClaimJob, TypeOK
<1>7. ASSUME NEW g \in grants, NEW now \in SampledTimes, HeartbeatJob(g, now)
      PROVE  TypeOK'
  <2>1. now + LeaseSeconds \in Nat
    BY ModelAssumption DEF SampledTimes, TypeOK
  <2>2. jobs' \in [JobIds -> JobRow]
    BY <1>7, <2>1 DEF HeartbeatJob, TypeOK, JobRow
  <2>3. QED
    BY <1>7, <2>2 DEF HeartbeatJob, TypeOK
<1>8. ASSUME NEW g \in grants, NEW d \in Documents, NEW s \in {"PROCESSING", "FAILED"},
             UpdateDocumentStatusForJob(g, d, s)
      PROVE  TypeOK'
  BY <1>8 DEF UpdateDocumentStatusForJob, TypeOK, DocumentRow, DocumentStatuses, ErrorCodes
<1>9. ASSUME NEW g \in grants, NEW d \in Documents, PromoteDocumentIngestion(g, d)
      PROVE  TypeOK'
  <2>1. g.job \in JobIds
    BY DEF TypeOK, Grant
  <2>2. jobs' \in [JobIds -> JobRow]
    BY <1>9, <2>1, FinishedRowType DEF PromoteDocumentIngestion, TypeOK, JobStatuses
  <2>3. documents' \in [Documents -> DocumentRow]
    BY <1>9 DEF PromoteDocumentIngestion, TypeOK, DocumentRow, DocumentStatuses, ErrorCodes, NoJob
  <2>4. facts' \in [Documents -> SUBSET JobIds] /\ artifacts' \subseteq JobIds
    BY <1>9, <2>1 DEF PromoteDocumentIngestion, TypeOK
  <2>5. QED
    BY <1>9, <2>2, <2>3, <2>4 DEF PromoteDocumentIngestion, TypeOK
<1>10. ASSUME NEW g \in grants, FailJob(g) PROVE TypeOK'
  <2>1. g.job \in JobIds
    BY DEF TypeOK, Grant
  <2>2. jobs' \in [JobIds -> JobRow]
    BY <1>10, <2>1, FinishedRowType DEF FailJob, TypeOK, JobStatuses
  <2>3. \A d \in Documents : FailedDocument(documents[d], "HANDLER_FAILED") \in DocumentRow
    BY FailedDocumentType DEF TypeOK, ErrorCodes
  <2>4. documents' \in [Documents -> DocumentRow]
    BY <1>10, <2>3 DEF FailJob, TypeOK
  <2>5. QED
    BY <1>10, <2>2, <2>4 DEF FailJob, TypeOK
<1>11. ASSUME NEW g \in grants, CompleteJob(g) PROVE TypeOK'
  <2>1. g.job \in JobIds
    BY DEF TypeOK, Grant
  <2>2. jobs' \in [JobIds -> JobRow]
    BY <1>11, <2>1, FinishedRowType DEF CompleteJob, TypeOK, JobStatuses
  <2>3. QED
    BY <1>11, <2>2 DEF CompleteJob, TypeOK
<1>12. ASSUME NEW g \in grants, CreateArtifact(g) PROVE TypeOK'
  BY <1>12 DEF CreateArtifact, TypeOK, Grant
<1>13. ASSUME NEW now \in SampledTimes, RecoverInterrupted(now) PROVE TypeOK'
  <2>1. \A j \in JobIds : FinishedRow(j, "INTERRUPTED") \in JobRow
    BY FinishedRowType DEF JobStatuses
  <2>2. jobs' \in [JobIds -> JobRow]
    BY <1>13, <2>1 DEF RecoverInterrupted, TypeOK
  <2>3. \A d \in Documents : FailedDocument(documents[d], "LEASE_EXPIRED") \in DocumentRow
    BY FailedDocumentType DEF TypeOK, ErrorCodes
  <2>4. documents' \in [Documents -> DocumentRow]
    BY <1>13, <2>3 DEF RecoverInterrupted, TypeOK
  <2>5. QED
    BY <1>13, <2>2, <2>4 DEF RecoverInterrupted, TypeOK
<1>14. ASSUME Tick PROVE TypeOK'
  BY <1>14, ModelAssumption DEF Tick, TypeOK
<1>15. CASE UNCHANGED vars
  BY <1>15 DEF vars, TypeOK
<1>16. QED
  BY <1>1, <1>2, <1>3, <1>4, <1>5, <1>6, <1>7, <1>8, <1>9, <1>10, <1>11, <1>12,
     <1>13, <1>14, <1>15 DEF Next, ApiStep, WorkerStep

\* Every table keeps its type whatever the interleaving of API calls, workers
\* and recoveries (web_store.py, all writing methods).
THEOREM TypeCorrect == Spec => []TypeOK
BY TypeInit, TypeNext, PTL DEF Spec

-----------------------------------------------------------------------------
(* The store: the inductive invariant.                                     *)

\* The columns of a job row that no transaction updates.
SameIdentity(i) ==
  /\ jobs'[i].parent = jobs[i].parent
  /\ jobs'[i].document = jobs[i].document
  /\ jobs'[i].attempt = jobs[i].attempt

LEMMA ChainKept ==
  ASSUME RetriesFormAChain,
         \A i \in JobIds : /\ SameIdentity(i)
                           /\ jobs[i].status \in {"FAILED", "INTERRUPTED"} =>
                                jobs'[i].status = jobs[i].status
  PROVE  RetriesFormAChain'
<1>1. ASSUME NEW j \in JobIds, jobs'[j].parent # NoJob
      PROVE  /\ jobs'[j].parent \in 1..(j - 1)
             /\ jobs'[jobs'[j].parent].status \in {"FAILED", "INTERRUPTED"}
             /\ jobs'[jobs'[j].parent].document = jobs'[j].document
             /\ jobs'[j].attempt = jobs'[jobs'[j].parent].attempt + 1
  <2> DEFINE p == jobs[j].parent
  <2>1. jobs'[j].parent = p /\ p \in 1..(j - 1)
    BY <1>1 DEF RetriesFormAChain, SameIdentity
  <2>2. p \in JobIds
    BY <2>1, ModelAssumption DEF JobIds
  <2>3. QED
    BY <1>1, <2>1, <2>2 DEF RetriesFormAChain, SameIdentity
<1>2. ASSUME NEW i \in JobIds, NEW j \in JobIds,
             jobs'[i].parent = jobs'[j].parent, jobs'[i].document # NoDocument,
             jobs'[i].document = jobs'[j].document
      PROVE  i = j
  BY <1>2 DEF RetriesFormAChain, SameIdentity, Ingestion
<1>3. QED
  BY <1>1, <1>2 DEF RetriesFormAChain, Ingestion

LEMMA JobTablesKept ==
  ASSUME IndInv, jobs' = jobs, created' = created, grants' = grants,
         artifacts' = artifacts
  PROVE  RowsInOrder' /\ GrantsWereClaimed' /\ HandedOutOnce' /\ RetriesFormAChain'
BY DEF IndInv, RowsInOrder, GrantsWereClaimed, HandedOutOnce, RetriesFormAChain, Ingestion

LEMMA PointersKept ==
  ASSUME IndInv, jobs' = jobs, facts' = facts,
         \A d \in Documents : documents'[d].active = documents[d].active
  PROVE  NoPointerNoAttempt' /\ OneOpenAttempt' /\ ActiveAttemptIsLatest'
BY DEF IndInv, NoPointerNoAttempt, OneOpenAttempt, ActiveAttemptIsLatest, Attempts, Open

LEMMA CreateDocumentKeeps ==
  ASSUME IndInv, TypeOK', NEW d \in Documents, CreateDocument(d)
  PROVE  IndInv'
<1>1. /\ \A e \in Documents \ {d} : documents'[e] = documents[e]
      /\ documents'[d].active = documents[d].active
      /\ documents'[d].error = documents[d].error
      /\ documents'[d].status = "STORED" /\ documents[d].status = "ABSENT"
  BY DEF CreateDocument, IndInv, TypeOK, DocumentRow
<1>2. documents[d].active = NoJob /\ facts[d] = {}
  BY <1>1 DEF IndInv, DocumentMirrorsAttempt
<1>3. RowsInOrder' /\ GrantsWereClaimed' /\ HandedOutOnce' /\ RetriesFormAChain'
  BY JobTablesKept DEF CreateDocument
<1>4. NoPointerNoAttempt' /\ OneOpenAttempt' /\ ActiveAttemptIsLatest'
  BY <1>1, PointersKept DEF CreateDocument
<1>5. DocumentMirrorsAttempt'
  BY <1>1, <1>2 DEF CreateDocument, IndInv, DocumentMirrorsAttempt
<1>6. PromotedOnce'
  BY <1>1 DEF CreateDocument, IndInv, PromotedOnce, Attempts, Ingestion
<1>7. QED
  BY <1>3, <1>4, <1>5, <1>6 DEF IndInv

LEMMA ReviewDocumentKeeps ==
  ASSUME IndInv, TypeOK', NEW d \in Documents, ReviewDocument(d)
  PROVE  IndInv'
<1>1. /\ \A e \in Documents \ {d} : documents'[e] = documents[e]
      /\ documents'[d].active = documents[d].active
      /\ documents'[d].error = "NONE"
      /\ documents'[d].status \in {"NEEDS_REVIEW", "COMPLETED"}
      /\ facts[d] # {}
  BY DEF ReviewDocument, IndInv, TypeOK, DocumentRow
<1>2. documents[d].active = NoJob
  BY <1>1 DEF IndInv, PromotedOnce
<1>3. RowsInOrder' /\ GrantsWereClaimed' /\ HandedOutOnce' /\ RetriesFormAChain'
  BY JobTablesKept DEF ReviewDocument
<1>4. NoPointerNoAttempt' /\ OneOpenAttempt' /\ ActiveAttemptIsLatest'
  BY <1>1, PointersKept DEF ReviewDocument
<1>5. DocumentMirrorsAttempt'
  BY <1>1, <1>2 DEF ReviewDocument, IndInv, DocumentMirrorsAttempt
<1>6. PromotedOnce'
  BY <1>1 DEF ReviewDocument, IndInv, PromotedOnce, Attempts, Ingestion
<1>7. QED
  BY <1>3, <1>4, <1>5, <1>6 DEF IndInv

LEMMA UpdateStatusKeeps ==
  ASSUME IndInv, TypeOK', NEW g \in grants, NEW d \in Documents,
         NEW s \in {"PROCESSING", "FAILED"}, UpdateDocumentStatusForJob(g, d, s)
  PROVE  IndInv'
<1>1. /\ \A e \in Documents \ {d} : documents'[e] = documents[e]
      /\ documents'[d].active = documents[d].active
      /\ documents'[d].status = s
      /\ documents'[d].error = (IF s = "FAILED" THEN "INGESTION_FAILED" ELSE "NONE")
  BY DEF UpdateDocumentStatusForJob, IndInv, TypeOK, DocumentRow
<1>2. /\ documents[d].active = g.job /\ jobs[g.job].status = "RUNNING"
      /\ g.job # NoJob
  BY DEF UpdateDocumentStatusForJob, HoldsLease, IsActiveAttempt, IndInv, TypeOK,
         Grant, JobIds, NoJob
<1>3. RowsInOrder' /\ GrantsWereClaimed' /\ HandedOutOnce' /\ RetriesFormAChain'
  BY JobTablesKept DEF UpdateDocumentStatusForJob
<1>4. NoPointerNoAttempt' /\ OneOpenAttempt' /\ ActiveAttemptIsLatest'
  BY <1>1, PointersKept DEF UpdateDocumentStatusForJob
<1>5. DocumentMirrorsAttempt'
  BY <1>1, <1>2 DEF UpdateDocumentStatusForJob, IndInv, DocumentMirrorsAttempt
<1>6. PromotedOnce'
  BY <1>1 DEF UpdateDocumentStatusForJob, IndInv, PromotedOnce, Attempts, Ingestion
<1>7. QED
  BY <1>3, <1>4, <1>5, <1>6 DEF IndInv

LEMMA PromoteKeeps ==
  ASSUME IndInv, TypeOK', NEW g \in grants, NEW d \in Documents, PromoteDocumentIngestion(g, d)
  PROVE  IndInv'
<1>1. g.job \in JobIds /\ g.job # NoJob /\ NoDocument \notin Documents
  BY ModelAssumption DEF IndInv, TypeOK, Grant, JobIds, NoJob
<1> DEFINE j == g.job
<1>2. /\ jobs[j].status = "RUNNING"
      /\ jobs[j].document = d
      /\ documents[d].active = j
  BY DEF PromoteDocumentIngestion, HoldsLease, IsActiveAttempt
<1>3. /\ \A i \in JobIds \ {j} : jobs'[i] = jobs[i]
      /\ jobs'[j].status = "SUCCEEDED" /\ jobs'[j].document = d
      /\ jobs'[j].attempt = jobs[j].attempt /\ jobs'[j].parent = jobs[j].parent
  BY <1>1, <1>2 DEF PromoteDocumentIngestion, IndInv, TypeOK, FinishedRow, JobRow
<1>4. /\ \A e \in Documents \ {d} : documents'[e] = documents[e] /\ facts'[e] = facts[e]
      /\ documents'[d].active = NoJob
      /\ documents'[d].status = (IF documents[d].status = "FAILED" THEN "FAILED" ELSE "NEEDS_REVIEW")
      /\ documents'[d].error = (IF documents[d].status = "FAILED" THEN documents[d].error ELSE "NONE")
      /\ facts'[d] = facts[d] \cup {j}
      /\ created' = created /\ grants' = grants /\ artifacts' = artifacts \cup {j}
  BY <1>1, <1>2 DEF PromoteDocumentIngestion, IndInv, TypeOK, DocumentRow
<1>5. /\ facts[d] = {}
      /\ \A i \in JobIds \ {j} : jobs[i].document = d => jobs[i].status \in {"FAILED", "INTERRUPTED"}
  BY <1>1, <1>2 DEF IndInv, PromotedOnce, ActiveAttemptIsLatest, Attempts
<1>6. RowsInOrder'
  BY <1>1, <1>2, <1>3, <1>4 DEF IndInv, RowsInOrder, TypeOK, JobIds, AbsentJob
<1>7. GrantsWereClaimed'
  BY <1>1, <1>2, <1>3, <1>4 DEF IndInv, GrantsWereClaimed, TypeOK, Grant
<1>8. HandedOutOnce'
  BY <1>1, <1>2, <1>3, <1>4 DEF IndInv, HandedOutOnce
<1>9. NoPointerNoAttempt'
  BY <1>1, <1>2, <1>3, <1>4 DEF IndInv, NoPointerNoAttempt, Attempts
<1>10. OneOpenAttempt'
  BY <1>1, <1>2, <1>3, <1>4, <1>5 DEF IndInv, OneOpenAttempt, Attempts, Open
<1>11. ActiveAttemptIsLatest'
  BY <1>1, <1>2, <1>3, <1>4, <1>5 DEF IndInv, ActiveAttemptIsLatest, Attempts
<1>12. DocumentMirrorsAttempt'
  BY <1>1, <1>2, <1>3, <1>4, <1>5 DEF IndInv, DocumentMirrorsAttempt, ActiveAttemptIsLatest, Attempts
<1>13. PromotedOnce'
  <2>1. facts'[d] = {i \in JobIds : jobs'[i].document = d /\ jobs'[i].status = "SUCCEEDED"}
    BY <1>1, <1>2, <1>3, <1>4, <1>5
  <2>2. \A e \in Documents \ {d} :
          facts'[e] = {i \in JobIds : jobs'[i].document = e /\ jobs'[i].status = "SUCCEEDED"}
    BY <1>1, <1>2, <1>3, <1>4 DEF IndInv, PromotedOnce, Attempts
  <2>3. \A e \in Documents : facts'[e] # {} => documents'[e].active = NoJob
    BY <1>4 DEF IndInv, PromotedOnce
  <2>4. \A e \in Documents : \A i, k \in facts'[e] : i = k
    BY <1>4, <1>5 DEF IndInv, PromotedOnce
  <2>5. \A i \in artifacts' : (Ingestion(i) => jobs[i].status = "SUCCEEDED")'
    BY <1>3, <1>4 DEF IndInv, PromotedOnce, Ingestion, TypeOK
  <2>6. QED
    BY <2>1, <2>2, <2>3, <2>4, <2>5 DEF PromotedOnce, Attempts
<1>14. RetriesFormAChain'
  <2>1. \A i \in JobIds : SameIdentity(i)
    BY <1>1, <1>2, <1>3 DEF SameIdentity
  <2>2. QED
    BY <1>2, <1>3, <2>1, ChainKept DEF IndInv
<1>15. QED
  BY <1>6, <1>7, <1>8, <1>9, <1>10, <1>11, <1>12, <1>13, <1>14 DEF IndInv

\* What an insert adds: one QUEUED row after the last one.
LEMMA InsertJobEffect ==
  ASSUME IndInv, NEW d \in Documents \cup {NoDocument}, NEW k \in Keys,
         NEW p \in Nat, NEW n \in Nat, InsertJob(d, k, p, n)
  PROVE  /\ created \in Nat /\ created + 1 \in JobIds /\ created + 1 # NoJob
         /\ created' = created + 1
         /\ \A i \in JobIds \ {created + 1} : jobs'[i] = jobs[i]
         /\ jobs[created + 1] = AbsentJob
         /\ jobs'[created + 1].status = "QUEUED"
         /\ jobs'[created + 1].document = d
         /\ jobs'[created + 1].parent = p
         /\ jobs'[created + 1].attempt = n
<1>1. created \in Nat /\ created + 1 \in JobIds /\ created + 1 # NoJob /\ created' = created + 1
  BY ModelAssumption DEF IndInv, TypeOK, InsertJob, JobIds, NoJob
<1>2. jobs[created + 1] = AbsentJob
  BY <1>1 DEF IndInv, RowsInOrder
<1>3. QED
  BY <1>1, <1>2 DEF IndInv, TypeOK, InsertJob, JobRow, AbsentJob

\* The job table's own invariants survive an insert.
LEMMA InsertKeepsJobTables ==
  ASSUME IndInv, NEW d \in Documents \cup {NoDocument}, NEW k \in Keys,
         NEW p \in Nat, NEW n \in Nat, InsertJob(d, k, p, n), grants' = grants,
         artifacts' = artifacts
  PROVE  RowsInOrder' /\ GrantsWereClaimed' /\ HandedOutOnce'
<1> DEFINE new == created + 1
<1>1. /\ created \in Nat /\ new \in JobIds /\ created' = new
      /\ \A i \in JobIds \ {new} : jobs'[i] = jobs[i]
      /\ jobs[new] = AbsentJob
      /\ jobs'[new].status = "QUEUED"
  BY InsertJobEffect
<1>2. RowsInOrder'
  BY <1>1 DEF IndInv, RowsInOrder, JobIds
<1>3. /\ \A g \in grants : g.job \in JobIds \ {new}
      /\ artifacts \subseteq JobIds \ {new}
  BY <1>1 DEF IndInv, TypeOK, Grant, GrantsWereClaimed, AbsentJob
<1>4. GrantsWereClaimed'
  BY <1>1, <1>3 DEF IndInv, GrantsWereClaimed
<1>5. HandedOutOnce'
  BY <1>1 DEF IndInv, HandedOutOnce
<1>6. QED
  BY <1>2, <1>4, <1>5

LEMMA EnqueueKeeps ==
  ASSUME IndInv, TypeOK', NEW d \in Documents, NEW k \in Keys, EnqueueDocumentJob(d, k)
  PROVE  IndInv'
<1> DEFINE new == created + 1
<1>1. /\ created \in Nat /\ new \in JobIds /\ new # NoJob /\ created' = new
      /\ \A i \in JobIds \ {new} : jobs'[i] = jobs[i]
      /\ jobs[new] = AbsentJob
      /\ jobs'[new].status = "QUEUED" /\ jobs'[new].document = d
      /\ jobs'[new].parent = NoJob /\ jobs'[new].attempt = 1
  BY InsertJobEffect DEF EnqueueDocumentJob, NoJob
<1>2. /\ \A e \in Documents \ {d} : documents'[e] = documents[e]
      /\ documents'[d].active = new /\ documents'[d].status = "QUEUED"
      /\ documents'[d].error = documents[d].error
      /\ documents[d].active = NoJob /\ documents[d].status = "STORED"
      /\ facts' = facts /\ artifacts' = artifacts /\ grants' = grants
  BY DEF EnqueueDocumentJob, IndInv, TypeOK, DocumentRow
<1>3. facts[d] = {}
  BY <1>2 DEF IndInv, DocumentMirrorsAttempt
<1>4. Attempts(d) = {}
  BY <1>2, <1>3 DEF IndInv, NoPointerNoAttempt
<1>5. NoDocument \notin Documents /\ jobs[new].document = NoDocument /\ jobs[new].status = "ABSENT"
  BY <1>1, ModelAssumption DEF AbsentJob
<1>6. RowsInOrder' /\ GrantsWereClaimed' /\ HandedOutOnce'
  BY InsertKeepsJobTables, <1>2 DEF EnqueueDocumentJob, NoJob
<1>7. NoPointerNoAttempt'
  BY <1>1, <1>2, <1>5 DEF IndInv, NoPointerNoAttempt, Attempts
<1>8. OneOpenAttempt'
  BY <1>1, <1>2, <1>4, <1>5 DEF IndInv, OneOpenAttempt, Attempts, Open
<1>9. ActiveAttemptIsLatest'
  <2>1. \A e \in Documents \ {d} : /\ Attempts(e)' = Attempts(e)
                                  /\ \A i \in Attempts(e) : jobs'[i] = jobs[i]
    BY <1>1, <1>5 DEF Attempts
  <2>2. Attempts(d)' = {new}
    BY <1>1, <1>4 DEF Attempts
  <2>3. QED
    BY <1>1, <1>2, <2>1, <2>2 DEF IndInv, ActiveAttemptIsLatest
<1>10. DocumentMirrorsAttempt'
  <2>1. ASSUME NEW e \in Documents \ {d}, documents[e].active # NoJob
        PROVE  jobs'[documents[e].active] = jobs[documents[e].active]
    BY <1>1, <1>5, <2>1 DEF IndInv, ActiveAttemptIsLatest, Attempts
  <2>2. QED
    BY <1>1, <1>2, <1>3, <2>1 DEF IndInv, DocumentMirrorsAttempt
<1>11. PromotedOnce'
  <2>1. \A e \in Documents :
          {i \in JobIds : jobs'[i].document = e /\ jobs'[i].status = "SUCCEEDED"} = facts[e]
    BY <1>1, <1>5 DEF IndInv, PromotedOnce, Attempts
  <2>2. \A i \in artifacts : (Ingestion(i) => jobs[i].status = "SUCCEEDED")'
    BY <1>1, <1>5 DEF IndInv, TypeOK, PromotedOnce, Ingestion, GrantsWereClaimed
  <2>3. QED
    BY <1>2, <1>3, <2>1, <2>2 DEF IndInv, PromotedOnce, Attempts
<1>12. RetriesFormAChain'
  <2>1. ASSUME NEW i \in JobIds, jobs'[i].parent # NoJob
        PROVE  /\ i # new
               /\ jobs[i].parent \in 1..(i - 1) /\ jobs[i].parent \in JobIds
               /\ jobs[i].parent # new
    BY <1>1, <2>1, ModelAssumption DEF IndInv, RetriesFormAChain, JobIds, AbsentJob
  <2>2. QED
    BY <1>1, <1>4, <1>5, <2>1 DEF IndInv, RetriesFormAChain, Ingestion, Attempts
<1>13. QED
  BY <1>6, <1>7, <1>8, <1>9, <1>10, <1>11, <1>12 DEF IndInv

LEMMA CreateJobKeeps ==
  ASSUME IndInv, TypeOK', NEW k \in Keys, CreateJob(k)
  PROVE  IndInv'
<1> DEFINE new == created + 1
<1>1. /\ created \in Nat /\ new \in JobIds /\ new # NoJob /\ created' = new
      /\ \A i \in JobIds \ {new} : jobs'[i] = jobs[i]
      /\ jobs[new] = AbsentJob
      /\ jobs'[new].status = "QUEUED" /\ jobs'[new].document = NoDocument
      /\ jobs'[new].parent = NoJob /\ jobs'[new].attempt = 1
  BY InsertJobEffect DEF CreateJob, NoJob
<1>2. documents' = documents /\ facts' = facts /\ artifacts' = artifacts /\ grants' = grants
  BY DEF CreateJob
<1>3. NoDocument \notin Documents /\ jobs[new].document = NoDocument /\ jobs[new].status = "ABSENT"
  BY <1>1, ModelAssumption DEF AbsentJob
<1>4. RowsInOrder' /\ GrantsWereClaimed' /\ HandedOutOnce'
  BY InsertKeepsJobTables, <1>2 DEF CreateJob, NoJob
<1>5. \A e \in Documents : /\ Attempts(e)' = Attempts(e)
                          /\ \A i \in Attempts(e) : jobs'[i] = jobs[i]
  BY <1>1, <1>3 DEF Attempts
<1>6. NoPointerNoAttempt'
  BY <1>2, <1>5 DEF IndInv, NoPointerNoAttempt
<1>7. OneOpenAttempt'
  BY <1>2, <1>5 DEF IndInv, OneOpenAttempt, Open
<1>8. ActiveAttemptIsLatest'
  BY <1>2, <1>5 DEF IndInv, ActiveAttemptIsLatest
<1>9. DocumentMirrorsAttempt'
  BY <1>2, <1>5 DEF IndInv, DocumentMirrorsAttempt, ActiveAttemptIsLatest
<1>10. PromotedOnce'
  <2>1. \A i \in artifacts : (Ingestion(i) => jobs[i].status = "SUCCEEDED")'
    BY <1>1, <1>3 DEF IndInv, TypeOK, PromotedOnce, Ingestion, GrantsWereClaimed
  <2>2. QED
    BY <1>2, <1>5, <2>1 DEF IndInv, PromotedOnce
<1>11. RetriesFormAChain'
  <2>1. ASSUME NEW i \in JobIds, jobs'[i].parent # NoJob
        PROVE  /\ i # new
               /\ jobs[i].parent \in 1..(i - 1) /\ jobs[i].parent \in JobIds
               /\ jobs[i].parent # new
    BY <1>1, <2>1, ModelAssumption DEF IndInv, RetriesFormAChain, JobIds, AbsentJob
  <2>2. QED
    BY <1>1, <1>3, <2>1 DEF IndInv, RetriesFormAChain, Ingestion
<1>12. QED
  BY <1>4, <1>6, <1>7, <1>8, <1>9, <1>10, <1>11 DEF IndInv

LEMMA RetryKeeps ==
  ASSUME IndInv, TypeOK', NEW j \in JobIds, NEW k \in Keys, RetryJob(j, k)
  PROVE  IndInv'
<1> DEFINE new == created + 1
<1>0. PICK d \in Documents \cup {NoDocument} : d = jobs[j].document
  BY DEF IndInv, TypeOK, JobRow
<1>1. /\ d \in Documents \cup {NoDocument} /\ jobs[j].attempt \in Nat
      /\ j \in Nat /\ j # NoJob /\ jobs[j].status \in {"FAILED", "INTERRUPTED"}
  BY DEF IndInv, TypeOK, JobRow, JobIds, NoJob, RetryJob
<1>2. /\ created \in Nat /\ new \in JobIds /\ new # NoJob /\ created' = new
      /\ \A i \in JobIds \ {new} : jobs'[i] = jobs[i]
      /\ jobs[new] = AbsentJob
      /\ jobs'[new].status = "QUEUED" /\ jobs'[new].document = d
      /\ jobs'[new].parent = j /\ jobs'[new].attempt = jobs[j].attempt + 1
  BY <1>0, <1>1, InsertJobEffect DEF RetryJob
<1>3. /\ NoDocument \notin Documents /\ jobs[new].document = NoDocument
      /\ jobs[new].status = "ABSENT" /\ j # new
  BY <1>1, <1>2, ModelAssumption DEF AbsentJob
<1>4. j \in 1..(new - 1)
  BY <1>1, <1>2, <1>3 DEF IndInv, RowsInOrder, AbsentJob, JobIds
<1>5. RowsInOrder' /\ GrantsWereClaimed' /\ HandedOutOnce'
  BY <1>0, <1>1, InsertKeepsJobTables DEF RetryJob
<1>6. facts' = facts /\ artifacts' = artifacts /\ grants' = grants
  BY DEF RetryJob
<1>7. \A e \in Documents \ {d} : /\ documents'[e] = documents[e]
                                /\ Attempts(e)' = Attempts(e)
                                /\ \A i \in Attempts(e) : jobs'[i] = jobs[i]
  <2>1. \A e \in Documents \ {d} : documents'[e] = documents[e]
    BY <1>0 DEF RetryJob, IndInv, TypeOK
  <2>2. QED
    BY <1>0, <1>2, <1>3, <2>1 DEF Attempts
<1>8. d \in Documents =>
        /\ documents[d].active = j
        /\ documents'[d].active = new /\ documents'[d].status = "QUEUED"
        /\ documents'[d].error = "NONE"
        /\ Attempts(d)' = Attempts(d) \cup {new}
        /\ \A i \in Attempts(d) : i # new /\ jobs'[i] = jobs[i]
  <2> SUFFICES ASSUME d \in Documents
               PROVE  /\ documents[d].active = j
                      /\ documents'[d].active = new /\ documents'[d].status = "QUEUED"
                      /\ documents'[d].error = "NONE"
                      /\ Attempts(d)' = Attempts(d) \cup {new}
                      /\ \A i \in Attempts(d) : i # new /\ jobs'[i] = jobs[i]
    OBVIOUS
  <2>1. Ingestion(j)
    BY <1>0, <1>3 DEF Ingestion
  <2>2. documents[d].active = j
    BY <1>0, <2>1 DEF RetryJob
  <2>3. /\ documents'[d].active = new /\ documents'[d].status = "QUEUED"
        /\ documents'[d].error = "NONE"
    <3>1. documents' = [documents EXCEPT ![d] =
            [@ EXCEPT !.status = "QUEUED", !.active = new, !.error = "NONE"]]
      BY <1>0, <2>1 DEF RetryJob
    <3>2. QED
      BY <3>1 DEF IndInv, TypeOK, DocumentRow
  <2>4. Attempts(d)' = Attempts(d) \cup {new} /\ \A i \in Attempts(d) : i # new /\ jobs'[i] = jobs[i]
    BY <1>0, <1>2, <1>3 DEF Attempts
  <2>5. QED
    BY <2>2, <2>3, <2>4
<1>9. d \in Documents =>
        /\ facts[d] = {}
        /\ \A i \in Attempts(d) : /\ jobs[i].status \in {"FAILED", "INTERRUPTED"}
                                  /\ jobs[i].attempt <= jobs[j].attempt
  BY <1>0, <1>1, <1>8 DEF IndInv, PromotedOnce, ActiveAttemptIsLatest, TypeOK, JobRow, Attempts
<1>10. NoPointerNoAttempt'
  BY <1>2, <1>6, <1>7, <1>8 DEF IndInv, NoPointerNoAttempt
<1>11. OneOpenAttempt'
  <2>1. \A e \in Documents \ {d} : \A i \in Attempts(e)' : Open(i)' => documents'[e].active = i
    BY <1>7 DEF IndInv, OneOpenAttempt, Open
  <2>2. d \in Documents => \A i \in Attempts(d)' : Open(i)' => documents'[d].active = i
    BY <1>8, <1>9 DEF Open
  <2>3. QED
    BY <2>1, <2>2 DEF OneOpenAttempt
<1>12. ActiveAttemptIsLatest'
  <2>1. ASSUME NEW e \in Documents \ {d}, documents'[e].active # NoJob
        PROVE  /\ documents'[e].active \in Attempts(e)'
               /\ jobs'[documents'[e].active].status # "SUCCEEDED"
               /\ \A i \in Attempts(e)' \ {documents'[e].active} :
                    /\ jobs'[i].status \in {"FAILED", "INTERRUPTED"}
                    /\ jobs'[i].attempt < jobs'[documents'[e].active].attempt
    BY <1>7, <2>1 DEF IndInv, ActiveAttemptIsLatest
  <2>2. ASSUME d \in Documents
        PROVE  /\ documents'[d].active \in Attempts(d)'
               /\ jobs'[documents'[d].active].status # "SUCCEEDED"
               /\ \A i \in Attempts(d)' \ {documents'[d].active} :
                    /\ jobs'[i].status \in {"FAILED", "INTERRUPTED"}
                    /\ jobs'[i].attempt < jobs'[documents'[d].active].attempt
    <3>1. \A i \in Attempts(d) : jobs[i].attempt \in Nat
      BY DEF IndInv, TypeOK, JobRow, Attempts
    <3>2. QED
      BY <1>1, <1>2, <1>8, <1>9, <2>2, <3>1
  <2>3. QED
    BY <2>1, <2>2 DEF ActiveAttemptIsLatest
<1>13. DocumentMirrorsAttempt'
  <2>1. ASSUME NEW e \in Documents \ {d}, documents[e].active # NoJob
        PROVE  jobs'[documents[e].active] = jobs[documents[e].active]
    BY <1>7, <2>1 DEF IndInv, ActiveAttemptIsLatest
  <2>2. QED
    BY <1>2, <1>6, <1>7, <1>8, <2>1 DEF IndInv, DocumentMirrorsAttempt
<1>14. PromotedOnce'
  <2>1. \A e \in Documents :
          {i \in Attempts(e)' : jobs'[i].status = "SUCCEEDED"} = facts[e]
    <3>1. \A e \in Documents \ {d} :
            {i \in Attempts(e)' : jobs'[i].status = "SUCCEEDED"} = facts[e]
      BY <1>7 DEF IndInv, PromotedOnce
    <3>2. d \in Documents =>
            {i \in Attempts(d)' : jobs'[i].status = "SUCCEEDED"} = {}
      BY <1>2, <1>8, <1>9
    <3>3. QED
      BY <1>9, <3>1, <3>2
  <2>2. \A i \in artifacts : (Ingestion(i) => jobs[i].status = "SUCCEEDED")'
    BY <1>2, <1>3 DEF IndInv, TypeOK, PromotedOnce, Ingestion, GrantsWereClaimed
  <2>3. \A e \in Documents : facts[e] # {} => documents'[e].active = NoJob
    BY <1>7, <1>9 DEF IndInv, PromotedOnce
  <2>4. QED
    BY <1>6, <2>1, <2>2, <2>3 DEF IndInv, PromotedOnce
<1>15. RetriesFormAChain'
  <2>1. ASSUME NEW i \in JobIds \ {new}, jobs[i].parent # NoJob
        PROVE  /\ jobs[i].parent \in 1..(i - 1) /\ jobs[i].parent \in JobIds
               /\ jobs[i].parent # new
    BY <1>2, <2>1, ModelAssumption DEF IndInv, RetriesFormAChain, JobIds, AbsentJob
  <2>2. \A i \in JobIds : jobs'[i].parent # NoJob =>
          /\ jobs'[i].parent \in 1..(i - 1)
          /\ jobs'[jobs'[i].parent].status \in {"FAILED", "INTERRUPTED"}
          /\ jobs'[jobs'[i].parent].document = jobs'[i].document
          /\ jobs'[i].attempt = jobs'[jobs'[i].parent].attempt + 1
    BY <1>0, <1>1, <1>2, <1>3, <1>4, <2>1 DEF IndInv, RetriesFormAChain
  <2>3. ASSUME NEW i \in JobIds \ {new}, jobs[i].document = d, d \in Documents
        PROVE  jobs[i].parent # j
    <3>1. i \in Attempts(d) /\ jobs[i].attempt <= jobs[j].attempt
      BY <1>9, <2>3 DEF Attempts
    <3>2. jobs[i].parent = j => jobs[i].attempt = jobs[j].attempt + 1
      BY <1>0, <1>1 DEF IndInv, RetriesFormAChain
    <3>3. jobs[i].attempt \in Nat
      BY DEF IndInv, TypeOK, JobRow
    <3>4. QED
      BY <1>1, <3>1, <3>2, <3>3
  <2>4. ASSUME NEW i \in JobIds, NEW l \in JobIds,
               jobs'[i].parent = jobs'[l].parent, jobs'[i].document # NoDocument,
               jobs'[i].document = jobs'[l].document
        PROVE  i = l
    <3>1. CASE i # new /\ l # new
      BY <1>2, <2>4, <3>1 DEF IndInv, RetriesFormAChain, Ingestion
    <3>2. CASE i = new
      BY <1>0, <1>1, <1>2, <2>3, <2>4, <3>2
    <3>3. CASE l = new
      BY <1>0, <1>1, <1>2, <2>3, <2>4, <3>3
    <3>4. QED
      BY <3>1, <3>2, <3>3
  <2>5. QED
    BY <2>2, <2>4 DEF RetriesFormAChain, Ingestion
<1>16. QED
  BY <1>5, <1>10, <1>11, <1>12, <1>13, <1>14, <1>15 DEF IndInv

LEMMA ClaimKeeps ==
  ASSUME IndInv, TypeOK', NEW w \in Workers, NEW j \in JobIds, NEW now \in SampledTimes,
         ClaimJob(w, j, now)
  PROVE  IndInv'
<1>1. /\ jobs[j].status = "QUEUED"
      /\ \A i \in JobIds \ {j} : jobs'[i] = jobs[i]
      /\ jobs'[j].status = "RUNNING" /\ jobs'[j].owner = w /\ jobs'[j].token = issued + 1
  BY DEF ClaimJob, OldestQueued, IndInv, TypeOK, JobRow
<1>2. \A i \in JobIds : SameIdentity(i)
  BY DEF ClaimJob, IndInv, TypeOK, JobRow, SameIdentity
<1>3. /\ documents' = documents /\ facts' = facts /\ artifacts' = artifacts
      /\ created' = created /\ j <= created
      /\ grants' = grants \cup {[job |-> j, worker |-> w, token |-> issued + 1]}
  BY DEF ClaimJob, OldestQueued, Exists
<1>4. \A d \in Documents : Attempts(d)' = Attempts(d)
  BY <1>2 DEF Attempts, SameIdentity
<1>5. RowsInOrder'
  BY <1>1, <1>3 DEF IndInv, RowsInOrder, TypeOK, JobIds
<1>6. GrantsWereClaimed'
  BY <1>1, <1>3 DEF IndInv, GrantsWereClaimed, TypeOK, Grant
<1>7. HandedOutOnce'
  <2>1. \A g \in grants : g.job # j
    BY <1>1 DEF IndInv, GrantsWereClaimed
  <2>2. QED
    BY <1>1, <1>3, <2>1 DEF IndInv, HandedOutOnce
<1>8. NoPointerNoAttempt'
  BY <1>3, <1>4 DEF IndInv, NoPointerNoAttempt
<1>9. OneOpenAttempt'
  BY <1>1, <1>3, <1>4 DEF IndInv, OneOpenAttempt, Open, Attempts
<1>10. ActiveAttemptIsLatest'
  BY <1>1, <1>2, <1>3, <1>4 DEF IndInv, ActiveAttemptIsLatest, Attempts, SameIdentity
<1>11. DocumentMirrorsAttempt'
  BY <1>1, <1>3 DEF IndInv, DocumentMirrorsAttempt, ActiveAttemptIsLatest, Attempts
<1>12. PromotedOnce'
  <2>1. \A d \in Documents : facts[d] = {i \in Attempts(d) : jobs'[i].status = "SUCCEEDED"}
    BY <1>1 DEF IndInv, PromotedOnce, Attempts
  <2>2. \A i \in artifacts : (Ingestion(i) => jobs[i].status = "SUCCEEDED")'
    BY <1>1, <1>2 DEF IndInv, TypeOK, PromotedOnce, Ingestion, SameIdentity
  <2>3. QED
    BY <1>3, <1>4, <2>1, <2>2 DEF IndInv, PromotedOnce
<1>13. RetriesFormAChain'
  BY <1>1, <1>2, ChainKept DEF IndInv
<1>14. QED
  BY <1>5, <1>6, <1>7, <1>8, <1>9, <1>10, <1>11, <1>12, <1>13 DEF IndInv

LEMMA HeartbeatKeeps ==
  ASSUME IndInv, TypeOK', NEW g \in grants, NEW now \in SampledTimes, HeartbeatJob(g, now)
  PROVE  IndInv'
<1>1. \A i \in JobIds : /\ SameIdentity(i)
                        /\ jobs'[i].status = jobs[i].status
                        /\ jobs'[i].owner = jobs[i].owner
                        /\ jobs'[i].token = jobs[i].token
  BY DEF HeartbeatJob, IndInv, TypeOK, JobRow, SameIdentity
<1>2. UNCHANGED <<documents, created, grants, facts, artifacts>>
  BY DEF HeartbeatJob
<1>3. \A d \in Documents : Attempts(d)' = Attempts(d)
  BY <1>1 DEF Attempts, SameIdentity
<1>4. RowsInOrder'
  <2>1. g.job \in JobIds /\ jobs[g.job].status = "RUNNING"
    BY DEF HeartbeatJob, HoldsLease, IndInv, TypeOK, Grant
  <2>2. ASSUME NEW i \in JobIds, i > created PROVE jobs'[i] = AbsentJob
    <3>1. jobs[i] = AbsentJob
      BY <2>2 DEF IndInv, RowsInOrder
    <3>2. i # g.job
      BY <2>1, <3>1 DEF AbsentJob
    <3>3. QED
      BY <3>1, <3>2 DEF HeartbeatJob, IndInv, TypeOK
  <2>3. QED
    BY <1>1, <1>2, <2>2 DEF IndInv, RowsInOrder
<1>5. GrantsWereClaimed'
  BY <1>1, <1>2 DEF IndInv, GrantsWereClaimed, TypeOK, Grant
<1>6. HandedOutOnce'
  BY <1>1, <1>2 DEF IndInv, HandedOutOnce
<1>7. NoPointerNoAttempt'
  BY <1>2, <1>3 DEF IndInv, NoPointerNoAttempt
<1>8. OneOpenAttempt'
  BY <1>1, <1>2, <1>3 DEF IndInv, OneOpenAttempt, Open, Attempts
<1>9. ActiveAttemptIsLatest'
  BY <1>1, <1>2, <1>3 DEF IndInv, ActiveAttemptIsLatest, Attempts, SameIdentity
<1>10. DocumentMirrorsAttempt'
  BY <1>1, <1>2 DEF IndInv, DocumentMirrorsAttempt, ActiveAttemptIsLatest, Attempts
<1>11. PromotedOnce'
  BY <1>1, <1>2, <1>3 DEF IndInv, PromotedOnce, Attempts, Ingestion, SameIdentity, TypeOK
<1>12. RetriesFormAChain'
  BY <1>1, ChainKept DEF IndInv
<1>13. QED
  BY <1>4, <1>5, <1>6, <1>7, <1>8, <1>9, <1>10, <1>11, <1>12 DEF IndInv

\* What fail_job and recover_interrupted do to the tables: some running jobs end
\* without success, and exactly the documents they are the attempt of fail.
EndsAttempts(ended, status, error) ==
  /\ jobs' = [j \in JobIds |-> IF j \in ended THEN FinishedRow(j, status) ELSE jobs[j]]
  /\ documents' = [d \in Documents |->
       IF \E j \in ended : IsActiveAttempt(j, d) THEN FailedDocument(documents[d], error)
       ELSE documents[d]]
  /\ UNCHANGED <<created, grants, facts, artifacts>>

LEMMA EndsAttemptsKeeps ==
  ASSUME IndInv, TypeOK', NEW ended \in SUBSET JobIds,
         NEW status \in {"FAILED", "INTERRUPTED"}, NEW error \in ErrorCodes \ {"NONE"},
         \A j \in ended : jobs[j].status = "RUNNING",
         EndsAttempts(ended, status, error)
  PROVE  IndInv'
<1>1. \A i \in JobIds : /\ SameIdentity(i)
                        /\ i \in ended => jobs'[i].status = status
                        /\ i \notin ended => jobs'[i] = jobs[i]
  BY DEF EndsAttempts, IndInv, TypeOK, JobRow, SameIdentity, FinishedRow
<1>2. UNCHANGED <<created, grants, facts, artifacts>>
  BY DEF EndsAttempts
<1>3. \A d \in Documents : Attempts(d)' = Attempts(d)
  BY <1>1 DEF Attempts, SameIdentity
<1>4. \A d \in Documents : documents'[d].active = documents[d].active
  BY DEF EndsAttempts, IndInv, TypeOK, DocumentRow, FailedDocument
<1>5. \A d \in Documents : documents[d].active = NoJob \/ documents[d].active \notin ended =>
        documents'[d] = documents[d]
  BY DEF EndsAttempts, IsActiveAttempt, NoJob, JobIds
<1>6. \A d \in Documents : documents[d].active \in ended =>
        documents'[d].status = "FAILED" /\ documents'[d].error # "NONE"
  <2> SUFFICES ASSUME NEW d \in Documents, documents[d].active \in ended
               PROVE  documents'[d].status = "FAILED" /\ documents'[d].error # "NONE"
    OBVIOUS
  <2>1. documents[d].active # NoJob
    BY DEF NoJob, JobIds
  <2>2. IsActiveAttempt(documents[d].active, d)
    BY <2>1 DEF IndInv, ActiveAttemptIsLatest, IsActiveAttempt, Attempts
  <2>3. documents'[d] = FailedDocument(documents[d], error)
    BY <2>2 DEF EndsAttempts
  <2>4. QED
    BY <2>3 DEF FailedDocument, IndInv, TypeOK, DocumentRow, ErrorCodes
<1>7. RowsInOrder'
  BY <1>1, <1>2 DEF IndInv, RowsInOrder, TypeOK, AbsentJob
<1>8. GrantsWereClaimed'
  BY <1>1, <1>2 DEF IndInv, GrantsWereClaimed, TypeOK, Grant
<1>9. HandedOutOnce'
  BY <1>1, <1>2 DEF IndInv, HandedOutOnce
<1>10. NoPointerNoAttempt'
  BY <1>2, <1>3, <1>4 DEF IndInv, NoPointerNoAttempt
<1>11. OneOpenAttempt'
  BY <1>1, <1>2, <1>3, <1>4 DEF IndInv, OneOpenAttempt, Open, Attempts
<1>12. ActiveAttemptIsLatest'
  BY <1>1, <1>2, <1>3, <1>4 DEF IndInv, ActiveAttemptIsLatest, Attempts, SameIdentity
<1>13. DocumentMirrorsAttempt'
  <2>1. ASSUME NEW d \in Documents, documents[d].active \notin ended
        PROVE  documents[d].active # NoJob => jobs'[documents[d].active] = jobs[documents[d].active]
    BY <1>1, <2>1 DEF IndInv, ActiveAttemptIsLatest, Attempts
  <2>2. ASSUME NEW d \in Documents, documents[d].active \in ended
        PROVE  /\ documents[d].active # NoJob
               /\ jobs'[documents[d].active].status \in {"FAILED", "INTERRUPTED"}
    <3>1. documents[d].active \in JobIds
      BY <2>2
    <3>2. documents[d].active # NoJob
      BY <3>1 DEF NoJob, JobIds
    <3>3. QED
      BY <1>1, <2>2, <3>1, <3>2
  <2>3. QED
    BY <1>2, <1>4, <1>5, <1>6, <2>1, <2>2 DEF IndInv, DocumentMirrorsAttempt
<1>14. PromotedOnce'
  <2>1. \A d \in Documents : facts[d] = {i \in Attempts(d) : jobs'[i].status = "SUCCEEDED"}
    BY <1>1 DEF IndInv, PromotedOnce, Attempts
  <2>2. \A i \in artifacts : (Ingestion(i) => jobs[i].status = "SUCCEEDED")'
    BY <1>1 DEF IndInv, TypeOK, PromotedOnce, Ingestion, SameIdentity
  <2>3. QED
    BY <1>2, <1>3, <1>4, <2>1, <2>2 DEF IndInv, PromotedOnce
<1>15. RetriesFormAChain'
  BY <1>1, ChainKept DEF IndInv
<1>16. QED
  BY <1>7, <1>8, <1>9, <1>10, <1>11, <1>12, <1>13, <1>14, <1>15 DEF IndInv

LEMMA FailJobKeeps ==
  ASSUME IndInv, TypeOK', NEW g \in grants, FailJob(g)
  PROVE  IndInv'
<1>1. g.job \in JobIds /\ jobs[g.job].status = "RUNNING"
  BY DEF FailJob, HoldsLease, IndInv, TypeOK, Grant
<1>2. jobs' = [j \in JobIds |-> IF j \in {g.job} THEN FinishedRow(j, "FAILED") ELSE jobs[j]]
  BY <1>1 DEF FailJob, IndInv, TypeOK
<1>3. EndsAttempts({g.job}, "FAILED", "HANDLER_FAILED")
  BY <1>1, <1>2 DEF EndsAttempts, FailJob
<1>4. QED
  BY <1>1, <1>3, EndsAttemptsKeeps DEF ErrorCodes

LEMMA RecoverKeeps ==
  ASSUME IndInv, TypeOK', NEW now \in SampledTimes, RecoverInterrupted(now)
  PROVE  IndInv'
<1> DEFINE ended == {j \in JobIds : Expired(j, now)}
<1>1. \A j \in ended : jobs[j].status = "RUNNING"
  BY DEF Expired
<1>2. EndsAttempts(ended, "INTERRUPTED", "LEASE_EXPIRED")
  <2>1. jobs' = [j \in JobIds |-> IF j \in ended THEN FinishedRow(j, "INTERRUPTED") ELSE jobs[j]]
    BY DEF RecoverInterrupted
  <2>2. documents' = [d \in Documents |->
          IF \E j \in ended : IsActiveAttempt(j, d) THEN FailedDocument(documents[d], "LEASE_EXPIRED")
          ELSE documents[d]]
    BY DEF RecoverInterrupted
  <2>3. QED
    BY <2>1, <2>2 DEF EndsAttempts, RecoverInterrupted
<1> HIDE DEF ended
<1>3. ended \in SUBSET JobIds
  BY DEF ended
<1>4. QED
  BY <1>1, <1>2, <1>3, EndsAttemptsKeeps DEF ErrorCodes

\* The two writes open only to jobs that are not ingestion jobs.
LEMMA CompleteJobKeeps ==
  ASSUME IndInv, TypeOK', NEW g \in grants, CompleteJob(g)
  PROVE  IndInv'
<1> DEFINE j == g.job
<1>1. /\ j \in JobIds /\ jobs[j].status = "RUNNING" /\ ~Ingestion(j)
      /\ \A i \in JobIds \ {j} : jobs'[i] = jobs[i]
      /\ jobs'[j].status = "SUCCEEDED"
  BY DEF CompleteJob, HoldsLease, IndInv, TypeOK, Grant, FinishedRow, JobRow
<1>2. \A i \in JobIds : SameIdentity(i)
  BY <1>1 DEF CompleteJob, IndInv, TypeOK, JobRow, SameIdentity, FinishedRow
<1>3. UNCHANGED <<documents, created, grants, facts, artifacts>>
  BY DEF CompleteJob
<1>4. \A d \in Documents : /\ Attempts(d)' = Attempts(d)
                          /\ \A i \in Attempts(d) : jobs'[i] = jobs[i]
  BY <1>1, <1>2, ModelAssumption DEF Attempts, SameIdentity, Ingestion
<1>5. RowsInOrder'
  BY <1>1, <1>3 DEF IndInv, RowsInOrder, TypeOK, AbsentJob
<1>6. GrantsWereClaimed'
  BY <1>1, <1>3 DEF IndInv, GrantsWereClaimed, TypeOK, Grant
<1>7. HandedOutOnce'
  BY <1>1, <1>3 DEF IndInv, HandedOutOnce
<1>8. NoPointerNoAttempt'
  BY <1>3, <1>4 DEF IndInv, NoPointerNoAttempt
<1>9. OneOpenAttempt'
  BY <1>3, <1>4 DEF IndInv, OneOpenAttempt, Open
<1>10. ActiveAttemptIsLatest'
  BY <1>3, <1>4 DEF IndInv, ActiveAttemptIsLatest
<1>11. DocumentMirrorsAttempt'
  BY <1>3, <1>4 DEF IndInv, DocumentMirrorsAttempt, ActiveAttemptIsLatest
<1>12. PromotedOnce'
  <2>1. \A i \in artifacts : (Ingestion(i) => jobs[i].status = "SUCCEEDED")'
    BY <1>1, <1>2 DEF IndInv, TypeOK, PromotedOnce, Ingestion, SameIdentity
  <2>2. QED
    BY <1>3, <1>4, <2>1 DEF IndInv, PromotedOnce
<1>13. RetriesFormAChain'
  BY <1>1, <1>2, ChainKept DEF IndInv
<1>14. QED
  BY <1>5, <1>6, <1>7, <1>8, <1>9, <1>10, <1>11, <1>12, <1>13 DEF IndInv

LEMMA CreateArtifactKeeps ==
  ASSUME IndInv, TypeOK', NEW g \in grants, CreateArtifact(g)
  PROVE  IndInv'
<1>1. /\ g.job \in JobIds /\ jobs[g.job].status = "RUNNING" /\ ~Ingestion(g.job)
      /\ artifacts' = artifacts \cup {g.job}
      /\ jobs' = jobs /\ facts' = facts /\ documents' = documents
      /\ created' = created /\ grants' = grants
  BY DEF CreateArtifact, HoldsLease, IndInv, TypeOK, Grant
<1>2. GrantsWereClaimed'
  BY <1>1 DEF IndInv, GrantsWereClaimed
<1>3. RowsInOrder' /\ HandedOutOnce' /\ RetriesFormAChain'
  BY <1>1 DEF IndInv, RowsInOrder, HandedOutOnce, RetriesFormAChain, Ingestion
<1>4. NoPointerNoAttempt' /\ OneOpenAttempt' /\ ActiveAttemptIsLatest'
  BY <1>1, PointersKept
<1>5. DocumentMirrorsAttempt'
  BY <1>1 DEF IndInv, DocumentMirrorsAttempt
<1>6. PromotedOnce'
  BY <1>1 DEF IndInv, PromotedOnce, Attempts, Ingestion
<1>7. QED
  BY <1>2, <1>3, <1>4, <1>5, <1>6 DEF IndInv

LEMMA IndInit == Init => IndInv
<1> SUFFICES ASSUME Init PROVE IndInv
  OBVIOUS
<1>1. TypeOK
  BY TypeInit
<1>2. /\ \A j \in JobIds : jobs[j] = AbsentJob
      /\ \A d \in Documents : documents[d] = AbsentDocument /\ facts[d] = {}
      /\ grants = {} /\ artifacts = {} /\ created = 0
      /\ NoDocument \notin Documents
  BY ModelAssumption DEF Init
<1>3. RowsInOrder /\ GrantsWereClaimed /\ HandedOutOnce
  BY <1>2 DEF RowsInOrder, GrantsWereClaimed, HandedOutOnce, JobIds, AbsentJob
<1>4. \A d \in Documents : Attempts(d) = {}
  <2>1. AbsentJob.document = NoDocument
    BY DEF AbsentJob
  <2>2. QED
    BY <1>2, <2>1 DEF Attempts
<1>5. \A d \in Documents : /\ documents[d].status = "ABSENT"
                          /\ documents[d].active = NoJob
                          /\ documents[d].error = "NONE"
  <2>1. /\ AbsentDocument.status = "ABSENT"
        /\ AbsentDocument.active = NoJob
        /\ AbsentDocument.error = "NONE"
    BY DEF AbsentDocument
  <2>2. QED
    BY <1>2, <2>1
<1>6. /\ NoPointerNoAttempt /\ OneOpenAttempt /\ ActiveAttemptIsLatest
      /\ DocumentMirrorsAttempt
  BY <1>2, <1>4, <1>5 DEF NoPointerNoAttempt, OneOpenAttempt, ActiveAttemptIsLatest,
     DocumentMirrorsAttempt
<1>7. PromotedOnce
  BY <1>2, <1>4 DEF PromotedOnce
<1>8. RetriesFormAChain
  BY <1>2 DEF RetriesFormAChain, AbsentJob, Ingestion
<1>9. QED
  BY <1>1, <1>3, <1>6, <1>7, <1>8 DEF IndInv

LEMMA IndNext == IndInv /\ [Next]_vars => IndInv'
<1> SUFFICES ASSUME IndInv, [Next]_vars PROVE IndInv'
  OBVIOUS
<1>1. TypeOK'
  BY TypeNext DEF IndInv
<1>2. CASE ApiStep
  <2>1. ASSUME NEW d \in Documents, CreateDocument(d) PROVE IndInv'
    BY <1>1, <2>1, CreateDocumentKeeps
  <2>2. ASSUME NEW d \in Documents, NEW k \in Keys, EnqueueDocumentJob(d, k) PROVE IndInv'
    BY <1>1, <2>2, EnqueueKeeps
  <2>3. ASSUME NEW k \in Keys, CreateJob(k) PROVE IndInv'
    BY <1>1, <2>3, CreateJobKeeps
  <2>4. ASSUME NEW j \in JobIds, NEW k \in Keys, RetryJob(j, k) PROVE IndInv'
    BY <1>1, <2>4, RetryKeeps
  <2>5. ASSUME NEW d \in Documents, ReviewDocument(d) PROVE IndInv'
    BY <1>1, <2>5, ReviewDocumentKeeps
  <2>6. QED
    BY <1>2, <2>1, <2>2, <2>3, <2>4, <2>5 DEF ApiStep
<1>3. CASE WorkerStep
  <2>1. ASSUME NEW w \in Workers, NEW j \in JobIds, NEW now \in SampledTimes,
               ClaimJob(w, j, now)
        PROVE  IndInv'
    BY <1>1, <2>1, ClaimKeeps
  <2>2. ASSUME NEW g \in grants, NEW now \in SampledTimes, HeartbeatJob(g, now) PROVE IndInv'
    BY <1>1, <2>2, HeartbeatKeeps
  <2>3. ASSUME NEW g \in grants, NEW d \in Documents, NEW s \in {"PROCESSING", "FAILED"},
               UpdateDocumentStatusForJob(g, d, s)
        PROVE  IndInv'
    BY <1>1, <2>3, UpdateStatusKeeps
  <2>4. ASSUME NEW g \in grants, NEW d \in Documents, PromoteDocumentIngestion(g, d)
        PROVE  IndInv'
    BY <1>1, <2>4, PromoteKeeps
  <2>5. ASSUME NEW g \in grants, FailJob(g) PROVE IndInv'
    BY <1>1, <2>5, FailJobKeeps
  <2>6. ASSUME NEW g \in grants, CompleteJob(g) PROVE IndInv'
    BY <1>1, <2>6, CompleteJobKeeps
  <2>7. ASSUME NEW g \in grants, CreateArtifact(g) PROVE IndInv'
    BY <1>1, <2>7, CreateArtifactKeeps
  <2>8. ASSUME NEW now \in SampledTimes, RecoverInterrupted(now) PROVE IndInv'
    BY <1>1, <2>8, RecoverKeeps
  <2>9. QED
    BY <1>3, <2>1, <2>2, <2>3, <2>4, <2>5, <2>6, <2>7, <2>8 DEF WorkerStep
<1>4. CASE Tick \/ UNCHANGED vars
  <2>1. /\ jobs' = jobs /\ facts' = facts /\ documents' = documents
        /\ created' = created /\ grants' = grants /\ artifacts' = artifacts
    BY <1>4 DEF Tick, vars
  <2>2. RowsInOrder' /\ GrantsWereClaimed' /\ HandedOutOnce' /\ RetriesFormAChain'
    BY <2>1, JobTablesKept
  <2>3. NoPointerNoAttempt' /\ OneOpenAttempt' /\ ActiveAttemptIsLatest'
    BY <2>1, PointersKept
  <2>4. DocumentMirrorsAttempt' /\ PromotedOnce'
    BY <2>1 DEF IndInv, DocumentMirrorsAttempt, PromotedOnce, Attempts, Ingestion
  <2>5. QED
    BY <1>1, <2>2, <2>3, <2>4 DEF IndInv
<1>5. QED
  BY <1>2, <1>3, <1>4 DEF Next

LEMMA IndInvCorrect == Spec => []IndInv
BY IndInit, IndNext, PTL DEF Spec

-----------------------------------------------------------------------------
(* The properties, for every instance.                                     *)

\* No document ever has two attempts that are queued or running, and a document
\* never forgets the one it has (enqueue_document_job, retry_job,
\* recover_interrupted, promote_document_ingestion).
THEOREM AttemptsRunOneAtATime == Spec => []OneOpenAttempt
<1>1. IndInv => OneOpenAttempt
  BY DEF IndInv
<1>2. QED
  BY <1>1, IndInvCorrect, PTL

\* The pointer of a document always names its latest attempt (enqueue_document_job,
\* retry_job and every transaction that ends an attempt).
THEOREM PointerNamesLatest == Spec => []ActiveAttemptIsLatest
<1>1. IndInv => ActiveAttemptIsLatest
  BY DEF IndInv
<1>2. QED
  BY <1>1, IndInvCorrect, PTL

\* The document table and the job table agree after every transaction.
THEOREM TablesAgree == Spec => []DocumentMirrorsAttempt
<1>1. IndInv => DocumentMirrorsAttempt
  BY DEF IndInv
<1>2. QED
  BY <1>1, IndInvCorrect, PTL

\* The facts of a document come from one succeeded attempt, whatever expired,
\* was recovered or retried before (promote_document_ingestion).
THEOREM AuthorityWrittenOnce == Spec => []PromotedOnce
<1>1. IndInv => PromotedOnce
  BY DEF IndInv
<1>2. QED
  BY <1>1, IndInvCorrect, PTL

\* A job is granted at most once in its life (claim_job).
THEOREM ClaimsAreUnique == Spec => []HandedOutOnce
<1>1. IndInv => HandedOutOnce
  BY DEF IndInv
<1>2. QED
  BY <1>1, IndInvCorrect, PTL

\* Retries number the attempts of a document 1, 2, ... without a fork (retry_job).
THEOREM RetriesNeverFork == Spec => []RetriesFormAChain
<1>1. IndInv => RetriesFormAChain
  BY DEF IndInv
<1>2. QED
  BY <1>1, IndInvCorrect, PTL

-----------------------------------------------------------------------------
(* What a step may never do.                                               *)

\* A worker that lost its lease never writes facts: they change only in the step
\* in which the document's running, unexpired attempt becomes SUCCEEDED
\* (promote_document_ingestion's two fences).
THEOREM LateWorkersAreFenced == Spec => FactsAreFenced
<1> DEFINE Fenced ==
      \A d \in Documents : facts'[d] # facts[d] =>
        LET j == documents[d].active
        IN  /\ j \in JobIds
            /\ jobs[j].status = "RUNNING" /\ jobs[j].expires > clock
            /\ jobs'[j].status = "SUCCEEDED"
            /\ documents'[d].active = NoJob
<1>1. ASSUME IndInv, [Next]_vars PROVE Fenced \/ UNCHANGED vars
  <2>1. CASE \E g \in grants, d \in Documents : PromoteDocumentIngestion(g, d)
    <3>1. PICK g \in grants, d \in Documents : PromoteDocumentIngestion(g, d)
      BY <2>1
    <3>2. g.job \in JobIds
      BY <1>1 DEF IndInv, TypeOK, Grant
    <3>3. /\ documents[d].active = g.job
          /\ jobs[g.job].status = "RUNNING" /\ jobs[g.job].expires > clock
      BY <3>1 DEF PromoteDocumentIngestion, HoldsLease, IsActiveAttempt
    <3>4. jobs'[g.job].status = "SUCCEEDED"
      BY <1>1, <3>1, <3>2 DEF PromoteDocumentIngestion, FinishedRow, IndInv, TypeOK, JobRow
    <3>5. documents'[d].active = NoJob /\ \A e \in Documents \ {d} : facts'[e] = facts[e]
      BY <1>1, <3>1 DEF PromoteDocumentIngestion, IndInv, TypeOK, DocumentRow
    <3>6. QED
      BY <3>2, <3>3, <3>4, <3>5
  <2>2. CASE facts' = facts
    BY <2>2
  <2>3. QED
    BY <1>1, <2>1, <2>2 DEF Next, ApiStep, WorkerStep, Tick, vars, CreateDocument,
       EnqueueDocumentJob, CreateJob, RetryJob, ReviewDocument, ClaimJob, HeartbeatJob,
       UpdateDocumentStatusForJob, FailJob, CompleteJob, CreateArtifact, RecoverInterrupted
<1>2. IndInv /\ [Next]_vars => [Fenced]_vars
  BY <1>1
<1>3. QED
  BY <1>2, IndInvCorrect, PTL DEF Spec, FactsAreFenced

\* A job that ended never changes again, and one that runs is never queued again,
\* whatever a late worker, a recovery or a retry does (claim_job, fail_job,
\* complete_job, promote_document_ingestion, recover_interrupted).
THEOREM EndedJobsAreFinal == Spec => JobsOnlyMoveForward
<1> DEFINE Forward ==
      \A j \in JobIds :
        /\ Ended(j) => jobs'[j] = jobs[j]
        /\ jobs[j].status = "RUNNING" => jobs'[j].status # "QUEUED"
        /\ jobs[j].status = "QUEUED" => jobs'[j].status \in {"QUEUED", "RUNNING"}
<1>1. ASSUME IndInv, Next PROVE Forward
  <2>1. CASE jobs' = jobs
    BY <2>1
  <2>2. ASSUME NEW d \in Documents \cup {NoDocument}, NEW k \in Keys, NEW p \in Nat,
               NEW n \in Nat, InsertJob(d, k, p, n)
        PROVE  Forward
    <3>1. created + 1 \in JobIds
      BY <1>1, <2>2, InsertJobType DEF IndInv
    <3>2. jobs[created + 1].status = "ABSENT"
      BY <1>1, <3>1 DEF IndInv, TypeOK, RowsInOrder, AbsentJob
    <3>3. \A j \in JobIds \ {created + 1} : jobs'[j] = jobs[j]
      BY <1>1, <2>2 DEF InsertJob, IndInv, TypeOK
    <3>4. QED
      BY <3>2, <3>3 DEF Ended
  <2>3. ASSUME NEW g \in grants, NEW s \in {"SUCCEEDED", "FAILED"}, HoldsLease(g, clock),
               jobs' = [jobs EXCEPT ![g.job] = FinishedRow(g.job, s)]
        PROVE  Forward
    <3>1. g.job \in JobIds /\ jobs[g.job].status = "RUNNING" /\ jobs'[g.job].status = s
      BY <1>1, <2>3 DEF IndInv, TypeOK, Grant, HoldsLease, FinishedRow, JobRow
    <3>2. \A j \in JobIds \ {g.job} : jobs'[j] = jobs[j]
      BY <1>1, <2>3 DEF IndInv, TypeOK
    <3>3. QED
      BY <3>1, <3>2 DEF Ended
  <2>4. ASSUME NEW w \in Workers, NEW j \in JobIds, NEW now \in SampledTimes,
               ClaimJob(w, j, now)
        PROVE  Forward
    BY <1>1, <2>4 DEF ClaimJob, OldestQueued, IndInv, TypeOK, JobRow, Ended
  <2>5. ASSUME NEW g \in grants, NEW now \in SampledTimes, HeartbeatJob(g, now)
        PROVE  Forward
    BY <1>1, <2>5 DEF HeartbeatJob, HoldsLease, IndInv, TypeOK, Grant, JobRow, Ended
  <2>6. ASSUME NEW now \in SampledTimes, RecoverInterrupted(now) PROVE Forward
    <3>1. \A j \in JobIds : jobs'[j] = IF Expired(j, now) THEN FinishedRow(j, "INTERRUPTED")
                                     ELSE jobs[j]
      BY <2>6 DEF RecoverInterrupted
    <3>2. \A j \in JobIds : FinishedRow(j, "INTERRUPTED").status = "INTERRUPTED"
      BY <1>1 DEF FinishedRow, IndInv, TypeOK, JobRow
    <3>3. QED
      BY <3>1, <3>2 DEF Expired, Ended
  <2>7. CASE ApiStep
    <3>1. ASSUME NEW d \in Documents, NEW k \in Keys, EnqueueDocumentJob(d, k)
          PROVE  Forward
      <4>1. InsertJob(d, k, 0, 1)
        BY <3>1 DEF EnqueueDocumentJob, NoJob
      <4>2. QED
        BY <2>2, <4>1
    <3>2. ASSUME NEW k \in Keys, CreateJob(k) PROVE Forward
      <4>1. InsertJob(NoDocument, k, 0, 1)
        BY <3>2 DEF CreateJob, NoJob
      <4>2. QED
        BY <2>2, <4>1
    <3>3. ASSUME NEW j \in JobIds, NEW k \in Keys, RetryJob(j, k) PROVE Forward
      <4>1. /\ jobs[j].document \in Documents \cup {NoDocument}
            /\ j \in Nat /\ jobs[j].attempt + 1 \in Nat
        <5>1. jobs[j] \in JobRow
          BY <1>1 DEF IndInv, TypeOK
        <5>2. QED
          BY <5>1 DEF JobRow, JobIds
      <4>2. InsertJob(jobs[j].document, k, j, jobs[j].attempt + 1)
        BY <3>3 DEF RetryJob
      <4>3. QED
        BY <2>2, <4>1, <4>2
    <3>4. QED
      BY <2>1, <2>7, <3>1, <3>2, <3>3 DEF ApiStep, CreateDocument, ReviewDocument
  <2>8. CASE WorkerStep
    <3>1. ASSUME NEW g \in grants, NEW d \in Documents, PromoteDocumentIngestion(g, d)
          PROVE  Forward
      BY <2>3, <3>1 DEF PromoteDocumentIngestion
    <3>2. ASSUME NEW g \in grants, FailJob(g) \/ CompleteJob(g) PROVE Forward
      BY <2>3, <3>2 DEF FailJob, CompleteJob
    <3>3. QED
      BY <2>1, <2>4, <2>5, <2>6, <2>8, <3>1, <3>2
         DEF WorkerStep, UpdateDocumentStatusForJob, CreateArtifact
  <2>9. QED
    BY <1>1, <2>1, <2>7, <2>8 DEF Next, Tick
<1>2. IndInv /\ [Next]_vars => [Forward]_vars
  BY <1>1
<1>3. QED
  BY <1>2, IndInvCorrect, PTL DEF Spec, JobsOnlyMoveForward

-----------------------------------------------------------------------------
(* The control plane implements the ingestion life cycle.                  *)

\* The facts of an ingested document name the one attempt it counts.
LEMMA IngestedAttempt ==
  ASSUME IndInv, NEW d \in Documents, documents[d].active = NoJob, NEW j \in facts[d]
  PROVE  AttemptOf(d) = jobs[j].attempt
<1>1. facts[d] = {j}
  BY DEF IndInv, PromotedOnce
<1>2. QED
  BY <1>1 DEF AttemptOf

\* A pointer names an attempt of its document.
LEMMA PointerIsAttempt ==
  ASSUME IndInv, NEW d \in Documents, documents[d].active # NoJob
  PROVE  /\ documents[d].active \in JobIds
         /\ jobs[documents[d].active].document = d
         /\ facts[d] = {}
BY DEF IndInv, ActiveAttemptIsLatest, Attempts, PromotedOnce

\* What a step must leave of a document's attempts for the document to keep its
\* place in the life cycle.
SameAttempts(d) ==
  /\ documents'[d].active = documents[d].active
  /\ facts'[d] = facts[d]
  /\ \A j \in Attempts(d) : jobs'[j].attempt = jobs[j].attempt

LEMMA Kept ==
  ASSUME IndInv, IndInv', NEW d \in Documents, SameAttempts(d),
         \A j \in Attempts(d) : Open(j)' <=> Open(j),
         documents'[d].status = "ABSENT" <=> documents[d].status = "ABSENT"
  PROVE  Lifecycle!Keep(d)
<1>1. CASE documents[d].active # NoJob
  <2>1. documents[d].active \in Attempts(d)
    BY <1>1, PointerIsAttempt DEF Attempts
  <2>2. QED
    BY <1>1, <2>1 DEF Lifecycle!Keep, Lifecycle!Moves, PhaseOf, AttemptOf, SameAttempts, Open
<1>2. CASE documents[d].active = NoJob /\ facts[d] = {}
  BY <1>2 DEF Lifecycle!Keep, Lifecycle!Moves, PhaseOf, AttemptOf, SameAttempts
<1>3. CASE documents[d].active = NoJob /\ facts[d] # {}
  <2>1. PICK j \in facts[d] : TRUE
    BY <1>3
  <2>2. j \in Attempts(d)
    BY DEF IndInv, PromotedOnce
  <2>3. facts[d] = {j} /\ facts'[d] = {j}
    BY DEF IndInv, PromotedOnce, SameAttempts
  <2>4. QED
    BY <1>3, <2>2, <2>3 DEF Lifecycle!Keep, Lifecycle!Moves, PhaseOf, AttemptOf, SameAttempts
<1>4. QED
  BY <1>1, <1>2, <1>3

LEMMA Failed ==
  ASSUME IndInv, NEW d \in Documents, SameAttempts(d), documents[d].active # NoJob,
         Open(documents[d].active), ~Open(documents[d].active)'
  PROVE  Lifecycle!Fail(d)
<1>1. documents[d].active \in Attempts(d)
  BY PointerIsAttempt DEF Attempts
<1>2. QED
  BY <1>1 DEF Lifecycle!Fail, Lifecycle!Moves, PhaseOf, AttemptOf, SameAttempts, Open

\* A new row belongs to no document yet, so the attempts of a document keep their
\* rows.
LEMMA InsertKeepsAttempts ==
  ASSUME IndInv, NEW c \in Documents \cup {NoDocument}, NEW k \in Keys, NEW p \in Nat,
         NEW n \in Nat, InsertJob(c, k, p, n)
  PROVE  /\ created + 1 \in JobIds /\ created + 1 # NoJob
         /\ jobs'[created + 1].status = "QUEUED"
         /\ jobs'[created + 1].attempt = n
         /\ \A d \in Documents : \A j \in Attempts(d) : jobs'[j] = jobs[j]
<1>1. created + 1 \in JobIds /\ created + 1 # NoJob
  BY InsertJobType DEF IndInv, TypeOK, NoJob
<1>2. jobs[created + 1].document = NoDocument
  BY <1>1 DEF IndInv, TypeOK, RowsInOrder, AbsentJob
<1>3. /\ \A j \in JobIds \ {created + 1} : jobs'[j] = jobs[j]
      /\ jobs'[created + 1].status = "QUEUED"
      /\ jobs'[created + 1].attempt = n
  BY <1>1 DEF InsertJob, IndInv, TypeOK, AbsentJob
<1>4. QED
  BY <1>1, <1>2, <1>3, ModelAssumption DEF Attempts

LEMMA EnqueueMoves ==
  ASSUME IndInv, IndInv', NEW d \in Documents, NEW k \in Keys, EnqueueDocumentJob(d, k),
         NEW e \in Documents
  PROVE  IF e = d THEN Lifecycle!Enqueue(e) ELSE Lifecycle!Keep(e)
<1>1. InsertJob(d, k, 0, 1)
  BY DEF EnqueueDocumentJob, NoJob
<1>2. /\ created + 1 \in JobIds /\ created + 1 # NoJob
      /\ jobs'[created + 1].status = "QUEUED" /\ jobs'[created + 1].attempt = 1
      /\ \A c \in Documents : \A j \in Attempts(c) : jobs'[j] = jobs[j]
  BY <1>1, InsertKeepsAttempts
<1>3. CASE e = d
  <2>1. documents[d].active = NoJob /\ documents[d].status = "STORED" /\ facts[d] = {}
    BY DEF EnqueueDocumentJob, IndInv, DocumentMirrorsAttempt
  <2>2. documents'[d].active = created + 1
    BY DEF EnqueueDocumentJob, IndInv, TypeOK, DocumentRow
  <2>3. PhaseOf(d) = "stored" /\ PhaseOf(d)' = "attempting" /\ AttemptOf(d)' = 1
    BY <1>2, <2>1, <2>2 DEF PhaseOf, AttemptOf, Open
  <2>4. QED
    BY <1>3, <2>3 DEF Lifecycle!Enqueue, Lifecycle!Moves
<1>4. CASE e # d
  <2>1. documents'[e] = documents[e] /\ facts' = facts
    BY <1>4 DEF EnqueueDocumentJob, IndInv, TypeOK
  <2>2. SameAttempts(e) /\ \A j \in Attempts(e) : Open(j)' <=> Open(j)
    BY <1>2, <2>1 DEF SameAttempts, Open
  <2>3. QED
    BY <1>4, <2>1, <2>2, Kept
<1>5. QED
  BY <1>3, <1>4

LEMMA RetryMoves ==
  ASSUME IndInv, IndInv', NEW i \in JobIds, NEW k \in Keys, RetryJob(i, k),
         NEW e \in Documents
  PROVE  IF e = jobs[i].document THEN Lifecycle!Retry(e) ELSE Lifecycle!Keep(e)
<1>1. /\ jobs[i].document \in Documents \cup {NoDocument}
      /\ i \in Nat /\ i # NoJob /\ jobs[i].attempt + 1 \in Nat
  BY DEF IndInv, TypeOK, JobRow, JobIds, NoJob
<1>2. InsertJob(jobs[i].document, k, i, jobs[i].attempt + 1)
  BY DEF RetryJob
<1>3. /\ created + 1 \in JobIds /\ created + 1 # NoJob
      /\ jobs'[created + 1].status = "QUEUED"
      /\ jobs'[created + 1].attempt = jobs[i].attempt + 1
      /\ \A c \in Documents : \A j \in Attempts(c) : jobs'[j] = jobs[j]
  BY <1>1, <1>2, InsertKeepsAttempts
<1>4. CASE e = jobs[i].document
  <2>1. documents[e].active = i /\ jobs[i].status \in {"FAILED", "INTERRUPTED"}
    BY <1>4, ModelAssumption DEF RetryJob, Ingestion
  <2>2. documents'[e].active = created + 1
    <3>1. documents' = [documents EXCEPT ![e] =
            [documents[e] EXCEPT !.status = "QUEUED", !.active = created + 1, !.error = "NONE"]]
      BY <1>4, ModelAssumption DEF RetryJob, Ingestion
    <3>2. documents'[e] =
            [documents[e] EXCEPT !.status = "QUEUED", !.active = created + 1, !.error = "NONE"]
      BY <3>1 DEF IndInv, TypeOK
    <3>3. QED
      BY <3>2 DEF IndInv, TypeOK, DocumentRow
  <2>3. PhaseOf(e) = "failed" /\ AttemptOf(e) = jobs[i].attempt
    BY <1>1, <2>1 DEF PhaseOf, AttemptOf, Open
  <2>4. PhaseOf(e)' = "attempting" /\ AttemptOf(e)' = jobs[i].attempt + 1
    BY <1>3, <2>2 DEF PhaseOf, AttemptOf, Open
  <2>5. QED
    BY <1>4, <2>3, <2>4 DEF Lifecycle!Retry, Lifecycle!Moves
<1>5. CASE e # jobs[i].document
  <2>1. documents'[e] = documents[e] /\ facts' = facts
    BY <1>5 DEF RetryJob, IndInv, TypeOK
  <2>2. SameAttempts(e) /\ \A j \in Attempts(e) : Open(j)' <=> Open(j)
    BY <1>3, <2>1 DEF SameAttempts, Open
  <2>3. QED
    BY <1>5, <2>1, <2>2, Kept
<1>6. QED
  BY <1>4, <1>5

LEMMA PromoteMoves ==
  ASSUME IndInv, IndInv', NEW g \in grants, NEW d \in Documents,
         PromoteDocumentIngestion(g, d), NEW e \in Documents
  PROVE  IF e = d THEN Lifecycle!Succeed(e) ELSE Lifecycle!Keep(e)
<1>1. g.job \in JobIds /\ g.job # NoJob
  BY DEF IndInv, TypeOK, Grant, JobIds, NoJob
<1>2. /\ jobs[g.job].document = d /\ documents[d].active = g.job
      /\ jobs[g.job].status = "RUNNING"
  BY DEF PromoteDocumentIngestion, HoldsLease, IsActiveAttempt
<1>3. /\ \A j \in JobIds \ {g.job} : jobs'[j] = jobs[j]
      /\ jobs'[g.job].attempt = jobs[g.job].attempt
  BY <1>1 DEF PromoteDocumentIngestion, FinishedRow, IndInv, TypeOK, JobRow
<1>4. CASE e = d
  <2>1. facts[d] = {}
    BY <1>1, <1>2, PointerIsAttempt
  <2>2. documents'[d].active = NoJob /\ facts'[d] = {g.job}
    BY <2>1 DEF PromoteDocumentIngestion, IndInv, TypeOK, DocumentRow
  <2>3. AttemptOf(d)' = jobs'[g.job].attempt
    BY <2>2 DEF AttemptOf, NoJob
  <2>4. PhaseOf(d) = "attempting" /\ AttemptOf(d) = jobs[g.job].attempt
    BY <1>1, <1>2 DEF PhaseOf, AttemptOf, Open
  <2>5. PhaseOf(d)' = "ingested"
    BY <2>2 DEF PhaseOf
  <2>6. QED
    BY <1>3, <1>4, <2>3, <2>4, <2>5 DEF Lifecycle!Succeed, Lifecycle!Moves
<1>5. CASE e # d
  <2>1. documents'[e] = documents[e] /\ facts'[e] = facts[e]
    BY <1>5 DEF PromoteDocumentIngestion, IndInv, TypeOK
  <2>2. \A j \in Attempts(e) : jobs'[j] = jobs[j]
    BY <1>2, <1>3, <1>5 DEF Attempts
  <2>3. SameAttempts(e) /\ \A j \in Attempts(e) : Open(j)' <=> Open(j)
    BY <2>1, <2>2 DEF SameAttempts, Open
  <2>4. QED
    BY <1>5, <2>1, <2>3, Kept
<1>6. QED
  BY <1>4, <1>5

\* The attempts that a failure or a recovery ends (fail_job, recover_interrupted).
LEMMA EndedMoves ==
  ASSUME IndInv, IndInv', NEW ending \in SUBSET JobIds, NEW status \in {"FAILED", "INTERRUPTED"},
         facts' = facts,
         \A j \in ending : jobs[j].status = "RUNNING",
         jobs' = [j \in JobIds |-> IF j \in ending THEN FinishedRow(j, status) ELSE jobs[j]],
         NEW e \in Documents,
         documents'[e].active = documents[e].active,
         documents'[e].status = "ABSENT" <=> documents[e].status = "ABSENT"
  PROVE  Lifecycle!Fail(e) \/ Lifecycle!Keep(e)
<1>1. \A j \in JobIds : /\ jobs'[j].attempt = jobs[j].attempt
                        /\ j \in ending => jobs'[j].status = status
                        /\ j \notin ending => jobs'[j].status = jobs[j].status
  BY DEF FinishedRow, IndInv, TypeOK, JobRow
<1>2. SameAttempts(e)
  BY <1>1 DEF SameAttempts, Attempts
<1>3. CASE documents[e].active \in ending
  <2>1. documents[e].active \in JobIds /\ documents[e].active # NoJob
    <3>1. documents[e].active \in JobIds
      BY <1>3
    <3>2. \A j \in JobIds : j # NoJob
      BY ModelAssumption DEF JobIds, NoJob
    <3>3. QED
      BY <3>1, <3>2
  <2>2. /\ jobs[documents[e].active].status = "RUNNING"
        /\ jobs'[documents'[e].active].status = status
    BY <1>1, <1>3, <2>1
  <2>3. Open(documents[e].active) /\ ~Open(documents[e].active)'
    BY <2>2 DEF Open
  <2>4. QED
    BY <1>2, <2>1, <2>3, Failed
<1>4. CASE documents[e].active \notin ending
  <2>1. \A j \in Attempts(e) : j \notin ending
    BY <1>4 DEF IndInv, OneOpenAttempt, Open
  <2>2. \A j \in Attempts(e) : Open(j)' <=> Open(j)
    BY <1>1, <2>1 DEF Attempts, Open
  <2>3. QED
    BY <1>2, <2>2, Kept
<1>5. QED
  BY <1>3, <1>4

\* Steps that change no document's attempts, their status or their number.
LEMMA JobsKeptMoves ==
  ASSUME IndInv, IndInv', NEW e \in Documents, facts' = facts,
         documents'[e].active = documents[e].active,
         documents'[e].status = "ABSENT" <=> documents[e].status = "ABSENT",
         \A j \in Attempts(e) : /\ jobs'[j].attempt = jobs[j].attempt
                                /\ Open(j)' <=> Open(j)
  PROVE  Lifecycle!Keep(e)
BY Kept DEF SameAttempts

\* A document that fails keeps its pointer and exists (_release_document_attempt).
LEMMA FailedKeepsPointer ==
  ASSUME IndInv, NEW e \in Documents, NEW error \in ErrorCodes,
         \/ documents'[e] = documents[e]
         \/ /\ documents[e].active # NoJob
            /\ documents'[e] = FailedDocument(documents[e], error)
  PROVE  /\ documents'[e].active = documents[e].active
         /\ documents'[e].status = "ABSENT" <=> documents[e].status = "ABSENT"
BY DEF FailedDocument, IndInv, TypeOK, DocumentRow, DocumentMirrorsAttempt

LEMMA StepMoves ==
  ASSUME IndInv, IndInv', [Next]_vars, NEW e \in Documents
  PROVE  \/ Lifecycle!Upload(e) \/ Lifecycle!Enqueue(e) \/ Lifecycle!Fail(e)
         \/ Lifecycle!Retry(e) \/ Lifecycle!Succeed(e) \/ Lifecycle!Keep(e)
<1> DEFINE Moved == \/ Lifecycle!Upload(e) \/ Lifecycle!Enqueue(e) \/ Lifecycle!Fail(e)
                    \/ Lifecycle!Retry(e) \/ Lifecycle!Succeed(e) \/ Lifecycle!Keep(e)
<1>1. ASSUME NEW d \in Documents, CreateDocument(d) PROVE Moved
  <2>1. jobs' = jobs /\ facts' = facts
    BY <1>1 DEF CreateDocument
  <2>2. CASE e = d
    <3>1. documents[d].active = NoJob /\ documents[d].status = "ABSENT" /\ facts[d] = {}
      BY <1>1 DEF CreateDocument, IndInv, DocumentMirrorsAttempt
    <3>2. documents'[d].active = NoJob /\ documents'[d].status = "STORED"
      BY <1>1, <3>1 DEF CreateDocument, IndInv, TypeOK, DocumentRow
    <3>3. PhaseOf(d) = "absent" /\ AttemptOf(d) = 0
      BY <3>1 DEF PhaseOf, AttemptOf
    <3>4. PhaseOf(d)' = "stored" /\ AttemptOf(d)' = 0
      BY <2>1, <3>1, <3>2 DEF PhaseOf, AttemptOf
    <3>5. QED
      BY <2>2, <3>3, <3>4 DEF Lifecycle!Upload, Lifecycle!Moves
  <2>3. CASE e # d
    <3>1. documents'[e] = documents[e]
      BY <1>1, <2>3 DEF CreateDocument, IndInv, TypeOK
    <3>2. QED
      BY <2>1, <3>1, JobsKeptMoves DEF Open
  <2>4. QED
    BY <2>2, <2>3
<1>2. ASSUME NEW d \in Documents, NEW k \in Keys, EnqueueDocumentJob(d, k) PROVE Moved
  BY <1>2, EnqueueMoves
<1>3. ASSUME NEW k \in Keys, CreateJob(k) PROVE Moved
  <2>1. InsertJob(NoDocument, k, 0, 1)
    BY <1>3 DEF CreateJob, NoJob
  <2>2. \A j \in Attempts(e) : jobs'[j] = jobs[j]
    BY <2>1, InsertKeepsAttempts
  <2>3. facts' = facts /\ documents' = documents
    BY <1>3 DEF CreateJob
  <2>4. QED
    BY <2>2, <2>3, JobsKeptMoves DEF Open
<1>4. ASSUME NEW j \in JobIds, NEW k \in Keys, RetryJob(j, k) PROVE Moved
  BY <1>4, RetryMoves
<1>5. ASSUME NEW d \in Documents, ReviewDocument(d) PROVE Moved
  <2>1. jobs' = jobs /\ facts' = facts
    BY <1>5 DEF ReviewDocument
  <2>2. /\ documents'[e].active = documents[e].active
        /\ documents'[e].status = "ABSENT" <=> documents[e].status = "ABSENT"
    <3>1. CASE e = d
      <4>1. documents[d].active = NoJob
        BY <1>5 DEF ReviewDocument, IndInv, PromotedOnce
      <4>2. documents[d].status # "ABSENT"
        BY <1>5, <4>1 DEF ReviewDocument, IndInv, DocumentMirrorsAttempt
      <4>3. /\ documents'[d].active = documents[d].active
            /\ documents'[d].status \in {"NEEDS_REVIEW", "COMPLETED"}
        BY <1>5 DEF ReviewDocument, IndInv, TypeOK, DocumentRow
      <4>4. QED
        BY <3>1, <4>2, <4>3
    <3>2. CASE e # d
      BY <1>5, <3>2 DEF ReviewDocument, IndInv, TypeOK
    <3>3. QED
      BY <3>1, <3>2
  <2>3. QED
    BY <2>1, <2>2, JobsKeptMoves DEF Open
<1>6. ASSUME NEW w \in Workers, NEW j \in JobIds, NEW now \in SampledTimes,
             ClaimJob(w, j, now)
      PROVE  Moved
  <2>1. documents' = documents /\ facts' = facts
    BY <1>6 DEF ClaimJob
  <2>2. \A i \in JobIds : jobs'[i].attempt = jobs[i].attempt /\ (Open(i)' <=> Open(i))
    BY <1>6 DEF ClaimJob, OldestQueued, Open, IndInv, TypeOK, JobRow
  <2>3. QED
    BY <2>1, <2>2, JobsKeptMoves DEF Attempts
<1>7. ASSUME NEW g \in grants, NEW now \in SampledTimes, HeartbeatJob(g, now) PROVE Moved
  <2>1. documents' = documents /\ facts' = facts
    BY <1>7 DEF HeartbeatJob
  <2>2. \A i \in JobIds : jobs'[i].attempt = jobs[i].attempt /\ (Open(i)' <=> Open(i))
    BY <1>7 DEF HeartbeatJob, Open, IndInv, TypeOK, JobRow
  <2>3. QED
    BY <2>1, <2>2, JobsKeptMoves DEF Attempts
<1>8. ASSUME NEW g \in grants, NEW d \in Documents, NEW s \in {"PROCESSING", "FAILED"},
             UpdateDocumentStatusForJob(g, d, s)
      PROVE  Moved
  <2>1. jobs' = jobs /\ facts' = facts
    BY <1>8 DEF UpdateDocumentStatusForJob
  <2>2. /\ documents[d].active = g.job /\ g.job # NoJob
        /\ jobs[g.job].status = "RUNNING"
    BY <1>8 DEF UpdateDocumentStatusForJob, HoldsLease, IsActiveAttempt, IndInv, TypeOK,
       Grant, JobIds, NoJob
  <2>3. documents[d].status # "ABSENT"
    BY <2>2 DEF IndInv, DocumentMirrorsAttempt
  <2>4. /\ documents'[e].active = documents[e].active
        /\ documents'[e].status = "ABSENT" <=> documents[e].status = "ABSENT"
    BY <1>8, <2>3 DEF UpdateDocumentStatusForJob, IndInv, TypeOK, DocumentRow
  <2>5. QED
    BY <2>1, <2>4, JobsKeptMoves DEF Open
<1>9. ASSUME NEW g \in grants, NEW d \in Documents, PromoteDocumentIngestion(g, d)
      PROVE  Moved
  BY <1>9, PromoteMoves
<1>10. ASSUME NEW g \in grants, FailJob(g) PROVE Moved
  <2>1. /\ {g.job} \in SUBSET JobIds /\ jobs[g.job].status = "RUNNING" /\ facts' = facts
        /\ jobs' = [j \in JobIds |-> IF j \in {g.job} THEN FinishedRow(j, "FAILED") ELSE jobs[j]]
    BY <1>10 DEF FailJob, HoldsLease, IndInv, TypeOK, Grant
  <2>2. /\ documents'[e].active = documents[e].active
        /\ documents'[e].status = "ABSENT" <=> documents[e].status = "ABSENT"
    <3>1. g.job # NoJob
      BY ModelAssumption DEF IndInv, TypeOK, Grant, JobIds, NoJob
    <3>2. \/ documents'[e] = documents[e]
          \/ /\ documents[e].active # NoJob
             /\ documents'[e] = FailedDocument(documents[e], "HANDLER_FAILED")
      BY <1>10, <3>1 DEF FailJob, IsActiveAttempt
    <3>3. "HANDLER_FAILED" \in ErrorCodes
      BY DEF ErrorCodes
    <3>4. QED
      BY <3>2, <3>3, FailedKeepsPointer
  <2>3. QED
    BY <2>1, <2>2, EndedMoves
<1>11. ASSUME NEW g \in grants, CompleteJob(g) PROVE Moved
  <2>1. documents' = documents /\ facts' = facts
    BY <1>11 DEF CompleteJob
  <2>2. \A j \in Attempts(e) : jobs'[j] = jobs[j]
    BY <1>11, ModelAssumption DEF CompleteJob, Ingestion, Attempts, IndInv, TypeOK, Grant
  <2>3. QED
    BY <2>1, <2>2, JobsKeptMoves DEF Open
<1>12. ASSUME NEW now \in SampledTimes, RecoverInterrupted(now) PROVE Moved
  <2> DEFINE ending == {j \in JobIds : Expired(j, now)}
  <2>1. /\ ending \in SUBSET JobIds /\ facts' = facts
        /\ \A j \in ending : jobs[j].status = "RUNNING"
        /\ jobs' = [j \in JobIds |-> IF j \in ending THEN FinishedRow(j, "INTERRUPTED") ELSE jobs[j]]
    BY <1>12 DEF RecoverInterrupted, Expired
  <2>2. /\ documents'[e].active = documents[e].active
        /\ documents'[e].status = "ABSENT" <=> documents[e].status = "ABSENT"
    <3>1. \A j \in JobIds : j # NoJob
      BY ModelAssumption DEF JobIds, NoJob
    <3>2. \/ documents'[e] = documents[e]
          \/ /\ documents[e].active # NoJob
             /\ documents'[e] = FailedDocument(documents[e], "LEASE_EXPIRED")
      BY <1>12, <3>1 DEF RecoverInterrupted, IsActiveAttempt
    <3>3. "LEASE_EXPIRED" \in ErrorCodes
      BY DEF ErrorCodes
    <3>4. QED
      BY <3>2, <3>3, FailedKeepsPointer
  <2> HIDE DEF ending
  <2>3. QED
    BY <2>1, <2>2, EndedMoves
<1>13. CASE \/ Tick \/ UNCHANGED vars \/ \E g \in grants : CreateArtifact(g)
  <2>1. documents' = documents /\ facts' = facts /\ jobs' = jobs
    BY <1>13 DEF Tick, vars, CreateArtifact
  <2>2. QED
    BY <2>1, JobsKeptMoves DEF Open
<1>14. QED
  BY <1>1, <1>2, <1>3, <1>4, <1>5, <1>6, <1>7, <1>8, <1>9, <1>10, <1>11, <1>12, <1>13
     DEF Next, ApiStep, WorkerStep

\* From outside a document is ingested as the life cycle says: attempts are numbered,
\* run one at a time, follow a failure, and the first success is final. Leases, late
\* workers, recoveries and repeated requests are invisible (web_store.py, all writing
\* methods).
THEOREM StoreImplementsLifecycle == Spec => ImplementsLifecycle
<1>1. Init => Lifecycle!Init
  BY DEF Init, Lifecycle!Init, PhaseOf, AttemptOf, AbsentDocument
<1>2. IndInv /\ IndInv' /\ [Next]_vars => Lifecycle!Next
  BY StepMoves DEF Lifecycle!Next
<1>3. QED
  BY <1>1, <1>2, IndInvCorrect, PTL DEF Spec, ImplementsLifecycle, Lifecycle!Spec

-----------------------------------------------------------------------------
(* The processes: the inductive invariant.                                 *)

\* The points from which run_once can reach a call that names the document.
DocumentPoints == {"starting", "extracting", "aborting", "finalizing", "promoting"}

\* What a process holds was granted to it, and it calls for a document only with
\* an ingestion job.
HeldIsGranted ==
  \A w \in Workers : held[w] # NoGrant => held[w] \in grants /\ held[w].worker = w

HandlesIngestion ==
  \A w \in Workers : pc[w] \in DocumentPoints => Ingestion(held[w].job)

WorkerInv ==
  /\ IndInv
  /\ WorkerTypeOK
  /\ HeldIsGranted
  /\ HandlesIngestion
  /\ FailedMeansAbandoned

LEMMA BusyHolds ==
  ASSUME WorkerInv, NEW w \in Workers, pc[w] \in Busy
  PROVE  /\ held[w] \in grants /\ held[w].worker = w /\ held[w] # NoGrant
         /\ held[w].job \in JobIds /\ held[w].job # NoJob
<1>1. held[w] # NoGrant
  BY DEF WorkerInv, WorkerTypeOK
<1>2. held[w] \in grants /\ held[w].worker = w
  BY <1>1 DEF WorkerInv, HeldIsGranted
<1>3. held[w].job \in JobIds
  BY <1>2 DEF WorkerInv, IndInv, TypeOK, Grant
<1>4. \A j \in JobIds : j # NoJob
  BY ModelAssumption DEF JobIds, NoJob
<1>5. QED
  BY <1>1, <1>2, <1>3, <1>4

LEMMA PointHasDocument ==
  ASSUME WorkerInv, NEW w \in Workers, pc[w] \in DocumentPoints
  PROVE  DocumentOf(w) \in Documents
<1>1. pc[w] \in Busy
  BY DEF DocumentPoints, Busy, Handling
<1>2. jobs[held[w].job] \in JobRow
  BY <1>1, BusyHolds DEF WorkerInv, IndInv, TypeOK
<1>3. QED
  BY <1>2 DEF WorkerInv, HandlesIngestion, Ingestion, JobRow, DocumentOf

-----------------------------------------------------------------------------
(* Every step of a process is a step of the store, or leaves it alone.     *)

LEMMA StepUsesStore ==
  ASSUME WorkerInv, [WorkerNext]_allVars
  PROVE  [Next]_vars
<1>1. ASSUME NEW w \in Workers, Program(w) PROVE [Next]_vars
  <2>1. ASSUME NEW now \in SampledTimes, Launch(w, now) PROVE Next
    BY <2>1 DEF Launch, Next, WorkerStep
  <2>2. ASSUME NEW j \in JobIds, NEW now \in SampledTimes, Claim(w, j, now) PROVE Next
    BY <2>2 DEF Claim, Next, WorkerStep
  <2>3. CASE StartProcessing(w)
    <3>1. held[w] \in grants /\ DocumentOf(w) \in Documents
      BY <2>3, BusyHolds, PointHasDocument DEF StartProcessing, DocumentPoints, Busy, Handling
    <3>2. QED
      BY <2>3, <3>1 DEF StartProcessing, Next, WorkerStep
  <2>4. CASE MarkFailed(w)
    <3>1. held[w] \in grants /\ DocumentOf(w) \in Documents
      BY <2>4, BusyHolds, PointHasDocument DEF MarkFailed, DocumentPoints, Busy, Handling
    <3>2. QED
      BY <2>4, <3>1 DEF MarkFailed, Next, WorkerStep
  <2>5. ASSUME NEW now \in SampledTimes, HeartbeatPromoting(w, now) PROVE Next
    <3>1. held[w] \in grants
      BY <2>5, BusyHolds DEF HeartbeatPromoting, Busy, Handling
    <3>2. QED
      BY <2>5, <3>1 DEF HeartbeatPromoting, Next, WorkerStep
  <2>6. CASE Promote(w)
    <3>1. held[w] \in grants /\ DocumentOf(w) \in Documents
      BY <2>6, BusyHolds, PointHasDocument DEF Promote, DocumentPoints, Busy, Handling
    <3>2. QED
      BY <2>6, <3>1 DEF Promote, Next, WorkerStep
  <2>7. CASE RecordFailure(w)
    <3>1. held[w] \in grants
      BY <2>7, BusyHolds DEF RecordFailure, Busy, Handling
    <3>2. QED
      BY <2>7, <3>1 DEF RecordFailure, Next, WorkerStep
  <2>8. CASE UNCHANGED vars
    BY <2>8
  <2>9. QED
    BY <1>1, <2>1, <2>2, <2>3, <2>4, <2>5, <2>6, <2>7, <2>8
       DEF Program, NothingToClaim, ReadClaim, StartRefused, HandlerReturns,
           HandlerSeesLoss, ExitOnLoss, PromoteRefused, RecordRefused
<1>2. ASSUME NEW w \in Workers, RenewalThread(w) PROVE [Next]_vars
  <2>1. ASSUME NEW now \in SampledTimes, Renew(w, now) PROVE Next
    <3>1. held[w] \in grants
      BY <2>1, BusyHolds DEF Renew, Renewing
    <3>2. QED
      BY <2>1, <3>1 DEF Renew, Next, WorkerStep
  <2>2. CASE RenewalFails(w)
    BY <2>2 DEF RenewalFails
  <2>3. QED
    BY <1>2, <2>1, <2>2 DEF RenewalThread
<1>3. ASSUME NEW w \in Workers, Fault(w) PROVE [Next]_vars
  BY <1>3 DEF Fault, HandlerRaises, RunRaises, Crash
<1>4. CASE ApiStep \/ Tick
  BY <1>4 DEF Next
<1>5. CASE UNCHANGED allVars
  BY <1>5 DEF allVars, vars
<1>6. QED
  BY <1>1, <1>2, <1>3, <1>4, <1>5 DEF WorkerNext

-----------------------------------------------------------------------------
(* What a step of the store leaves of the grants.                          *)

LEMMA InsertKeepsGranted ==
  ASSUME IndInv, NEW d \in Documents \cup {NoDocument}, NEW k \in Keys, NEW p \in Nat,
         NEW n \in Nat, InsertJob(d, k, p, n), NEW g \in grants
  PROVE  jobs'[g.job] = jobs[g.job]
<1>1. g.job \in JobIds /\ jobs[g.job].status # "ABSENT"
  BY DEF IndInv, TypeOK, Grant, GrantsWereClaimed
<1>2. created + 1 \in JobIds /\ jobs[created + 1].status = "ABSENT"
  <2>1. created + 1 \in JobIds
    BY InsertJobType DEF IndInv
  <2>2. QED
    BY <2>1 DEF IndInv, TypeOK, RowsInOrder, AbsentJob
<1>3. QED
  BY <1>1, <1>2 DEF InsertJob, IndInv, TypeOK

\* The API never touches a job that was claimed.
LEMMA ApiKeepsGranted ==
  ASSUME IndInv, ApiStep, NEW g \in grants
  PROVE  jobs'[g.job] = jobs[g.job] /\ grants' = grants
<1>1. ASSUME NEW d \in Documents, NEW k \in Keys, EnqueueDocumentJob(d, k)
      PROVE  jobs'[g.job] = jobs[g.job]
  <2>1. InsertJob(d, k, 0, 1)
    BY <1>1 DEF EnqueueDocumentJob, NoJob
  <2>2. QED
    BY <2>1, InsertKeepsGranted
<1>2. ASSUME NEW k \in Keys, CreateJob(k) PROVE jobs'[g.job] = jobs[g.job]
  <2>1. InsertJob(NoDocument, k, 0, 1)
    BY <1>2 DEF CreateJob, NoJob
  <2>2. QED
    BY <2>1, InsertKeepsGranted
<1>3. ASSUME NEW j \in JobIds, NEW k \in Keys, RetryJob(j, k)
      PROVE  jobs'[g.job] = jobs[g.job]
  <2>1. jobs[j] \in JobRow
    BY DEF IndInv, TypeOK
  <2>2. /\ jobs[j].document \in Documents \cup {NoDocument}
        /\ j \in Nat /\ jobs[j].attempt + 1 \in Nat
    BY <2>1 DEF JobRow, JobIds
  <2>3. InsertJob(jobs[j].document, k, j, jobs[j].attempt + 1)
    BY <1>3 DEF RetryJob
  <2>4. QED
    BY <2>2, <2>3, InsertKeepsGranted
<1>4. grants' = grants
  BY DEF ApiStep, CreateDocument, EnqueueDocumentJob, CreateJob, RetryJob, ReviewDocument
<1>5. QED
  BY <1>1, <1>2, <1>3, <1>4 DEF ApiStep, CreateDocument, ReviewDocument

LEMMA GrantsStay ==
  ASSUME IndInv, [Next]_vars, NEW g \in grants
  PROVE  /\ g \in grants'
         /\ jobs'[g.job].document = jobs[g.job].document
<1>1. g.job \in JobIds
  BY DEF IndInv, TypeOK, Grant
<1>2. CASE ApiStep
  BY <1>2, ApiKeepsGranted
<1>3. CASE WorkerStep
  <2>1. grants \subseteq grants'
    BY <1>3 DEF WorkerStep, ClaimJob, HeartbeatJob, UpdateDocumentStatusForJob,
       PromoteDocumentIngestion, FailJob, CompleteJob, CreateArtifact, RecoverInterrupted
  <2>2. ASSUME NEW w \in Workers, NEW j \in JobIds, NEW now \in SampledTimes,
               ClaimJob(w, j, now)
        PROVE  jobs'[g.job].document = jobs[g.job].document
    BY <1>1, <2>2 DEF ClaimJob, IndInv, TypeOK, JobRow
  <2>3. ASSUME NEW h \in grants, NEW now \in SampledTimes, HeartbeatJob(h, now)
        PROVE  jobs'[g.job].document = jobs[g.job].document
    <3>1. \/ jobs'[g.job] = jobs[g.job]
          \/ jobs'[g.job] = [jobs[g.job] EXCEPT !.expires = now + LeaseSeconds]
      BY <1>1, <2>3 DEF HeartbeatJob, IndInv, TypeOK
    <3>2. jobs[g.job] \in JobRow
      BY <1>1 DEF IndInv, TypeOK
    <3>3. QED
      BY <3>1, <3>2 DEF JobRow
  <2>4. ASSUME NEW now \in SampledTimes, RecoverInterrupted(now)
        PROVE  jobs'[g.job].document = jobs[g.job].document
    <3>1. jobs'[g.job] = FinishedRow(g.job, "INTERRUPTED") \/ jobs'[g.job] = jobs[g.job]
      BY <1>1, <2>4 DEF RecoverInterrupted
    <3>2. QED
      BY <1>1, <3>1 DEF FinishedRow, IndInv, TypeOK, JobRow
  <2>5. ASSUME NEW h \in grants, NEW s \in {"SUCCEEDED", "FAILED"},
               jobs' = [jobs EXCEPT ![h.job] = FinishedRow(h.job, s)]
        PROVE  jobs'[g.job].document = jobs[g.job].document
    <3>1. jobs'[g.job] = FinishedRow(g.job, s) \/ jobs'[g.job] = jobs[g.job]
      BY <1>1, <2>5 DEF IndInv, TypeOK
    <3>2. QED
      BY <1>1, <3>1 DEF FinishedRow, IndInv, TypeOK, JobRow
  <2>6. ASSUME NEW h \in grants, NEW d \in Documents, PromoteDocumentIngestion(h, d)
        PROVE  jobs'[g.job].document = jobs[g.job].document
    BY <2>5, <2>6 DEF PromoteDocumentIngestion
  <2>7. ASSUME NEW h \in grants, FailJob(h) \/ CompleteJob(h)
        PROVE  jobs'[g.job].document = jobs[g.job].document
    BY <2>5, <2>7 DEF FailJob, CompleteJob
  <2>8. ASSUME jobs' = jobs PROVE jobs'[g.job].document = jobs[g.job].document
    BY <2>8
  <2>9. QED
    BY <1>3, <2>1, <2>2, <2>3, <2>4, <2>6, <2>7, <2>8
       DEF WorkerStep, UpdateDocumentStatusForJob, CreateArtifact
<1>4. CASE Tick \/ UNCHANGED vars
  BY <1>4 DEF Tick, vars
<1>5. QED
  BY <1>2, <1>3, <1>4 DEF Next

-----------------------------------------------------------------------------
(* What a step does to the processes.                                      *)

\* The four ways a process moves. Only the steps that end in Leave drop what it
\* holds, and none goes on from failing.
Rests(w) ==
  /\ pc[w] \notin Busy
  /\ \E point \in {"down", "idle"} : Goto(w, point)

Drops(w) == \E point \in {"down", "idle"} : Leave(w, point)

GoesOn(w) ==
  /\ pc[w] \in Busy \ {"failing"}
  /\ \E point \in Busy :
       /\ Goto(w, point)
       /\ point \in DocumentPoints => Ingestion(held[w].job)

Stays == UNCHANGED <<pc, held>> /\ lost' \in [Workers -> BOOLEAN]

\* The steps of the store that neither start an attempt nor mark the document of
\* a running one FAILED.
Quiet ==
  \/ UNCHANGED vars
  \/ Tick
  \/ ApiStep
  \/ \E now \in SampledTimes : RecoverInterrupted(now)
  \/ \E g \in grants, now \in SampledTimes : HeartbeatJob(g, now)
  \/ \E g \in grants, d \in Documents : UpdateDocumentStatusForJob(g, d, "PROCESSING")
  \/ \E g \in grants, d \in Documents : PromoteDocumentIngestion(g, d)
  \/ \E g \in grants : FailJob(g)

LEMMA StepShapes ==
  ASSUME WorkerInv, [WorkerNext]_allVars
  PROVE  \/ Quiet /\ (Stays \/ \E w \in Workers : Rests(w) \/ Drops(w) \/ GoesOn(w))
         \/ \E w \in Workers, j \in JobIds, now \in SampledTimes : Claim(w, j, now)
         \/ \E w \in Workers : MarkFailed(w)
<1> DEFINE Moved == Stays \/ \E w \in Workers : Rests(w) \/ Drops(w) \/ GoesOn(w)
           Others == \/ \E w \in Workers, j \in JobIds, now \in SampledTimes : Claim(w, j, now)
                     \/ \E w \in Workers : MarkFailed(w)
<1>1. ASSUME NEW w \in Workers, Program(w) PROVE (Quiet /\ Moved) \/ Others
  <2>1. ASSUME NEW now \in SampledTimes, Launch(w, now) PROVE Quiet /\ Moved
    <3>1. Quiet
      BY <2>1 DEF Launch, Quiet
    <3>2. Rests(w)
      BY <2>1 DEF Launch, Rests, Busy, Handling
    <3>3. QED
      BY <3>1, <3>2
  <2>2. CASE NothingToClaim(w)
    <3>1. Quiet
      BY <2>2 DEF NothingToClaim, Quiet
    <3>2. Rests(w)
      BY <2>2 DEF NothingToClaim, Rests, Busy, Handling
    <3>3. QED
      BY <3>1, <3>2
  <2>3. CASE ReadClaim(w)
    <3>1. Quiet
      BY <2>3 DEF ReadClaim, Quiet
    <3>2. Drops(w) \/ GoesOn(w)
      BY <2>3 DEF ReadClaim, Drops, GoesOn, Busy, Handling, DocumentPoints
    <3>3. QED
      BY <3>1, <3>2
  <2>4. CASE StartProcessing(w)
    <3>1. held[w] \in grants /\ DocumentOf(w) \in Documents
      BY <2>4, BusyHolds, PointHasDocument DEF StartProcessing, DocumentPoints, Busy, Handling
    <3>2. Quiet
      BY <2>4, <3>1 DEF StartProcessing, Quiet
    <3>3. GoesOn(w)
      BY <2>4 DEF StartProcessing, GoesOn, Busy, Handling, DocumentPoints, WorkerInv,
         HandlesIngestion
    <3>4. QED
      BY <3>2, <3>3
  <2>5. CASE StartRefused(w) \/ HandlerReturns(w) \/ HandlerSeesLoss(w) \/ PromoteRefused(w)
    <3>1. Quiet
      BY <2>5 DEF StartRefused, HandlerReturns, HandlerSeesLoss, PromoteRefused, Quiet
    <3>2. GoesOn(w)
      BY <2>5 DEF StartRefused, HandlerReturns, HandlerSeesLoss, PromoteRefused, GoesOn, Busy,
         Handling, DocumentPoints, WorkerInv, HandlesIngestion
    <3>3. QED
      BY <3>1, <3>2
  <2>6. ASSUME NEW now \in SampledTimes, HeartbeatPromoting(w, now) PROVE Quiet /\ Moved
    <3>1. held[w] \in grants
      BY <2>6, BusyHolds DEF HeartbeatPromoting, Busy, Handling
    <3>2. Quiet
      BY <2>6, <3>1 DEF HeartbeatPromoting, Quiet
    <3>3. GoesOn(w)
      BY <2>6 DEF HeartbeatPromoting, GoesOn, Busy, Handling, DocumentPoints, WorkerInv,
         HandlesIngestion
    <3>4. QED
      BY <3>2, <3>3
  <2>7. CASE ExitOnLoss(w) \/ RecordRefused(w)
    <3>1. Quiet
      BY <2>7 DEF ExitOnLoss, RecordRefused, Quiet
    <3>2. Drops(w)
      BY <2>7 DEF ExitOnLoss, RecordRefused, Drops
    <3>3. QED
      BY <3>1, <3>2
  <2>8. CASE Promote(w)
    <3>1. held[w] \in grants /\ DocumentOf(w) \in Documents
      BY <2>8, BusyHolds, PointHasDocument DEF Promote, DocumentPoints, Busy, Handling
    <3>2. Quiet
      BY <2>8, <3>1 DEF Promote, Quiet
    <3>3. Drops(w) \/ GoesOn(w)
      BY <2>8 DEF Promote, Return, Drops, GoesOn, Busy, Handling, DocumentPoints
    <3>4. QED
      BY <3>2, <3>3
  <2>9. CASE RecordFailure(w)
    <3>1. held[w] \in grants
      BY <2>9, BusyHolds DEF RecordFailure, Busy, Handling
    <3>2. Quiet
      BY <2>9, <3>1 DEF RecordFailure, Quiet
    <3>3. Drops(w)
      BY <2>9 DEF RecordFailure, Return, Drops
    <3>4. QED
      BY <3>2, <3>3
  <2>10. QED
    BY <1>1, <2>1, <2>2, <2>3, <2>4, <2>5, <2>6, <2>7, <2>8, <2>9 DEF Program
<1>2. ASSUME NEW w \in Workers, RenewalThread(w) PROVE Quiet /\ Stays
  <2>1. lost \in [Workers -> BOOLEAN]
    BY DEF WorkerInv, WorkerTypeOK
  <2>2. ASSUME NEW now \in SampledTimes, Renew(w, now) PROVE Quiet /\ Stays
    <3>1. held[w] \in grants
      BY <2>2, BusyHolds DEF Renew, Renewing
    <3>2. Quiet
      BY <2>2, <3>1 DEF Renew, Quiet
    <3>3. QED
      BY <2>1, <2>2, <3>2 DEF Renew, Stays, worker
  <2>3. ASSUME RenewalFails(w) PROVE Quiet /\ Stays
    BY <2>1, <2>3 DEF RenewalFails, Quiet, Stays
  <2>4. QED
    BY <1>2, <2>2, <2>3 DEF RenewalThread
<1>3. ASSUME NEW w \in Workers, Fault(w) PROVE Quiet /\ Moved
  <2>1. Quiet
    BY <1>3 DEF Fault, HandlerRaises, RunRaises, Crash, Quiet
  <2>2. GoesOn(w) \/ Drops(w)
    BY <1>3 DEF Fault, HandlerRaises, RunRaises, Crash, GoesOn, Drops, Busy, Handling,
       DocumentPoints, WorkerInv, HandlesIngestion
  <2>3. QED
    BY <2>1, <2>2
<1>4. ASSUME (ApiStep \/ Tick) /\ UNCHANGED worker PROVE Quiet /\ Stays
  BY <1>4 DEF Quiet, Stays, worker, WorkerInv, WorkerTypeOK
<1>5. ASSUME UNCHANGED allVars PROVE Quiet /\ Stays
  BY <1>5 DEF Quiet, Stays, allVars, vars, WorkerInv, WorkerTypeOK
<1>6. QED
  BY <1>1, <1>2, <1>3, <1>4, <1>5 DEF WorkerNext

-----------------------------------------------------------------------------
(* The invariant is inductive.                                             *)

LEMMA WorkerTypesKept ==
  ASSUME WorkerInv, [WorkerNext]_allVars
  PROVE  WorkerTypeOK'
<1>1. /\ pc \in [Workers -> Points] /\ held \in [Workers -> Grant \cup {NoGrant}]
      /\ lost \in [Workers -> BOOLEAN]
      /\ \A w \in Workers : pc[w] \in Busy <=> held[w] # NoGrant
  BY DEF WorkerInv, WorkerTypeOK
<1>2. CASE Stays
  BY <1>1, <1>2 DEF Stays, WorkerTypeOK
<1>3. ASSUME NEW w \in Workers, Rests(w) PROVE WorkerTypeOK'
  BY <1>1, <1>3 DEF Rests, Goto, WorkerTypeOK, Points, Busy, Handling
<1>4. ASSUME NEW w \in Workers, Drops(w) PROVE WorkerTypeOK'
  BY <1>1, <1>4 DEF Drops, Leave, WorkerTypeOK, Points, Busy, Handling
<1>5. ASSUME NEW w \in Workers, GoesOn(w) PROVE WorkerTypeOK'
  BY <1>1, <1>5 DEF GoesOn, Goto, WorkerTypeOK, Points, Busy, Handling
<1>6. ASSUME NEW w \in Workers, NEW j \in JobIds, NEW now \in SampledTimes, Claim(w, j, now)
      PROVE  WorkerTypeOK'
  <2> DEFINE g == [job |-> j, worker |-> w, token |-> issued + 1]
  <2>1. g \in Grant /\ g # NoGrant
    <3>1. g \in Grant
      BY DEF Grant, WorkerInv, IndInv, TypeOK
    <3>2. g.worker # NoGrant.worker
      BY ModelAssumption DEF NoGrant
    <3>3. QED
      BY <3>1, <3>2
  <2>2. /\ pc' = [pc EXCEPT ![w] = "claimed"] /\ held' = [held EXCEPT ![w] = g]
        /\ lost' = lost
    BY <1>6 DEF Claim
  <2> HIDE DEF g
  <2>3. QED
    BY <1>1, <2>1, <2>2 DEF WorkerTypeOK, Points, Busy, Handling
<1>7. ASSUME NEW w \in Workers, MarkFailed(w) PROVE WorkerTypeOK'
  BY <1>1, <1>7 DEF MarkFailed, Goto, WorkerTypeOK, Points, Busy, Handling
<1>8. QED
  BY <1>2, <1>3, <1>4, <1>5, <1>6, <1>7, StepShapes

LEMMA HeldKept ==
  ASSUME WorkerInv, [WorkerNext]_allVars
  PROVE  HeldIsGranted'
<1>1. \A g \in grants : g \in grants'
  BY StepUsesStore, GrantsStay DEF WorkerInv
<1>2. /\ held \in [Workers -> Grant \cup {NoGrant}]
      /\ \A w \in Workers : held[w] # NoGrant => held[w] \in grants /\ held[w].worker = w
  BY DEF WorkerInv, WorkerTypeOK, HeldIsGranted
<1>3. CASE held' = held
  BY <1>1, <1>2, <1>3 DEF HeldIsGranted
<1>4. ASSUME NEW w \in Workers, Drops(w) PROVE HeldIsGranted'
  BY <1>1, <1>2, <1>4 DEF Drops, Leave, HeldIsGranted
<1>5. ASSUME NEW w \in Workers, NEW j \in JobIds, NEW now \in SampledTimes, Claim(w, j, now)
      PROVE  HeldIsGranted'
  <2> DEFINE g == [job |-> j, worker |-> w, token |-> issued + 1]
  <2>1. g.worker = w
    OBVIOUS
  <2>2. held' = [held EXCEPT ![w] = g] /\ g \in grants'
    BY <1>5 DEF Claim, ClaimJob
  <2> HIDE DEF g
  <2>3. QED
    BY <1>1, <1>2, <2>1, <2>2 DEF HeldIsGranted
<1>6. QED
  BY <1>3, <1>4, <1>5, StepShapes DEF Stays, Rests, GoesOn, Goto, MarkFailed

LEMMA IngestionKept ==
  ASSUME WorkerInv, [WorkerNext]_allVars
  PROVE  HandlesIngestion'
<1>1. \A g \in grants : jobs'[g.job].document = jobs[g.job].document
  BY StepUsesStore, GrantsStay DEF WorkerInv
<1>2. ASSUME NEW w \in Workers, pc[w] \in DocumentPoints
      PROVE  jobs'[held[w].job].document # NoDocument
  <2>1. held[w] \in grants
    BY <1>2, BusyHolds DEF DocumentPoints, Busy, Handling
  <2>2. QED
    BY <1>1, <1>2, <2>1 DEF WorkerInv, HandlesIngestion, Ingestion
<1>3. pc \in [Workers -> Points] /\ held \in [Workers -> Grant \cup {NoGrant}]
  BY DEF WorkerInv, WorkerTypeOK
<1>4. CASE Stays
  BY <1>2, <1>4 DEF Stays, HandlesIngestion, Ingestion
<1>5. ASSUME NEW w \in Workers, Rests(w) PROVE HandlesIngestion'
  BY <1>2, <1>3, <1>5 DEF Rests, Goto, HandlesIngestion, Ingestion, DocumentPoints
<1>6. ASSUME NEW w \in Workers, Drops(w) PROVE HandlesIngestion'
  BY <1>2, <1>3, <1>6 DEF Drops, Leave, HandlesIngestion, Ingestion, DocumentPoints
<1>7. ASSUME NEW w \in Workers, GoesOn(w) PROVE HandlesIngestion'
  <2>1. PICK point \in Busy : Goto(w, point) /\ (point \in DocumentPoints => Ingestion(held[w].job))
    BY <1>7 DEF GoesOn
  <2>2. jobs'[held[w].job].document = jobs[held[w].job].document
    BY <1>1, <1>7, BusyHolds DEF GoesOn
  <2>3. ASSUME NEW v \in Workers, pc'[v] \in DocumentPoints
        PROVE  jobs'[held'[v].job].document # NoDocument
    <3>1. CASE v = w
      BY <1>3, <2>1, <2>2, <2>3, <3>1 DEF Goto, Ingestion
    <3>2. CASE v # w
      BY <1>2, <1>3, <2>1, <2>3, <3>2 DEF Goto
    <3>3. QED
      BY <3>1, <3>2
  <2>4. QED
    BY <2>3 DEF HandlesIngestion, Ingestion
<1>8. ASSUME NEW w \in Workers, NEW j \in JobIds, NEW now \in SampledTimes, Claim(w, j, now)
      PROVE  HandlesIngestion'
  BY <1>2, <1>3, <1>8 DEF Claim, HandlesIngestion, Ingestion, DocumentPoints
<1>9. ASSUME NEW w \in Workers, MarkFailed(w) PROVE HandlesIngestion'
  BY <1>2, <1>3, <1>9 DEF MarkFailed, Goto, HandlesIngestion, Ingestion, DocumentPoints
<1>10. QED
  BY <1>4, <1>5, <1>6, <1>7, <1>8, <1>9, StepShapes

\* After a quiet step a document reads FAILED beside a running attempt only if it
\* did before.
LEMMA QuietKeepsAbandoned ==
  ASSUME IndInv, Quiet, NEW g \in grants, NEW d \in Documents,
         documents'[d].status = "FAILED", documents'[d].active = g.job,
         jobs'[g.job].status = "RUNNING"
  PROVE  /\ documents[d].status = "FAILED" /\ documents[d].active = g.job
         /\ jobs[g.job].status = "RUNNING"
<1> DEFINE Before == /\ documents[d].status = "FAILED" /\ documents[d].active = g.job
                     /\ jobs[g.job].status = "RUNNING"
<1>1. g.job \in JobIds /\ g.job # NoJob
  <2>1. g.job \in JobIds
    BY DEF IndInv, TypeOK, Grant
  <2>2. \A j \in JobIds : j # NoJob
    BY ModelAssumption DEF JobIds, NoJob
  <2>3. QED
    BY <2>1, <2>2
<1>2. /\ documents \in [Documents -> DocumentRow] /\ jobs \in [JobIds -> JobRow]
      /\ \A h \in grants : h.job \in JobIds
  BY DEF IndInv, TypeOK, Grant
<1>3. CASE UNCHANGED vars \/ Tick
  BY <1>3 DEF vars, Tick
<1>4. CASE ApiStep
  <2>1. jobs'[g.job] = jobs[g.job]
    BY <1>4, ApiKeepsGranted
  <2>2. documents'[d] = documents[d] \/ documents'[d].status # "FAILED"
    <3>1. ASSUME NEW c \in Documents, CreateDocument(c)
          PROVE  documents'[d] = documents[d] \/ documents'[d].status # "FAILED"
      BY <1>2, <3>1 DEF CreateDocument, DocumentRow
    <3>2. ASSUME NEW c \in Documents, NEW k \in Keys, EnqueueDocumentJob(c, k)
          PROVE  documents'[d] = documents[d] \/ documents'[d].status # "FAILED"
      BY <1>2, <3>2 DEF EnqueueDocumentJob, DocumentRow
    <3>3. ASSUME NEW j \in JobIds, NEW k \in Keys, RetryJob(j, k)
          PROVE  documents'[d] = documents[d] \/ documents'[d].status # "FAILED"
      BY <1>2, <3>3 DEF RetryJob, DocumentRow
    <3>4. ASSUME NEW c \in Documents, ReviewDocument(c)
          PROVE  documents'[d] = documents[d] \/ documents'[d].status # "FAILED"
      BY <1>2, <3>4 DEF ReviewDocument, DocumentRow
    <3>5. QED
      BY <1>4, <3>1, <3>2, <3>3, <3>4 DEF ApiStep, CreateJob
  <2>3. QED
    BY <2>1, <2>2
<1>5. ASSUME NEW now \in SampledTimes, RecoverInterrupted(now) PROVE Before
  <2>1. ~Expired(g.job, now) /\ jobs[g.job].status = "RUNNING"
    <3>1. jobs'[g.job] = IF Expired(g.job, now) THEN FinishedRow(g.job, "INTERRUPTED")
                         ELSE jobs[g.job]
      BY <1>1, <1>5 DEF RecoverInterrupted
    <3>2. FinishedRow(g.job, "INTERRUPTED").status = "INTERRUPTED"
      BY <1>1, <1>2 DEF FinishedRow, JobRow
    <3>3. QED
      BY <3>1, <3>2
  <2>2. documents'[d] = documents[d]
    <3>1. \/ documents'[d] = documents[d]
          \/ /\ \E j \in JobIds : Expired(j, now) /\ documents[d].active = j
             /\ documents'[d] = FailedDocument(documents[d], "LEASE_EXPIRED")
      BY <1>5 DEF RecoverInterrupted, IsActiveAttempt
    <3>2. FailedDocument(documents[d], "LEASE_EXPIRED").active = documents[d].active
      BY <1>2 DEF FailedDocument, DocumentRow
    <3>3. QED
      BY <2>1, <3>1, <3>2
  <2>3. QED
    BY <2>1, <2>2
<1>6. ASSUME NEW h \in grants, NEW now \in SampledTimes, HeartbeatJob(h, now) PROVE Before
  <2>1. documents' = documents
    BY <1>6 DEF HeartbeatJob
  <2>2. jobs[g.job].status = "RUNNING"
    <3>1. \/ jobs'[g.job] = jobs[g.job]
          \/ jobs'[g.job] = [jobs[g.job] EXCEPT !.expires = now + LeaseSeconds]
      BY <1>1, <1>2, <1>6 DEF HeartbeatJob
    <3>2. QED
      BY <1>1, <1>2, <3>1 DEF JobRow
  <2>3. QED
    BY <2>1, <2>2
<1>7. ASSUME NEW h \in grants, NEW c \in Documents,
             UpdateDocumentStatusForJob(h, c, "PROCESSING")
      PROVE  Before
  BY <1>2, <1>7 DEF UpdateDocumentStatusForJob, DocumentRow
<1>8. ASSUME NEW h \in grants, NEW c \in Documents, PromoteDocumentIngestion(h, c)
      PROVE  Before
  <2>1. jobs'[h.job].status = "SUCCEEDED" /\ \A j \in JobIds \ {h.job} : jobs'[j] = jobs[j]
    BY <1>2, <1>8 DEF PromoteDocumentIngestion, FinishedRow, JobRow
  <2>2. d = c => documents'[d].active = NoJob
    BY <1>2, <1>8 DEF PromoteDocumentIngestion, DocumentRow
  <2>3. d # c => documents'[d] = documents[d]
    BY <1>2, <1>8 DEF PromoteDocumentIngestion
  <2>4. QED
    BY <1>1, <2>1, <2>2, <2>3
<1>9. ASSUME NEW h \in grants, FailJob(h) PROVE Before
  <2>1. jobs'[h.job].status = "FAILED" /\ \A j \in JobIds \ {h.job} : jobs'[j] = jobs[j]
    BY <1>2, <1>9 DEF FailJob, FinishedRow, JobRow
  <2>2. \/ documents'[d] = documents[d]
        \/ /\ documents[d].active = h.job
           /\ documents'[d] = FailedDocument(documents[d], "HANDLER_FAILED")
    BY <1>9 DEF FailJob, IsActiveAttempt
  <2>3. FailedDocument(documents[d], "HANDLER_FAILED").active = documents[d].active
    BY <1>2 DEF FailedDocument, DocumentRow
  <2>4. QED
    BY <1>1, <2>1, <2>2, <2>3
<1>10. QED
  BY <1>3, <1>4, <1>5, <1>6, <1>7, <1>8, <1>9 DEF Quiet

LEMMA AbandonedKept ==
  ASSUME WorkerInv, [WorkerNext]_allVars
  PROVE  FailedMeansAbandoned'
<1> SUFFICES ASSUME NEW d \in Documents, NEW v \in Workers,
                    documents'[d].status = "FAILED",
                    held'[v].job = documents'[d].active, held'[v] # NoGrant,
                    jobs'[documents'[d].active].status = "RUNNING"
             PROVE  pc'[v] = "failing"
  BY DEF FailedMeansAbandoned
<1>1. pc \in [Workers -> Points] /\ held \in [Workers -> Grant \cup {NoGrant}]
  BY DEF WorkerInv, WorkerTypeOK
<1>2. ASSUME held'[v] = held[v], Quiet PROVE pc[v] = "failing"
  <2>1. held[v] \in grants
    BY <1>2 DEF WorkerInv, HeldIsGranted
  <2>2. /\ documents[d].status = "FAILED" /\ documents[d].active = held[v].job
        /\ jobs[held[v].job].status = "RUNNING"
    BY <1>2, <2>1, QuietKeepsAbandoned DEF WorkerInv
  <2>3. QED
    BY <1>2, <2>2 DEF WorkerInv, FailedMeansAbandoned
<1>3. CASE Quiet /\ Stays
  BY <1>2, <1>3 DEF Stays
<1>4. ASSUME NEW w \in Workers, Quiet, Rests(w) \/ GoesOn(w) PROVE pc'[v] = "failing"
  <2>1. pc[w] # "failing" /\ held' = held /\ \A u \in Workers \ {w} : pc'[u] = pc[u]
    BY <1>1, <1>4 DEF Rests, GoesOn, Goto, Busy, Handling
  <2>2. QED
    BY <1>2, <1>4, <2>1
<1>5. ASSUME NEW w \in Workers, Quiet, Drops(w) PROVE pc'[v] = "failing"
  <2>1. held'[w] = NoGrant
        /\ \A u \in Workers \ {w} : pc'[u] = pc[u] /\ held'[u] = held[u]
    BY <1>1, <1>5 DEF Drops, Leave
  <2>2. QED
    BY <1>2, <1>5, <2>1
<1>6. ASSUME NEW w \in Workers, NEW j \in JobIds, NEW now \in SampledTimes, Claim(w, j, now)
      PROVE  pc'[v] = "failing"
  <2>1. /\ documents' = documents /\ jobs[j].status = "QUEUED"
        /\ \A i \in JobIds \ {j} : jobs'[i] = jobs[i]
    BY <1>6 DEF Claim, ClaimJob, OldestQueued, WorkerInv, IndInv, TypeOK
  <2>2. documents[d].active \in JobIds /\ documents[d].active # NoJob
    <3>1. held'[v] = held[v] \/ held'[v].job = j
      BY <1>1, <1>6 DEF Claim
    <3>2. held'[v] = held[v] => held[v].job \in JobIds
      BY DEF WorkerInv, HeldIsGranted, IndInv, TypeOK, Grant
    <3>3. \A i \in JobIds : i # NoJob
      BY ModelAssumption DEF JobIds, NoJob
    <3>4. QED
      BY <2>1, <3>1, <3>2, <3>3
  <2>3. documents[d].active # j
    BY <2>1, <2>2 DEF WorkerInv, IndInv, DocumentMirrorsAttempt
  <2>4. jobs[documents[d].active].status = "RUNNING"
    BY <2>1, <2>2, <2>3
  <2>5. v # w /\ held'[v] = held[v] /\ pc'[v] = pc[v]
    BY <1>1, <1>6, <2>1, <2>3 DEF Claim
  <2>6. QED
    BY <2>1, <2>4, <2>5 DEF WorkerInv, FailedMeansAbandoned
<1>7. ASSUME NEW w \in Workers, MarkFailed(w) PROVE pc'[v] = "failing"
  <2>1. /\ jobs' = jobs /\ held' = held /\ pc'[w] = "failing" /\ pc[w] = "aborting"
        /\ \A u \in Workers \ {w} : pc'[u] = pc[u]
    BY <1>1, <1>7 DEF MarkFailed, Goto, UpdateDocumentStatusForJob, vars
  <2>2. CASE documents'[d] = documents[d]
    BY <2>1, <2>2 DEF WorkerInv, FailedMeansAbandoned
  <2>3. CASE documents'[d] # documents[d]
    <3>1. UpdateDocumentStatusForJob(held[w], DocumentOf(w), "FAILED") /\ d = DocumentOf(w)
      BY <1>7, <2>3 DEF MarkFailed, UpdateDocumentStatusForJob, vars, WorkerInv, IndInv, TypeOK
    <3>2. documents'[d].active = documents[d].active /\ documents[d].active = held[w].job
      BY <3>1 DEF UpdateDocumentStatusForJob, IsActiveAttempt, WorkerInv, IndInv, TypeOK,
         DocumentRow
    <3>3. held[v].job = held[w].job /\ held[v] # NoGrant
      BY <2>1, <3>2
    <3>4. held[v] \in grants /\ held[v].worker = v /\ held[w] \in grants /\ held[w].worker = w
      BY <2>1, <3>3, BusyHolds DEF WorkerInv, HeldIsGranted, Busy, Handling
    <3>5. v = w
      BY <3>3, <3>4 DEF WorkerInv, IndInv, HandedOutOnce
    <3>6. QED
      BY <2>1, <3>5
  <2>4. QED
    BY <2>2, <2>3
<1>8. QED
  BY <1>3, <1>4, <1>5, <1>6, <1>7, StepShapes

LEMMA WorkerInvInit == WorkerInit => WorkerInv
<1> SUFFICES ASSUME WorkerInit PROVE WorkerInv
  OBVIOUS
<1>1. IndInv
  BY IndInit DEF WorkerInit
<1>2. WorkerTypeOK /\ HeldIsGranted /\ HandlesIngestion /\ FailedMeansAbandoned
  BY DEF WorkerInit, WorkerTypeOK, HeldIsGranted, HandlesIngestion, FailedMeansAbandoned,
     Points, Busy, Handling, DocumentPoints
<1>3. QED
  BY <1>1, <1>2 DEF WorkerInv

LEMMA WorkerInvNext == WorkerInv /\ [WorkerNext]_allVars => WorkerInv'
<1> SUFFICES ASSUME WorkerInv, [WorkerNext]_allVars PROVE WorkerInv'
  OBVIOUS
<1>1. IndInv'
  BY StepUsesStore, IndNext DEF WorkerInv
<1>2. QED
  BY <1>1, WorkerTypesKept, HeldKept, IngestionKept, AbandonedKept DEF WorkerInv

LEMMA WorkerInvCorrect == WorkerSpec => []WorkerInv
BY WorkerInvInit, WorkerInvNext, PTL DEF WorkerSpec

-----------------------------------------------------------------------------
(* The properties, for every set of processes.                             *)

\* A process has a job in hand exactly while run_once works on one (worker.py,
\* run_once and worker_main).
THEOREM WorkerTypeCorrect == WorkerSpec => []WorkerTypeOK
<1>1. WorkerInv => WorkerTypeOK
  BY DEF WorkerInv
<1>2. QED
  BY <1>1, WorkerInvCorrect, PTL

\* A document that reads FAILED beside a running attempt was given up by the one
\* process that holds the attempt: no live process extracts or promotes it
\* (runtime.py, the document handler; worker.py, run_once).
THEOREM FailedIsGivenUp == WorkerSpec => []FailedMeansAbandoned
<1>1. WorkerInv => FailedMeansAbandoned
  BY DEF WorkerInv
<1>2. QED
  BY <1>1, WorkerInvCorrect, PTL

\* The processes, their renewal threads, their crashes and restarts use the store
\* only as JobStore describes it, with grants and documents of their own.
THEOREM WorkersRefineStore == WorkerSpec => WorkersUseStore
<1>1. WorkerInit => Init
  BY DEF WorkerInit
<1>2. QED
  BY <1>1, StepUsesStore, WorkerInvCorrect, PTL DEF WorkerSpec, WorkersUseStore, Spec

\* So what is proved of the store holds when the processes run it: whatever is
\* killed, expires or answers late, they never give a document two open attempts,
\* and write its facts once, under an unexpired lease.
THEOREM WorkersKeepStore ==
  WorkerSpec => []OneOpenAttempt /\ []PromotedOnce /\ FactsAreFenced /\ ImplementsLifecycle
BY WorkersRefineStore, AttemptsRunOneAtATime, AuthorityWrittenOnce, LateWorkersAreFenced,
   StoreImplementsLifecycle, PTL DEF WorkersUseStore
=============================================================================
