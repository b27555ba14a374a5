# A TLA+ model of smart_finqa

The program reads financial reports, keeps what it finds as *candidate facts*,
lets people review them, and answers questions from reviewed facts only. This
directory holds specifications of its stateful core, the configurations that
model-check them with TLC, and proofs of their main invariants for TLAPS.

    tlc -workers 2 -config MCJobStore.cfg MCJobStore
    tlapm IngestionWorkerProofs.tla

`PROJECT.json` maps every definition to the source lines it stands for, and
lists the runs, the mutants (one plausible bug per property, which TLC must
find), the hazards and the disagreements between code and documents.

## 1. Inventory

Paths are relative to `src/smart_finqa/` unless they say otherwise.

| Part | State it keeps | Operations | Hard behaviour | Correct when | Module |
|---|---|---|---|---|---|
| Job control plane, `web_store.py` | tables `document`, `job`, `artifact` | create, enqueue, retry, claim, heartbeat, promote, complete, fail, recover | API processes, several workers and a recovery at once; clocks read before the lock wait; leases that end early | one attempt per document at a time; facts written once, under an unexpired lease; job and document rows agree | `JobStore`, `IngestionLifecycle` |
| Worker and runtime, `worker.py`, `runtime.py` | the claimed job, the renewal's failure | `run_once`, the renewal thread, the document handler, `worker_main` | a crash anywhere, a locked database, a refused heartbeat, a result that arrives late | never promotes after it gave up; never polls on without a terminal status; no process keeps a job for ever; RUNNING jobs end if workers go on being started | `IngestionWorker` |
| Facts, authority, review: `database.py`, `web_store.py`, `facts.py` | `financial_source`, `financial_fact`, the wide tables, `fact_review_event` | promotion, reconcile, upsert, refresh, Web decisions, offline review | reviewers with stale pages; a batch run in three transactions between them | one CURRENT source; no two trusted readings of a key; the wide row shows exactly the trusted facts; serial decisions | `AuthorityStore` |
| Conversations and answers, `application.py` | `conversation`, `conversation_turn`, `query_run` | `ask`: lookup, analyze, query, evidence, file check, append | every query in autocommit; repeated and simultaneous requests; reviews in between | no turn lost, one turn per key, an answer cites the facts it states, a replay is what was stored | `Conversation` |
| SQL planner, safe execution: `sql_planner.py`, `safe_query.py` | audit log | compile, validate, execute with limits | row limits, timeouts | only trusted facts are read; a truncated result is refused | `QueryAnswering`; joins and failures also in `Conversation` |
| Database access, migrations: `database.py`, `web_store.py` | connection, query cache, schema version | connect, query, bulk write, migrate | API, workers and batch runs start together; MySQL commits at every ALTER; a start is killed | a recorded version is done; a start that gets the lock succeeds, and can be repeated; sources, facts and decisions survive | `Migrations` |
| Batch ingestion, `pipeline.py`, `ingestion_state.py` | JSON state file, run log | select reports, parse in threads, reconcile, upsert, refresh, save state | a kill between two writes; parse failures; files that change while they are read; an upgrade of the extractor | a report is skipped only if its facts are stored; facts are of the bytes whose digest they bear | `BatchIngestion`; one period against reviewers in `AuthorityStore` |
| Promotion plan, `promotion.py` | none | read and validate a job's staging database | | a plan holds facts of its own document only | its use in `JobStore`, `AuthorityStore` |
| Report selection, PDF text: `ingestion.py`, `ocr.py`, `document_conversion.py` | none | classify, select authoritative reports, extract text, render DOCX | ties, revisions, copies | at most one report speaks for a company and period | `ReportSelection`; text recovery is I/O |
| Metric extraction: `extraction.py`, `core.py`, `schema.py`, `quality.py` | none | find numbers, normalize, format | | | not modelled: text heuristics without state |
| Calculations, `calculations.py` | none | ratio, comparison, industry mean, Top-N intersection | zero denominators, ties, missing fields | results equal their definition or an error is raised | `QueryAnswering` |
| Question analysis, `task2.py`, `planner.py` | session slots | `analyze_turn` | slots inherited across turns, questions that are asked back | a query is about what was said since the company was named | `QuestionSession`; abstract in `Conversation` |
| Knowledge base, `kb.py` | documents | add, search, cite | | | not modelled: text similarity without state |
| Model client, `llm.py` | counters | request with retries | timeouts, permanent errors | a call ends; permanent errors are not repeated | `ModelClient` |
| LLM document extraction: `llm_document_pipeline.py`, `llm_extraction*.py` | the run in memory, the audit file | nine stages, one repair per response, audit | any answer of the model; a PDF that changes under the run | what is recommended stands in the audited bytes; the audit tells the outcome; the run ends | `LlmExtraction` |
| Web bootstrap, `web_bootstrap.py` | files and document rows | plan, materialize, register, clean up | failure or kill after some files; batch runs and reviews between two imports | no row without its file; an import can be repeated | `DocumentStorage` |
| HTTP interface, `api.py`, `api_models.py` | stored uploads | routes, upload, byte ranges | failure after the file is stored | no row without its file | upload in `DocumentStorage`; other state changes are actions of the stores |
| Evaluation, audit: `evaluation.py`, `dataset_audit.py` | none | metrics over files | | | not modelled: offline reports |
| Configuration, logging, CLI: `config.py`, `logger.py`, `monitor.py`, `cli.py`, `run_pipeline.py` | none that outlives a run | | | | not modelled |
| Web workbench, `src/web/` | pages on a screen | sends decisions, questions, retries | stale pages, repeated clicks | | the environment of the models |

How they meet. The API process, any number of worker processes and the batch
command share one database (SQLite in one file, or MySQL) and one storage
directory, and nothing else. A write method of `WebStore` is one
`BEGIN IMMEDIATE` transaction; reads outside one run in autocommit mode, also
inside a `unit_of_work`. So an action of a model is a transaction, or a single
read; everything else is interleaving.

      browser --> api --> application.ask -------+---- reads ----> facts, sources
         |                    |                  |                      ^
         |                    +-- append_turn --> conversation, turn    |
         +--> review_fact ----------------------------------------------+
         +--> enqueue / retry --> job, document <-- claim / heartbeat / fail -- worker
                                        ^                                        |
                                        +------ promote_document_ingestion ------+--> facts
      batch command: reconcile; upsert; refresh (read, then write) --------------> facts
         ^ state file, report directory                                              ^
      bootstrap: files, then documents and links of batch sources -------------------+
      every process, when it starts: migrations of the schema they all use

## 2. Modules

| Module | What it holds | Extends or uses |
|---|---|---|
| `IngestionLifecycle` | what the control plane promises for one document, without jobs or leases | |
| `JobStore` | the control plane, one action per transaction | refines `IngestionLifecycle` |
| `IngestionWorker` | worker processes with threads and faults | extends `JobStore`; shown to use it as specified |
| `AuthorityStore` | sources, facts, projection, reviews, batch transactions for one company and period | |
| `ReportSelection` | which report speaks for a period | |
| `BatchIngestion` | a batch run over a directory, its state file and its transactions | extends `ReportSelection` |
| `DocumentStorage` | stored files and document rows: bootstrap, upload, download | |
| `ModelClient` | one call of the model with its attempts | |
| `LlmExtraction` | the stages of an extraction by a model, and its audit | extends `ModelClient` |
| `QueryAnswering` | from a query specification to the rows of an answer | |
| `QuestionSession` | the slots of a conversation and the answers they lead to | extends `QueryAnswering` |
| `Conversation` | one conversation served by concurrent requests | |
| `Migrations` | what every process does to the schema when it starts | |
| `*Proofs` | theorems about `AuthorityStore`, `BatchIngestion`, `DocumentStorage`, `LlmExtraction`, `Conversation`, `QuestionSession` (with `QueryAnswering`), `Migrations`, and, in one module, `JobStore` and `IngestionWorker` | the module, `TLAPS` |
| `MC*` | symmetry, model values and instances for TLC | |

Operators that follow a comment starting with `Bug:` (`RetryAnyFailed`, `HoldsToken`,
`AppendLastWins`) are not used by any specification: each is a plausible mistake in
the definition after it, kept to show that a property notices it.

### JobStore

State: `documents` (status, `active_ingestion_job_id`, error code), `jobs` in
creation order (status, document, idempotency key, parent, attempt number, lease
owner, token, expiry), `issued` (lease tokens drawn; the code draws UUIDs),
`grants` (every triple `claim_job` ever returned: a caller can come back with any
of them, however late), `facts` (per document, the jobs whose plan wrote its
facts) and `artifacts`. A method that raises rolls back, so it is a step that
does not happen. A request that repeats an idempotency key changes nothing and is
left out for the same reason; a fresh key is a guard.

Time: `claim_job`, `heartbeat_job` and `recover_interrupted` read the clock and
then wait for the lock, so each acts on a time up to `LockWait` old
(`SampledTimes`). The promotion, the completion and the failure read the clock
inside their transaction.

`IngestionLifecycle` is the abstract promise: attempts 1, 2, ... one at a time,
the next only after a failure, the first success final. The mapping reads a
document's phase from its pointer and the status of the row it names.

### IngestionWorker

`pc`, `held` and `lost` are the program counter, the claimed record and the
renewal thread's `renewal_failure` of each worker process. The points are the
places between two store calls of `run_once` and of the document handler. Faults
are actions of their own: the handler raises, something around it raises, a store
call raises before its commit (`RenewalFails`) or after it (the read of the
returned row in `Promote` and `RecordFailure`), the process is killed. A launch
runs the one recovery of `worker_main`. `Daemons` are the processes that poll; the
others are started with `--once`.

### AuthorityStore

`authority`, `facts` (status and `review_version` per fact key), `row` and `cells`
(the wide table's row), `review` (the document status reviews maintain),
`events` (append-only decisions), `shown` (every version of a document's fact that
some page may have displayed: a reviewer may decide from any of them) and `batch`
(the batch command's place and what its refresh has read). Three constants open
behaviours the code permits: `CorrectionsMove` (a correction may change metric or
scope), `BatchInterleaves` (others write between a refresh's read and its write),
`OfflineOnWeb` (`review_financial_fact` is called for Web documents' facts). With
all three closed every property holds; a run for each of the first two shows a
property that fails.

### Conversation

`turns`, `state`, `version` are the conversation's rows; `requests` holds, per
request thread, where `ask` is and what it has read; `reply` is the answer the last
step gave a client; `validated` and `current` are what `ask` can see of the
authority tables. The session state is kept as the sequence of questions it was
computed from, so two histories never look alike. The authority changes more
freely than `AuthorityStore` allows (any reviews of the current source, any source
becoming current): the properties need only that a source never has two trusted
facts for a metric, which is `OneTrustedReading` there. Whether the bytes of a file
still match is a free choice at every check. A client sends a version it was told or
one that has passed, and may repeat a request while the first still runs.
`alone` is a history variable: no other request with the key was in flight
meanwhile. `ReviewsInterleave` opens authority changes between an answer's own
queries.

### BatchIngestion

`disk` is the directory: a path has one content after another (a content stands for
its digest), may be removed and put back, but does not return to bytes that were
replaced. `About` says what an inspection of a content finds and what a parse would
give. `entries` is the state file, `authority` and `stored` the sources and facts of
each path and content (with the bytes they were really read from), `rows` and `web`
the periods that have a wide row and those whose CURRENT source is a Web document.
`run` holds the command's memory: what was listed, what was found and chosen, what is
parsed. A file is read three times, to be signed, inspected and parsed, and may
change between any two of them; the digests are compared before the first write.
Reconciliation, upsert, refresh and the saves of the state file are actions of their
own and the command may be killed between any two. `Upgrade` installs a program with
the next extractor version.

### DocumentStorage

`dataset` and `files` are the PDFs of the batch data set and the stored copies,
`documents`, `linked`, `current` and `facts` the rows. A bootstrap run plans what to
import, materializes file by file (a copy or a hard link), registers everything in one
transaction, and removes what it created when it fails; killed, it leaves it. An upload
stores its file, inserts its row and reads the row back. Batch runs, offline and Web
reviews change the facts of imported sources meanwhile; `fresh` remembers the sources
imported since a batch run or an offline review wrote. `Importers` may overlap.

### ModelClient and LlmExtraction

`client` is the call under way. The model answers anything: each stage picks any
response from the constants' fragments and facts, and the guards of the code decide
what it keeps, whether it asks for the one repair, or whether it fails the document.
`run` is the memory of the command (stage, page section, fragments, candidates,
recommendations), `file` the PDF, which may be replaced at any time, `audit` the audit
file, `result` how the last run ended. A text, of a region or of a cell, is the set of
values that occur in it: the code asks whether one string is part of another, so a
piece of a longer number passes its checks (`llm_document_pipeline.py:821`), and passes
here. `Relations` are the equations and ratios the deterministic checks are about; only
which checks there are matters, as the model has to explain each.

### QueryAnswering and QuestionSession

`QueryAnswering` has no state: a query specification and a table of trusted values
give rows or `Failed`, by the WHERE clause, the joins, the row limit, the calculation
and the demands of the evidence. `QuestionSession` has the session's `slots` and the
specification and answer of the last turn. A question is what the analyzer recognizes
in its text: company, metrics, a phrase of time, a cue. Beside the slots, `said` keeps
what the user has said since naming a company, by other rules than the code's slots
(an explicit time replaces what was said of time, another company replaces
everything), and the properties compare the two.

### Migrations

`legacy` is a database as an earlier release left it; `columns`, `recorded`,
`pointers`, `rows`, `digests`, `authority` and `keys` are what migrations change. A
process first identifies sources, then brings the versions up. On SQLite each of the
two is one transaction and one action; on MySQL a named lock admits one process, the
columns are read once, every ALTER is an action that commits what went before it, and
what follows an ALTER commits statement by statement. A process that waits too long,
for the named lock (`GET_LOCK` gives up after 30 seconds and `schema_migration_lock`
raises) or, on SQLite, for another writer (the busy timeout), ends with an error:
`LockTimesOut`, place "late". How long is too long is not modelled: it may happen
whenever another holds the lock. A process may be killed or lose its connection at any
place (`Stop`) and start again; processes that have started decide on sources meanwhile.

## 3. Runs

Distinct states and times are those of TLC with two workers on a small machine.

| Run | Configuration | Instance | States | Asks |
|---|---|---|---|---|
| `job_store` | `MCJobStore.cfg` | 2 documents, 2 workers, 3 keys, 3 jobs, lease 2, lock wait 1, clock to 3 | 415,094 in 1.5 min | do the tables stay consistent, are facts fenced, is the life cycle implemented |
| `ingestion_worker` | `MCIngestionWorker.cfg` | 1 document, a daemon and a `--once` worker, 2 jobs, clock to 6, fair | 152,688 in 98 s | does what a process believes ever contradict the tables; does it use the store as `JobStore` says; does a process keep a job for ever; do RUNNING jobs end if workers go on being started |
| `fact_review` | `MCAuthorityStore.cfg` | 2 Web sources, 1 batch source, 1 metric, 2 scopes, 3 values, 3 decisions | 318,943 in 1.2 min | one trusted reading, an exact projection, serial and honest reviews |
| `correction_moves` | `MCCorrectionMoves.cfg` | 2 metrics, `CorrectionsMove` | violated | the projection after a correction of metric or scope |
| `refresh_race` | `MCRefreshRace.cfg` | `BatchInterleaves` | violated | the projection when a review falls into a refresh |
| `conversation` | `MCConversation.cfg` | 2 requests, 2 keys, 1 question, 1 document and the batch source, 2 values, 2 turns | 283,528 in 31 s | lost turns, faithful replies, answers that cite what they state |
| `evidence_race` | `MCEvidenceRace.cfg` | 1 request, `ReviewsInterleave` | violated | citations when a review falls between an answer's queries |
| `batch_ingestion` | `MCBatchIngestion.cfg` | 2 paths, 2 periods, 4 contents of the first path, 2 extractor versions | 525,686 in 45 s | are skipped reports stored, facts of their bytes, the authority that of the directory, every report accounted for |
| `document_storage` | `MCDocumentStorage.cfg` | 2 sources with 3 facts, 1 importer, 1 upload | 880,128 in 37 s | have rows their files, are imports linked and repeatable, is a COMPLETED document reviewed |
| `llm_extraction` | `MCLlmExtraction.cfg` | 2 pages, 2 contents, 2 fragments, 4 facts, 2 attempts, fair | 298,277 in 52 s | is a recommendation evidenced, is the audit honest, does a run end |
| `questions` | `MCQuestionSession.cfg` | 2 companies, 2 metrics, 4 years, 139 questions | 9,940 in 52 s | does an answer speak of what was said, and is it whole |
| `migrations` | `MCMigrations.cfg` | 2 processes, both back ends, 222 databases | 72,916 in 36 s | does a recorded version exist, does a start that gets the lock succeed, what survives |

Why the instances are large enough.

* `job_store`: three jobs are an attempt, its retry and either a second retry or
  another document's attempt, so chains, forks and two documents recovered in one
  transaction all happen. A lease of two, a wait of one and a clock to three let a
  lease be granted late, extended after it has expired by the clock of the commit,
  expire, and be recovered while its worker still holds the grant. Keys, workers and
  documents are interchangeable, so the symmetry is sound; the properties under it
  are safety properties.
* `ingestion_worker`: two attempts of one document by two processes are what a late
  worker needs to meet its successor; the clock to six lets two leases run out one
  after the other. `ClockCanPass` grants leases only while the clock can still pass
  their end, so that the bound on the clock never keeps a lease alive. There is no
  symmetry, as the workers differ and a property is a liveness property.
* `fact_review`: two documents that supersede each other and a batch report between
  them; two readings that compete for one key, a third value only a correction can
  bring in, one scope without a cell; three decisions are validate, correct and a
  decision from a page shown before either.
* `conversation`: two requests with the same key or two keys, each able to repeat, so
  a lost update, a duplicate and a stale version can all happen; two sources whose
  values differ, so that a citation can be of the wrong one.
* `batch_ingestion`: the first path holds, one after the other, a report that ties
  with the second path's, a revision that outranks it, a report of another period
  without a value, and one without text, and comes and goes: every decision of the
  selection, a move of a report to another period and every final status happen. Two
  extractor versions give facts that are stored but must be parsed again.
* `document_storage`: one source has two facts, so that some can be decided and one
  left; one import at a time is what the README of the repository describes and what
  `RowHasItsFile` needs (below).
* `llm_extraction`: one page per window makes two rounds of the layout stage; facts
  that stand in the claimed cell, as a piece of its number, or in another column; a
  second content with the same values that does not name the company; two attempts are
  one retry; one relation of two metrics, of which one is extracted.
* `questions`: the table has a tie, a zero, a negative value and reports without a
  trusted fact; some results fit the limit of three rows and some do not; every cue of
  the analyzer occurs. The slots have few enough values for every sequence of turns.
* `migrations`: databases of versions 3 and 4 with every choice of up to two jobs and
  every status, where version 5 chooses, and with jobs of a document that is missing; databases of versions 0, 1, 2 and 5 with each
  prefix of the identity columns; sources known by path, by facts alone, by digest.

Deadlock is checked except in the runs whose configuration says otherwise, where the
system really stops: in those of `AuthorityStore`, once the documents are promoted and
the bound on decisions is reached nothing may be left to do when no batch source
exists.

What the runs found. Three properties the documents state are violated by what the
code does; `findings` of PROJECT.json quotes the documents.

1. `correction_moves`: correcting the scope or metric of a VALIDATED consolidated fact
   leaves the rejected value in its old cell.
2. `refresh_race`: a review between the query and the rewrite of
   `refresh_fact_projection` is overwritten by what was read before it.
3. `evidence_race`: an answer's values and its evidence are read at different moments
   and never compared.

What was seen while modelling and no run is about, because a constant, an exception in
a property or an assumption leaves it out:

* Control plane. `recover_interrupted` runs once per process, and polling recovers
  nothing. With the one polling worker of the README of the repository (line 214), a
  worker killed and started again before its old lease ends recovers nothing, and the
  job stays RUNNING until a worker is started once more. Line 223 there says that after
  a restart the running jobs that really expired are marked `INTERRUPTED`; that is true
  of those that have expired when the worker starts, and says nothing of those that
  expire later, so it is no disagreement a run could show. `RunningJobsEnd` promises
  no more than the code: a job that no process holds ends if workers go on being started.
* Reviews. With `OfflineOnWeb`, `review_financial_fact` changes a fact without changing
  its version, so one version names two states (`docs/ARCHITECTURE.md:83`,
  `docs/TRUSTED_FACTS.md:50`). `docs/ARCHITECTURE.md:115` says the workbench reuses
  that method, but it uses `WebStore.review_fact`.
* Conversations. Of two simultaneous requests with one key the later is given the
  answer it computed itself under the turn and query run of the other, which is why
  `RepliesAreStored` excepts it.
* Batch. A report that fails to parse still becomes CURRENT and supersedes the source
  whose facts were trusted. A period whose CURRENT source is a Web document makes the
  reconciliation raise for the whole directory if the run wants it.
* Storage. Two imports that overlap can remove each other's files: `RowHasItsFile`
  fails with two importers. An upload whose row cannot be read back removes the file
  though the row is committed. A hard link follows its source when that is
  overwritten in place.
* Questions. A question to draw a chart that names another company redraws the first
  company's query (`task2.py:382`). Rankings and filters asked after a company stay
  confined to it. Questions about one company with two metrics, and ratios or period
  comparisons with a missing field, fail rather than answer in part; rankings over a
  range fail for want of a period.
* Migrations. Of two processes that start at once on MySQL, one may fail because the
  other migrates for more than 30 seconds, as
  `tests/test_database_backend_mysql.py:148` has it: `StartsAreRepeatable` speaks of
  starts that get the lock. On MySQL every start writes back the authority of sources it has read
  without a lock, so a decision in between is lost. After an ALTER, rows for sources
  found in facts alone are committed one by one, and a kill leaves the facts of the
  others without a key for ever. A fact table from before version 2 without
  `document_id` and without source rows can never be started. Migration 005 lets a
  document in work whose jobs have all ended pass without an attempt.

## 4. Fairness

`FairWorkerSpec` has weak fairness of the clock and of each `Program` that runs. A
process that is not killed executes its next statement, and the extraction and every
lock wait end (the busy timeout bounds them). That a worker is started is assumed
nowhere: the repository has no scheduler. Where a property needs it, it says so:
`RunningJobsEnd` has `StartedAgain` as the premise of its second part, and its first
part, that no process keeps a job, needs none. Nothing is assumed about crashes, errors,
the renewal thread, the browser or the recovery: a recovery happens only where the code
calls it.

`FairSpec` of `LlmExtraction` has weak fairness of `RunStep`, the steps of the command
and of the call it waits for: one thread runs it, and every attempt of a call has a
timeout. Nothing is assumed about what the model answers, about replacements of the
file, or about kills; that a killed run counts as ended is what `at = "idle"` says.

## 5. Proofs

Every theorem holds for all values of the constants that satisfy the assumptions the
modules name (`ModelAssumption`, `AuthorityAssumption`, `ConversationAssumption`,
`BatchAssumption`, `StorageAssumption`, `AttemptsAssumption`, `ExtractionAssumption`,
`QueryAssumption`, `QuestionAssumption`, `MigrationAssumption`, `LegacyAssumption`:
"null" values are not ordinary values, bounds are natural numbers, tables have the
shapes the code gives them and finitely many rows). A theorem that needs a constant
closed, or questions of a kind, says so in its statement.

**IngestionWorkerProofs, the store.** `IndInv` is inductive. Its heart are three facts that support one
another: the document's pointer names its latest attempt and all before it failed
(`ActiveAttemptIsLatest`), the status of the document follows that of the attempt it
names (`DocumentMirrorsAttempt`), and facts exist exactly for a SUCCEEDED attempt and
then the pointer is clear (`PromotedOnce`). What they need from outside:
`HandedOutOnce` (a grant belongs to one claim, so a late worker cannot pass for the
present one), `GrantsWereClaimed`, `RowsInOrder` (a missing row is all NULL) and
`NoPointerNoAttempt`. Each transaction has a lemma. `FactsAreFenced` follows from the
invariant and the guards of the promotion. `StoreImplementsLifecycle` shows for every
transaction how it moves the phase of its document: a claim, a failure and a promotion
are steps of the life cycle, everything else is none.

**IngestionWorkerProofs, the processes.** `WorkerInv` says where a process can be with what in hand,
that what it holds was granted, and that the store's invariant holds; a step of a
process is then a step of `JobStore` with that grant, or none (`WorkersRefineStore`).
So the theorems of the store hold in the composed system (`WorkersKeepStore`).

**AuthorityStoreProofs.** Four invariants, each with its own strengthening.
`OneTrustedReading` is inductive with the type invariant: every decision that makes a
fact VALIDATED is for a CURRENT source and checks the conflict. `DecisionsAreSerial`
needs `EventsBehind`: every recorded decision lies behind the present version.
`VersionNamesOneState` needs `ShownIsPast`: what a page shows is the present state or
an older version; it assumes `~OfflineOnWeb`. `ProjectionIsTrusted` needs
`RowBeforeTrust` (nothing consolidated is trusted before the row exists, so a rebuild
that updates no row misses nothing) and `ReadIsFresh`, and assumes `~CorrectionsMove`
and `~BatchInterleaves`: the two assumptions the runs show to be necessary.
`OneCurrentSource` and `WebYieldsToWeb` rest on `PromotedHasSource`.

**ConversationProofs.** `BaseIsFresh` says that a request whose version is still the
present one was analyzed in the present state, because a client never sends a version
still to come and `ask` reads the state after it was sent; with it the version check of
`append_turn` gives `StateFollowsHistory`. `AloneIsFirst` says that a request that ran
alone with its key, past its lookup, is the first with it; that gives
`RepliesAreStored`. `EvidenceIsNear` says that each value of an answer on its way is
cited or still trusted; it assumes `~ReviewsInterleave`.

**BatchIngestionProofs.** `BatchInv` rests on one fact about files: contents only move
on, so a path that shows the signed content at a later reading has shown it at every
reading in between, and what was parsed under a digest was read from its bytes. Beside
that it says what each point of a run has written already, so that an entry "parsed"
(`LicensesHold`) always has facts behind it. `RunInv` adds what the command has in
memory: what it selected is, period by period, the best report of what it inspected
(`SelectionIsBest`), what it verified is still on the disk as it was inspected until it
reconciles (`VerifiedIsKnown`), each listed path is selected, rejected, failed or parsed
(`MemoryAccounts`), and what it commits has been saved (`CommittedIsSaved`). The heart
of `AuthorityIsTheBestOfTheDirectory` is no invariant but `SelectedAreBest`: the code
ranks all reports of a period at once by a tuple and rejects ties, `Best` filters in
stages, and for any directory the two choose the same.

**DocumentStorageProofs.** `LinkInv` gives the three properties of links and reviews,
for any number of importers that overlap. `FileInv` says that what an import may still
remove has no row; it holds for one importer at a time (`OneImporter`), an assumption
two importers show to be necessary.

**LlmExtractionProofs.** `RunInv` says for each stage which evidence the command holds
in memory: candidates are stated facts of fragments on section pages of the text that
was read. `AuditInv` says the audit is a copy taken when the digests were last
compared, so its evidence is in the bytes it names; an unfinished run's audit is an
error or of an earlier run.

**QuestionSessionProofs.** First the session. `Holds` says what reports the slots
hold: none, one, a list with its bounds, or a range that is not empty. Each way of
dating a question keeps that and turns it into the reports `SpokenOf` says the user
means (`DatedHolds`, which needs that a finite set of periods has a latest: by descent
through its subsets, `Bounded`), and a query built from such slots matches exactly
those reports, whatever its type (`QueryMatchesMeant`). `SessionInv` says the slots
know what was said, and that the last query is about what had been said when it was
made. Then the answer, for every table, row limit and Top-N (`OutcomesAreWhole`): what
was fetched and not refused is the whole selection (`FetchedIsAll`); rows can be
sorted, and at each place of a sorted sequence is the row with as many ahead of it
(`SortedPlaces`), so the first `TopN` are those with fewer than `TopN` ahead and the row
before is the latest report before; a sum over a finite set exists and its value does not
depend on more than the set (`AddsUpExists`), so that to be above the mean is to have more
above the others than below them (`MeanIsCompared`). `SlotsAreWellFormed` and
`AnswersAreTheWholeResult` hold for all questions. The three theorems that speak of what
the user said assume `DrawsNameNothing`: a request to draw a chart names no company,
metric or period. Without it they are false, as section 3 says: the code redraws the
last query whatever else the question says.

**MigrationsProofs.** `BaseInv` says that on MySQL the holder of the lock is alone at
work and that on SQLite nobody is between two steps, so what a process has seen stays
true (`OthersRest`). On it rest `VersionInv` (what is recorded or about to be is in the
schema, and pointers are the attempts selected), `StartInv` (no column a process is to
add is there already; a database that cannot be read is never passed) and
`IdentityInv` (a process that altered the schema is the first to identify sources, so
nothing it has still to write has a key; otherwise it writes what it read).
`StartsCanBeRepeated` says of starts that get the lock that none ends "refused" for what
other starts did; one that gave up waiting is "late", which no theorem rules out.
`SourcesSurvive` states of MySQL only what the code keeps there.

**Properties without a run of their own.** `ActiveAttemptIsLatest`, `HandedOutOnce`,
`RetriesFormAChain`, `JobsOnlyMoveForward`, `ReplacedIsNotTrusted`, `OneCurrentSource`,
`WebYieldsToWeb`, `OneTurnPerKey` and `DocumentMirrorsReview` are proved as parts of
the invariants or follow from them.

**Model-checked only.** Liveness (`RunningJobsEnd`, `ExtractionEnds`) is out of TLAPS's
reach. Every other property of a passing run is stated by a theorem. Fairness is assumed
nowhere in a proof.

## 6. What is left out

* Wording, charts other than the request to draw, formulas, research conclusions,
  logging, layout; text and table recovery from PDFs, OCR and DOCX rendering; prompts
  and JSON contracts; decimal arithmetic and rounding.
* Metric extraction, the knowledge base, evaluation and the dataset audit,
  configuration: functions of files and strings without state of their own.
* Progress columns and `job_event` rows: nothing reads them to decide.
* MySQL except in `Migrations`: `FOR UPDATE` gives the same atomicity the SQLite
  transactions have, and the other models are of the SQLite build.
* The query cache of a connection, the validation of a statement's syntax tree, query
  timeouts.
* `UNIQUE` constraints as a guard: the models let the code do what it would do without
  them, except for the primary key of a fact, which a correction relies on.
* A promotion whose document's bytes no longer match, or whose candidates lack
  coordinates, raises and changes nothing.
* Several wide tables per period: the models give a metric one table, so a decision's
  path by column and a rebuild's path by table name agree in them.
* Files that return to bytes they were replaced from (`BatchIngestion`,
  `LlmExtraction`): comparing two digests cannot tell, and neither can the code.
* Questions with thresholds other than zero, reversed ranges, defaults a conjunction
  brings in, and open questions.
* Legacy databases that had source rows for some of the sources of their facts but not
  for all: their facts would stay without a key, as the identity migration takes the
  rows it finds for all there are.

## 7. Plan

What would be worth adding next.

1. Two importers as a run, once imports take a lock; until then `RowHasItsFile` is
   stated for one.
2. Wide tables as a refinement: several per period, the rebuild per table, a correction
   of the table name; the cells are a function of the trusted facts.
3. The query cache of two connections, one of which writes.
4. Composition of `BatchIngestion` with `AuthorityStore`: a batch transaction of one
   period as a step of the other.
