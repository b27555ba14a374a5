---------------------------- MODULE IngestionWorker ----------------------------
(***************************************************************************)
(* The worker process of worker.py and runtime.py against the job store: a *)
(* main thread that claims a job, runs the document handler, promotes its  *)
(* result or records its failure, and a renewal thread that extends the    *)
(* lease meanwhile.  The main thread's steps are separated by its store    *)
(* calls, so other workers, recoveries, the API and the clock come between *)
(* any two of them.  A store call may also raise for a reason of its own   *)
(* ("database is locked" after the busy timeout), before or, in the row it *)
(* reads back to return, after its commit.  The process may be killed at   *)
(* any point and started again.                                            *)
(***************************************************************************)
EXTENDS JobStore

\* The workers that poll on; the others are started with --once: one job per process.
CONSTANT Daemons

ASSUME DaemonsAssumption == Daemons \subseteq Workers

VARIABLES
  pc,    \* where the main thread of each worker is
  held,  \* the job record run_once works on, as the grant it stands for
  lost   \* renewal_failure is not empty

worker == <<pc, held, lost>>
allVars == <<clock, documents, jobs, created, issued, grants, facts, artifacts,
             pc, held, lost>>

\* The document handler runs from starting to aborting; run_once goes on with
\* its result in finalizing, with its exception in failing.
Handling == {"starting", "extracting", "aborting"}
Busy == {"claimed", "finalizing", "promoting", "failing"} \cup Handling
Points == {"down", "idle"} \cup Busy

NoGrant == [job |-> NoJob, worker |-> NoWorker, token |-> NoToken]

WorkerTypeOK ==
  /\ pc \in [Workers -> Points]
  /\ held \in [Workers -> Grant \cup {NoGrant}]
  /\ lost \in [Workers -> BOOLEAN]
  /\ \A w \in Workers : pc[w] \in Busy <=> held[w] # NoGrant

WorkerInit ==
  /\ Init
  /\ pc = [w \in Workers |-> "down"]
  /\ held = [w \in Workers |-> NoGrant]
  /\ lost = [w \in Workers |-> FALSE]

Goto(w, point) ==
  /\ pc' = [pc EXCEPT ![w] = point]
  /\ UNCHANGED <<held, lost>>

\* Bug: run_once keeps the job it is done with.
LeaveHolding(w, point) == Goto(w, point)

\* run_once is over: the process polls again, or exits.
Leave(w, point) ==
  /\ pc' = [pc EXCEPT ![w] = point]
  /\ held' = [held EXCEPT ![w] = NoGrant]
  /\ lost' = [lost EXCEPT ![w] = FALSE]

Return(w) == Leave(w, IF w \in Daemons THEN "idle" ELSE "down")

DocumentOf(w) == jobs[held[w].job].document

\* Bound: leases are granted only while the clock can still pass their end.
ClockCanPass(now) == now + LeaseSeconds + LockWait < MaxClock

-----------------------------------------------------------------------------
(* The main thread.                                                        *)

\* Bug: a worker starts to poll without a recovery.
LaunchWithoutRecovery(w, now) ==
  /\ pc[w] = "down"
  /\ Goto(w, "idle")
  /\ UNCHANGED vars

\* worker_main: recovery runs once, before the first poll.
Launch(w, now) ==
  /\ pc[w] = "down"
  /\ RecoverInterrupted(now)
  /\ Goto(w, "idle")

Claim(w, j, now) ==
  /\ pc[w] = "idle"
  /\ ClockCanPass(now)
  /\ ClaimJob(w, j, now)
  /\ pc' = [pc EXCEPT ![w] = "claimed"]
  /\ held' = [held EXCEPT ![w] = [job |-> j, worker |-> w, token |-> issued + 1]]
  /\ UNCHANGED lost

\* claim_job returns None.  (A daemon sleeps and polls again: nothing changes.)
NothingToClaim(w) ==
  /\ pc[w] = "idle"
  /\ w \notin Daemons
  /\ \/ \A j \in 1..created : jobs[j].status # "QUEUED"
     \/ ~ClockCanPass(clock)
  /\ Goto(w, "down")
  /\ UNCHANGED vars

\* claim_job reads the row back after its commit.  A recovery in between has
\* cleared the token, which raises LeaseLostError; a job type without a handler
\* is failed at once.
ReadClaim(w) ==
  /\ pc[w] = "claimed"
  /\ \/ /\ jobs[held[w].job].token = NoToken
        /\ Leave(w, "down")
     \/ /\ jobs[held[w].job].token # NoToken
        /\ Goto(w, IF Ingestion(held[w].job) THEN "starting" ELSE "failing")
  /\ UNCHANGED vars

StartProcessing(w) ==
  /\ pc[w] = "starting"
  /\ UpdateDocumentStatusForJob(held[w], DocumentOf(w), "PROCESSING")
  /\ Goto(w, "extracting")

\* The lease is gone when the handler starts to process.
StartRefused(w) ==
  /\ pc[w] = "starting"
  /\ ~(HoldsLease(held[w], clock) /\ IsActiveAttempt(held[w].job, DocumentOf(w)))
  /\ Goto(w, "aborting")
  /\ UNCHANGED vars

\* The handler's own heartbeats raise LeaseLostError once the renewal failed.
HandlerReturns(w) ==
  /\ pc[w] = "extracting"
  /\ ~lost[w]
  /\ Goto(w, "finalizing")
  /\ UNCHANGED vars

HandlerSeesLoss(w) ==
  /\ pc[w] = "extracting"
  /\ lost[w]
  /\ Goto(w, "aborting")
  /\ UNCHANGED vars

\* Bug: the handler's except clause uses update_document_status, the write
\* without a lease check.
MarkFailedUnfenced(w) ==
  /\ pc[w] = "aborting"
  /\ documents' = [documents EXCEPT ![DocumentOf(w)] =
       [@ EXCEPT !.status = "FAILED", !.error = "INGESTION_FAILED"]]
  /\ UNCHANGED <<clock, jobs, created, issued, grants, facts, artifacts>>
  /\ Goto(w, "failing")

\* Bug: the except clause does not raise again.
MarkFailedAndReturn(w) ==
  /\ pc[w] = "aborting"
  /\ UpdateDocumentStatusForJob(held[w], DocumentOf(w), "FAILED")
  /\ Goto(w, "finalizing")

\* The handler's except clause, for every exception, LeaseLostError included:
\* the document is marked FAILED if the lease still allows it, and the exception,
\* or the refusal in its place, reaches run_once.
MarkFailed(w) ==
  /\ pc[w] = "aborting"
  /\ \/ UpdateDocumentStatusForJob(held[w], DocumentOf(w), "FAILED")
     \/ /\ ~(HoldsLease(held[w], clock) /\ IsActiveAttempt(held[w].job, DocumentOf(w)))
        /\ UNCHANGED vars
  /\ Goto(w, "failing")

\* The heartbeat ("promoting", 0.98) that comes before the promotion.
HeartbeatPromoting(w, now) ==
  /\ pc[w] = "finalizing"
  /\ ~lost[w]
  /\ ClockCanPass(now)
  /\ HeartbeatJob(held[w], now)
  /\ Goto(w, "promoting")

\* LeaseLostError leaves run_once, and worker_main does not catch it.
ExitOnLoss(w) ==
  /\ \/ pc[w] \in {"finalizing", "failing"} /\ lost[w]
     \/ pc[w] = "finalizing" /\ ~HoldsLease(held[w], clock)
  /\ Leave(w, "down")
  /\ UNCHANGED vars

\* After the commit the returned row is read, and that read may raise.
Promote(w) ==
  /\ pc[w] = "promoting"
  /\ PromoteDocumentIngestion(held[w], DocumentOf(w))
  /\ Return(w) \/ Goto(w, "failing")

PromoteRefused(w) ==
  /\ pc[w] = "promoting"
  /\ ~(HoldsLease(held[w], clock) /\ IsActiveAttempt(held[w].job, DocumentOf(w)))
  /\ Goto(w, "failing")
  /\ UNCHANGED vars

RecordFailure(w) ==
  /\ pc[w] = "failing"
  /\ ~lost[w]
  /\ FailJob(held[w])
  /\ Return(w) \/ Leave(w, "down")

\* fail_job raises ConflictError, which becomes LeaseLostError.
RecordRefused(w) ==
  /\ pc[w] = "failing"
  /\ ~HoldsLease(held[w], clock)
  /\ Leave(w, "down")
  /\ UNCHANGED vars

-----------------------------------------------------------------------------
(* The renewal thread: it runs from the start of the handler to the end of *)
(* run_once, and stops at its first failure.                               *)

Renewing(w) == pc[w] \in Busy \ {"claimed"} /\ Ingestion(held[w].job) /\ ~lost[w]

Renew(w, now) ==
  /\ Renewing(w)
  /\ ClockCanPass(now)
  /\ HeartbeatJob(held[w], now)
  /\ UNCHANGED worker

\* heartbeat_job was refused, or the database stayed locked too long.
RenewalFails(w) ==
  /\ Renewing(w)
  /\ lost' = [lost EXCEPT ![w] = TRUE]
  /\ UNCHANGED <<vars, pc, held>>

-----------------------------------------------------------------------------
(* Faults.                                                                 *)

\* The handler raises: no such file, not a PDF, no facts, a locked database.
HandlerRaises(w) ==
  /\ pc[w] \in {"starting", "extracting"}
  /\ Goto(w, "aborting")
  /\ UNCHANGED vars

\* Outside the handler's try, in its except clause, between its return and the
\* promotion, or in the promotion, which then rolls back.
RunRaises(w) ==
  /\ pc[w] \in {"starting", "aborting", "finalizing", "promoting"}
  /\ Goto(w, "failing")
  /\ UNCHANGED vars

\* The process is killed, or claim_job or fail_job raise what run_once does not
\* catch.
Crash(w) ==
  /\ pc[w] # "down"
  /\ Leave(w, "down")
  /\ UNCHANGED vars

-----------------------------------------------------------------------------
Program(w) ==
  \/ \E now \in SampledTimes : Launch(w, now)
  \/ \E j \in JobIds, now \in SampledTimes : Claim(w, j, now)
  \/ NothingToClaim(w)
  \/ ReadClaim(w)
  \/ StartProcessing(w)
  \/ StartRefused(w)
  \/ HandlerReturns(w)
  \/ HandlerSeesLoss(w)
  \/ MarkFailed(w)
  \/ \E now \in SampledTimes : HeartbeatPromoting(w, now)
  \/ ExitOnLoss(w)
  \/ Promote(w)
  \/ PromoteRefused(w)
  \/ RecordFailure(w)
  \/ RecordRefused(w)

RenewalThread(w) ==
  \/ \E now \in SampledTimes : Renew(w, now)
  \/ RenewalFails(w)

Fault(w) == HandlerRaises(w) \/ RunRaises(w) \/ Crash(w)

WorkerNext ==
  \/ \E w \in Workers : Program(w) \/ RenewalThread(w) \/ Fault(w)
  \/ (ApiStep \/ Tick) /\ UNCHANGED worker

WorkerSpec == WorkerInit /\ [][WorkerNext]_allVars

\* Time passes, and a process that is up and is not killed goes on.  Nothing is
\* assumed about the faults, the renewal thread, the API, or whether anyone starts
\* a worker: the repository has no scheduler that would.
FairWorkerSpec ==
  /\ WorkerSpec
  /\ WF_allVars(Tick /\ UNCHANGED worker)
  /\ \A w \in Workers : WF_allVars(pc[w] # "down" /\ Program(w))

-----------------------------------------------------------------------------
(* Safety.                                                                 *)

\* A document that reads FAILED while its attempt is still RUNNING is one the
\* attempt's worker has given up: no live process goes on extracting it, and
\* none will promote it.
FailedMeansAbandoned ==
  \A d \in Documents, w \in Workers :
    /\ documents[d].status = "FAILED"
    /\ held[w].job = documents[d].active
    /\ held[w] # NoGrant
    /\ jobs[documents[d].active].status = "RUNNING"
    => pc[w] = "failing"

\* The processes use the store as JobStore describes it: every step of theirs is
\* one of its steps, with a grant and a document of its own, or leaves it alone.
WorkersUseStore == Spec

\* A worker that is started again and again.
StartedAgain(w) == []<>(pc[w] = "down") /\ []<>(pc[w] # "down")

\* A process does not keep a job for ever, whatever fails around it; and a job that
\* was left RUNNING, by a crash or a lost lease, ends if only workers go on being
\* started.  More the code does not give: one start frees what has expired by then
\* (README, the Web workbench: after a restart the running jobs that really expired
\* are marked INTERRUPTED), and polling frees nothing.
RunningJobsEnd ==
  /\ \A j \in JobIds :
       jobs[j].status = "RUNNING" ~>
         jobs[j].status # "RUNNING" \/ \A w \in Workers : held[w].job # j
  /\ (\E w \in Workers : StartedAgain(w)) =>
       \A j \in JobIds : jobs[j].status = "RUNNING" ~> jobs[j].status # "RUNNING"
=============================================================================
