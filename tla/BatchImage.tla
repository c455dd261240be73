----------------------------- MODULE BatchImage -----------------------------
(***************************************************************************)
(* One batch image job from the request that submits it to the end of its  *)
(* billing hold (service/batch_image_*.go): submission, cancellation by    *)
(* the owner, a submission repeated under its idempotency key, recovery of *)
(* submissions that never reached the provider, and the workers that poll  *)
(* the provider, index its output and settle.  Each step is one statement, *)
(* transaction, Redis script or provider call; anyone may act between two. *)
(*                                                                         *)
(* claims are the rows of usage_billing_dedup: hold, capture and release   *)
(* each have a request id made from the job's, and take effect once.  ends *)
(* are the claims that moved money out of the hold: a release claimed      *)
(* before the hold moves none.                                             *)
(***************************************************************************)
EXTENDS BatchImageQueue, Integers

CONSTANTS
    Hold,       \* amount held
    Actual,     \* what the images cost
    MaxRetries, \* batchImageSettlementMaxRetries
    MaxFaults   \* bound: crashes, failed statements, lost answers, stalls

ASSUME AmountsAssumption == Hold \in Nat \ {0} /\ Actual \in 0..Hold
ASSUME RetriesAssumption == MaxRetries \in Nat \ {0}
ASSUME FaultsAssumption == MaxFaults \in Nat

VARIABLES
    status, retry, lastError, \* columns of the job; lastError is what its code means
    claims, ends,             \* see above
    balance, frozen,          \* of the user
    others,                   \* of it, for the user's other jobs
    provider,                 \* state of the provider's batch job
    billable,                 \* the settlement's checks of counts and price succeed
    submit, slow,             \* step of the submission; it has stalled
    client, recovery, \* steps of the other requests and of the recovery job
    wpc,                      \* step of each worker
    lapsed,                   \* workers whose heartbeat no longer reaches Redis
    faults,                   \* so far
    missed,                   \* one of them hit the submission or the owner's request
    doubt                     \* one of them leaves an end in doubt

rowVars == <<status, retry, lastError>>
moneyVars == <<claims, ends, balance, frozen, others>>
requestVars == <<submit, slow, client, recovery>>
workerVars == <<wpc, lapsed>>
worldVars == <<provider, billable>>
faultVars == <<faults, missed, doubt>>
vars == <<queueVars, rowVars, moneyVars, requestVars, workerVars, worldVars, faultVars>>

-----------------------------------------------------------------------------
Terminal == {"completed", "failed", "cancelled"}
Done == Terminal \cup {"settling"}
Unsubmitted == {"created", "uploading"}
Submitted == {"submitted", "running", "indexing"}
Statuses == {"none"} \cup Unsubmitted \cup Submitted \cup Done

\* The table of CanTransitionBatchImageJob for states that are not terminal.
Allowed ==
    [created   |-> {"uploading", "submitted", "cancelled"},
     uploading |-> {"submitted", "cancelled"},
     submitted |-> {"running", "indexing", "cancelled"},
     running   |-> {"running", "indexing", "cancelled"},
     indexing  |-> {"settling"},
     settling  |-> {"completed"}]

\* Without the look at the present state a terminal state could be left.
CanAlwaysFail(to) == to = "failed" \/ (status \notin Terminal /\ to \in Allowed[status])

CanTransition(to) ==
    /\ status \in DOMAIN Allowed
    /\ to = "failed" \/ to \in Allowed[status]

Transition(to) ==
    /\ CanTransition(to)
    /\ status' = to
    /\ UNCHANGED <<retry, lastError>>

\* TransitionBatchImageJobStatus to failed records the error code as well.
FailJob ==
    /\ CanTransition("failed")
    /\ status' = "failed" /\ lastError' = "other"
    /\ UNCHANGED retry

-----------------------------------------------------------------------------
(* The hold (applyBatchImageBalanceHold): claim and effect in one           *)
(* transaction.  A claim that exists already is answered with success.      *)

Held == "hold" \in claims /\ ends = {}

ReserveEffect ==
    /\ balance >= Hold
    /\ claims' = claims \cup {"hold"}
    /\ balance' = balance - Hold /\ frozen' = frozen + Hold
    /\ UNCHANGED <<ends, others>>

CanCapture == "capture" \in claims \/ frozen >= Hold

CaptureEffect ==
    /\ CanCapture
    /\ claims' = claims \cup {"capture"}
    /\ IF "capture" \in claims
       THEN UNCHANGED <<ends, balance, frozen>>
       ELSE /\ ends' = ends \cup {"capture"}
            /\ balance' = balance + Hold - Actual
            /\ frozen' = frozen - Hold
    /\ UNCHANGED others

\* The released money is moved only if the job did hold some
\* (batchImageHoldClaimExists) and the release was not claimed before.
ReleaseMovesAgain == "hold" \in claims

ReleaseMoves == "hold" \in claims /\ "release" \notin claims

CanRelease == ReleaseMoves => frozen >= Hold

ReleaseEffect ==
    /\ CanRelease
    /\ claims' = claims \cup {"release"}
    /\ IF ReleaseMoves
       THEN /\ ends' = ends \cup {"release"}
            /\ balance' = balance + Hold /\ frozen' = frozen - Hold
       ELSE UNCHANGED <<ends, balance, frozen>>
    /\ UNCHANGED others

-----------------------------------------------------------------------------
SubmitSteps == {"create", "reserve", "items", "toUploading", "provider", "record",
                "enqueue", "queueFailed", "abort", "release", "releaseOnly",
                "markFailed", "hide", "markReleaseFailed", "billingRetry",
                "done", "hidden"}
ClientSteps == {"idle", "upstream", "transition", "release", "enqueue",
                "requeue", "queueFailed"}
RecoverySteps == {"idle", "release", "retry"}

\* Steps of a worker that holds the job lock, and all of them.
LockedSteps == {"load", "process", "get", "getRunning", "toRunning", "toIndexing", "index",
                "toSettling", "toFailed", "toCancelled", "release", "settle",
                "capture", "markSettled", "recordFailure", "exRelease",
                "exReleaseFailed", "exFail", "settleEnd", "ack", "requeue", "unlock"}
WorkerSteps == {"idle", "lock", "conflict"} \cup LockedSteps

Init ==
    /\ QueueInit
    /\ status = "none" /\ retry = 0 /\ lastError = "none"
    /\ claims = {} /\ ends = {}
    /\ others \in {0, Hold} /\ frozen = others
    /\ balance \in {Hold - 1, Hold}
    /\ provider = "none" /\ billable \in BOOLEAN
    /\ submit = "create" /\ slow = FALSE
    /\ client = "idle" /\ recovery = "idle"
    /\ wpc = [w \in Workers |-> "idle"] /\ lapsed = {}
    /\ faults = 0 /\ missed = FALSE /\ doubt = FALSE

TypeOK ==
    /\ QueueTypeOK
    /\ status \in Statuses
    /\ retry \in 0..MaxRetries /\ lastError \in {"none", "settlement", "other"}
    /\ claims \subseteq {"hold", "capture", "release"}
    /\ ends \subseteq {"capture", "release"}
    /\ balance \in Int /\ frozen \in Int /\ others \in {0, Hold}
    /\ provider \in {"none", "running", "succeeded", "failed", "cancelled"}
    /\ billable \in BOOLEAN
    /\ submit \in SubmitSteps /\ slow \in BOOLEAN
    /\ client \in ClientSteps /\ recovery \in RecoverySteps
    /\ wpc \in [Workers -> WorkerSteps] /\ lapsed \subseteq Workers
    /\ faults \in Nat /\ missed \in BOOLEAN /\ doubt \in BOOLEAN

-----------------------------------------------------------------------------
(* Submission (BatchImagePublicService.Submit)                              *)

SubmitGoes(step) ==
    /\ submit' = step
    /\ UNCHANGED <<slow, client, recovery, workerVars, billable, faultVars>>

CreateJob ==
    /\ submit = "create"
    /\ status' = "created"
    /\ SubmitGoes("reserve")
    /\ UNCHANGED <<queueVars, retry, lastError, moneyVars, provider>>

ReserveHold ==
    /\ submit = "reserve"
    /\ ReserveEffect
    /\ SubmitGoes("items")
    /\ UNCHANGED <<queueVars, rowVars, provider>>

ReserveRefused ==
    /\ submit = "reserve"
    /\ balance < Hold
    /\ SubmitGoes("markFailed")
    /\ UNCHANGED <<queueVars, rowVars, moneyVars, provider>>

CreateItems ==
    /\ submit = "items"
    /\ SubmitGoes("toUploading")
    /\ UNCHANGED <<queueVars, rowVars, moneyVars, provider>>

\* The transition refreshes updated_at; a cancelled job is not overwritten.
ToUploading ==
    /\ submit = "toUploading"
    /\ IF CanTransition("uploading")
       THEN Transition("uploading") /\ submit' = "provider" /\ slow' = FALSE
       ELSE submit' = "releaseOnly" /\ UNCHANGED <<rowVars, slow>>
    /\ UNCHANGED <<queueVars, moneyVars, client, recovery, workerVars,
                   worldVars, faultVars>>

ProviderAccepts ==
    /\ submit = "provider"
    /\ provider' = "running"
    /\ SubmitGoes("record")
    /\ UNCHANGED <<queueVars, rowVars, moneyVars>>

ProviderRefuses ==
    /\ submit = "provider"
    /\ SubmitGoes("release")
    /\ UNCHANGED <<queueVars, rowVars, moneyVars, provider>>

\* updateBatchImageJobProviderSubmitWithSQL checks the state under a row lock.
RecordSubmitted ==
    /\ submit = "record"
    /\ IF CanTransition("submitted")
       THEN status' = "submitted" /\ UNCHANGED <<retry, lastError>> /\ SubmitGoes("enqueue")
       ELSE UNCHANGED rowVars /\ SubmitGoes("abort")
    /\ UNCHANGED <<queueVars, moneyVars, provider>>

\* abortOrphanProviderJob.
AbortOrphan ==
    /\ submit = "abort"
    /\ provider' = IF provider = "running" THEN "cancelled" ELSE provider
    /\ SubmitGoes("done")
    /\ UNCHANGED <<queueVars, rowVars, moneyVars>>

SubmitEnqueue ==
    /\ submit \in {"enqueue", "billingRetry"}
    /\ Enqueue
    /\ SubmitGoes("done")
    /\ UNCHANGED <<rowVars, moneyVars, provider>>

\* RecordBatchImageJobSubmitFailure without markFailed, whatever the state is by now:
\* over the code of a settlement it hides that the retries are exhausted.
QueueFailureRecorded ==
    /\ lastError' = "other"
    /\ doubt' = (doubt \/ status = "settling")
    /\ UNCHANGED <<queueVars, status, retry, moneyVars, worldVars>>

RecordQueueFailed ==
    /\ submit = "queueFailed"
    /\ QueueFailureRecorded
    /\ submit' = "done"
    /\ UNCHANGED <<slow, client, recovery, workerVars, faults, missed>>

\* releaseFailedSubmitHold.
SubmitRelease ==
    /\ submit \in {"release", "releaseOnly"}
    /\ IF CanRelease
       THEN ReleaseEffect /\ SubmitGoes(IF submit = "release" THEN "markFailed" ELSE "done")
       ELSE UNCHANGED moneyVars /\ SubmitGoes("markReleaseFailed")
    /\ UNCHANGED <<queueVars, rowVars, provider>>

\* RecordBatchImageJobSubmitFailure with markFailed, whatever the state is.
MarkSubmitFailed ==
    /\ submit \in {"markFailed", "markReleaseFailed"}
    /\ status' = "failed" /\ lastError' = "other"
    /\ SubmitGoes(IF submit = "markFailed" THEN "hide" ELSE "billingRetry")
    /\ UNCHANGED <<queueVars, retry, moneyVars, provider>>

\* hidePreUpstreamSubmitFailure hides only a terminal job.
HideFailed ==
    /\ submit = "hide"
    /\ SubmitGoes(IF status \in Terminal THEN "hidden" ELSE "done")
    /\ UNCHANGED <<queueVars, rowVars, moneyVars, provider>>

Submission ==
    \/ CreateJob \/ ReserveHold \/ ReserveRefused \/ CreateItems \/ ToUploading
    \/ ProviderAccepts \/ ProviderRefuses \/ RecordSubmitted \/ AbortOrphan
    \/ SubmitEnqueue \/ RecordQueueFailed \/ SubmitRelease
    \/ MarkSubmitFailed \/ HideFailed

-----------------------------------------------------------------------------
(* The owner's later requests, one at a time: Cancel, and a submission       *)
(* repeated under its idempotency key.  Each reads the row first, and what   *)
(* it was decides the steps that follow.                                     *)

ClientGoes(step) ==
    /\ client' = step
    /\ UNCHANGED <<submit, slow, recovery, workerVars, billable, faults, missed>>

StartCancel ==
    /\ client = "idle" /\ submit # "hidden"
    /\ ClientGoes(CASE status \in {"failed", "cancelled"} -> "release"
                    [] status \in Submitted -> "upstream"
                    [] status \in Unsubmitted -> "transition"
                    [] OTHER -> "idle")
    /\ UNCHANGED <<queueVars, rowVars, moneyVars, provider, doubt>>

\* The provider cancels the job, or has ended it before; or the cancellation fails,
\* at the provider or for want of it or of the account, and changes nothing.
CancelUpstream ==
    /\ client = "upstream"
    /\ \/ /\ provider' = IF provider = "running" THEN "cancelled" ELSE provider
          /\ ClientGoes("enqueue")
       \/ UNCHANGED provider /\ ClientGoes("idle")
    /\ UNCHANGED <<queueVars, rowVars, moneyVars, doubt>>

\* Leaving the release to the submission under way would lose it.
CancelRowOnly ==
    /\ client = "transition"
    /\ IF CanTransition("cancelled") THEN Transition("cancelled") ELSE UNCHANGED rowVars
    /\ ClientGoes("idle")
    /\ UNCHANGED <<queueVars, moneyVars, provider, doubt>>

CancelRow ==
    /\ client = "transition"
    /\ IF CanTransition("cancelled")
       THEN Transition("cancelled") /\ ClientGoes("release")
       ELSE UNCHANGED rowVars /\ ClientGoes("idle")
    /\ UNCHANGED <<queueVars, moneyVars, provider, doubt>>

\* A refused release is left to the queue (enqueueBillingRetry).
CancelRelease ==
    /\ client = "release"
    /\ IF CanRelease
       THEN ReleaseEffect /\ ClientGoes("idle")
       ELSE UNCHANGED moneyVars /\ ClientGoes("enqueue")
    /\ UNCHANGED <<queueVars, rowVars, provider, doubt>>

\* A submission repeated while the job is submitted queues it again.
StartReplay ==
    /\ client = "idle" /\ status = "submitted"
    /\ ClientGoes("requeue")
    /\ UNCHANGED <<queueVars, rowVars, moneyVars, provider, doubt>>

ClientEnqueue ==
    /\ client \in {"enqueue", "requeue"}
    /\ Enqueue
    /\ ClientGoes("idle")
    /\ UNCHANGED <<rowVars, moneyVars, provider, doubt>>

ClientQueueFailed ==
    /\ client = "queueFailed"
    /\ QueueFailureRecorded
    /\ client' = "idle"
    /\ UNCHANGED <<submit, slow, recovery, workerVars, faults, missed>>

ClientGoesOn ==
    \/ CancelUpstream \/ CancelRow \/ CancelRelease
    \/ ClientEnqueue \/ ClientQueueFailed

-----------------------------------------------------------------------------
(* Recovery of submissions that never reached the provider                  *)
(* (BatchImageBillingRecoveryService.ReleaseStaleUnsubmittedOnce)           *)

RecoveryGoes(step) ==
    /\ recovery' = step
    /\ UNCHANGED <<submit, slow, client, workerVars, worldVars, faultVars>>

\* A job is stale when nobody has refreshed updated_at for ten minutes.
Stale == status \in Unsubmitted /\ (slow \/ submit = "done")

RecoverFail ==
    /\ recovery = "idle" /\ Stale
    /\ status' = "failed" /\ lastError' = "other"
    /\ RecoveryGoes("release")
    /\ UNCHANGED <<queueVars, retry, moneyVars>>

RecoverRelease ==
    /\ recovery = "release"
    /\ IF CanRelease
       THEN ReleaseEffect /\ RecoveryGoes("idle")
       ELSE UNCHANGED moneyVars /\ RecoveryGoes("retry")
    /\ UNCHANGED <<queueVars, rowVars>>

\* The release fails and is left to the workers, or the recovery dies.  It runs only
\* after a fault of the submission, so these are not counted again.
RecoveryFails ==
    /\ \/ recovery = "release" /\ RecoveryGoes("retry")
       \/ recovery # "idle" /\ RecoveryGoes("idle")
    /\ UNCHANGED <<queueVars, rowVars, moneyVars>>

RecoverEnqueue ==
    /\ recovery = "retry"
    /\ Enqueue
    /\ RecoveryGoes("idle")
    /\ UNCHANGED <<rowVars, moneyVars>>

Requests ==
    \/ Submission \/ StartCancel \/ StartReplay \/ ClientGoesOn
    \/ RecoverFail \/ RecoverRelease
    \/ RecoveryFails \/ RecoverEnqueue

-----------------------------------------------------------------------------
(* Workers (BatchImageWorker.RunOnce and the processors)                    *)

Goes(w, step) ==
    /\ wpc' = [wpc EXCEPT ![w] = step]
    /\ UNCHANGED <<requestVars, worldVars, faults, missed>>

Keeps == UNCHANGED <<lapsed, doubt>>

ReserveJob(w) ==
    /\ wpc[w] = "idle"
    /\ Reserve
    /\ Goes(w, "lock") /\ Keeps
    /\ UNCHANGED <<rowVars, moneyVars>>

LockJob(w) ==
    /\ wpc[w] = "lock"
    /\ TryAcquire(w)
    /\ Goes(w, "load") /\ Keeps
    /\ UNCHANGED <<rowVars, moneyVars>>

LockConflict(w) ==
    /\ wpc[w] = "lock" /\ lock # Nobody
    /\ UNCHANGED queueVars
    /\ Goes(w, "conflict") /\ Keeps
    /\ UNCHANGED <<rowVars, moneyVars>>

ConflictRequeue(w) ==
    /\ wpc[w] = "conflict"
    /\ RequeueAfter
    /\ Goes(w, "idle")
    /\ lapsed' = lapsed \ {w} /\ UNCHANGED doubt
    /\ UNCHANGED <<rowVars, moneyVars>>

\* A step that moves neither row, nor money, nor queue.
Reads(w, from, to) ==
    /\ wpc[w] = from
    /\ Goes(w, to) /\ Keeps
    /\ UNCHANGED <<queueVars, rowVars, moneyVars>>

\* BatchImagePipelineProcessor.Process.
Load(w) == Reads(w, "load", IF status = "settling" THEN "settle" ELSE "process")

ProcessAcks(w) ==
    Reads(w, "process", CASE status \in Done -> "ack"
                          [] status = "indexing" -> "index"
                          [] status = "submitted" -> "get"
                          [] status = "running" -> "getRunning"
                          [] OTHER -> "requeue")

\* BatchImageProviderProcessor.Process up to the provider call.  A terminal job is
\* released before it is acknowledged: whoever ended it may not have done so.  The
\* other outcome of this step, the provider call and the indexing is OutOfReach.
Process(w) ==
    Reads(w, "process", CASE status \in {"failed", "cancelled"} -> "release"
                          [] status \in {"completed", "settling"} -> "ack"
                          [] status = "indexing" -> "index"
                          [] status = "submitted" -> "get"
                          [] status = "running" -> "getRunning"
                          [] OTHER -> "requeue")

Get(w) ==
    \E from \in {"get", "getRunning"} :
        Reads(w, from, CASE provider = "succeeded" -> "toIndexing"
                         [] provider = "failed" -> "toFailed"
                         [] provider = "cancelled" -> "toCancelled"
                         [] OTHER -> IF from = "get" THEN "toRunning" ELSE "requeue")

\* The job cannot be worked on at the provider: the provider is not registered,
\* the account deleted or unsuitable, Get fails or OpenResult has no output.  That
\* does not end the job: it is queued again, any number of times or for ever.
OutOfReach(w) ==
    \/ status \in Submitted /\ Reads(w, "process", "requeue")
    \/ \E from \in {"get", "getRunning", "index"} : Reads(w, from, "requeue")

\* One of the status transitions; an illegal one is an error.
MovesTo(w, from, to, next) ==
    /\ wpc[w] = from
    /\ IF CanTransition(to)
       THEN Transition(to) /\ Goes(w, next)
       ELSE UNCHANGED rowVars /\ Goes(w, "requeue")
    /\ Keeps
    /\ UNCHANGED <<queueVars, moneyVars>>

ToRunning(w)   == MovesTo(w, "toRunning", "running", "requeue")
ToIndexing(w)  == MovesTo(w, "toIndexing", "indexing", "index")
ToSettling(w)  == MovesTo(w, "toSettling", "settling", "requeue")
ToCancelled(w) == MovesTo(w, "toCancelled", "cancelled", "release")

Fails(w, from, next) ==
    /\ wpc[w] = from
    /\ IF CanTransition("failed")
       THEN FailJob /\ Goes(w, next)
       ELSE UNCHANGED rowVars /\ Goes(w, "requeue")
    /\ Keeps
    /\ UNCHANGED <<queueVars, moneyVars>>

ToFailed(w) == Fails(w, "toFailed", "release")

\* ReplaceBatchImageItemsForJob refuses a job that is not indexing; any other
\* error of the indexing, also of a statement, fails the job.
Index(w) ==
    \/ Reads(w, "index", IF status = "indexing" THEN "toSettling" ELSE "requeue")
    \/ Reads(w, "index", "toFailed")

ReleaseAt(w, from, next, refused) ==
    /\ wpc[w] = from
    /\ IF CanRelease
       THEN ReleaseEffect /\ Goes(w, next)
       ELSE UNCHANGED moneyVars /\ Goes(w, refused)
    /\ Keeps
    /\ UNCHANGED <<queueVars, rowVars>>

ReleaseTerminal(w) == ReleaseAt(w, "release", "ack", "requeue")

AckJob(w) ==
    /\ wpc[w] = "ack"
    /\ Ack
    /\ Goes(w, "unlock") /\ Keeps
    /\ UNCHANGED <<rowVars, moneyVars>>

RequeueJob(w) ==
    /\ wpc[w] = "requeue"
    /\ RequeueAfter
    /\ Goes(w, "unlock") /\ Keeps
    /\ UNCHANGED <<rowVars, moneyVars>>

Unlock(w) ==
    /\ wpc[w] = "unlock"
    /\ ReleaseLock(w)
    /\ Goes(w, "idle")
    /\ lapsed' = lapsed \ {w} /\ UNCHANGED doubt
    /\ UNCHANGED <<rowVars, moneyVars>>

-----------------------------------------------------------------------------
(* Settlement (BatchImageSettlementService.Settle)                          *)

\* isBatchImageSettlementRetryExhausted.
Exhausted == retry >= MaxRetries /\ lastError = "settlement"

\* Settle reads the row once more; exhaustion is checked before anything that
\* can fail again.
LoadSettlement(w) ==
    Reads(w, "settle", CASE status = "completed" -> "ack"
                         [] status \notin {"completed", "settling"} -> "requeue"
                         [] status = "settling" /\ Exhausted -> "exRelease"
                         [] OTHER -> IF billable THEN "capture" ELSE "recordFailure")

Capture(w) ==
    /\ wpc[w] = "capture"
    /\ IF CanCapture
       THEN CaptureEffect /\ Goes(w, "markSettled")
       ELSE UNCHANGED moneyVars /\ Goes(w, "recordFailure")
    /\ Keeps
    /\ UNCHANGED <<queueVars, rowVars>>

MarkSettled(w) == MovesTo(w, "markSettled", "completed", "ack")

NoMoreRetries == retry

\* The count is kept at MaxRetries, beyond which no condition tells more.
MoreRetries == IF retry < MaxRetries THEN retry + 1 ELSE retry

\* A failure of the billing ends in a look at the row, one of the checks does not.
AfterFailure == IF billable THEN "settleEnd" ELSE "requeue"

RecordFailure(w) ==
    /\ wpc[w] = "recordFailure"
    /\ retry' = MoreRetries /\ lastError' = "settlement"
    /\ Goes(w, IF retry' >= MaxRetries THEN "exRelease" ELSE AfterFailure) /\ Keeps
    /\ UNCHANGED <<queueVars, status, moneyVars>>

\* failExhaustedSettlement: the release comes before the state.
ExhaustedRelease(w) == ReleaseAt(w, "exRelease", "exFail", "exReleaseFailed")

ExhaustedFail(w) == Fails(w, "exFail", "settleEnd")

RecordReleaseFailed(w) ==
    /\ wpc[w] = "exReleaseFailed"
    /\ retry' = MoreRetries /\ lastError' = "settlement"
    /\ Goes(w, "settleEnd") /\ Keeps
    /\ UNCHANGED <<queueVars, status, moneyVars>>

EndSettlement(w) ==
    Reads(w, "settleEnd", IF status \in Terminal THEN "ack" ELSE "requeue")

Work(w) ==
    \/ LockJob(w) \/ LockConflict(w) \/ ConflictRequeue(w)
    \/ Load(w) \/ Process(w) \/ Get(w) \/ Index(w) \/ OutOfReach(w)
    \/ ToRunning(w) \/ ToIndexing(w) \/ ToSettling(w) \/ ToCancelled(w)
    \/ ToFailed(w) \/ ReleaseTerminal(w)
    \/ LoadSettlement(w) \/ Capture(w) \/ MarkSettled(w)
    \/ RecordFailure(w) \/ ExhaustedRelease(w) \/ ExhaustedFail(w)
    \/ RecordReleaseFailed(w) \/ EndSettlement(w)
    \/ AckJob(w) \/ RequeueJob(w) \/ Unlock(w)

-----------------------------------------------------------------------------
(* The movers of the queue, and the provider                                *)

Processing(w) == wpc[w] \in LockedSteps

\* A processing worker refreshes the active entry and the lock.
Fresh == \E w \in Workers : wpc[w] # "idle" /\ w \notin lapsed
Kept == lock # Nobody /\ Processing(lock) /\ lock \notin lapsed

MoveDelayed ==
    /\ MoveDueDelayed
    /\ UNCHANGED <<rowVars, moneyVars, requestVars, workerVars, worldVars, faultVars>>

RecoverActive ==
    /\ RecoverStaleActive(Fresh)
    /\ UNCHANGED <<rowVars, moneyVars, requestVars, workerVars, worldVars, faultVars>>

\* When its holder is still at work two workers may process the job at once.
ExpireLock ==
    /\ LockExpires(Kept)
    /\ doubt' = (doubt \/ Processing(lock))
    /\ UNCHANGED <<rowVars, moneyVars, requestVars, workerVars, worldVars, faults, missed>>

ProviderEnds ==
    /\ provider = "running"
    /\ provider' \in {"succeeded", "failed"}
    /\ UNCHANGED <<queueVars, rowVars, moneyVars, requestVars, workerVars,
                   billable, faultVars>>

-----------------------------------------------------------------------------
(* Faults                                                                   *)

Fault == faults < MaxFaults /\ faults' = faults + 1 /\ UNCHANGED missed

\* One that hits the submission or a later request of the owner.
OwnerFault == faults < MaxFaults /\ faults' = faults + 1 /\ missed' = TRUE

\* Where the submission goes when the statement of a step fails.
AfterSubmitError(step) ==
    CASE step \in {"items", "toUploading"} -> "release"
      [] step = "record" -> "abort"
      [] step = "abort" -> "done"
      [] step = "enqueue" -> "queueFailed"
      [] step \in {"release", "releaseOnly"} -> "markReleaseFailed"
      [] step = "markFailed" -> "hide"
      [] OTHER -> "billingRetry"

\* A statement or call of the submission fails, or its answer is lost.
SubmitFails ==
    /\ OwnerFault
    /\ \/ /\ submit = "reserve" /\ submit' = "markFailed"
          /\ ReserveEffect \/ UNCHANGED moneyVars
          /\ UNCHANGED provider
       \/ /\ submit = "provider" /\ submit' = "release"
          /\ provider' = "running" /\ UNCHANGED moneyVars
       \/ /\ submit \in {"items", "toUploading", "record", "abort", "enqueue",
                         "release", "releaseOnly", "markFailed", "markReleaseFailed"}
          /\ submit' = AfterSubmitError(submit)
          /\ UNCHANGED <<moneyVars, provider>>
    /\ UNCHANGED <<queueVars, rowVars, slow, client, recovery, workerVars,
                   billable, doubt>>

\* The submission dies, or its client goes and every later statement fails.
SubmitDies ==
    /\ OwnerFault
    /\ submit \notin {"create", "done", "hidden"} /\ submit' = "done"
    /\ UNCHANGED <<queueVars, rowVars, moneyVars, slow, client, recovery,
                   workerVars, worldVars, doubt>>

\* It stalls for ten minutes and its heartbeat with it.
SubmitStalls ==
    /\ OwnerFault
    /\ submit \in {"reserve", "items", "toUploading", "provider", "record"}
    /\ slow' = TRUE
    /\ UNCHANGED <<queueVars, rowVars, moneyVars, submit, client, recovery,
                   workerVars, worldVars, doubt>>

RequestFails ==
    /\ OwnerFault
    /\ client # "idle"
    /\ client' \in CASE client = "release" -> {"enqueue", "idle"}
                    [] client = "requeue" -> {"queueFailed", "idle"}
                    [] OTHER -> {"idle"}
    /\ UNCHANGED <<queueVars, rowVars, moneyVars, submit, slow, recovery, workerVars,
                   worldVars, doubt>>

\* Where a worker goes when the statement of a step fails.
AfterError(step) ==
    CASE step = "lock" -> "conflict"
      [] step \in {"conflict", "unlock"} -> "idle"
      [] step \in {"ack", "requeue"} -> "unlock"
      [] step = "index" -> "toFailed"
      [] step = "capture" -> "recordFailure"
      [] step = "recordFailure" -> AfterFailure
      [] step = "exRelease" -> "exReleaseFailed"
      [] step = "exReleaseFailed" -> "settleEnd"
      [] OTHER -> "requeue"

\* A claimed capture that fails once more is a lost one.
WorkerFails(w) ==
    /\ Fault
    /\ wpc[w] # "idle" /\ (wpc[w] = "capture" => "capture" \notin claims)
    /\ wpc' = [wpc EXCEPT ![w] = AfterError(wpc[w])]
    /\ UNCHANGED <<queueVars, rowVars, moneyVars, requestVars, lapsed, worldVars, doubt>>

\* The capture commits, or has committed before, and the worker is told that it failed.
CaptureLost(w) ==
    /\ Fault
    /\ wpc[w] = "capture"
    /\ CaptureEffect
    /\ wpc' = [wpc EXCEPT ![w] = "recordFailure"]
    /\ doubt' = TRUE
    /\ UNCHANGED <<queueVars, rowVars, requestVars, lapsed, worldVars>>

WorkerDies(w) ==
    /\ Fault
    /\ wpc[w] # "idle"
    /\ wpc' = [wpc EXCEPT ![w] = "idle"] /\ lapsed' = lapsed \ {w}
    /\ UNCHANGED <<queueVars, rowVars, moneyVars, requestVars, worldVars, doubt>>

HeartbeatLost(w) ==
    /\ Fault
    /\ wpc[w] # "idle" /\ w \notin lapsed
    /\ lapsed' = lapsed \cup {w}
    /\ UNCHANGED <<queueVars, rowVars, moneyVars, requestVars, wpc, worldVars, doubt>>

WorkerFault(w) ==
    \/ WorkerFails(w) \/ CaptureLost(w) \/ WorkerDies(w) \/ HeartbeatLost(w)

Environment ==
    \/ MoveDelayed \/ RecoverActive \/ ExpireLock \/ ProviderEnds

Next ==
    \/ Requests \/ Environment
    \/ SubmitFails \/ SubmitDies \/ SubmitStalls \/ RequestFails
    \/ \E w \in Workers : ReserveJob(w) \/ Work(w) \/ WorkerFault(w)

Spec == Init /\ [][Next]_vars

-----------------------------------------------------------------------------
(* Properties *)

\* A completed job has been paid for, and a job whose money went back is never
\* completed, whoever else acts on it (Settle captures before it completes;
\* failExhaustedSettlement releases before it fails the job).
CompletedIsPaid ==
    status = "completed" =>
        "capture" \in ends /\ (doubt \/ "release" \notin ends)

\* What is frozen is what the jobs hold: no end takes the money of another job.
FrozenIsHeld == doubt \/ frozen = others + (IF Held THEN Hold ELSE 0)

\* A job leaves the queue only when its hold has ended: a worker that acknowledges
\* a failed or cancelled job has released it, unless the release had been claimed
\* before the hold was.
AckOnlyWhenEnded ==
    [][inflight /\ ~inflight' =>
        ~Held \/ doubt \/ "release" \in claims]_vars

\* The inflight key keeps a job from being queued for seven days, so while it
\* exists the job is in the ready list, the delayed or the active set, whatever
\* worker or mover dies, and however often it is queued.
InflightIsQueued == inflight => Queued

\* No job is without somebody to go on with it, whatever becomes of the workers: one
\* the provider runs is known to the queue, or to the request that submits it; a failed
\* or cancelled one keeps its hold only while somebody is about to release it.  The
\* exceptions: a fault of the submission or of a later request, two workers on the job,
\* an end in doubt, or a release claimed before the hold was.
JobIsOwned ==
    /\ status \in Submitted \cup {"settling"} =>
         inflight \/ submit = "enqueue" \/ missed \/ doubt
    /\ status \in {"failed", "cancelled"} /\ Held =>
         \/ missed \/ doubt \/ "release" \in claims
         \/ submit \in {"items", "toUploading", "release", "releaseOnly",
                         "provider", "record"}
         \/ client \in {"release", "enqueue"} \/ recovery \in {"release", "retry"}
         \/ inflight

\* In the end the provider and its job can be reached.  While they cannot
\* (OutOfReach) the job stays in the queue and its hold frozen, without limit.
ReachableInTheEnd == <>[][~\E w \in Workers : OutOfReach(w)]_vars

\* Every hold ends, by capture or release, whatever crashes, stalls or fails of the
\* workers, and however long the provider was out of reach (Process, indexAndSettle);
\* with the exceptions of JobIsOwned.
HoldEnds ==
    ReachableInTheEnd =>
        (Held ~> (~Held \/ missed \/ doubt \/ "release" \in claims))

\* A job in the queue ends its hold whatever crashes, stalls or fails on the way, and
\* however long the provider was out of reach (BatchImageWorker.RunOnce, Settle).
QueuedHoldEnds ==
    ReachableInTheEnd =>
        ((inflight /\ Held) ~> (~Held \/ doubt \/ "release" \in claims))

\* batch_image_public.go releases the hold when the row has been cancelled in the
\* meantime: no failed or cancelled job keeps its hold once nobody is at work on it.
NoHoldLeaks ==
    status \in {"failed", "cancelled"} /\ Held =>
        \/ submit \notin {"done", "hidden"}
        \/ client # "idle" \/ recovery # "idle" \/ inflight

-----------------------------------------------------------------------------
(* The job as its ledger sees it *)

holdPhase ==
    CASE ends = {"capture", "release"} -> "both"
      [] ends = {"capture"} -> "captured"
      [] ends = {"release"} -> "released"
      [] OTHER -> IF "hold" \in claims THEN "held" ELSE "none"

jobOutcome ==
    CASE status = "completed" -> "done"
      [] status \in {"failed", "cancelled"} -> "void"
      [] OTHER -> "open"

Ledger == INSTANCE HoldLedger WITH phase <- holdPhase, outcome <- jobOutcome

\* Every step of requests, workers and recovery is a step of the ledger or leaves
\* it alone.
ImplementsLedger == Ledger!Spec

-----------------------------------------------------------------------------
(* Liveness.  Requests and workers go on; the movers run every few seconds   *)
(* or minutes; the provider ends what it runs; a lock nobody keeps expires.  *)

Fairness ==
    /\ WF_vars(Submission)
    /\ WF_vars(ClientGoesOn)
    /\ WF_vars(RecoverFail) /\ WF_vars(RecoverRelease) /\ WF_vars(RecoverEnqueue)
    /\ WF_vars(MoveDelayed) /\ WF_vars(RecoverActive) /\ WF_vars(ExpireLock)
    /\ WF_vars(ProviderEnds)
    /\ \A w \in Workers : WF_vars(ReserveJob(w)) /\ WF_vars(Work(w))

FairSpec == Spec /\ Fairness
=============================================================================
