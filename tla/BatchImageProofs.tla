-------------------------- MODULE BatchImageProofs --------------------------
(***************************************************************************)
(* Proofs about BatchImage for every set of workers, every hold and cost,  *)
(* every number of retries and of faults.                                  *)
(*                                                                         *)
(* The inductive invariant says where the submission, the requests and the *)
(* workers may be in each state of row and claims.  Without doubt, workers *)
(* in the steps of the job lock are alone in them, so what one has read    *)
(* still holds when it writes; the row is settling from the choice between *)
(* capture and release to its end, and an exhausted settlement stays so,   *)
(* so the two are never both claimed.                                      *)
(***************************************************************************)
EXTENDS BatchImage, TLAPS

Void == {"failed", "cancelled"}
\* Steps of a submission whose provider job the row does not know, and of these the
\* ones before it fails.
Unrecorded == {"create", "reserve", "items", "toUploading", "provider", "record",
               "release", "releaseOnly", "markFailed", "markReleaseFailed"}
Before == {"create", "reserve", "items", "toUploading", "provider", "record"}
\* Steps of a settlement, and of a worker that found the job not settling.
Settling == {"settle", "capture", "markSettled", "recordFailure",
             "exRelease", "exReleaseFailed", "exFail"}
Providing == {"process", "get", "getRunning", "toRunning", "toIndexing", "index",
              "toSettling", "toFailed", "toCancelled"}

ClaimsInv ==
    /\ "hold" \notin claims => ends = {}
    /\ "capture" \in ends <=> "capture" \in claims
    /\ "release" \in ends => "release" \in claims

RowInv ==
    /\ status \in Submitted \cup {"settling", "completed"} => "hold" \in claims
    /\ status = "completed" => "capture" \in claims

SubmitInv ==
    /\ submit = "create" => status = "none"
    /\ submit \in {"create", "reserve"} => "hold" \notin claims
    /\ submit \in {"items", "toUploading", "provider", "record"} => "hold" \in claims
    /\ submit \in Unrecorded => status \in {"none"} \cup Unsubmitted \cup Void
    /\ ~doubt /\ "release" \in claims /\ submit \in Before => status \in Void

RequestInv == client = "release" \/ recovery = "release" => status \in Void

\* What worker w may rely on at a step.
WorkerAt(w, step) ==
    /\ step = "release" => status \in Void
    /\ step = "markSettled" => "capture" \in claims
    /\ step \in {"settle", "capture"} => "hold" \in claims
    /\ ~doubt =>
        /\ step \in LockedSteps => lock = w
        /\ step \in Settling => status = "settling"
        /\ step \in Providing => status # "settling"
        /\ step \in {"capture", "markSettled"} => billable /\ ~Exhausted
        /\ step \in {"recordFailure", "exRelease", "exReleaseFailed", "exFail"} =>
            "capture" \notin claims
        /\ step \in {"exRelease", "exReleaseFailed", "exFail"} => Exhausted
        /\ step = "exFail" => "release" \in claims
        /\ step = "settleEnd" => status = "settling" \/ "release" \in claims
        /\ step = "ack" => "capture" \in claims \/ "release" \in claims

WorkerInv == \A w \in Workers : WorkerAt(w, wpc[w])

MoneyInv == frozen = others + (IF Held THEN Hold ELSE 0)

ClaimedInv ==
    ~doubt =>
        /\ MoneyInv
        /\ "capture" \in claims =>
            /\ status \in {"settling", "completed"} /\ billable
            /\ status = "settling" => ~Exhausted
        /\ "release" \in claims =>
            /\ status \notin Submitted \cup {"completed"}
            /\ status = "settling" => Exhausted

Sound == ClaimsInv /\ RowInv /\ SubmitInv /\ RequestInv /\ WorkerInv /\ ClaimedInv

IInv == TypeOK /\ Sound

USE NobodyAssumption, AmountsAssumption, RetriesAssumption, FaultsAssumption
USE DEF vars, queueVars, placeVars, rowVars, moneyVars, requestVars, workerVars,
    worldVars, faultVars, Terminal, Done, Unsubmitted, Submitted, Void

-----------------------------------------------------------------------------
(* Transitions and money *)

\* From where CanTransitionBatchImageJob lets a job go.
LEMMA Transitions ==
  /\ \A to : CanTransition(to) => status \in DOMAIN Allowed
  /\ status \in DOMAIN Allowed => status \notin Void \cup {"none", "completed"}
  /\ CanTransition("uploading") => status = "created"
  /\ CanTransition("submitted") => status \in Unsubmitted
  /\ CanTransition("cancelled") => status \in Unsubmitted \cup {"submitted", "running"}
  /\ CanTransition("running") => status \in {"submitted", "running"}
  /\ CanTransition("indexing") => status \in {"submitted", "running"}
  /\ CanTransition("settling") => status = "indexing"
  /\ CanTransition("completed") => status = "settling"
  BY DEF CanTransition, Allowed

MoneyType ==
    /\ claims \subseteq {"hold", "capture", "release"}
    /\ ends \subseteq {"capture", "release"}
    /\ balance \in Int /\ frozen \in Int /\ others \in {0, Hold}

\* A release keeps claims and ends together, and the money when nothing was captured.
LEMMA ReleaseFacts ==
  ASSUME MoneyType, ClaimsInv, ReleaseEffect
  PROVE  /\ MoneyType' /\ ClaimsInv' /\ others' = others
         /\ claims' = claims \cup {"release"}
         /\ MoneyInv /\ "capture" \notin claims => MoneyInv'
<1>1. CASE ReleaseMoves
  <2>1. MoneyType' /\ ClaimsInv' /\ others' = others /\ claims' = claims \cup {"release"}
    <3>1. /\ claims' = claims \cup {"release"} /\ ends' = ends \cup {"release"}
          /\ balance' = balance + Hold /\ frozen' = frozen - Hold /\ others' = others
      BY <1>1 DEF ReleaseEffect
    <3>2. balance' \in Int /\ frozen' \in Int
      BY <3>1 DEF MoneyType
    <3>3. claims' \subseteq {"hold", "capture", "release"} /\ ends' \subseteq {"capture", "release"}
      BY <3>1 DEF MoneyType
    <3>4. ClaimsInv'
      BY <1>1, <3>1 DEF ClaimsInv, ReleaseMoves
    <3> QED BY <3>1, <3>2, <3>3, <3>4 DEF MoneyType
  <2>2. ASSUME MoneyInv, "capture" \notin claims PROVE MoneyInv'
    <3>1. Held /\ ends = {}
      BY <1>1, <2>2, SMT DEF MoneyType, ClaimsInv, ReleaseMoves, Held
    <3>2. ends' = {"release"} /\ frozen' = frozen - Hold
      BY <1>1, <3>1 DEF ReleaseEffect
    <3> QED BY <2>1, <2>2, <3>1, <3>2 DEF MoneyInv, Held, MoneyType
  <2> QED BY <2>1, <2>2
<1>2. CASE ~ReleaseMoves
  BY <1>2 DEF MoneyType, ClaimsInv, ReleaseEffect, ReleaseMoves, MoneyInv, Held
<1> QED BY <1>1, <1>2

\* So does a capture when nothing was released.
LEMMA CaptureFacts ==
  ASSUME MoneyType, ClaimsInv, CaptureEffect, "hold" \in claims
  PROVE  /\ MoneyType' /\ ClaimsInv' /\ others' = others
         /\ claims' = claims \cup {"capture"}
         /\ MoneyInv /\ "release" \notin claims => MoneyInv'
<1>1. CASE "capture" \in claims
  BY <1>1 DEF MoneyType, ClaimsInv, CaptureEffect, MoneyInv, Held
<1>2. CASE "capture" \notin claims
  <2>1. MoneyType' /\ ClaimsInv' /\ others' = others /\ claims' = claims \cup {"capture"}
    <3>1. /\ claims' = claims \cup {"capture"} /\ ends' = ends \cup {"capture"}
          /\ balance' = balance + Hold - Actual /\ frozen' = frozen - Hold /\ others' = others
      BY <1>2 DEF CaptureEffect
    <3>2. balance' \in Int /\ frozen' \in Int
      BY <3>1 DEF MoneyType
    <3>3. claims' \subseteq {"hold", "capture", "release"} /\ ends' \subseteq {"capture", "release"}
      BY <3>1 DEF MoneyType
    <3>4. ClaimsInv'
      BY <3>1 DEF ClaimsInv
    <3> QED BY <3>1, <3>2, <3>3, <3>4 DEF MoneyType
  <2>2. ASSUME MoneyInv, "release" \notin claims PROVE MoneyInv'
    <3>1. Held /\ ends = {}
      BY <1>2, <2>2, SMT DEF MoneyType, ClaimsInv, Held
    <3>2. ends' = {"capture"} /\ frozen' = frozen - Hold
      BY <1>2, <3>1 DEF CaptureEffect
    <3> QED BY <2>1, <2>2, <3>1, <3>2 DEF MoneyInv, Held, MoneyType
  <2> QED BY <2>1, <2>2
<1> QED BY <1>1, <1>2

\* A hold is taken once.
LEMMA ReserveFacts ==
  ASSUME MoneyType, ClaimsInv, ReserveEffect, "hold" \notin claims
  PROVE  /\ MoneyType' /\ ClaimsInv' /\ others' = others
         /\ claims' = claims \cup {"hold"}
         /\ MoneyInv => MoneyInv'
  BY DEF MoneyType, ClaimsInv, ReserveEffect, MoneyInv, Held


-----------------------------------------------------------------------------
(* What a step leaves alone *)

LEMMA TypeMoney == TypeOK => MoneyType /\ wpc \in [Workers -> WorkerSteps]
  BY DEF TypeOK, MoneyType

LEMMA Places ==
  /\ Settling \cup Providing \cup {"release", "ack", "settleEnd"} \subseteq LockedSteps
  /\ {"settle", "capture", "markSettled", "recordFailure", "exRelease",
      "exReleaseFailed", "exFail"} = Settling
  BY DEF Settling, Providing, LockedSteps

\* What a step by somebody else may do to the state without disturbing a worker.
Harmless ==
    /\ status \in Void => status' \in Void
    /\ claims \subseteq claims'
    /\ ~doubt' =>
        /\ ~doubt
        /\ status = "settling" => status' = "settling" /\ (Exhausted' <=> Exhausted)
        /\ status' = "settling" => status = "settling"
        /\ billable' = billable
        /\ "capture" \in claims' => "capture" \in claims

LEMMA HarmlessKeeps ==
  ASSUME NEW w, NEW step, WorkerAt(w, step), Harmless, lock' = lock
  PROVE  WorkerAt(w, step)'
  BY DEF WorkerAt, Harmless, Settling, Providing

LEMMA HarmlessWorkers ==
  ASSUME WorkerInv, Harmless, lock' = lock, wpc' = wpc
  PROVE  WorkerInv'
  BY HarmlessKeeps DEF WorkerInv

\* A worker that holds the lock is alone in the locked steps, unless there is doubt.
LEMMA OthersKept ==
  ASSUME WorkerInv, NEW w \in Workers, NEW step, wpc \in [Workers -> WorkerSteps],
         wpc' = [wpc EXCEPT ![w] = step],
         ~doubt' => ~doubt /\ (lock = w \/ lock = Nobody),
         status \in Void => status' \in Void, claims \subseteq claims',
         WorkerAt(w, step)'
  PROVE  WorkerInv'
<1> SUFFICES ASSUME NEW v \in Workers PROVE WorkerAt(v, wpc[v])'
  BY DEF WorkerInv
<1>1. CASE v = w
  BY <1>1
<1>2. CASE v # w
  <2>1. wpc'[v] = wpc[v] /\ WorkerAt(v, wpc[v])
    BY <1>2 DEF WorkerInv
  <2>2. ~doubt' => wpc[v] \notin LockedSteps
    BY <2>1, <1>2 DEF WorkerAt
  <2>3. ~doubt' => wpc[v] \notin Settling \cup Providing \cup {"ack", "settleEnd"}
    BY <2>2, Places
  <2> QED BY <2>1, <2>2, <2>3 DEF WorkerAt, Settling
<1> QED BY <1>1, <1>2

Same == UNCHANGED <<rowVars, moneyVars, billable, doubt>>

LEMMA SameHarmless == Same => Harmless
  BY DEF Same, Harmless, Exhausted

LEMMA SameKeeps ==
  ASSUME Sound, Same
  PROVE  /\ ClaimsInv' /\ RowInv' /\ ClaimedInv'
         /\ submit' = submit => SubmitInv'
         /\ client' \in {client, "idle", "enqueue", "upstream", "transition", "requeue",
                         "queueFailed"} /\ recovery' \in {recovery, "idle", "retry"}
              => RequestInv'
         /\ wpc' = wpc /\ lock' = lock => WorkerInv'
<1>1. ClaimsInv' /\ RowInv'
  BY DEF Sound, Same, ClaimsInv, RowInv
<1>2. ClaimedInv'
  BY DEF Sound, Same, ClaimedInv, MoneyInv, Held, Exhausted
<1>3. submit' = submit => SubmitInv'
  BY DEF Sound, Same, SubmitInv
<1>4. client' \in {client, "idle", "enqueue", "upstream", "transition", "requeue",
                   "queueFailed"} /\ recovery' \in {recovery, "idle", "retry"} => RequestInv'
  BY DEF Sound, Same, RequestInv
<1>5. wpc' = wpc /\ lock' = lock => WorkerInv'
  BY SameHarmless, HarmlessWorkers DEF Sound
<1> QED BY <1>1, <1>2, <1>3, <1>4, <1>5

\* A worker that only goes on to another step.
LEMMA WorkerGoesOn ==
  ASSUME IInv, NEW w \in Workers, NEW step, Same, lock' = lock,
         UNCHANGED <<submit, client, recovery>>,
         wpc' = [wpc EXCEPT ![w] = step], WorkerAt(w, step)
  PROVE  Sound'
<1>1. WorkerInv'
  <2> SUFFICES ASSUME NEW v \in Workers PROVE WorkerAt(v, wpc[v])'
    BY DEF WorkerInv
  <2>1. WorkerAt(v, wpc'[v])
    BY TypeMoney DEF IInv, Sound, WorkerInv
  <2> QED BY <2>1, HarmlessKeeps, SameHarmless
<1> QED BY <1>1, SameKeeps DEF IInv, Sound

-----------------------------------------------------------------------------
(* The submission, the owner and the recovery *)

\* A submission, or another request, that only goes on to another step.
LEMMA SubmitGoesOn ==
  ASSUME Sound, Same, UNCHANGED <<client, recovery, wpc, lock>>, SubmitInv'
  PROVE  Sound'
  BY SameKeeps DEF Sound

LEMMA RequestGoesOn ==
  ASSUME Sound, Same, UNCHANGED <<submit, wpc, lock>>, RequestInv'
  PROVE  Sound'
  BY SameKeeps DEF Sound

\* A request moves the row before the job is settled.
LEMMA RequestMovesRow ==
  ASSUME Sound, UNCHANGED <<moneyVars, billable, doubt, wpc, lock>>,
         status \notin {"settling", "completed"},
         status' \in Unsubmitted \cup Void \cup {"submitted"},
         status' = "submitted" => "hold" \in claims /\ (~doubt => "release" \notin claims),
         status \in Void => status' \in Void,
         SubmitInv', RequestInv'
  PROVE  Sound'
<1>1. ClaimsInv' /\ RowInv'
  BY DEF Sound, ClaimsInv, RowInv
<1>2. ClaimedInv'
  BY DEF Sound, ClaimedInv, MoneyInv, Held
<1>3. WorkerInv'
  BY HarmlessWorkers DEF Sound, Harmless
<1> QED BY <1>1, <1>2, <1>3 DEF Sound

\* The recorded failure of the queue.
LEMMA QueueFailureKeeps ==
  ASSUME Sound, QueueFailureRecorded, UNCHANGED <<wpc, recovery>>,
         submit' \in {submit, "done"}, client' \in {client, "idle"}
  PROVE  Sound'
<1> USE DEF QueueFailureRecorded
<1>1. ClaimsInv' /\ RowInv' /\ RequestInv'
  BY DEF Sound, ClaimsInv, RowInv, RequestInv
<1>2. SubmitInv'
  BY DEF Sound, SubmitInv, Before, Unrecorded
<1>3. ClaimedInv'
  BY DEF Sound, ClaimedInv, MoneyInv, Held
<1>4. WorkerInv'
  BY HarmlessWorkers DEF Sound, Harmless
<1> QED BY <1>1, <1>2, <1>3, <1>4 DEF Sound

\* A release where the invariant allows one.
LEMMA ReleaseKeeps ==
  ASSUME IInv, ReleaseEffect, UNCHANGED <<rowVars, billable, doubt>>, lock' = lock,
         ~doubt => /\ status \notin Submitted \cup {"completed"}
                   /\ status = "settling" => Exhausted
                   /\ "capture" \notin claims
  PROVE  ClaimsInv' /\ RowInv' /\ ClaimedInv' /\ Harmless /\ claims' = claims \cup {"release"}
<1>1. /\ MoneyType' /\ ClaimsInv' /\ others' = others
      /\ claims' = claims \cup {"release"}
      /\ MoneyInv /\ "capture" \notin claims => MoneyInv'
  BY ReleaseFacts, TypeMoney DEF IInv, Sound
<1>2. RowInv'
  BY <1>1 DEF IInv, Sound, RowInv
<1>3. ClaimedInv'
  BY <1>1 DEF IInv, Sound, ClaimedInv, Exhausted
<1>4. Harmless
  BY <1>1 DEF Harmless, Exhausted
<1> QED BY <1>1, <1>2, <1>3, <1>4

\* Before the settlement nothing has been captured.
LEMMA NotCaptured ==
  ASSUME Sound, ~doubt, status \notin {"settling", "completed"}
  PROVE  "capture" \notin claims
  BY DEF Sound, ClaimedInv

\* Every step of a submission keeps the invariant.
LEMMA SubmissionKeeps ==
  ASSUME IInv, Submission
  PROVE  Sound'
<1> USE DEF SubmitGoes, Same
<1>0. Sound
  BY DEF IInv
<1>1. CASE CreateJob
  <2>1. SubmitInv'
    BY <1>0, <1>1 DEF Sound, CreateJob, SubmitInv, Before, Unrecorded
  <2>2. RequestInv'
    BY <1>0, <1>1 DEF Sound, CreateJob, RequestInv, SubmitInv
  <2> QED BY <1>0, <1>1, <2>1, <2>2, RequestMovesRow DEF CreateJob, Sound, SubmitInv
<1>2. CASE ReserveHold
  <2>0. "hold" \notin claims
    BY <1>0, <1>2 DEF Sound, SubmitInv, ReserveHold
  <2>1. /\ ClaimsInv' /\ claims' = claims \cup {"hold"} /\ others' = others
        /\ MoneyInv => MoneyInv'
    BY <1>0, <1>2, <2>0, ReserveFacts, TypeMoney DEF IInv, Sound, ReserveHold
  <2>2. RowInv' /\ RequestInv'
    BY <1>0, <1>2, <2>1 DEF Sound, RowInv, RequestInv, ReserveHold
  <2>3. SubmitInv'
    BY <1>0, <1>2, <2>1 DEF Sound, SubmitInv, ReserveHold, Before, Unrecorded
  <2>4. ClaimedInv'
    BY <1>0, <1>2, <2>1 DEF Sound, ClaimedInv, ReserveHold, Exhausted
  <2>5. WorkerInv'
    BY <1>0, <1>2, <2>1, HarmlessWorkers DEF Sound, Harmless, ReserveHold, Exhausted
  <2> QED BY <2>1, <2>2, <2>3, <2>4, <2>5 DEF Sound
<1>3. CASE ReserveRefused
  <2>1. SubmitInv'
    BY <1>0, <1>3 DEF Sound, ReserveRefused, SubmitInv, Before, Unrecorded
  <2> QED BY <1>0, <1>3, <2>1, SubmitGoesOn DEF ReserveRefused
<1>4. CASE CreateItems
  <2>1. SubmitInv'
    BY <1>0, <1>4 DEF Sound, CreateItems, SubmitInv, Before, Unrecorded
  <2> QED BY <1>0, <1>4, <2>1, SubmitGoesOn DEF CreateItems
<1>5. CASE ToUploading
  <2>1. CASE CanTransition("uploading")
    <3>1. status = "created" /\ status' = "uploading" /\ submit' = "provider"
      BY <1>5, <2>1, Transitions DEF ToUploading, Transition
    <3>2. SubmitInv'
      BY <1>0, <1>5, <3>1 DEF Sound, ToUploading, SubmitInv, Before, Unrecorded
    <3>3. RequestInv'
      BY <1>0, <1>5, <3>1 DEF Sound, ToUploading, RequestInv
    <3> QED BY <1>0, <1>5, <3>1, <3>2, <3>3, RequestMovesRow DEF ToUploading
  <2>2. CASE ~CanTransition("uploading")
    <3>1. SubmitInv'
      BY <1>0, <1>5, <2>2 DEF Sound, ToUploading, SubmitInv, Before, Unrecorded
    <3> QED BY <1>0, <1>5, <2>2, <3>1, SubmitGoesOn DEF ToUploading
  <2> QED BY <2>1, <2>2
<1>6. CASE ProviderAccepts
  <2>1. SubmitInv'
    BY <1>0, <1>6 DEF Sound, ProviderAccepts, SubmitInv, Before, Unrecorded
  <2> QED BY <1>0, <1>6, <2>1, SubmitGoesOn DEF ProviderAccepts
<1>7. CASE ProviderRefuses
  <2>1. SubmitInv'
    BY <1>0, <1>7 DEF Sound, ProviderRefuses, SubmitInv, Before, Unrecorded
  <2> QED BY <1>0, <1>7, <2>1, SubmitGoesOn DEF ProviderRefuses
<1>8. CASE RecordSubmitted
  <2>1. CASE CanTransition("submitted")
    <3>1. status \in Unsubmitted /\ status' = "submitted" /\ submit' = "enqueue"
      BY <1>8, <2>1, Transitions DEF RecordSubmitted
    <3>2. "hold" \in claims /\ (~doubt => "release" \notin claims)
      BY <1>0, <1>8, <3>1 DEF Sound, RecordSubmitted, SubmitInv, Before
    <3>3. SubmitInv' /\ RequestInv'
      BY <1>0, <1>8, <3>1 DEF Sound, RecordSubmitted, SubmitInv, RequestInv, Before, Unrecorded
    <3> QED BY <1>0, <1>8, <3>1, <3>2, <3>3, RequestMovesRow DEF RecordSubmitted
  <2>2. CASE ~CanTransition("submitted")
    <3>1. SubmitInv'
      BY <1>0, <1>8, <2>2 DEF Sound, RecordSubmitted, SubmitInv, Before, Unrecorded
    <3> QED BY <1>0, <1>8, <2>2, <3>1, SubmitGoesOn DEF RecordSubmitted
  <2> QED BY <2>1, <2>2
<1>9. CASE AbortOrphan
  <2>1. SubmitInv'
    BY <1>0, <1>9 DEF Sound, AbortOrphan, SubmitInv, Before, Unrecorded
  <2> QED BY <1>0, <1>9, <2>1, SubmitGoesOn DEF AbortOrphan
<1>10. CASE SubmitEnqueue
  <2>1. SubmitInv'
    BY <1>0, <1>10 DEF Sound, SubmitEnqueue, SubmitInv, Before, Unrecorded
  <2> QED BY <1>0, <1>10, <2>1, SubmitGoesOn DEF SubmitEnqueue, Enqueue
<1>11. CASE RecordQueueFailed
  BY <1>0, <1>11, QueueFailureKeeps DEF RecordQueueFailed
<1>12. CASE SubmitRelease
  <2>1. CASE CanRelease
    <3>1. status \in {"none"} \cup Unsubmitted \cup Void
      BY <1>0, <1>12 DEF Sound, SubmitRelease, SubmitInv, Unrecorded
    <3>2. ~doubt => "capture" \notin claims
      BY <1>0, <3>1, NotCaptured
    <3>3. ClaimsInv' /\ RowInv' /\ ClaimedInv' /\ Harmless /\ claims' = claims \cup {"release"}
      BY <1>12, <2>1, <3>1, <3>2, ReleaseKeeps DEF SubmitRelease
    <3>4. SubmitInv' /\ RequestInv'
      BY <1>0, <1>12, <2>1, <3>1, <3>3 DEF Sound, SubmitRelease, SubmitInv, RequestInv, Before
    <3>5. WorkerInv'
      BY <1>0, <1>12, <2>1, <3>3, HarmlessWorkers DEF Sound, SubmitRelease
    <3> QED BY <3>3, <3>4, <3>5 DEF Sound
  <2>2. CASE ~CanRelease
    <3>1. SubmitInv'
      BY <1>0, <1>12, <2>2 DEF Sound, SubmitRelease, SubmitInv, Before, Unrecorded
    <3> QED BY <1>0, <1>12, <2>2, <3>1, SubmitGoesOn DEF SubmitRelease
  <2> QED BY <2>1, <2>2
<1>13. CASE MarkSubmitFailed
  <2>1. SubmitInv' /\ RequestInv'
    BY <1>0, <1>13 DEF Sound, MarkSubmitFailed, SubmitInv, RequestInv, Before, Unrecorded
  <2>2. status \notin {"settling", "completed"}
    BY <1>0, <1>13 DEF Sound, MarkSubmitFailed, SubmitInv, Unrecorded
  <2> QED BY <1>0, <1>13, <2>1, <2>2, RequestMovesRow DEF MarkSubmitFailed
<1>14. CASE HideFailed
  <2>1. SubmitInv'
    BY <1>0, <1>14 DEF Sound, HideFailed, SubmitInv, Before, Unrecorded
  <2> QED BY <1>0, <1>14, <2>1, SubmitGoesOn DEF HideFailed
<1> QED BY <1>1, <1>2, <1>3, <1>4, <1>5, <1>6, <1>7, <1>8, <1>9, <1>10, <1>11, <1>12,
           <1>13, <1>14 DEF Submission

\* So does every step of a cancellation and of a repeated submission,
LEMMA OwnerKeeps ==
  ASSUME IInv, StartCancel \/ StartReplay \/ ClientGoesOn
  PROVE  Sound'
<1> USE DEF ClientGoes, Same
<1>0. Sound
  BY DEF IInv
<1>1. CASE StartCancel
  <2>1. RequestInv'
    BY <1>0, <1>1 DEF Sound, StartCancel, RequestInv
  <2> QED BY <1>0, <1>1, <2>1, RequestGoesOn DEF StartCancel
<1>2. CASE StartReplay
  <2>1. RequestInv'
    BY <1>0, <1>2 DEF Sound, StartReplay, RequestInv
  <2> QED BY <1>0, <1>2, <2>1, RequestGoesOn DEF StartReplay
<1>3. CASE CancelUpstream
  <2>1. RequestInv'
    BY <1>0, <1>3 DEF Sound, CancelUpstream, RequestInv
  <2> QED BY <1>0, <1>3, <2>1, RequestGoesOn DEF CancelUpstream
<1>4. CASE CancelRow
  <2>1. CASE CanTransition("cancelled")
    <3>1. /\ status \in Unsubmitted \cup {"submitted", "running"}
          /\ status' = "cancelled"
      BY <1>4, <2>1, Transitions DEF CancelRow, Transition
    <3>2. SubmitInv' /\ RequestInv'
      BY <1>0, <1>4, <2>1, <3>1 DEF Sound, CancelRow, SubmitInv, RequestInv, Unrecorded
    <3> QED BY <1>0, <1>4, <2>1, <3>1, <3>2, RequestMovesRow DEF CancelRow
  <2>2. CASE ~CanTransition("cancelled")
    <3>1. RequestInv'
      BY <1>0, <1>4, <2>2 DEF Sound, CancelRow, RequestInv
    <3> QED BY <1>0, <1>4, <2>2, <3>1, RequestGoesOn DEF CancelRow
  <2> QED BY <2>1, <2>2
<1>5. CASE CancelRelease
  <2>1. CASE CanRelease
    <3>1. status \in Void
      BY <1>0, <1>5 DEF Sound, CancelRelease, RequestInv
    <3>2. ~doubt => "capture" \notin claims
      BY <1>0, <3>1, NotCaptured
    <3>3. ClaimsInv' /\ RowInv' /\ ClaimedInv' /\ Harmless /\ claims' = claims \cup {"release"}
      BY <1>5, <2>1, <3>1, <3>2, ReleaseKeeps DEF CancelRelease
    <3>4. SubmitInv' /\ RequestInv'
      BY <1>0, <1>5, <2>1, <3>1, <3>3 DEF Sound, CancelRelease, SubmitInv, RequestInv
    <3>5. WorkerInv'
      BY <1>0, <1>5, <2>1, <3>3, HarmlessWorkers DEF Sound, CancelRelease
    <3> QED BY <3>3, <3>4, <3>5 DEF Sound
  <2>2. CASE ~CanRelease
    <3>1. RequestInv'
      BY <1>0, <1>5, <2>2 DEF Sound, CancelRelease, RequestInv
    <3> QED BY <1>0, <1>5, <2>2, <3>1, RequestGoesOn DEF CancelRelease
  <2> QED BY <2>1, <2>2
<1>6. CASE ClientEnqueue
  <2>1. RequestInv'
    BY <1>0, <1>6 DEF Sound, ClientEnqueue, RequestInv
  <2> QED BY <1>0, <1>6, <2>1, RequestGoesOn DEF ClientEnqueue, Enqueue
<1>7. CASE ClientQueueFailed
  BY <1>0, <1>7, QueueFailureKeeps DEF ClientQueueFailed
<1> QED BY <1>1, <1>2, <1>3, <1>4, <1>5, <1>6, <1>7 DEF ClientGoesOn

\* and of the recovery.
LEMMA RecoveryKeeps ==
  ASSUME IInv, RecoverFail \/ RecoverRelease \/ RecoveryFails \/ RecoverEnqueue
  PROVE  Sound'
<1> USE DEF RecoveryGoes, Same
<1>0. Sound
  BY DEF IInv
<1>1. CASE RecoverFail
  <2>1. status \in Unsubmitted /\ status' = "failed"
    BY <1>1 DEF RecoverFail, Stale
  <2>2. SubmitInv' /\ RequestInv'
    BY <1>0, <1>1, <2>1 DEF Sound, RecoverFail, SubmitInv, RequestInv, Unrecorded
  <2> QED BY <1>0, <1>1, <2>1, <2>2, RequestMovesRow DEF RecoverFail
<1>2. CASE RecoverRelease
  <2>1. CASE CanRelease
    <3>1. status \in Void
      BY <1>0, <1>2 DEF Sound, RecoverRelease, RequestInv
    <3>2. ~doubt => "capture" \notin claims
      BY <1>0, <3>1, NotCaptured
    <3>3. ClaimsInv' /\ RowInv' /\ ClaimedInv' /\ Harmless /\ claims' = claims \cup {"release"}
      BY <1>2, <2>1, <3>1, <3>2, ReleaseKeeps DEF RecoverRelease
    <3>4. SubmitInv' /\ RequestInv'
      BY <1>0, <1>2, <2>1, <3>1, <3>3 DEF Sound, RecoverRelease, SubmitInv, RequestInv
    <3>5. WorkerInv'
      BY <1>0, <1>2, <2>1, <3>3, HarmlessWorkers DEF Sound, RecoverRelease
    <3> QED BY <3>3, <3>4, <3>5 DEF Sound
  <2>2. CASE ~CanRelease
    <3>1. RequestInv'
      BY <1>0, <1>2, <2>2 DEF Sound, RecoverRelease, RequestInv
    <3> QED BY <1>0, <1>2, <2>2, <3>1, RequestGoesOn DEF RecoverRelease
  <2> QED BY <2>1, <2>2
<1>3. CASE RecoveryFails
  <2>1. RequestInv'
    BY <1>0, <1>3 DEF Sound, RecoveryFails, RequestInv
  <2> QED BY <1>0, <1>3, <2>1, RequestGoesOn DEF RecoveryFails
<1>4. CASE RecoverEnqueue
  <2>1. RequestInv'
    BY <1>0, <1>4 DEF Sound, RecoverEnqueue, RequestInv
  <2> QED BY <1>0, <1>4, <2>1, RequestGoesOn DEF RecoverEnqueue, Enqueue
<1> QED BY <1>1, <1>2, <1>3, <1>4

-----------------------------------------------------------------------------
(* The workers *)

LEMMA PlainSteps ==
  ASSUME NEW w, NEW from \in LockedSteps, WorkerAt(w, from)
  PROVE  /\ ~doubt => lock = w
         /\ \A step \in {"idle", "lock", "conflict", "load", "requeue", "unlock"} : lock = w \/ step \in {"idle", "lock", "conflict"} \/ doubt
                                          => WorkerAt(w, step)
  BY DEF WorkerAt, LockedSteps, Settling, Providing

\* A worker's transition of the row, made under the job lock.
LEMMA WorkerMovesRow ==
  ASSUME IInv, NEW w \in Workers, NEW to, NEW next, wpc[w] \in LockedSteps,
         CanTransition(to), status' = to, to \in Statuses \ {"none", "created", "uploading", "submitted"},
         retry' = retry, UNCHANGED <<moneyVars, billable, doubt, lock, submit, client, recovery>>,
         wpc' = [wpc EXCEPT ![w] = next], WorkerAt(w, next)',
         to \in Void /\ ~doubt => "capture" \notin claims,
         to = "completed" => "capture" \in claims /\ (~doubt => billable /\ ~Exhausted)
  PROVE  Sound'
<1>0. Sound /\ wpc \in [Workers -> WorkerSteps] /\ WorkerAt(w, wpc[w])
  BY TypeMoney DEF IInv, Sound, WorkerInv
<1>1. status \notin Void \cup {"none", "completed"}
  BY Transitions
<1>2. ClaimsInv' /\ RequestInv'
  BY <1>0, <1>1 DEF Sound, ClaimsInv, RequestInv
<1>3. to \in {"running", "indexing"} => status \in {"submitted", "running"}
  BY Transitions
<1>4. to = "settling" => status = "indexing"
  BY Transitions
<1>5. to = "completed" => status = "settling"
  BY Transitions
<1>6. RowInv'
  BY <1>0, <1>3, <1>4, <1>5 DEF Sound, RowInv, Statuses
<1>7. SubmitInv'
  BY <1>0, <1>1, <1>3, <1>4, <1>5 DEF Sound, SubmitInv, Statuses, Unrecorded
<1>8. ClaimedInv'
  BY <1>0, <1>1, <1>3, <1>4, <1>5 DEF Sound, ClaimedInv, MoneyInv, Held, Statuses
<1>9. WorkerInv'
  BY <1>0, <1>1, PlainSteps, OthersKept DEF Sound
<1> QED BY <1>2, <1>6, <1>7, <1>8, <1>9 DEF Sound

\* Each of the seven transitions is one of these, or refused.
LEMMA StepMovesRow ==
  ASSUME IInv, NEW w \in Workers,
         \/ ToRunning(w) \/ ToIndexing(w) \/ ToSettling(w) \/ ToCancelled(w)
         \/ ToFailed(w) \/ MarkSettled(w) \/ ExhaustedFail(w)
  PROVE  Sound'
<1> DEFINE from == wpc[w]
<1>0. Sound /\ wpc \in [Workers -> WorkerSteps] /\ WorkerAt(w, from)
  BY TypeMoney DEF IInv, Sound, WorkerInv
<1>1. from \in LockedSteps
  BY DEF ToRunning, ToIndexing, ToSettling, ToCancelled, ToFailed, MarkSettled,
         ExhaustedFail, MovesTo, Fails, LockedSteps
<1>2. WorkerAt(w, "requeue")
  BY <1>0, <1>1, PlainSteps
<1>3. CASE UNCHANGED rowVars /\ wpc' = [wpc EXCEPT ![w] = "requeue"]
  BY <1>2, <1>3, WorkerGoesOn DEF ToRunning, ToIndexing, ToSettling, ToCancelled, ToFailed,
         MarkSettled, ExhaustedFail, MovesTo, Fails, Goes, Keeps, Transition, FailJob, Same
<1>4. ASSUME NEW to, NEW next, CanTransition(to), status' = to, retry' = retry,
             UNCHANGED <<moneyVars, billable, doubt, lock, submit, client, recovery>>,
             wpc' = [wpc EXCEPT ![w] = next],
             \/ from = "toRunning" /\ to = "running" /\ next = "requeue"
             \/ from = "toIndexing" /\ to = "indexing" /\ next = "index"
             \/ from = "toSettling" /\ to = "settling" /\ next = "requeue"
             \/ from = "toCancelled" /\ to = "cancelled" /\ next = "release"
             \/ from = "toFailed" /\ to = "failed" /\ next = "release"
             \/ from = "markSettled" /\ to = "completed" /\ next = "ack"
             \/ from = "exFail" /\ to = "failed" /\ next = "settleEnd"
      PROVE  Sound'
  <2>1. WorkerAt(w, next)'
    BY <1>0, <1>1, <1>4, Transitions DEF WorkerAt, LockedSteps, Settling, Providing
  <2>2. to \in Void /\ ~doubt => "capture" \notin claims
    <3> SUFFICES ASSUME to \in Void, ~doubt PROVE "capture" \notin claims
      OBVIOUS
    <3>1. from = "exFail" => "capture" \notin claims
      BY <1>0 DEF WorkerAt
    <3>2. from \in {"toCancelled", "toFailed"} => status # "settling"
      BY <1>0 DEF WorkerAt, Providing
    <3>3. status # "completed"
      BY <1>4, Transitions
    <3> QED BY <1>0, <1>4, <3>1, <3>2, <3>3, NotCaptured
  <2>3. to = "completed" => "capture" \in claims /\ (~doubt => billable /\ ~Exhausted)
    BY <1>0, <1>4 DEF WorkerAt
  <2>4. to \in Statuses \ {"none", "created", "uploading", "submitted"}
    BY <1>4 DEF Statuses
  <2> QED BY <1>1, <1>4, <2>1, <2>2, <2>3, <2>4, WorkerMovesRow
<1> USE DEF MovesTo, Fails, Goes, Keeps, Transition, FailJob
<1>5. CASE ToRunning(w)
  BY <1>3, <1>4, <1>5 DEF ToRunning
<1>6. CASE ToIndexing(w)
  BY <1>3, <1>4, <1>6 DEF ToIndexing
<1>7. CASE ToSettling(w)
  BY <1>3, <1>4, <1>7 DEF ToSettling
<1>8. CASE ToCancelled(w)
  BY <1>3, <1>4, <1>8 DEF ToCancelled
<1>9. CASE ToFailed(w)
  BY <1>3, <1>4, <1>9 DEF ToFailed
<1>10. CASE MarkSettled(w)
  BY <1>3, <1>4, <1>10 DEF MarkSettled
<1>11. CASE ExhaustedFail(w)
  BY <1>3, <1>4, <1>11 DEF ExhaustedFail
<1> QED BY <1>5, <1>6, <1>7, <1>8, <1>9, <1>10, <1>11

\* What a worker reads allows the step it goes to.
LEMMA ReadKeeps ==
  ASSUME IInv, NEW w \in Workers,
         \/ Load(w) \/ Process(w) \/ Get(w) \/ Index(w) \/ OutOfReach(w)
         \/ LoadSettlement(w) \/ EndSettlement(w)
  PROVE  Sound'
<1>0. Sound /\ WorkerAt(w, wpc[w])
  BY DEF IInv, Sound, WorkerInv
<1>1. ASSUME NEW from, NEW to, Reads(w, from, to), WorkerAt(w, to) PROVE Sound'
  BY <1>1, WorkerGoesOn DEF Reads, Goes, Keeps, Same
<1>2. status = "settling" => "hold" \in claims
  BY <1>0 DEF Sound, RowInv
<1>3. ~doubt /\ status = "settling" /\ ~Exhausted => "release" \notin claims
  BY <1>0 DEF Sound, ClaimedInv
<1>4. ~doubt /\ status = "settling" /\ (Exhausted \/ ~billable) => "capture" \notin claims
  BY <1>0 DEF Sound, ClaimedInv
<1>11. status = "completed" => "capture" \in claims
  BY <1>0 DEF Sound, RowInv
<1> USE DEF LockedSteps, Settling, Providing
<1>5. CASE Load(w)
  <2> DEFINE to == IF status = "settling" THEN "settle" ELSE "process"
  <2>1. wpc[w] = "load" /\ Reads(w, "load", to)
    BY <1>5 DEF Load, Reads
  <2>2. WorkerAt(w, to)
    BY <1>0, <1>2, <2>1 DEF WorkerAt
  <2> HIDE DEF to
  <2> QED BY <1>1, <2>1, <2>2
<1>6. CASE Process(w)
  <2>1. PICK to : /\ Reads(w, "process", to)
                  /\ \/ to \in {"index", "get", "getRunning", "requeue"}
                     \/ to = "ack" /\ status \in {"completed", "settling"}
                     \/ to = "release" /\ status \in Void
    BY <1>6 DEF Process
  <2>2. WorkerAt(w, to)
    BY <1>0, <1>11, <2>1 DEF WorkerAt, Reads
  <2> QED BY <1>1, <2>1, <2>2
<1>7. CASE Get(w)
  <2>1. PICK from \in {"get", "getRunning"},
              to \in {"toIndexing", "toFailed", "toCancelled", "toRunning", "requeue"} :
           Reads(w, from, to)
    BY <1>7 DEF Get
  <2>2. WorkerAt(w, to)
    BY <1>0, <2>1 DEF WorkerAt, Reads
  <2> QED BY <1>1, <2>1, <2>2
<1>8. CASE Index(w)
  <2>1. PICK to \in {"toSettling", "toFailed", "requeue"} : Reads(w, "index", to)
    BY <1>8 DEF Index
  <2>2. WorkerAt(w, to)
    BY <1>0, <2>1 DEF WorkerAt, Reads
  <2> QED BY <1>1, <2>1, <2>2
<1>9. CASE LoadSettlement(w)
  <2>1. PICK to : /\ Reads(w, "settle", to)
                  /\ \/ to = "requeue"
                     \/ to = "ack" /\ status = "completed"
                     \/ to = "exRelease" /\ status = "settling" /\ Exhausted
                     \/ to = "capture" /\ status = "settling" /\ billable /\ ~Exhausted
                     \/ to = "recordFailure" /\ status = "settling" /\ ~billable /\ ~Exhausted
    BY <1>9 DEF LoadSettlement
  <2>2. WorkerAt(w, to)
    BY <1>0, <1>2, <1>4, <1>11, <2>1 DEF WorkerAt, Reads
  <2> QED BY <1>1, <2>1, <2>2
<1>10. CASE EndSettlement(w)
  <2> DEFINE to == IF status \in Terminal THEN "ack" ELSE "requeue"
  <2>1. wpc[w] = "settleEnd" /\ Reads(w, "settleEnd", to)
    BY <1>10 DEF EndSettlement, Reads
  <2>2. WorkerAt(w, to)
    BY <1>0, <2>1 DEF WorkerAt
  <2> HIDE DEF to
  <2> QED BY <1>1, <2>1, <2>2
<1>12. CASE OutOfReach(w)
  <2>1. PICK from \in {"process", "get", "getRunning", "index"} :
           /\ Reads(w, from, "requeue")
           /\ from = "process" => status \in Submitted
    BY <1>12 DEF OutOfReach
  <2>2. WorkerAt(w, "requeue")
    BY <1>0, <2>1 DEF WorkerAt, Reads
  <2> QED BY <1>1, <2>1, <2>2
<1> QED BY <1>5, <1>6, <1>7, <1>8, <1>9, <1>10, <1>12

\* The steps of a worker at the queue and at the lock.
LEMMA QueueStepKeeps ==
  ASSUME IInv, NEW w \in Workers,
         \/ ReserveJob(w) \/ LockJob(w) \/ LockConflict(w) \/ ConflictRequeue(w)
         \/ AckJob(w) \/ RequeueJob(w) \/ Unlock(w)
  PROVE  Sound'
<1>0. Sound /\ wpc \in [Workers -> WorkerSteps] /\ WorkerAt(w, wpc[w])
  BY TypeMoney DEF IInv, Sound, WorkerInv
<1>1. WorkerAt(w, "idle") /\ WorkerAt(w, "lock") /\ WorkerAt(w, "conflict")
  BY DEF WorkerAt, LockedSteps, Settling, Providing
<1> USE DEF Goes, Keeps, Same
<1>2. CASE ReserveJob(w)
  BY <1>1, <1>2, WorkerGoesOn DEF ReserveJob, Reserve
<1>3. CASE LockConflict(w)
  BY <1>1, <1>3, WorkerGoesOn DEF LockConflict
<1>4. CASE ConflictRequeue(w)
  BY <1>1, <1>4, WorkerGoesOn DEF ConflictRequeue, RequeueAfter
<1>5. CASE AckJob(w) \/ RequeueJob(w)
  <2>1. wpc[w] \in {"ack", "requeue"}
    BY <1>5 DEF AckJob, RequeueJob
  <2>2. WorkerAt(w, "unlock")
    BY <1>0, <2>1 DEF WorkerAt, LockedSteps, Settling, Providing
  <2> QED BY <1>5, <2>2, WorkerGoesOn DEF AckJob, RequeueJob, Ack, RequeueAfter
<1>6. CASE LockJob(w)
  <2>1. lock = Nobody /\ lock' = w /\ wpc' = [wpc EXCEPT ![w] = "load"] /\ Same
    BY <1>6 DEF LockJob, TryAcquire
  <2>2. WorkerAt(w, "load")'
    BY <2>1 DEF WorkerAt, LockedSteps, Settling, Providing
  <2>3. WorkerInv'
    BY <1>0, <2>1, <2>2, OthersKept DEF Sound
  <2> QED BY <1>0, <1>6, <2>1, <2>3, SameKeeps DEF LockJob, TryAcquire, Sound
<1>7. CASE Unlock(w)
  <2>1. wpc[w] = "unlock" /\ wpc' = [wpc EXCEPT ![w] = "idle"] /\ Same
    BY <1>7 DEF Unlock, ReleaseLock
  <2>2. ~doubt => lock = w
    BY <1>0, <2>1 DEF WorkerAt, LockedSteps
  <2>3. WorkerAt(w, "idle")'
    BY DEF WorkerAt, LockedSteps, Settling, Providing
  <2>4. WorkerInv'
    BY <1>0, <2>1, <2>2, <2>3, OthersKept DEF Sound
  <2> QED BY <1>0, <1>7, <2>1, <2>4, SameKeeps DEF Unlock, ReleaseLock, Sound
<1> QED BY <1>2, <1>3, <1>4, <1>5, <1>6, <1>7

\* A worker releases a terminal job, or one whose retries are exhausted.
LEMMA WorkerReleases ==
  ASSUME IInv, NEW w \in Workers, NEW from, NEW next, NEW refused,
         ReleaseAt(w, from, next, refused),
         \/ from = "release" /\ next = "ack" /\ refused = "requeue"
         \/ from = "exRelease" /\ next = "exFail" /\ refused = "exReleaseFailed"
  PROVE  Sound'
<1>0. Sound /\ wpc \in [Workers -> WorkerSteps] /\ WorkerAt(w, from)
  BY TypeMoney DEF IInv, Sound, WorkerInv, ReleaseAt
<1> USE DEF ReleaseAt, Goes, Keeps, LockedSteps, Settling, Providing
<1>1. CASE CanRelease
  <2>1. /\ from = "release" => status \in Void
        /\ from = "exRelease" /\ ~doubt =>
             status = "settling" /\ Exhausted /\ "capture" \notin claims
    BY <1>0 DEF WorkerAt
  <2>2. ~doubt => /\ status \notin Submitted \cup {"completed"}
                  /\ status = "settling" => Exhausted
                  /\ "capture" \notin claims
    BY <1>0, <2>1, NotCaptured
  <2>3. ClaimsInv' /\ RowInv' /\ ClaimedInv' /\ Harmless /\ claims' = claims \cup {"release"}
    BY <1>1, <2>2, ReleaseKeeps
  <2>4. SubmitInv' /\ RequestInv'
    BY <1>0, <1>1, <2>1, <2>3 DEF Sound, SubmitInv, RequestInv, Before, Unrecorded
  <2>5. WorkerAt(w, from)'
    BY <1>0, <2>3, HarmlessKeeps
  <2>6. WorkerAt(w, next)'
    BY <2>3, <2>5 DEF WorkerAt
  <2>7. wpc[w] \in LockedSteps /\ (~doubt => lock = w)
    BY <1>0 DEF WorkerAt
  <2>8. WorkerInv'
    BY <1>0, <1>1, <2>3, <2>6, <2>7, OthersKept DEF Sound, Harmless
  <2> QED BY <2>3, <2>4, <2>8 DEF Sound
<1>2. CASE ~CanRelease
  <2>1. WorkerAt(w, refused)
    BY <1>0 DEF WorkerAt
  <2> QED BY <1>2, <2>1, WorkerGoesOn DEF Same
<1> QED BY <1>1, <1>2

\* A capture where the invariant allows one.
LEMMA CaptureKeeps ==
  ASSUME IInv, CaptureEffect, UNCHANGED <<rowVars, billable>>, doubt' \in {doubt, TRUE},
         UNCHANGED <<submit, client, recovery>>,
         "hold" \in claims, ~doubt => status = "settling" /\ billable /\ ~Exhausted
  PROVE  /\ ClaimsInv' /\ RowInv' /\ ClaimedInv' /\ SubmitInv' /\ RequestInv'
         /\ claims' = claims \cup {"capture"}
<1>1. /\ MoneyType' /\ ClaimsInv' /\ others' = others
      /\ claims' = claims \cup {"capture"}
      /\ MoneyInv /\ "release" \notin claims => MoneyInv'
  BY CaptureFacts, TypeMoney DEF IInv, Sound
<1>2. RowInv' /\ SubmitInv' /\ RequestInv'
  BY <1>1 DEF IInv, Sound, RowInv, SubmitInv, RequestInv
<1>3. ClaimedInv'
  BY <1>1 DEF IInv, Sound, ClaimedInv, Exhausted
<1> QED BY <1>1, <1>2, <1>3

\* The capture, answered or not, and the recorded failures.
LEMMA SettlementKeeps ==
  ASSUME IInv, NEW w \in Workers,
         Capture(w) \/ RecordFailure(w) \/ RecordReleaseFailed(w) \/ CaptureLost(w)
  PROVE  Sound'
<1>0. Sound /\ wpc \in [Workers -> WorkerSteps] /\ WorkerAt(w, wpc[w])
  BY TypeMoney DEF IInv, Sound, WorkerInv
<1> USE DEF Goes, Keeps, LockedSteps, Settling, Providing
<1>1. CASE Capture(w)
  <2>1. /\ wpc[w] = "capture" /\ "hold" \in claims
        /\ ~doubt => status = "settling" /\ billable /\ ~Exhausted /\ lock = w
    BY <1>0, <1>1 DEF WorkerAt, Capture
  <2>2. CASE CanCapture
    <3>1. /\ ClaimsInv' /\ RowInv' /\ ClaimedInv' /\ SubmitInv' /\ RequestInv'
          /\ claims' = claims \cup {"capture"}
      BY <1>1, <2>1, <2>2, CaptureKeeps DEF Capture
    <3>2. WorkerAt(w, "markSettled")'
      BY <1>1, <2>1, <2>2, <3>1 DEF WorkerAt, Capture, Exhausted
    <3>3. WorkerInv'
      BY <1>0, <1>1, <2>1, <2>2, <3>1, <3>2, OthersKept DEF Capture, Sound
    <3> QED BY <3>1, <3>3 DEF Sound
  <2>3. CASE ~CanCapture
    <3>1. "capture" \notin claims
      BY <2>3 DEF CanCapture
    <3>2. WorkerAt(w, "recordFailure")
      BY <2>1, <3>1 DEF WorkerAt
    <3> QED BY <1>1, <2>3, <3>2, WorkerGoesOn DEF Capture, Same
  <2> QED BY <2>2, <2>3
<1>2. CASE CaptureLost(w)
  <2>1. /\ wpc[w] = "capture" /\ "hold" \in claims /\ doubt' = TRUE
        /\ ~doubt => status = "settling" /\ billable /\ ~Exhausted
    BY <1>0, <1>2 DEF WorkerAt, CaptureLost
  <2>2. /\ ClaimsInv' /\ RowInv' /\ ClaimedInv' /\ SubmitInv' /\ RequestInv'
        /\ claims' = claims \cup {"capture"}
    BY <1>2, <2>1, CaptureKeeps DEF CaptureLost
  <2>3. WorkerAt(w, "recordFailure")'
    BY <2>1 DEF WorkerAt
  <2>4. WorkerInv'
    BY <1>0, <1>2, <2>1, <2>2, <2>3, OthersKept DEF CaptureLost, Sound
  <2> QED BY <2>2, <2>4 DEF Sound
<1>3. CASE RecordFailure(w) \/ RecordReleaseFailed(w)
  <2>1. PICK next :
          /\ \/ /\ wpc[w] = "recordFailure"
                /\ \/ next = "exRelease" /\ retry' >= MaxRetries
                   \/ next \in {"settleEnd", "requeue"}
             \/ wpc[w] = "exReleaseFailed" /\ next = "settleEnd"
          /\ retry' = MoreRetries /\ lastError' = "settlement"
          /\ wpc' = [wpc EXCEPT ![w] = next]
          /\ UNCHANGED <<queueVars, status, moneyVars, requestVars, worldVars, doubt>>
    BY <1>3 DEF RecordFailure, RecordReleaseFailed, AfterFailure
  <2>2. ~doubt => status = "settling" /\ "capture" \notin claims /\ lock = w
    BY <1>0, <2>1 DEF WorkerAt
  <2>3. retry \in Nat
    BY DEF IInv, TypeOK
  <2>4. Exhausted => Exhausted'
    BY <2>1, <2>3 DEF Exhausted, MoreRetries
  <2>5. ClaimsInv' /\ RowInv' /\ SubmitInv' /\ RequestInv'
    BY <1>0, <2>1 DEF Sound, ClaimsInv, RowInv, SubmitInv, RequestInv
  <2>6. ClaimedInv'
    BY <1>0, <2>1, <2>2, <2>4 DEF Sound, ClaimedInv, MoneyInv, Held
  <2>7. WorkerAt(w, next)'
    BY <2>1, <2>2 DEF WorkerAt, Exhausted
  <2>8. WorkerInv'
    BY <1>0, <2>1, <2>2, <2>7, OthersKept DEF Sound
  <2> QED BY <2>5, <2>6, <2>8 DEF Sound
<1> QED BY <1>1, <1>2, <1>3

LEMMA WorkKeeps ==
  ASSUME IInv, NEW w \in Workers, ReserveJob(w) \/ Work(w)
  PROVE  Sound'
BY StepMovesRow, ReadKeeps, QueueStepKeeps, WorkerReleases, SettlementKeeps
   DEF Work, ReleaseTerminal, ExhaustedRelease

-----------------------------------------------------------------------------
(* Movers, provider and faults *)

LEMMA EnvironmentKeeps ==
  ASSUME IInv, Environment
  PROVE  Sound'
<1>0. Sound
  BY DEF IInv
<1>1. CASE MoveDelayed
  BY <1>0, <1>1, SameKeeps DEF MoveDelayed, MoveDueDelayed, Same, Sound
<1>2. CASE RecoverActive
  BY <1>0, <1>2, SameKeeps DEF RecoverActive, RecoverStaleActive, Same, Sound
<1>3. CASE ExpireLock
  <2>1. /\ lock # Nobody /\ lock' = Nobody /\ doubt' = (doubt \/ Processing(lock))
        /\ UNCHANGED <<rowVars, moneyVars, requestVars, wpc, billable>>
    BY <1>3 DEF ExpireLock, LockExpires
  <2>2. ClaimsInv' /\ RowInv' /\ RequestInv' /\ SubmitInv'
    BY <1>0, <2>1 DEF Sound, ClaimsInv, RowInv, RequestInv, SubmitInv
  <2>3. ClaimedInv'
    BY <1>0, <2>1 DEF Sound, ClaimedInv, MoneyInv, Held, Exhausted
  <2>4. WorkerInv'
    <3> SUFFICES ASSUME NEW w \in Workers PROVE WorkerAt(w, wpc[w])'
      BY DEF WorkerInv
    <3>1. WorkerAt(w, wpc[w])
      BY <1>0 DEF Sound, WorkerInv
    <3>2. ~doubt' => wpc[w] \notin LockedSteps
      BY <2>1, <3>1 DEF WorkerAt, Processing
    <3>3. ~doubt' => wpc[w] \notin Settling \cup Providing \cup {"ack", "settleEnd"}
      BY <3>2, Places
    <3> QED BY <2>1, <3>1, <3>2, <3>3 DEF WorkerAt, Settling
  <2> QED BY <2>2, <2>3, <2>4 DEF Sound
<1>4. CASE ProviderEnds
  BY <1>0, <1>4, SameKeeps DEF ProviderEnds, Same, Sound
<1> QED BY <1>1, <1>2, <1>3, <1>4 DEF Environment

LEMMA RequestFaultKeeps ==
  ASSUME IInv, SubmitFails \/ SubmitDies \/ SubmitStalls \/ RequestFails
  PROVE  Sound'
<1> USE DEF Same
<1>0. Sound
  BY DEF IInv
<1>1. CASE SubmitFails
  <2>1. CASE submit = "reserve" /\ ReserveEffect
    <3>0. "hold" \notin claims /\ submit' = "markFailed"
      BY <1>0, <1>1, <2>1 DEF Sound, SubmitInv, SubmitFails
    <3>1. /\ ClaimsInv' /\ claims' = claims \cup {"hold"} /\ others' = others
          /\ MoneyInv => MoneyInv'
      BY <1>0, <2>1, <3>0, ReserveFacts, TypeMoney DEF IInv, Sound
    <3>2. RowInv' /\ RequestInv'
      BY <1>0, <1>1, <3>1 DEF Sound, RowInv, RequestInv, SubmitFails
    <3>3. SubmitInv'
      BY <1>0, <1>1, <2>1, <3>0, <3>1 DEF Sound, SubmitInv, SubmitFails, Before, Unrecorded
    <3>4. ClaimedInv'
      BY <1>0, <1>1, <3>1 DEF Sound, ClaimedInv, SubmitFails, Exhausted
    <3>5. WorkerInv'
      BY <1>0, <1>1, <3>1, HarmlessWorkers DEF Sound, Harmless, SubmitFails, Exhausted
    <3> QED BY <3>1, <3>2, <3>3, <3>4, <3>5 DEF Sound
  <2>2. CASE UNCHANGED moneyVars
    <3>1. SubmitInv'
      BY <1>0, <1>1, <2>2 DEF Sound, SubmitFails, AfterSubmitError, SubmitInv, Before, Unrecorded
    <3> QED BY <1>0, <1>1, <2>2, <3>1, SubmitGoesOn DEF SubmitFails
  <2> QED BY <1>1, <2>1, <2>2 DEF SubmitFails
<1>2. CASE SubmitDies
  <2>1. SubmitInv'
    BY <1>0, <1>2 DEF Sound, SubmitDies, SubmitInv, Before, Unrecorded
  <2> QED BY <1>0, <1>2, <2>1, SubmitGoesOn DEF SubmitDies
<1>3. CASE SubmitStalls
  BY <1>0, <1>3, SameKeeps DEF SubmitStalls, Sound
<1>4. CASE RequestFails
  <2>1. RequestInv'
    BY <1>0, <1>4 DEF Sound, RequestFails, RequestInv
  <2> QED BY <1>0, <1>4, <2>1, RequestGoesOn DEF RequestFails
<1> QED BY <1>1, <1>2, <1>3, <1>4

LEMMA WorkerFaultKeeps ==
  ASSUME IInv, NEW w \in Workers, WorkerFault(w)
  PROVE  Sound'
<1>0. Sound /\ wpc \in [Workers -> WorkerSteps] /\ WorkerAt(w, wpc[w])
  BY TypeMoney DEF IInv, Sound, WorkerInv
<1> USE DEF Same, LockedSteps, Settling, Providing
<1>1. CASE WorkerFails(w)
  <2>1. wpc[w] \in WorkerSteps \ {"idle"} /\ (wpc[w] = "capture" => "capture" \notin claims)
    BY <1>0, <1>1 DEF WorkerFails
  <2>2. WorkerAt(w, AfterError(wpc[w]))
    BY <1>0, <2>1 DEF AfterError, AfterFailure, WorkerSteps, WorkerAt
  <2> QED BY <1>1, <2>2, WorkerGoesOn DEF WorkerFails
<1>2. CASE CaptureLost(w)
  BY <1>2, SettlementKeeps
<1>3. CASE WorkerDies(w)
  <2>1. WorkerAt(w, "idle")
    BY DEF WorkerAt
  <2> QED BY <1>3, <2>1, WorkerGoesOn DEF WorkerDies
<1>4. CASE HeartbeatLost(w)
  BY <1>0, <1>4, SameKeeps DEF HeartbeatLost, Sound
<1> QED BY <1>1, <1>2, <1>3, <1>4 DEF WorkerFault

-----------------------------------------------------------------------------
(* Types *)

RowType ==
    /\ status \in Statuses
    /\ retry \in 0..MaxRetries /\ lastError \in {"none", "settlement", "other"}

RequestType ==
    /\ submit \in SubmitSteps /\ slow \in BOOLEAN
    /\ client \in ClientSteps /\ recovery \in RecoverySteps

WorkerType == wpc \in [Workers -> WorkerSteps] /\ lapsed \subseteq Workers

WorldType ==
    /\ provider \in {"none", "running", "succeeded", "failed", "cancelled"}
    /\ billable \in BOOLEAN
    /\ faults \in Nat /\ missed \in BOOLEAN /\ doubt \in BOOLEAN

ControlType == QueueTypeOK /\ RowType /\ RequestType /\ WorkerType /\ WorldType

\* TypeOK in parts small enough for the provers.
LEMMA TypeParts == TypeOK <=> ControlType /\ MoneyType
  BY DEF TypeOK, ControlType, MoneyType, RowType, RequestType, WorkerType, WorldType

LEMMA TypePartsNext == ControlType' /\ MoneyType' => TypeOK'
  BY DEF TypeOK, ControlType, MoneyType, RowType, RequestType, WorkerType, WorldType

LEMMA TransitionType == \A to : CanTransition(to) => to \in Statuses \ {"none"}
  BY DEF CanTransition, Allowed, Statuses

LEMMA QueueTypes ==
  ASSUME QueueTypeOK
  PROVE  /\ Enqueue \/ RequeueAfter \/ Ack \/ MoveDueDelayed => QueueTypeOK'
         /\ Reserve => QueueTypeOK'
         /\ \A fresh : RecoverStaleActive(fresh) => QueueTypeOK'
         /\ \A w \in Workers : TryAcquire(w) \/ ReleaseLock(w) => QueueTypeOK'
         /\ \A kept : LockExpires(kept) => QueueTypeOK'
         /\ UNCHANGED queueVars => QueueTypeOK'
<1> USE DEF QueueTypeOK
<1>1. Enqueue => QueueTypeOK'
  BY DEF Enqueue
<1>0. ready + 1 \in Nat /\ (ready > 0 => ready - 1 \in Nat)
  OBVIOUS
<1>2. RequeueAfter \/ Ack \/ MoveDueDelayed \/ Reserve => QueueTypeOK'
  BY <1>0, Zenon DEF RequeueAfter, Ack, MoveDueDelayed, Reserve
<1>3. \A fresh : RecoverStaleActive(fresh) => QueueTypeOK'
  BY <1>0, Zenon DEF RecoverStaleActive
<1>4. \A w \in Workers : TryAcquire(w) \/ ReleaseLock(w) => QueueTypeOK'
  BY DEF TryAcquire, ReleaseLock
<1>5. \A kept : LockExpires(kept) => QueueTypeOK'
  BY DEF LockExpires
<1>6. UNCHANGED queueVars => QueueTypeOK'
  OBVIOUS
<1> QED BY <1>1, <1>2, <1>3, <1>4, <1>5, <1>6

LEMMA MoneyTypes ==
  ASSUME MoneyType
  PROVE  /\ ReserveEffect \/ CaptureEffect \/ ReleaseEffect => MoneyType'
         /\ UNCHANGED moneyVars => MoneyType'
<1>1. balance + Hold \in Int /\ balance - Hold \in Int /\ balance + Hold - Actual \in Int
      /\ frozen + Hold \in Int /\ frozen - Hold \in Int
  BY DEF MoneyType
<1> QED BY <1>1 DEF MoneyType, ReserveEffect, CaptureEffect, ReleaseEffect

LEMMA SubmissionTypes ==
  ASSUME TypeOK, Submission
  PROVE  TypeOK'
<1>1. MoneyType'
  BY TypeParts, MoneyTypes DEF Submission, CreateJob, ReserveHold, ReserveRefused,
     CreateItems, ToUploading, ProviderAccepts, ProviderRefuses, RecordSubmitted,
     AbortOrphan, SubmitEnqueue, RecordQueueFailed, SubmitRelease, MarkSubmitFailed,
     HideFailed, QueueFailureRecorded
<1>2. QueueTypeOK'
  BY TypeParts, QueueTypes DEF ControlType, Submission, CreateJob, ReserveHold,
     ReserveRefused, CreateItems, ToUploading, ProviderAccepts, ProviderRefuses,
     RecordSubmitted, AbortOrphan, SubmitEnqueue, RecordQueueFailed, SubmitRelease,
     MarkSubmitFailed, HideFailed, QueueFailureRecorded
<1>3. ControlType /\ QueueTypeOK
  BY TypeParts DEF ControlType
<1> SUFFICES RowType' /\ RequestType' /\ WorkerType' /\ WorldType'
  BY <1>1, <1>2, TypePartsNext DEF ControlType
<1> USE DEF ControlType, RowType, RequestType, WorkerType, WorldType, SubmitGoes, Transition, Statuses, SubmitSteps
<1>4. CASE CreateJob
  BY <1>2, <1>3, <1>4 DEF CreateJob
<1>5. CASE ReserveHold \/ ReserveRefused
  BY <1>2, <1>3, <1>5 DEF ReserveHold, ReserveRefused
<1>6. CASE CreateItems \/ ProviderAccepts \/ ProviderRefuses
  BY <1>2, <1>3, <1>6 DEF CreateItems, ProviderAccepts, ProviderRefuses
<1>7. CASE ToUploading
  <2>1. /\ submit' \in {"provider", "releaseOnly"} /\ slow' \in {slow, FALSE}
        /\ status' \in {status, "uploading"} /\ UNCHANGED <<retry, lastError>>
        /\ UNCHANGED <<client, recovery, workerVars, provider, billable, faultVars>>
    BY <1>7 DEF ToUploading, rowVars
  <2>2. RowType /\ RequestType /\ WorkerType /\ WorldType BY <1>3
  <2>3. RowType' BY <2>1, <2>2
  <2>4. RequestType' BY <2>1, <2>2
  <2>5. WorkerType' /\ WorldType' BY <2>1, <2>2
  <2> QED BY <2>3, <2>4, <2>5
<1>8. CASE RecordSubmitted
  <2>1. /\ submit' \in {"enqueue", "abort"} /\ UNCHANGED <<retry, lastError>>
        /\ status' \in {status, "submitted"}
        /\ UNCHANGED <<slow, client, recovery, workerVars, provider, billable, faultVars>>
    BY <1>8, Zenon DEF RecordSubmitted, rowVars
  <2>2. RowType /\ RequestType /\ WorkerType /\ WorldType BY <1>3
  <2>3. RowType' BY <2>1, <2>2
  <2>4. RequestType' BY <2>1, <2>2
  <2>5. WorkerType' /\ WorldType' BY <2>1, <2>2
  <2> QED BY <2>3, <2>4, <2>5
<1>9. CASE AbortOrphan \/ SubmitEnqueue \/ HideFailed
  BY <1>2, <1>3, <1>9 DEF AbortOrphan, SubmitEnqueue, HideFailed
<1>10. CASE RecordQueueFailed
  BY <1>2, <1>3, <1>10 DEF RecordQueueFailed, QueueFailureRecorded
<1>11. CASE SubmitRelease
  BY <1>2, <1>3, <1>11 DEF SubmitRelease
<1>12. CASE MarkSubmitFailed
  BY <1>2, <1>3, <1>12 DEF MarkSubmitFailed
<1> QED BY <1>4, <1>5, <1>6, <1>7, <1>8, <1>9, <1>10, <1>11, <1>12 DEF Submission

LEMMA OwnerTypes ==
  ASSUME TypeOK, \/ StartCancel \/ StartReplay \/ ClientGoesOn
                 \/ RecoverFail \/ RecoverRelease \/ RecoveryFails \/ RecoverEnqueue
  PROVE  TypeOK'
<1>1. MoneyType'
  BY TypeParts, MoneyTypes DEF StartCancel, StartReplay, ClientGoesOn, CancelUpstream,
     CancelRow, CancelRelease, ClientEnqueue, ClientQueueFailed, RecoverFail,
     RecoverRelease, RecoveryFails, RecoverEnqueue, QueueFailureRecorded
<1>2. QueueTypeOK'
  BY TypeParts, QueueTypes DEF ControlType, StartCancel, StartReplay, ClientGoesOn,
     CancelUpstream, CancelRow, CancelRelease, ClientEnqueue, ClientQueueFailed, RecoverFail,
     RecoverRelease, RecoveryFails, RecoverEnqueue, QueueFailureRecorded
<1>3. ControlType /\ QueueTypeOK
  BY TypeParts DEF ControlType
<1> SUFFICES RowType' /\ RequestType' /\ WorkerType' /\ WorldType'
  BY <1>1, <1>2, TypePartsNext DEF ControlType
<1> USE DEF ControlType, RowType, RequestType, WorkerType, WorldType, ClientGoes, RecoveryGoes, Transition, Statuses, ClientSteps, RecoverySteps
<1>4. CASE StartCancel \/ StartReplay
  BY <1>2, <1>3, <1>4 DEF StartCancel, StartReplay
<1>5. CASE CancelUpstream
  BY <1>2, <1>3, <1>5 DEF CancelUpstream
<1>6. CASE CancelRow \/ CancelRelease
  BY <1>2, <1>3, <1>6 DEF CancelRow, CancelRelease
<1>7. CASE ClientEnqueue
  BY <1>2, <1>3, <1>7 DEF ClientEnqueue
<1>9. CASE ClientQueueFailed
  BY <1>2, <1>3, <1>9 DEF ClientQueueFailed, QueueFailureRecorded
<1>8. CASE RecoverFail \/ RecoverRelease \/ RecoveryFails \/ RecoverEnqueue
  BY <1>2, <1>3, <1>8 DEF RecoverFail, RecoverRelease, RecoveryFails, RecoverEnqueue
<1> QED BY <1>4, <1>5, <1>6, <1>7, <1>8, <1>9 DEF ClientGoesOn

\* A worker goes to a step of its own, whatever it has done to the row.
LEMMA WorkerTypes ==
  ASSUME TypeOK, NEW w \in Workers, NEW step \in WorkerSteps,
         wpc' = [wpc EXCEPT ![w] = step], UNCHANGED <<requestVars, worldVars>>,
         MoneyType', QueueTypeOK', lapsed' \in {lapsed, lapsed \ {w}},
         faults' \in {faults, faults + 1}, missed' = missed, doubt' \in {doubt, TRUE},
         status' \in Statuses, retry' \in 0..MaxRetries,
         lastError' \in {lastError, "settlement", "other"}
  PROVE  TypeOK'
<1>1. ControlType /\ MoneyType
  BY TypeParts
<1>2. WorkerType'
  BY <1>1 DEF ControlType, WorkerType
<1>3. RowType' /\ RequestType'
  BY <1>1 DEF ControlType, RowType, RequestType
<1>4. faults' \in Nat
  BY <1>1 DEF ControlType, WorldType
<1>5. doubt' \in BOOLEAN
  <2>1. doubt \in BOOLEAN
    BY <1>1 DEF ControlType, WorldType
  <2> QED BY <2>1, Zenon
<1>6. WorldType'
  BY <1>1, <1>4, <1>5 DEF ControlType, WorldType
<1> QED BY <1>2, <1>3, <1>6, TypePartsNext DEF ControlType

LEMMA WorkTypes ==
  ASSUME TypeOK, NEW w \in Workers, ReserveJob(w) \/ Work(w) \/ WorkerFault(w)
  PROVE  TypeOK'
<1>1. /\ ControlType /\ MoneyType /\ QueueTypeOK
      /\ UNCHANGED moneyVars => MoneyType'
      /\ UNCHANGED queueVars => QueueTypeOK'
      /\ status \in Statuses /\ retry \in 0..MaxRetries
      /\ wpc \in [Workers -> WorkerSteps]
  BY TypeParts, MoneyTypes, QueueTypes DEF ControlType, RowType, WorkerType
<1> USE DEF Goes, Keeps
<1>2. ASSUME NEW from, NEW to \in WorkerSteps, Reads(w, from, to) PROVE TypeOK'
  BY <1>1, <1>2, WorkerTypes DEF Reads
<1>3. CASE ReserveJob(w)
  BY <1>1, <1>3, QueueTypes, WorkerTypes DEF ReserveJob, WorkerSteps
<1>4. CASE LockJob(w) \/ LockConflict(w) \/ ConflictRequeue(w)
  BY <1>1, <1>4, QueueTypes, WorkerTypes
     DEF LockJob, LockConflict, ConflictRequeue, WorkerSteps, LockedSteps
<1>5. CASE AckJob(w) \/ RequeueJob(w) \/ Unlock(w)
  BY <1>1, <1>5, QueueTypes, WorkerTypes
     DEF AckJob, RequeueJob, Unlock, WorkerSteps, LockedSteps
<1>6. CASE Load(w) \/ EndSettlement(w)
  <2>1. PICK from, to : Reads(w, from, to) /\ to \in {"settle", "process", "ack", "requeue"}
    <3>1. CASE Load(w)
      BY <3>1 DEF Load
    <3>2. CASE EndSettlement(w)
      BY <3>2 DEF EndSettlement
    <3> QED BY <1>6, <3>1, <3>2
  <2> QED BY <1>2, <2>1 DEF WorkerSteps, LockedSteps
<1>7. CASE Process(w)
  <2>1. PICK to \in {"release", "ack", "index", "get", "getRunning", "requeue"} :
           Reads(w, "process", to)
    BY <1>7 DEF Process
  <2> QED BY <1>2, <2>1 DEF WorkerSteps, LockedSteps
<1>8. CASE Get(w)
  <2>1. PICK from \in {"get", "getRunning"},
              to \in {"toIndexing", "toFailed", "toCancelled", "toRunning", "requeue"} :
           Reads(w, from, to)
    BY <1>8 DEF Get
  <2> QED BY <1>2, <2>1 DEF WorkerSteps, LockedSteps
<1>9. CASE Index(w)
  <2>1. PICK to \in {"toSettling", "toFailed", "requeue"} : Reads(w, "index", to)
    BY <1>9 DEF Index
  <2> QED BY <1>2, <2>1 DEF WorkerSteps, LockedSteps
<1>10. CASE LoadSettlement(w)
  <2>1. PICK to \in {"ack", "requeue", "exRelease", "capture", "recordFailure"} :
           Reads(w, "settle", to)
    BY <1>10 DEF LoadSettlement
  <2> QED BY <1>2, <2>1 DEF WorkerSteps, LockedSteps
<1>11. ASSUME NEW from, NEW to, NEW next \in WorkerSteps, MovesTo(w, from, to, next)
       PROVE  TypeOK'
  <2>1. "requeue" \in WorkerSteps
    BY DEF WorkerSteps, LockedSteps
  <2> QED BY <1>1, <1>11, <2>1, WorkerTypes, TransitionType DEF MovesTo, Transition
<1>12. CASE ToRunning(w) \/ ToIndexing(w) \/ ToSettling(w) \/ ToCancelled(w) \/ MarkSettled(w)
  BY <1>11, <1>12 DEF ToRunning, ToIndexing, ToSettling, ToCancelled, MarkSettled,
     WorkerSteps, LockedSteps
<1>13. CASE ToFailed(w) \/ ExhaustedFail(w)
  <2>1. PICK next \in WorkerSteps : Fails(w, wpc[w], next)
    BY <1>13 DEF ToFailed, ExhaustedFail, Fails, WorkerSteps, LockedSteps
  <2>2. "requeue" \in WorkerSteps /\ "failed" \in Statuses
    BY DEF WorkerSteps, LockedSteps, Statuses
  <2> QED BY <1>1, <2>1, <2>2, WorkerTypes DEF Fails, FailJob
<1>14. CASE ReleaseTerminal(w) \/ ExhaustedRelease(w)
  <2>1. PICK from, next \in WorkerSteps, refused \in WorkerSteps : ReleaseAt(w, from, next, refused)
    BY <1>14 DEF ReleaseTerminal, ExhaustedRelease, WorkerSteps, LockedSteps
  <2> QED BY <1>1, <2>1, WorkerTypes, MoneyTypes DEF ReleaseAt
<1>15. CASE Capture(w)
  BY <1>1, <1>15, WorkerTypes, MoneyTypes DEF Capture, WorkerSteps, LockedSteps
<1>16. MoreRetries \in 0..MaxRetries
  BY <1>1 DEF MoreRetries
<1>17. CASE RecordFailure(w) \/ RecordReleaseFailed(w)
  <2>1. PICK next \in WorkerSteps : wpc' = [wpc EXCEPT ![w] = next]
    BY <1>17 DEF RecordFailure, RecordReleaseFailed, AfterFailure, WorkerSteps, LockedSteps
  <2> QED BY <1>1, <1>16, <1>17, <2>1, WorkerTypes DEF RecordFailure, RecordReleaseFailed
<1>18. CASE WorkerFails(w)
  <2>1. AfterError(wpc[w]) \in WorkerSteps
    BY <1>1 DEF AfterError, AfterFailure, WorkerSteps, LockedSteps
  <2> QED BY <1>1, <1>18, <2>1, WorkerTypes DEF WorkerFails, Fault
<1>19. CASE WorkerDies(w)
  BY <1>1, <1>19, WorkerTypes DEF WorkerDies, Fault, WorkerSteps, LockedSteps
<1>20. CASE CaptureLost(w)
  BY <1>1, <1>20, WorkerTypes, MoneyTypes DEF CaptureLost, Fault, WorkerSteps, LockedSteps
<1>21. CASE HeartbeatLost(w)
  <2>1. WorkerType' /\ WorldType'
    BY <1>1, <1>21 DEF HeartbeatLost, Fault, ControlType, WorkerType, WorldType
  <2>2. RowType' /\ RequestType'
    BY <1>1, <1>21 DEF HeartbeatLost, ControlType, RowType, RequestType
  <2>3. QueueTypeOK' /\ MoneyType'
    BY <1>1, <1>21 DEF HeartbeatLost
  <2> HIDE DEF WorkerType, WorldType, RowType, RequestType
  <2> QED BY <2>1, <2>2, <2>3, TypePartsNext, Zenon DEF ControlType
<1>22. CASE OutOfReach(w)
  <2>1. PICK from : Reads(w, from, "requeue")
    BY <1>22 DEF OutOfReach
  <2> QED BY <1>2, <2>1 DEF WorkerSteps, LockedSteps
<1> QED BY <1>3, <1>4, <1>5, <1>6, <1>7, <1>8, <1>9, <1>10, <1>12, <1>13, <1>14, <1>15,
           <1>17, <1>18, <1>19, <1>20, <1>21, <1>22 DEF Work, WorkerFault

LEMMA OtherTypes ==
  ASSUME TypeOK, Environment \/ SubmitFails \/ SubmitDies \/ SubmitStalls \/ RequestFails
  PROVE  TypeOK'
<1>1. ControlType /\ MoneyType /\ QueueTypeOK
  BY TypeParts DEF ControlType
<1>2. MoneyType'
  BY <1>1, MoneyTypes DEF Environment, MoveDelayed, RecoverActive, ExpireLock, ProviderEnds,
     SubmitFails, SubmitDies, SubmitStalls, RequestFails
<1>3. QueueTypeOK'
  BY <1>1, QueueTypes DEF Environment, MoveDelayed, RecoverActive, ExpireLock, ProviderEnds,
     SubmitFails, SubmitDies, SubmitStalls, RequestFails
<1> SUFFICES RowType' /\ RequestType' /\ WorkerType' /\ WorldType'
  BY <1>2, <1>3, TypePartsNext DEF ControlType
<1> USE DEF ControlType, RowType, RequestType, WorkerType, WorldType
<1>4. CASE MoveDelayed \/ RecoverActive \/ ProviderEnds
  BY <1>1, <1>4 DEF MoveDelayed, RecoverActive, ProviderEnds
<1>5. CASE ExpireLock
  <2>1. doubt' \in BOOLEAN
    BY <1>5 DEF ExpireLock
  <2> QED BY <1>1, <1>5, <2>1 DEF ExpireLock
<1>6. CASE SubmitFails
  <2>1. submit' \in SubmitSteps
    BY <1>1, <1>6 DEF SubmitFails, AfterSubmitError, SubmitSteps
  <2> QED BY <1>1, <1>6, <2>1 DEF SubmitFails, OwnerFault
<1>7. CASE SubmitDies
  BY <1>1, <1>7 DEF SubmitDies, OwnerFault, SubmitSteps
<1>9. CASE SubmitStalls
  <2>1. slow' \in BOOLEAN
    BY <1>9 DEF SubmitStalls
  <2>2. faults' \in Nat /\ missed' \in BOOLEAN
    BY <1>1, <1>9 DEF SubmitStalls, OwnerFault
  <2> QED BY <1>1, <1>9, <2>1, <2>2, Zenon DEF SubmitStalls
<1>8. CASE RequestFails
  BY <1>1, <1>8 DEF RequestFails, OwnerFault, ClientSteps
<1> QED BY <1>4, <1>5, <1>6, <1>7, <1>8, <1>9 DEF Environment

LEMMA NextTypes == TypeOK /\ [Next]_vars => TypeOK'
<1> SUFFICES ASSUME TypeOK, [Next]_vars PROVE TypeOK'
  OBVIOUS
<1>1. CASE UNCHANGED vars
  BY <1>1 DEF TypeOK, QueueTypeOK
<1>2. CASE Next
  BY <1>2, SubmissionTypes, OwnerTypes, WorkTypes, OtherTypes DEF Next, Requests
<1> QED BY <1>1, <1>2

-----------------------------------------------------------------------------
(* The theorems *)

LEMMA InitIInv == Init => IInv
<1> SUFFICES ASSUME Init PROVE IInv
  OBVIOUS
<1>1. TypeOK
  <2>1. MoneyType
    BY DEF Init, MoneyType
  <2>2. QueueTypeOK
    BY DEF Init, QueueInit, QueueTypeOK
  <2>3. WorkerType
    BY DEF Init, WorkerType, WorkerSteps
  <2>4. RowType
    BY DEF Init, RowType, Statuses
  <2>5. RequestType
    BY DEF Init, RequestType, SubmitSteps, ClientSteps, RecoverySteps
  <2>6. WorldType
    BY DEF Init, WorldType
  <2> QED BY <2>1, <2>2, <2>3, <2>4, <2>5, <2>6, TypeParts DEF ControlType
<1>2. ClaimsInv /\ RowInv /\ SubmitInv /\ RequestInv
  BY DEF Init, ClaimsInv, RowInv, SubmitInv, RequestInv
<1>3. WorkerInv
  BY DEF Init, WorkerInv, WorkerAt, LockedSteps, Settling, Providing
<1>4. ClaimedInv
  BY DEF Init, ClaimedInv, MoneyInv, Held
<1> QED BY <1>1, <1>2, <1>3, <1>4 DEF IInv, Sound

LEMMA NextIInv == IInv /\ [Next]_vars => IInv'
<1> SUFFICES ASSUME IInv, [Next]_vars PROVE IInv'
  OBVIOUS
<1>1. TypeOK'
  BY NextTypes DEF IInv
<1>2. CASE UNCHANGED vars
  BY <1>1, <1>2, SameKeeps DEF IInv, Sound, Same
<1>3. CASE Next
  BY <1>1, <1>3, SubmissionKeeps, OwnerKeeps, RecoveryKeeps, EnvironmentKeeps,
     RequestFaultKeeps, WorkKeeps, WorkerFaultKeeps DEF Next, Requests, IInv
<1> QED BY <1>2, <1>3

\* The inductive invariant: in every reachable state row, claims, money and the steps
\* of submission, requests and workers fit together, unless a lost answer, a lock that
\* expired under its worker or an overwritten code left an end in doubt.
THEOREM Invariance == Spec => []IInv
<1>1. Init => IInv
  BY InitIInv
<1>2. IInv /\ [Next]_vars => IInv'
  BY NextIInv
<1> QED BY <1>1, <1>2, PTL DEF Spec

\* Every variable keeps to its values: no retry count passes its limit, the ready list
\* never has fewer than no entries.
THEOREM TypeCorrect == Spec => []TypeOK
<1>1. IInv => TypeOK
  BY DEF IInv
<1> QED BY <1>1, Invariance, PTL

\* Settle captures before it completes the job, and nothing releases a hold that was
\* captured: a completed job is paid for, and not given back.
THEOREM Paid == Spec => []CompletedIsPaid
<1>1. IInv => CompletedIsPaid
  BY DEF IInv, Sound, ClaimsInv, RowInv, ClaimedInv, CompletedIsPaid
<1> QED BY <1>1, Invariance, PTL

\* Reservation, capture and release move the money of this job once: the frozen balance
\* is that of the user's other jobs and of the hold.
THEOREM Frozen == Spec => []FrozenIsHeld
<1>1. IInv => FrozenIsHeld
  BY DEF IInv, Sound, ClaimedInv, MoneyInv, FrozenIsHeld
<1> QED BY <1>1, Invariance, PTL

-----------------------------------------------------------------------------
\* Every script of the queue that takes the job out of one place puts it into another.
LEMMA PlacesKept ==
  ASSUME TypeOK, InflightIsQueued, [Next]_vars
  PROVE  InflightIsQueued'
<1> USE DEF InflightIsQueued, Queued
<1>1. ready \in Nat
  BY DEF TypeOK, QueueTypeOK
<1>2. Enqueue \/ RequeueAfter \/ Ack \/ Reserve => InflightIsQueued'
  <2>1. CASE Enqueue /\ inflight
    <3>1. ready + 0 = ready
      BY <1>1
    <3>2. ready' = ready /\ delayed' = delayed /\ active' = active
      BY <2>1, <3>1 DEF Enqueue
    <3> QED BY <2>1, <3>2, Zenon
  <2>2. CASE Enqueue /\ ~inflight
    <3>1. ready' > 0
      BY <1>1, <2>2 DEF Enqueue
    <3> QED BY <3>1
  <2>3. RequeueAfter \/ Ack \/ Reserve => InflightIsQueued'
    BY DEF RequeueAfter, Ack, Reserve
  <2> QED BY <2>1, <2>2, <2>3
<1>3. MoveDueDelayed \/ (\E fresh : RecoverStaleActive(fresh)) => InflightIsQueued'
  <2>1. MoveDueDelayed \/ (\E fresh : RecoverStaleActive(fresh)) => ready' > 0
    BY <1>1 DEF MoveDueDelayed, RecoverStaleActive
  <2> QED BY <2>1
<1>4. UNCHANGED placeVars => InflightIsQueued'
  OBVIOUS
<1>5. CASE UNCHANGED vars
  BY <1>4, <1>5
<1>6. CASE Submission
  BY <1>2, <1>4, <1>6 DEF Submission, CreateJob, ReserveHold, ReserveRefused, CreateItems,
     ToUploading, ProviderAccepts, ProviderRefuses, RecordSubmitted, AbortOrphan,
     SubmitEnqueue, RecordQueueFailed, SubmitRelease, MarkSubmitFailed, HideFailed,
     QueueFailureRecorded
<1>7. CASE StartCancel \/ StartReplay \/ ClientGoesOn
  BY <1>2, <1>4, <1>7 DEF StartCancel, StartReplay, ClientGoesOn, CancelUpstream, CancelRow,
     CancelRelease, ClientEnqueue, ClientQueueFailed, QueueFailureRecorded
<1>8. CASE RecoverFail \/ RecoverRelease \/ RecoveryFails \/ RecoverEnqueue
  BY <1>2, <1>4, <1>8 DEF RecoverFail, RecoverRelease, RecoveryFails, RecoverEnqueue
<1>9. CASE Environment
  BY <1>3, <1>4, <1>9 DEF Environment, MoveDelayed, RecoverActive, ExpireLock, LockExpires,
     ProviderEnds
<1>10. CASE SubmitFails \/ SubmitDies \/ SubmitStalls \/ RequestFails
  BY <1>4, <1>10 DEF SubmitFails, SubmitDies, SubmitStalls, RequestFails
<1>11. ASSUME NEW w \in Workers, ReserveJob(w) \/ Work(w) \/ WorkerFault(w)
       PROVE  InflightIsQueued'
  <2>1. CASE ReserveJob(w)
    BY <1>2, <2>1 DEF ReserveJob
  <2>2. CASE LockJob(w) \/ Unlock(w)
    BY <1>4, <2>2 DEF LockJob, Unlock, TryAcquire, ReleaseLock
  <2>3. CASE ConflictRequeue(w) \/ RequeueJob(w) \/ AckJob(w)
    BY <1>2, <2>3 DEF ConflictRequeue, RequeueJob, AckJob
  <2>4. CASE WorkerFault(w)
    BY <1>4, <2>4 DEF WorkerFault, WorkerFails, CaptureLost, WorkerDies, HeartbeatLost
  <2>5. CASE \/ Load(w) \/ Process(w) \/ Get(w) \/ Index(w) \/ OutOfReach(w)
             \/ LoadSettlement(w) \/ EndSettlement(w)
    BY <1>4, <2>5 DEF Load, Process, Get, Index, OutOfReach, LoadSettlement, EndSettlement, Reads
  <2>6. CASE \/ ToRunning(w) \/ ToIndexing(w) \/ ToSettling(w) \/ ToCancelled(w)
             \/ ToFailed(w) \/ MarkSettled(w) \/ ExhaustedFail(w)
    BY <1>4, <2>6 DEF ToRunning, ToIndexing, ToSettling, ToCancelled, ToFailed, MarkSettled,
       ExhaustedFail, MovesTo, Fails
  <2>7. CASE \/ LockConflict(w) \/ ReleaseTerminal(w) \/ Capture(w) \/ RecordFailure(w)
             \/ ExhaustedRelease(w) \/ RecordReleaseFailed(w)
    BY <1>4, <2>7 DEF LockConflict, ReleaseTerminal, ExhaustedRelease, ReleaseAt, Capture,
       RecordFailure, RecordReleaseFailed
  <2> QED BY <1>11, <2>1, <2>2, <2>3, <2>4, <2>5, <2>6, <2>7 DEF Work
<1> QED BY <1>5, <1>6, <1>7, <1>8, <1>9, <1>10, <1>11 DEF Next, Requests

\* A job whose inflight key exists is in the ready list, the delayed or the active set,
\* whoever dies.
THEOREM NotLost == Spec => []InflightIsQueued
<1>1. Init => InflightIsQueued
  BY DEF Init, QueueInit, InflightIsQueued
<1>2. TypeOK /\ InflightIsQueued /\ [Next]_vars => InflightIsQueued'
  BY PlacesKept
<1> QED BY <1>1, <1>2, TypeCorrect, PTL DEF Spec

-----------------------------------------------------------------------------
\* Only an acknowledgement takes the job out of the queue.
LEMMA Acknowledged ==
  ASSUME TypeOK, Next, inflight, ~inflight'
  PROVE  \E w \in Workers : AckJob(w)
<1>1. ~UNCHANGED inflight
  OBVIOUS
<1>2. ~Enqueue /\ ~UNCHANGED queueVars /\ ~UNCHANGED placeVars
  BY <1>1 DEF Enqueue
<1>3. ~Submission
  BY <1>1, <1>2 DEF Submission, CreateJob, ReserveHold, ReserveRefused, CreateItems,
     ToUploading, ProviderAccepts, ProviderRefuses, RecordSubmitted, AbortOrphan,
     SubmitEnqueue, RecordQueueFailed, SubmitRelease, MarkSubmitFailed, HideFailed,
     QueueFailureRecorded
<1>4. ~StartCancel /\ ~StartReplay /\ ~ClientGoesOn
  BY <1>1, <1>2 DEF StartCancel, StartReplay, ClientGoesOn, CancelUpstream, CancelRow,
     CancelRelease, ClientEnqueue, ClientQueueFailed, QueueFailureRecorded
<1>5. ~RecoverFail /\ ~RecoverRelease /\ ~RecoveryFails /\ ~RecoverEnqueue
  BY <1>1, <1>2 DEF RecoverFail, RecoverRelease, RecoveryFails, RecoverEnqueue
<1>6. ~Environment
  BY <1>1, <1>2 DEF Environment, MoveDelayed, MoveDueDelayed, RecoverActive,
     RecoverStaleActive, ExpireLock, LockExpires, ProviderEnds
<1>7. ~SubmitFails /\ ~SubmitDies /\ ~SubmitStalls /\ ~RequestFails
  BY <1>1 DEF SubmitFails, SubmitDies, SubmitStalls, RequestFails
<1>8. ASSUME NEW w \in Workers, ReserveJob(w) \/ Work(w) \/ WorkerFault(w)
      PROVE  AckJob(w)
  <2>1. ~ReserveJob(w) /\ ~LockJob(w) /\ ~Unlock(w) /\ ~ConflictRequeue(w) /\ ~RequeueJob(w)
    BY <1>1, <1>2 DEF ReserveJob, Reserve, LockJob, Unlock, TryAcquire, ReleaseLock,
       ConflictRequeue, RequeueJob, RequeueAfter
  <2>2. ~WorkerFault(w)
    BY <1>1 DEF WorkerFault, WorkerFails, CaptureLost, WorkerDies, HeartbeatLost
  <2>3. /\ ~Load(w) /\ ~Process(w) /\ ~Get(w) /\ ~Index(w) /\ ~OutOfReach(w)
        /\ ~LoadSettlement(w) /\ ~EndSettlement(w)
    BY <1>1 DEF Load, Process, Get, Index, OutOfReach, LoadSettlement, EndSettlement, Reads
  <2>4. /\ ~ToRunning(w) /\ ~ToIndexing(w) /\ ~ToSettling(w) /\ ~ToCancelled(w)
        /\ ~ToFailed(w) /\ ~MarkSettled(w) /\ ~ExhaustedFail(w)
    BY <1>1 DEF ToRunning, ToIndexing, ToSettling, ToCancelled, ToFailed, MarkSettled,
       ExhaustedFail, MovesTo, Fails
  <2>5. /\ ~LockConflict(w) /\ ~ReleaseTerminal(w) /\ ~Capture(w) /\ ~RecordFailure(w)
        /\ ~ExhaustedRelease(w) /\ ~RecordReleaseFailed(w)
    BY <1>1 DEF LockConflict, ReleaseTerminal, ExhaustedRelease, ReleaseAt, Capture,
       RecordFailure, RecordReleaseFailed
  <2> QED BY <1>8, <2>1, <2>2, <2>3, <2>4, <2>5 DEF Work
<1> QED BY <1>3, <1>4, <1>5, <1>6, <1>7, <1>8 DEF Next, Requests

\* A worker acknowledges a job only when its hold has ended, or its release was claimed.
THEOREM AckWhenEnded == Spec => AckOnlyWhenEnded
<1> DEFINE Ends == inflight /\ ~inflight' => ~Held \/ doubt \/ "release" \in claims
<1>1. IInv /\ [Next]_vars => [Ends]_vars
  <2> SUFFICES ASSUME IInv, Next, inflight, ~inflight', ~doubt
               PROVE  ~Held \/ "release" \in claims
    OBVIOUS
  <2>1. PICK w \in Workers : AckJob(w)
    BY Acknowledged DEF IInv
  <2>2. "capture" \in claims \/ "release" \in claims
    BY <2>1 DEF AckJob, IInv, Sound, WorkerInv, WorkerAt
  <2> QED BY <2>2 DEF IInv, Sound, ClaimsInv, Held
<1> QED BY <1>1, Invariance, PTL DEF Spec, AckOnlyWhenEnded

-----------------------------------------------------------------------------
(* Without a fault no job is without somebody to go on with it.              *)

\* The job is in the queue or with a worker.
Around == Queued \/ \E w \in Workers : wpc[w] # "idle"

\* Without a fault of its own no request takes an error path.
Undisturbed ==
    /\ ~slow
    /\ submit \notin {"queueFailed", "markReleaseFailed", "billingRetry"}
    /\ client # "queueFailed" /\ recovery = "idle"

\* Where the submission is tells what it has made of the row; the queue, the
\* workers and the owner's later requests know only jobs that were submitted.
Progressed ==
    /\ submit # "create" => status # "none"
    /\ submit \in {"reserve", "items", "toUploading"} => status \in {"created"} \cup Void
    /\ submit \in {"enqueue", "abort", "releaseOnly", "hide", "done", "hidden"} =>
        status \notin {"none"} \cup Unsubmitted
    /\ submit \in {"markFailed", "hide"} => "hold" \notin claims \/ "release" \in claims
    /\ inflight \/ Around \/ client \in {"upstream", "enqueue", "requeue"} =>
        status \notin {"none"} \cup Unsubmitted

\* Who goes on with the job: the key is there as long as the queue or a worker has
\* an open job; a job is cancelled under a submission only by a request that goes on
\* to release it, and ended by a worker only while the key is there.
Owners ==
    /\ Around => inflight \/ status \in Terminal
    /\ \A w \in Workers : wpc[w] = "ack" => status \in Terminal
    /\ status \in Submitted \cup {"settling"} => inflight \/ submit = "enqueue"
    /\ status \in Void /\ submit \in Before => client = "release" \/ "release" \in claims
    /\ status \in Void /\ Held =>
        \/ "release" \in claims \/ client = "release"
        \/ submit \in {"release", "releaseOnly"} \/ inflight

Owned == Undisturbed /\ Progressed /\ Owners

OwnedInv == ~missed /\ ~doubt => Owned

\* The release of a failed or cancelled job is not refused.
LEMMA ReleaseGoes ==
  ASSUME IInv, ~doubt, status \in {"none"} \cup Unsubmitted \cup Void
  PROVE  CanRelease
<1>1. "capture" \notin claims /\ MoneyInv
  BY NotCaptured DEF IInv, Sound, ClaimedInv
<1>2. ReleaseMoves => Held
  BY <1>1 DEF ReleaseMoves, Held, IInv, Sound, ClaimsInv, TypeOK
<1> QED BY <1>1, <1>2 DEF CanRelease, MoneyInv, IInv, TypeOK

\* What moves the money keeps what a claim tells.
LEMMA ReleaseEnds ==
  ASSUME ReleaseEffect
  PROVE  /\ "release" \in claims' /\ ("hold" \in claims' <=> "hold" \in claims)
         /\ Held' => Held
  BY DEF ReleaseEffect, Held

LEMMA CaptureEnds ==
  ASSUME CaptureEffect
  PROVE  /\ claims \subseteq claims' /\ ("hold" \in claims' <=> "hold" \in claims)
         /\ Held' => Held
  BY DEF CaptureEffect, Held

LEMMA SubmissionOwned ==
  ASSUME IInv, ~doubt, Owned, Submission
  PROVE  Owned'
<1> USE DEF SubmitGoes, Owned, Undisturbed, Progressed, Owners, Around, Queued, Held, Before
<1>0. TypeOK /\ SubmitInv /\ RequestInv
  BY DEF IInv, Sound
<1>1. CASE CreateJob
  BY <1>0, <1>1 DEF CreateJob, SubmitInv, RequestInv
<1>2. CASE ReserveHold
  BY <1>0, <1>2 DEF ReserveHold, ReserveEffect
<1>3. CASE ReserveRefused
  BY <1>0, <1>3 DEF ReserveRefused, SubmitInv
<1>4. CASE CreateItems
  BY <1>0, <1>4 DEF CreateItems
<1>5. CASE ToUploading
  BY <1>0, <1>5, Transitions DEF ToUploading, Transition, CanTransition, Allowed
<1>6. CASE ProviderAccepts
  BY <1>0, <1>6 DEF ProviderAccepts
<1>7. CASE ProviderRefuses
  BY <1>0, <1>7 DEF ProviderRefuses
<1>8. CASE RecordSubmitted
  <2>1. CASE CanTransition("submitted")
    BY <1>0, <1>8, <2>1, Transitions DEF RecordSubmitted
  <2>2. CASE ~CanTransition("submitted")
    <3>1. status \in Void
      BY <1>0, <1>8, <2>2 DEF RecordSubmitted, CanTransition, Allowed, SubmitInv, Unrecorded
    <3> QED BY <1>0, <1>8, <2>2, <3>1 DEF RecordSubmitted, SubmitInv
  <2> QED BY <2>1, <2>2
<1>9. CASE AbortOrphan
  BY <1>0, <1>9 DEF AbortOrphan
<1>10. CASE SubmitEnqueue
  BY <1>0, <1>10 DEF SubmitEnqueue, Enqueue
<1>11. CASE RecordQueueFailed
  BY <1>11 DEF RecordQueueFailed
<1>12. CASE SubmitRelease
  <2>1. CanRelease
    BY <1>0, <1>12, ReleaseGoes DEF SubmitRelease, SubmitInv, Unrecorded
  <2>2. ReleaseEffect
    BY <1>12, <2>1 DEF SubmitRelease
  <2> QED BY <1>0, <1>12, <2>1, <2>2, ReleaseEnds DEF SubmitRelease
<1>13. CASE MarkSubmitFailed
  BY <1>0, <1>13 DEF MarkSubmitFailed, SubmitInv
<1>14. CASE HideFailed
  BY <1>0, <1>14 DEF HideFailed
<1> QED BY <1>1, <1>2, <1>3, <1>4, <1>5, <1>6, <1>7, <1>8, <1>9, <1>10, <1>11, <1>12,
           <1>13, <1>14 DEF Submission

LEMMA OwnerOwned ==
  ASSUME IInv, ~doubt, Owned, StartCancel \/ StartReplay \/ ClientGoesOn
  PROVE  Owned'
<1> USE DEF ClientGoes, Owned, Undisturbed, Progressed, Owners, Around, Queued, Held, Before
<1>0. TypeOK /\ RequestInv
  BY DEF IInv, Sound
<1>1. CASE StartCancel
  BY <1>0, <1>1 DEF StartCancel
<1>2. CASE StartReplay
  BY <1>0, <1>2 DEF StartReplay
<1>3. CASE CancelUpstream
  BY <1>0, <1>3 DEF CancelUpstream
<1>4. CASE CancelRow
  BY <1>0, <1>4, Transitions DEF CancelRow, Transition
<1>5. CASE CancelRelease
  <2>1. CanRelease
    BY <1>0, <1>5, ReleaseGoes DEF CancelRelease, RequestInv
  <2>2. ReleaseEffect
    BY <1>5, <2>1 DEF CancelRelease
  <2> QED BY <1>0, <1>5, <2>1, <2>2, ReleaseEnds DEF CancelRelease
<1>6. CASE ClientEnqueue
  BY <1>0, <1>6 DEF ClientEnqueue, Enqueue
<1>7. CASE ClientQueueFailed
  BY <1>7 DEF ClientQueueFailed
<1> QED BY <1>1, <1>2, <1>3, <1>4, <1>5, <1>6, <1>7 DEF ClientGoesOn

LEMMA RecoveryOwned ==
  ASSUME IInv, Owned, RecoverFail \/ RecoverRelease \/ RecoveryFails \/ RecoverEnqueue
  PROVE  Owned'
<1>1. ~RecoverFail
  BY DEF RecoverFail, Stale, Owned, Undisturbed, Progressed
<1> QED BY <1>1 DEF Owned, Undisturbed, RecoverRelease, RecoveryFails, RecoverEnqueue

LEMMA EnvironmentOwned ==
  ASSUME IInv, Owned, Environment
  PROVE  Owned'
<1> USE DEF Owned, Undisturbed, Progressed, Owners, Around, Queued, Held, Before
<1>0. TypeOK
  BY DEF IInv
<1>1. CASE MoveDelayed
  BY <1>0, <1>1 DEF MoveDelayed, MoveDueDelayed
<1>2. CASE RecoverActive
  BY <1>0, <1>2 DEF RecoverActive, RecoverStaleActive
<1>3. CASE ExpireLock
  BY <1>0, <1>3 DEF ExpireLock, LockExpires, Kept
<1>4. CASE ProviderEnds
  BY <1>0, <1>4 DEF ProviderEnds
<1> QED BY <1>1, <1>2, <1>3, <1>4 DEF Environment

\* What a worker's step does to the row, the claims and the queue.
WorkEffect(w) ==
    /\ Around /\ UNCHANGED <<submit, slow, client, recovery>>
    /\ wpc' = [wpc EXCEPT ![w] = wpc'[w]]
    /\ \/ UNCHANGED status
       \/ /\ status \in DOMAIN Allowed
          /\ status' \in {"running", "indexing", "settling"} => status \in Submitted
          /\ status' \in {"running", "indexing", "settling", "completed"} \cup Void
    /\ wpc'[w] = "ack" => status' \in Terminal
    /\ claims \subseteq claims' /\ ("hold" \in claims' <=> "hold" \in claims)
    /\ Held' => Held
    /\ UNCHANGED inflight \/ AckJob(w)

LEMMA WorkEffects ==
  ASSUME IInv, ~doubt, Owned, NEW w \in Workers, ReserveJob(w) \/ Work(w)
  PROVE  WorkEffect(w)
<1>0. TypeOK /\ WorkerAt(w, wpc[w]) /\ wpc \in [Workers -> WorkerSteps] /\ ~doubt
  BY TypeMoney DEF IInv, Sound, WorkerInv
<1>1. ready \in Nat
  BY <1>0 DEF TypeOK, QueueTypeOK
<1> USE DEF WorkEffect, Goes, Keeps
<1>2. CASE ReserveJob(w)
  BY <1>0, <1>1, <1>2 DEF ReserveJob, Reserve, Around, Queued, Held
<1>3. wpc[w] # "idle" => Around
  BY DEF Around
<1>4. CASE Load(w)
  BY <1>0, <1>3, <1>4 DEF Load, Reads, Held
<1>5. CASE Process(w)
  BY <1>0, <1>3, <1>5 DEF Process, Reads, Held, WorkerAt, Providing
<1>6. CASE Get(w)
  BY <1>0, <1>3, <1>6 DEF Get, Reads, Held
<1>7. CASE Index(w)
  BY <1>0, <1>3, <1>7 DEF Index, Reads, Held
<1>8. CASE LoadSettlement(w)
  BY <1>0, <1>3, <1>8 DEF LoadSettlement, Reads, Held
<1>9. CASE EndSettlement(w)
  BY <1>0, <1>3, <1>9 DEF EndSettlement, Reads, Held
<1>10. CASE \/ ToRunning(w) \/ ToIndexing(w) \/ ToSettling(w) \/ ToCancelled(w)
            \/ MarkSettled(w)
  BY <1>0, <1>3, <1>10, Transitions DEF ToRunning, ToIndexing, ToSettling, ToCancelled,
     MarkSettled, MovesTo, Transition, Held
<1>11. CASE ToFailed(w) \/ ExhaustedFail(w)
  BY <1>0, <1>3, <1>11, Transitions DEF ToFailed, ExhaustedFail, Fails, FailJob, Held
<1>12. CASE ReleaseTerminal(w)
  BY <1>0, <1>3, <1>12, ReleaseEnds DEF ReleaseTerminal, ReleaseAt, WorkerAt, ReleaseEffect, Held
<1>13. CASE ExhaustedRelease(w)
  BY <1>0, <1>3, <1>13, ReleaseEnds DEF ExhaustedRelease, ReleaseAt, ReleaseEffect, Held
<1>14. CASE Capture(w)
  BY <1>0, <1>3, <1>14, CaptureEnds DEF Capture, Held
<1>15. CASE RecordFailure(w) \/ RecordReleaseFailed(w)
  BY <1>0, <1>3, <1>15 DEF RecordFailure, RecordReleaseFailed, AfterFailure, Held
<1>16. CASE LockJob(w) \/ LockConflict(w) \/ Unlock(w)
  BY <1>0, <1>3, <1>16 DEF LockJob, LockConflict, Unlock, TryAcquire, ReleaseLock, Held
<1>17. CASE ConflictRequeue(w) \/ RequeueJob(w)
  BY <1>0, <1>3, <1>17 DEF ConflictRequeue, RequeueJob, RequeueAfter, Held
<1>18. CASE AckJob(w)
  BY <1>0, <1>3, <1>18 DEF AckJob, Ack, Held
<1>19. CASE OutOfReach(w)
  BY <1>0, <1>3, <1>19 DEF OutOfReach, Reads, Held
<1> QED BY <1>2, <1>4, <1>5, <1>6, <1>7, <1>8, <1>9, <1>10, <1>11, <1>12, <1>13, <1>14,
           <1>15, <1>16, <1>17, <1>18, <1>19 DEF Work

LEMMA WorkOwned ==
  ASSUME IInv, ~doubt, Owned, NEW w \in Workers, WorkEffect(w)
  PROVE  Owned'
<1>0. /\ TypeOK /\ WorkerAt(w, wpc[w]) /\ wpc \in [Workers -> WorkerSteps] /\ ~doubt
      /\ ClaimedInv /\ SubmitInv /\ Around
  BY TypeMoney DEF IInv, Sound, WorkerInv, WorkEffect
<1>1. status \notin {"none"} \cup Unsubmitted /\ status' \notin {"none"} \cup Unsubmitted
  BY <1>0 DEF Owned, Progressed, WorkEffect
<1>2. status \in Terminal => status' = status
  BY DEF WorkEffect, Allowed
<1>3. inflight \/ status \in Terminal
  BY <1>0 DEF Owned, Owners
<1>4. submit \in Before \cup {"reserve", "items", "toUploading"} => status \in Void
  BY <1>0, <1>1 DEF SubmitInv, Before, Unrecorded
<1>5. Undisturbed' /\ Progressed'
  <2>2. Undisturbed'
    BY DEF Owned, Undisturbed, WorkEffect
  <2>3. submit' \in {"reserve", "items", "toUploading"} => status' \in Void
    BY <1>2, <1>4 DEF WorkEffect
  <2>4. submit' \in {"markFailed", "hide"} => "hold" \notin claims' \/ "release" \in claims'
    BY DEF Owned, Progressed, WorkEffect
  <2> QED BY <1>1, <2>2, <2>3, <2>4 DEF Progressed
<1>6. AckJob(w) => status \in Terminal /\ (status \in Void => "release" \in claims)
  <2>1. AckJob(w) => status \in Terminal /\ ("capture" \in claims \/ "release" \in claims)
    BY <1>0 DEF AckJob, Owned, Owners, WorkerAt
  <2> QED BY <1>0, <2>1 DEF ClaimedInv
<1>7. inflight' \/ status \in Terminal
  BY <1>3, <1>6 DEF WorkEffect
<1>8. Owners'
  <2>1. Around' => inflight' \/ status' \in Terminal
    BY <1>2, <1>7
  <2>2. ASSUME NEW v \in Workers, wpc'[v] = "ack" PROVE status' \in Terminal
    BY <1>0, <1>2, <2>2 DEF Owned, Owners, WorkEffect
  <2>3. status' \in Submitted \cup {"settling"} => inflight' \/ submit' = "enqueue"
    BY <1>2, <1>7
  <2>4. status' \in Void /\ submit' \in Before => client' = "release" \/ "release" \in claims'
    BY <1>4 DEF Owned, Owners, WorkEffect
  <2>5. ASSUME status' \in Void, Held', ~inflight'
        PROVE  \/ "release" \in claims' \/ client' = "release"
               \/ submit' \in {"release", "releaseOnly"}
    <3>1. status \in Void /\ Held
      BY <1>2, <1>7, <2>5 DEF WorkEffect
    <3>2. ~AckJob(w) => inflight' = inflight
      BY DEF WorkEffect
    <3> QED BY <1>6, <2>5, <3>1, <3>2 DEF Owned, Owners, WorkEffect
  <2> QED BY <2>1, <2>2, <2>3, <2>4, <2>5, Zenon DEF Owners
<1> QED BY <1>5, <1>8 DEF Owned

\* A worker that dies, whose calls fail, or whose heartbeat is lost does what a worker
\* does: it goes to another step, never to the acknowledgement.
LEMMA WorkerFaultEffects ==
  ASSUME IInv, Owned, NEW w \in Workers, WorkerFault(w), ~doubt'
  PROVE  WorkEffect(w)
<1>0. wpc \in [Workers -> WorkerSteps] /\ ~CaptureLost(w) /\ wpc[w] # "idle" /\ Around
  BY DEF IInv, TypeOK, WorkerFault, WorkerFails, CaptureLost, WorkerDies, HeartbeatLost,
     Around
<1>1. /\ UNCHANGED <<queueVars, rowVars, moneyVars, requestVars>>
      /\ wpc' = [wpc EXCEPT ![w] = wpc'[w]]
      /\ wpc'[w] = "ack" => wpc[w] = "ack"
  <2>1. AfterError(wpc[w]) # "ack"
    BY DEF AfterError, AfterFailure
  <2>2. CASE WorkerFails(w)
    BY <1>0, <2>1, <2>2 DEF WorkerFails
  <2>3. CASE WorkerDies(w) \/ HeartbeatLost(w)
    BY <1>0, <2>3 DEF WorkerDies, HeartbeatLost
  <2> QED BY <1>0, <2>2, <2>3 DEF WorkerFault
<1>2. UNCHANGED <<status, claims, ends, inflight, submit, slow, client, recovery>>
  BY <1>1 DEF rowVars, moneyVars, requestVars, queueVars
<1>3. wpc'[w] = "ack" => status' \in Terminal
  BY <1>1, <1>2 DEF Owned, Owners
<1>4. Held' => Held
  BY <1>2 DEF Held
<1> QED BY <1>0, <1>1, <1>2, <1>3, <1>4 DEF WorkEffect

\* Doubt and a request's fault are never forgotten.
LEMMA HistoryStays ==
  ASSUME Next
  PROVE  (missed => missed') /\ (doubt => doubt')
<1>1. CASE Submission /\ ~RecordQueueFailed
  <2> USE DEF SubmitGoes, faultVars
  <2>1. CASE ToUploading
    BY <2>1 DEF ToUploading
  <2>2. CASE RecordSubmitted
    BY <2>2 DEF RecordSubmitted
  <2>3. CASE SubmitRelease
    BY <2>3 DEF SubmitRelease
  <2>4. CASE CreateJob \/ ReserveHold \/ ReserveRefused \/ CreateItems \/ ProviderAccepts
    BY <2>4 DEF CreateJob, ReserveHold, ReserveRefused, CreateItems, ProviderAccepts
  <2>5. CASE ProviderRefuses \/ AbortOrphan \/ SubmitEnqueue \/ MarkSubmitFailed \/ HideFailed
    BY <2>5 DEF ProviderRefuses, AbortOrphan, SubmitEnqueue, MarkSubmitFailed, HideFailed
  <2> QED BY <1>1, <2>1, <2>2, <2>3, <2>4, <2>5 DEF Submission
<1>2. CASE RecordQueueFailed \/ ClientQueueFailed
  <2>1. UNCHANGED missed /\ doubt' = (doubt \/ status = "settling")
    BY <1>2 DEF RecordQueueFailed, ClientQueueFailed, QueueFailureRecorded
  <2> QED BY <2>1, Zenon
<1>3. CASE StartCancel \/ StartReplay \/ CancelUpstream \/ CancelRow
  BY <1>3 DEF StartCancel, StartReplay, CancelUpstream, CancelRow, ClientGoes
<1>4. CASE CancelRelease \/ ClientEnqueue
  BY <1>4 DEF CancelRelease, ClientEnqueue, ClientGoes
<1>5. CASE RecoverFail \/ RecoverRelease \/ RecoveryFails \/ RecoverEnqueue
  BY <1>5 DEF RecoverFail, RecoverRelease, RecoveryFails, RecoverEnqueue, RecoveryGoes, faultVars
<1>6. CASE ExpireLock
  <2>1. UNCHANGED missed /\ doubt' = (doubt \/ Processing(lock))
    BY <1>6 DEF ExpireLock
  <2> QED BY <2>1, Zenon
<1>7. CASE MoveDelayed \/ RecoverActive \/ ProviderEnds
  BY <1>7 DEF MoveDelayed, RecoverActive, ProviderEnds, faultVars
<1>8. ASSUME NEW w \in Workers, ReserveJob(w) \/ Work(w)
      PROVE  UNCHANGED <<missed, doubt>>
  BY <1>8 DEF ReserveJob, Work, LockJob, LockConflict, ConflictRequeue, Load, Process, Get,
     Index, OutOfReach, Reads, ToRunning, ToIndexing, ToSettling, ToCancelled, MarkSettled, MovesTo,
     ToFailed, ExhaustedFail, Fails, ReleaseTerminal, ExhaustedRelease, ReleaseAt,
     LoadSettlement, Capture, RecordFailure, RecordReleaseFailed, EndSettlement, AckJob,
     RequeueJob, Unlock, Goes, Keeps
<1>9. CASE \/ SubmitFails \/ SubmitDies \/ SubmitStalls \/ RequestFails
           \/ \E w \in Workers : WorkerFault(w)
  BY <1>9 DEF SubmitFails, SubmitDies, SubmitStalls, RequestFails, OwnerFault, WorkerFault,
     WorkerFails, CaptureLost, WorkerDies, HeartbeatLost, Fault
<1> QED BY <1>1, <1>2, <1>3, <1>4, <1>5, <1>6, <1>7, <1>8, <1>9
        DEF Next, Requests, ClientGoesOn, Environment

LEMMA StepOwned ==
  ASSUME IInv, OwnedInv, Next
  PROVE  OwnedInv'
<1> SUFFICES ASSUME ~missed', ~doubt' PROVE Owned'
  BY DEF OwnedInv
<1>1. ~(SubmitFails \/ SubmitDies \/ SubmitStalls \/ RequestFails)
  BY DEF SubmitFails, SubmitDies, SubmitStalls, RequestFails, OwnerFault
<1>2. ~doubt /\ Owned
  BY HistoryStays DEF OwnedInv
<1>3. Requests => Owned'
  BY <1>2, SubmissionOwned, OwnerOwned, RecoveryOwned DEF Requests
<1>4. Environment => Owned'
  BY <1>2, EnvironmentOwned
<1>5. ASSUME NEW w \in Workers, ReserveJob(w) \/ Work(w) \/ WorkerFault(w) PROVE Owned'
  BY <1>2, <1>5, WorkEffects, WorkerFaultEffects, WorkOwned
<1> QED BY <1>1, <1>3, <1>4, <1>5 DEF Next

\* A job that the provider runs is known to the queue or to its submission, and an
\* ended job's hold to somebody who will release it, however the owner's requests,
\* the submission and the workers interleave, and whatever workers die, fail or lapse.
THEOREM AlwaysOwned == Spec => []JobIsOwned
<1>1. Init => OwnedInv
  BY DEF Init, QueueInit, OwnedInv, Owned, Undisturbed, Progressed, Owners, Around, Queued,
     Held, Before
<1>2. IInv /\ OwnedInv /\ [Next]_vars => OwnedInv'
  <2>1. ASSUME OwnedInv, UNCHANGED vars PROVE OwnedInv'
    BY <2>1 DEF OwnedInv, Owned, Undisturbed, Progressed, Owners, Around, Queued, Held
  <2> QED BY <2>1, StepOwned
<1>3. OwnedInv => JobIsOwned
  BY DEF OwnedInv, Owned, Owners, JobIsOwned
<1> QED BY Invariance, <1>1, <1>2, <1>3, PTL DEF Spec

-----------------------------------------------------------------------------
(* The job implements its ledger.  A step does one of these to what the      *)
(* ledger sees, or nothing.                                                  *)

Quiet == UNCHANGED <<status, claims, ends>> /\ doubt' \in {doubt, TRUE}

RowStep ==
    /\ UNCHANGED <<claims, ends, doubt>>
    /\ status # "completed" /\ (status \in Void => status' \in Void)

HoldStep == ReserveEffect /\ "hold" \notin claims /\ UNCHANGED <<status, doubt>>

ReleaseStep == ReleaseEffect /\ UNCHANGED <<status, doubt>>

CaptureStep ==
    /\ CaptureEffect
    /\ "hold" \in claims
    /\ ~doubt => status = "settling" /\ "release" \notin claims
    /\ UNCHANGED status /\ doubt' \in {doubt, TRUE}

Kinds == Quiet \/ RowStep \/ HoldStep \/ ReleaseStep \/ CaptureStep

LEMMA DoubtGrows == TypeOK => \A b \in BOOLEAN : (doubt \/ b) \in {doubt, TRUE}
  BY Zenon DEF TypeOK

LEMMA RequestKinds ==
  ASSUME IInv, Requests
  PROVE  Kinds
<1>0. /\ submit = "create" => status = "none"
      /\ submit = "reserve" => "hold" \notin claims
      /\ submit \in Unrecorded => status \in {"none"} \cup Unsubmitted \cup Void
  BY DEF IInv, Sound, SubmitInv
<1> USE DEF SubmitGoes, ClientGoes, RecoveryGoes, Transition
<1>1. CASE CreateJob
  BY <1>0, <1>1 DEF CreateJob, Kinds, RowStep
<1>2. CASE ReserveHold
  BY <1>0, <1>2 DEF ReserveHold, Kinds, HoldStep
<1>3. CASE \/ ReserveRefused \/ CreateItems \/ ProviderAccepts \/ ProviderRefuses
           \/ AbortOrphan \/ SubmitEnqueue \/ HideFailed
  BY <1>3 DEF ReserveRefused, CreateItems, ProviderAccepts, ProviderRefuses, AbortOrphan,
     SubmitEnqueue, HideFailed, Kinds, Quiet
<1>4. CASE ToUploading
  BY <1>4, Transitions DEF ToUploading, Kinds, RowStep, Quiet
<1>5. CASE RecordSubmitted
  BY <1>5, Transitions DEF RecordSubmitted, Kinds, RowStep, Quiet
<1>6. CASE RecordQueueFailed \/ ClientQueueFailed
  <2>1. doubt' \in {doubt, TRUE} /\ UNCHANGED <<status, claims, ends>>
    BY <1>6, DoubtGrows DEF IInv, RecordQueueFailed, ClientQueueFailed, QueueFailureRecorded
  <2> QED BY <2>1 DEF Kinds, Quiet
<1>7. CASE SubmitRelease \/ CancelRelease \/ RecoverRelease
  BY <1>7 DEF SubmitRelease, CancelRelease, RecoverRelease, Kinds, ReleaseStep, Quiet
<1>8. CASE MarkSubmitFailed
  BY <1>0, <1>8 DEF MarkSubmitFailed, Kinds, RowStep, Unrecorded
<1>9. CASE StartCancel \/ StartReplay \/ CancelUpstream \/ ClientEnqueue
  BY <1>9 DEF StartCancel, StartReplay, CancelUpstream, ClientEnqueue, Kinds, Quiet
<1>10. CASE CancelRow
  BY <1>10, Transitions DEF CancelRow, Kinds, RowStep, Quiet
<1>11. CASE RecoverFail
  BY <1>11 DEF RecoverFail, Stale, Kinds, RowStep
<1>12. CASE RecoveryFails \/ RecoverEnqueue
  BY <1>12 DEF RecoveryFails, RecoverEnqueue, Kinds, Quiet
<1> QED BY <1>1, <1>2, <1>3, <1>4, <1>5, <1>6, <1>7, <1>8, <1>9, <1>10, <1>11, <1>12
        DEF Requests, Submission, ClientGoesOn

LEMMA WorkerKinds ==
  ASSUME IInv, NEW w \in Workers, ReserveJob(w) \/ Work(w) \/ WorkerFault(w)
  PROVE  Kinds
<1>0. Sound /\ WorkerAt(w, wpc[w])
  BY DEF IInv, Sound, WorkerInv
<1>1. wpc[w] = "capture" => /\ "hold" \in claims
                            /\ ~doubt => status = "settling" /\ "release" \notin claims
  BY <1>0 DEF Sound, WorkerAt, Settling, ClaimedInv
<1> USE DEF Goes, Keeps
<1>2. CASE \/ ReserveJob(w) \/ LockJob(w) \/ LockConflict(w) \/ ConflictRequeue(w)
           \/ AckJob(w) \/ RequeueJob(w) \/ Unlock(w)
  BY <1>2 DEF ReserveJob, LockJob, LockConflict, ConflictRequeue, AckJob, RequeueJob, Unlock,
     Kinds, Quiet
<1>3. CASE \/ Load(w) \/ Process(w) \/ Get(w) \/ Index(w) \/ OutOfReach(w)
           \/ LoadSettlement(w) \/ EndSettlement(w)
  BY <1>3 DEF Load, Process, Get, Index, OutOfReach, LoadSettlement, EndSettlement, Reads,
     Kinds, Quiet
<1>4. CASE \/ ToRunning(w) \/ ToIndexing(w) \/ ToSettling(w) \/ ToCancelled(w)
           \/ ToFailed(w) \/ MarkSettled(w) \/ ExhaustedFail(w)
  <2>1. CASE UNCHANGED rowVars
    BY <1>4, <2>1 DEF ToRunning, ToIndexing, ToSettling, ToCancelled, ToFailed, MarkSettled,
       ExhaustedFail, MovesTo, Fails, Kinds, Quiet
  <2>2. CASE ~UNCHANGED rowVars
    <3>1. \E to : CanTransition(to)
      BY <1>4, <2>2 DEF ToRunning, ToIndexing, ToSettling, ToCancelled, ToFailed, MarkSettled,
         ExhaustedFail, MovesTo, Fails
    <3>2. status \notin Void \cup {"completed"}
      BY <3>1, Transitions
    <3>3. UNCHANGED <<claims, ends, doubt>>
      BY <1>4 DEF ToRunning, ToIndexing, ToSettling, ToCancelled, ToFailed, MarkSettled,
         ExhaustedFail, MovesTo, Fails
    <3> QED BY <3>2, <3>3 DEF Kinds, RowStep
  <2> QED BY <2>1, <2>2
<1>5. CASE ReleaseTerminal(w) \/ ExhaustedRelease(w)
  BY <1>5 DEF ReleaseTerminal, ExhaustedRelease, ReleaseAt, Kinds, ReleaseStep, Quiet
<1>6. CASE Capture(w)
  BY <1>1, <1>6 DEF Capture, Kinds, CaptureStep, Quiet
<1>7. CASE RecordFailure(w) \/ RecordReleaseFailed(w)
  BY <1>7 DEF RecordFailure, RecordReleaseFailed, Kinds, Quiet
<1>8. CASE CaptureLost(w)
  BY <1>1, <1>8 DEF CaptureLost, Kinds, CaptureStep
<1>9. CASE WorkerFails(w) \/ WorkerDies(w) \/ HeartbeatLost(w)
  BY <1>9 DEF WorkerFails, WorkerDies, HeartbeatLost, Kinds, Quiet
<1> QED BY <1>2, <1>3, <1>4, <1>5, <1>6, <1>7, <1>8, <1>9 DEF Work, WorkerFault

LEMMA OtherKinds ==
  ASSUME IInv, Environment \/ SubmitFails \/ SubmitDies \/ SubmitStalls \/ RequestFails
  PROVE  Kinds
<1>1. CASE MoveDelayed \/ RecoverActive \/ ProviderEnds
  BY <1>1 DEF MoveDelayed, RecoverActive, ProviderEnds, Kinds, Quiet
<1>2. CASE ExpireLock
  <2>1. doubt' \in {doubt, TRUE} /\ UNCHANGED <<status, claims, ends>>
    BY <1>2, DoubtGrows DEF IInv, ExpireLock, Processing
  <2> QED BY <2>1 DEF Kinds, Quiet
<1>3. CASE SubmitFails
  <2>1. submit = "reserve" => "hold" \notin claims
    BY DEF IInv, Sound, SubmitInv
  <2> QED BY <1>3, <2>1 DEF SubmitFails, Kinds, HoldStep, Quiet
<1>4. CASE SubmitDies \/ SubmitStalls \/ RequestFails
  BY <1>4 DEF SubmitDies, SubmitStalls, RequestFails, Kinds, Quiet
<1> QED BY <1>1, <1>2, <1>3, <1>4 DEF Environment

LEMMA Phases ==
  ASSUME IInv
  PROVE  /\ holdPhase = "none" <=> "hold" \notin claims
         /\ holdPhase = "held" <=> "hold" \in claims /\ ends = {}
         /\ holdPhase = "captured" <=> ends = {"capture"}
         /\ holdPhase = "released" <=> ends = {"release"}
         /\ holdPhase = "both" <=> ends = {"capture", "release"}
         /\ ends \in {{}, {"capture"}, {"release"}, {"capture", "release"}}
         /\ "capture" \in ends <=> "capture" \in claims
         /\ "hold" \notin claims => ends = {}
<1>1. /\ "hold" \notin claims => ends = {}
      /\ "capture" \in ends <=> "capture" \in claims
  BY DEF IInv, Sound, ClaimsInv
<1>2. ends \in {{}, {"capture"}, {"release"}, {"capture", "release"}}
  BY DEF IInv, TypeOK
<1> QED BY <1>1, <1>2 DEF holdPhase

LEMMA LedgerStep ==
  ASSUME IInv, IInv', Kinds
  PROVE  [Ledger!Next]_(Ledger!vars)
<1> USE DEF Ledger!Next, Ledger!vars
<1>1. CASE Quiet
  <2>1. holdPhase' = holdPhase /\ jobOutcome' = jobOutcome
    BY <1>1 DEF Quiet, holdPhase, jobOutcome
  <2> QED BY <1>1, <2>1 DEF Quiet, Ledger!Confuse
<1>2. CASE RowStep
  <2>1. holdPhase' = holdPhase /\ UNCHANGED <<claims, ends, doubt>>
    BY <1>2 DEF RowStep, holdPhase
  <2>2. status' = "completed" => holdPhase \in {"captured", "both"}
    BY <2>1, Phases DEF IInv, Sound, RowInv
  <2>3. status' \in Void => holdPhase \in {"none", "held", "released"} \/ doubt
    BY <2>1, Phases DEF IInv, Sound, ClaimedInv
  <2>4. status' \notin Void \cup {"completed"} => jobOutcome' = jobOutcome
    BY <1>2 DEF RowStep, jobOutcome
  <2> QED BY <1>2, <2>1, <2>2, <2>3, <2>4
          DEF RowStep, jobOutcome, Ledger!Complete, Ledger!Abandon
<1>3. CASE HoldStep
  <2>1. jobOutcome' = jobOutcome /\ doubt' = doubt
    BY <1>3 DEF HoldStep, jobOutcome
  <2>2. holdPhase = "none" /\ holdPhase' = "held"
    BY <1>3, Phases DEF HoldStep, ReserveEffect, holdPhase
  <2> QED BY <2>1, <2>2 DEF Ledger!Reserve
<1>4. CASE ReleaseStep
  <2>1. jobOutcome' = jobOutcome /\ doubt' = doubt
    BY <1>4 DEF ReleaseStep, jobOutcome
  <2>2. CASE ~ReleaseMoves
    <3>1. ends' = ends /\ claims' = claims \cup {"release"}
      BY <1>4, <2>2 DEF ReleaseStep, ReleaseEffect
    <3>2. holdPhase' = holdPhase
      BY <3>1 DEF holdPhase
    <3> QED BY <2>1, <3>2
  <2>3. CASE ReleaseMoves
    <3>1. ends' = ends \cup {"release"} /\ claims' = claims \cup {"release"}
      BY <1>4, <2>3 DEF ReleaseStep, ReleaseEffect
    <3>2. "hold" \in claims /\ "release" \notin ends
      BY <2>3 DEF ReleaseMoves, IInv, Sound, ClaimsInv
    <3>3. ends \in {{}, {"capture"}}
      BY <3>2, Phases
    <3>4. CASE ends = {}
      <4>1. holdPhase = "held" /\ holdPhase' = "released"
        BY <3>1, <3>2, <3>4, Phases DEF holdPhase
      <4>2. jobOutcome # "done"
        BY <3>4, Phases DEF IInv, Sound, RowInv, jobOutcome
      <4> QED BY <2>1, <4>1, <4>2 DEF Ledger!Release
    <3>5. CASE ends = {"capture"}
      <4>1. holdPhase = "captured" /\ holdPhase' = "both"
        BY <3>1, <3>5 DEF holdPhase
      <4>2. doubt
        <5> SUFFICES ASSUME ~doubt PROVE FALSE
          OBVIOUS
        <5>1. "capture" \in claims' /\ "release" \in claims' /\ ~doubt'
          BY <2>1, <3>1, <3>5, Phases
        <5> QED BY <5>1 DEF IInv, Sound, ClaimedInv
      <4> QED BY <2>1, <4>1, <4>2 DEF Ledger!EndAgain, Ledger!Doubting
    <3> QED BY <3>3, <3>4, <3>5
  <2> QED BY <2>2, <2>3
<1>5. CASE CaptureStep
  <2>1. jobOutcome' = jobOutcome /\ doubt' \in {doubt, TRUE}
    BY <1>5 DEF CaptureStep, jobOutcome
  <2>2. CASE "capture" \in claims
    <3>1. ends' = ends /\ claims' = claims \cup {"capture"}
      BY <1>5, <2>2 DEF CaptureStep, CaptureEffect
    <3>2. holdPhase' = holdPhase
      BY <3>1 DEF holdPhase
    <3> QED BY <2>1, <3>2 DEF Ledger!Confuse
  <2>3. CASE "capture" \notin claims
    <3>1. ends' = ends \cup {"capture"} /\ claims' = claims \cup {"capture"}
      BY <1>5, <2>3 DEF CaptureStep, CaptureEffect
    <3>2. ends \in {{}, {"release"}}
      BY <2>3, Phases
    <3>3. CASE ends = {}
      <4>1. holdPhase = "held" /\ holdPhase' = "captured"
        BY <1>5, <3>1, <3>3, Phases DEF CaptureStep, holdPhase
      <4>2. jobOutcome = "open" \/ doubt
        BY <1>5 DEF CaptureStep, jobOutcome
      <4> QED BY <2>1, <4>1, <4>2 DEF Ledger!Capture, Ledger!Doubting
    <3>4. CASE ends = {"release"}
      <4>1. holdPhase = "released" /\ holdPhase' = "both"
        BY <3>1, <3>4 DEF holdPhase
      <4>2. doubt
        BY <1>5, <3>4 DEF CaptureStep, IInv, Sound, ClaimsInv
      <4> QED BY <2>1, <4>1, <4>2 DEF Ledger!EndAgain, Ledger!Doubting
    <3> QED BY <3>2, <3>3, <3>4
  <2> QED BY <2>2, <2>3
<1> QED BY <1>1, <1>2, <1>3, <1>4, <1>5 DEF Kinds

\* The job implements HoldLedger: hold, then capture or release, not both unless in
\* doubt; a job is completed after a capture and stays what it has become.
THEOREM Refinement == Spec => ImplementsLedger
<1>1. Init => Ledger!Init
  BY DEF Init, Ledger!Init, holdPhase, jobOutcome
<1>2. IInv /\ IInv' /\ [Next]_vars => [Ledger!Next]_(Ledger!vars)
  <2> SUFFICES ASSUME IInv, IInv', [Next]_vars PROVE [Ledger!Next]_(Ledger!vars)
    OBVIOUS
  <2>1. CASE UNCHANGED vars
    BY <2>1 DEF Ledger!vars, holdPhase, jobOutcome
  <2>2. CASE Next
    BY <2>2, RequestKinds, WorkerKinds, OtherKinds, LedgerStep DEF Next
  <2> QED BY <2>1, <2>2
<1> QED BY <1>1, <1>2, Invariance, PTL DEF Spec, ImplementsLedger, Ledger!Spec
=============================================================================
