------------------------- MODULE IdempotencyProofs -------------------------
(***************************************************************************)
(* Idempotency: for any set of requests, any TTL, timeouts and faults, the *)
(* operation of a key takes effect at most once before the first record    *)
(* can expire, and a replay returns the response of such an operation.     *)
(***************************************************************************)
EXTENDS Idempotency, TLAPS

USE IdempotencyAssumption DEF given, Exists, Goto, Answer, Claimed, Statuses, Steps,
  Answers, Running

\* A missing row has no id.
LEMMA NoRowIsNone == NoRow \notin Rows
  BY DEF NoRow, Rows

USE NoRowIsNone


\* The part of IInv about the clock.
Times == /\ clock >= 1
         /\ \A r \in Requests : now[r] <= clock /\ (pc[r] # "idle" => now[r] >= 1)

LEMMA InitIInv == Init => IInv
  BY DEF Init, IInv, TypeOK, FirstLife, OneOperation, ReplayIsEffect,
         Holders, Writers

LEMMA StartKeeps ==
  ASSUME IInv, NEW q \in Requests, Start(q)
  PROVE  IInv'
<1>1. TypeOK'
  BY DEF IInv, TypeOK, Rows, Start
<1>2. Times'
  BY DEF IInv, TypeOK, Times, Start
<1>3. (clock <= TTL => FirstLife)'
  BY DEF IInv, TypeOK, Rows, FirstLife, Holders, Start
<1>4. OneOperation'
  BY DEF IInv, TypeOK, Rows, OneOperation, Writers, Start
<1>5. ReplayIsEffect'
  BY DEF IInv, TypeOK, Rows, OneOperation, ReplayIsEffect, Start
<1> QED BY <1>1, <1>2, <1>3, <1>4, <1>5 DEF IInv, Times

LEMMA CreateKeeps ==
  ASSUME IInv, NEW q \in Requests, Create(q)
  PROVE  IInv'
<1>1. TypeOK'
  BY DEF IInv, TypeOK, Rows, Create
<1>2. Times'
  BY DEF IInv, TypeOK, Times, Create
<1>3. (clock <= TTL => FirstLife)'
  BY DEF IInv, TypeOK, Rows, FirstLife, Holders, Create
<1>4. OneOperation'
  BY DEF IInv, TypeOK, Rows, OneOperation, Writers, Create
<1>5. ReplayIsEffect'
  BY DEF IInv, TypeOK, Rows, OneOperation, ReplayIsEffect, Create
<1> QED BY <1>1, <1>2, <1>3, <1>4, <1>5 DEF IInv, Times

LEMMA CreateConflictsKeeps ==
  ASSUME IInv, NEW q \in Requests, CreateConflicts(q)
  PROVE  IInv'
<1>1. TypeOK'
  BY DEF IInv, TypeOK, Rows, CreateConflicts
<1>2. Times'
  BY DEF IInv, TypeOK, Times, CreateConflicts
<1>3. (clock <= TTL => FirstLife)'
  BY DEF IInv, TypeOK, Rows, FirstLife, Holders, CreateConflicts
<1>4. OneOperation'
  BY DEF IInv, TypeOK, Rows, OneOperation, Writers, CreateConflicts
<1>5. ReplayIsEffect'
  BY DEF IInv, TypeOK, Rows, OneOperation, ReplayIsEffect, CreateConflicts
<1> QED BY <1>1, <1>2, <1>3, <1>4, <1>5 DEF IInv, Times

LEMMA ReadRefusesKeeps ==
  ASSUME IInv, NEW q \in Requests, ReadRefuses(q)
  PROVE  IInv'
<1>1. TypeOK'
  BY DEF IInv, TypeOK, Rows, ReadRefuses, Matches
<1>2. Times'
  BY DEF IInv, TypeOK, Times, ReadRefuses, Matches
<1>3. (clock <= TTL => FirstLife)'
  BY DEF IInv, TypeOK, Rows, FirstLife, Holders, ReadRefuses, Matches
<1>4. OneOperation'
  BY DEF IInv, TypeOK, Rows, OneOperation, Writers, ReadRefuses, Matches
<1>5. ReplayIsEffect'
  BY DEF IInv, TypeOK, Rows, OneOperation, ReplayIsEffect, ReadRefuses, Matches
<1> QED BY <1>1, <1>2, <1>3, <1>4, <1>5 DEF IInv, Times

LEMMA ReadExpiredKeeps ==
  ASSUME IInv, NEW q \in Requests, ReadExpired(q)
  PROVE  IInv'
<1>1. TypeOK'
  BY DEF IInv, TypeOK, Rows, ReadExpired, Matches
<1>2. Times'
  BY DEF IInv, TypeOK, Times, ReadExpired, Matches
<1>3. (clock <= TTL => FirstLife)'
  BY DEF IInv, TypeOK, Rows, FirstLife, Holders, ReadExpired, Matches
<1>4. OneOperation'
  BY DEF IInv, TypeOK, Rows, OneOperation, Writers, ReadExpired, Matches
<1>5. ReplayIsEffect'
  BY DEF IInv, TypeOK, Rows, OneOperation, ReplayIsEffect, ReadExpired, Matches
<1> QED BY <1>1, <1>2, <1>3, <1>4, <1>5 DEF IInv, Times

LEMMA ReadSucceededKeeps ==
  ASSUME IInv, NEW q \in Requests, ReadSucceeded(q)
  PROVE  IInv'
<1>1. TypeOK'
  BY DEF IInv, TypeOK, Rows, ReadSucceeded, Reads, Matches
<1>2. Times'
  BY DEF IInv, TypeOK, Times, ReadSucceeded, Reads, Matches
<1>3. (clock <= TTL => FirstLife)'
  BY DEF IInv, TypeOK, Rows, FirstLife, Holders, ReadSucceeded, Reads, Matches
<1>4. OneOperation'
  BY DEF IInv, TypeOK, Rows, OneOperation, Writers, ReadSucceeded, Reads, Matches
<1>5. ReplayIsEffect'
  BY DEF IInv, TypeOK, Rows, OneOperation, ReplayIsEffect, ReadSucceeded, Reads, Matches
<1> QED BY <1>1, <1>2, <1>3, <1>4, <1>5 DEF IInv, Times

LEMMA ReadUnreadableKeeps ==
  ASSUME IInv, NEW q \in Requests, ReadUnreadable(q)
  PROVE  IInv'
<1>1. TypeOK'
  BY DEF IInv, TypeOK, Rows, ReadUnreadable, Reads, Matches
<1>2. Times'
  BY DEF IInv, TypeOK, Times, ReadUnreadable, Reads, Matches
<1>3. (clock <= TTL => FirstLife)'
  BY DEF IInv, TypeOK, Rows, FirstLife, Holders, ReadUnreadable, Reads, Matches
<1>4. OneOperation'
  BY DEF IInv, TypeOK, Rows, OneOperation, Writers, ReadUnreadable, Reads, Matches
<1>5. ReplayIsEffect'
  BY DEF IInv, TypeOK, Rows, OneOperation, ReplayIsEffect, ReadUnreadable, Reads, Matches
<1> QED BY <1>1, <1>2, <1>3, <1>4, <1>5 DEF IInv, Times

LEMMA ReadProcessingKeeps ==
  ASSUME IInv, NEW q \in Requests, ReadProcessing(q)
  PROVE  IInv'
<1>1. TypeOK'
  BY DEF IInv, TypeOK, Rows, ReadProcessing, Reads, Matches
<1>2. Times'
  BY DEF IInv, TypeOK, Times, ReadProcessing, Reads, Matches
<1>3. (clock <= TTL => FirstLife)'
  BY DEF IInv, TypeOK, Rows, FirstLife, Holders, ReadProcessing, Reads, Matches
<1>4. OneOperation'
  BY DEF IInv, TypeOK, Rows, OneOperation, Writers, ReadProcessing, Reads, Matches
<1>5. ReplayIsEffect'
  BY DEF IInv, TypeOK, Rows, OneOperation, ReplayIsEffect, ReadProcessing, Reads, Matches
<1> QED BY <1>1, <1>2, <1>3, <1>4, <1>5 DEF IInv, Times

LEMMA ReadBackoffKeeps ==
  ASSUME IInv, NEW q \in Requests, ReadBackoff(q)
  PROVE  IInv'
<1>1. TypeOK'
  BY DEF IInv, TypeOK, Rows, ReadBackoff, Reads, Matches
<1>2. Times'
  BY DEF IInv, TypeOK, Times, ReadBackoff, Reads, Matches
<1>3. (clock <= TTL => FirstLife)'
  BY DEF IInv, TypeOK, Rows, FirstLife, Holders, ReadBackoff, Reads, Matches
<1>4. OneOperation'
  BY DEF IInv, TypeOK, Rows, OneOperation, Writers, ReadBackoff, Reads, Matches
<1>5. ReplayIsEffect'
  BY DEF IInv, TypeOK, Rows, OneOperation, ReplayIsEffect, ReadBackoff, Reads, Matches
<1> QED BY <1>1, <1>2, <1>3, <1>4, <1>5 DEF IInv, Times

LEMMA ReadFailedKeeps ==
  ASSUME IInv, NEW q \in Requests, ReadFailed(q)
  PROVE  IInv'
<1>1. TypeOK'
  BY DEF IInv, TypeOK, Rows, ReadFailed, Reads, Matches
<1>2. Times'
  BY DEF IInv, TypeOK, Times, ReadFailed, Reads, Matches
<1>3. (clock <= TTL => FirstLife)'
  BY DEF IInv, TypeOK, Rows, FirstLife, Holders, ReadFailed, Reads, Matches
<1>4. OneOperation'
  BY DEF IInv, TypeOK, Rows, OneOperation, Writers, ReadFailed, Reads, Matches
<1>5. ReplayIsEffect'
  BY DEF IInv, TypeOK, Rows, OneOperation, ReplayIsEffect, ReadFailed, Reads, Matches
<1> QED BY <1>1, <1>2, <1>3, <1>4, <1>5 DEF IInv, Times

LEMMA ReclaimKeeps ==
  ASSUME IInv, NEW q \in Requests, Reclaim(q)
  PROVE  IInv'
<1>a. row \in Rows /\ now[q] + TTL \in Nat /\ now[q] + ProcessingTimeout \in Nat
  BY DEF IInv, TypeOK, Reclaim, ReclaimableRow
<1>b. row' = [row EXCEPT !.status = "processing", !.lock = now[q] + ProcessingTimeout,
                         !.expires = now[q] + TTL]
  BY DEF Reclaim
<1>0. /\ row' \in Rows /\ row'.id = row.id /\ row'.fp = row.fp
      /\ row'.status = "processing" /\ row'.expires = now[q] + TTL
  BY <1>a, <1>b DEF Rows
<1>1. TypeOK'
  BY <1>0 DEF IInv, TypeOK, Rows, Reclaim, ReclaimableRow
<1>2. Times'
  BY DEF IInv, TypeOK, Times, Reclaim, ReclaimableRow
<1>3. (clock <= TTL => FirstLife)'
  <2> SUFFICES ASSUME clock <= TTL PROVE FirstLife'
    BY DEF Reclaim
  <2>1. FirstLife
    BY DEF IInv
  <2>2. /\ pc[q] = "reclaim" /\ row.status = "failed_retryable"
        /\ row.id = 1 /\ id[q] = 1
    BY <2>1 DEF FirstLife, Reclaim, ReclaimableRow
  <2>3. Holders = {} /\ effects = {}
    BY <2>1, <2>2 DEF FirstLife
  <2>4. /\ pc' = [pc EXCEPT ![q] = "execute"] /\ id' = id /\ from' = from
        /\ effects' = effects /\ victim' = victim
    BY DEF Reclaim, IInv, TypeOK
  <2>5. Holders' = {q}
    BY <2>3, <2>4 DEF IInv, TypeOK, Holders
  <2>6. Exists' /\ row'.id = 1 /\ row'.expires > TTL
    BY <1>0, <2>2 DEF IInv, TypeOK
  <2>7. \A r \in Requests : pc'[r] = "reclaim" => pc[r] = "reclaim"
    BY <2>4 DEF IInv, TypeOK
  <2>8. \A r \in Requests : pc'[r] # "reclaimExpired"
    BY <2>1, <2>4 DEF IInv, TypeOK, FirstLife
  <2>9. pc'[q] = "execute"
    BY <2>4 DEF IInv, TypeOK
  <2> QED
    BY <1>0, <2>1, <2>2, <2>3, <2>4, <2>5, <2>6, <2>7, <2>8, <2>9 DEF FirstLife
<1>4. OneOperation'
  BY DEF IInv, TypeOK, Rows, OneOperation, Writers, Reclaim, ReclaimableRow
<1>5. ReplayIsEffect'
  BY DEF IInv, TypeOK, Rows, OneOperation, ReplayIsEffect, Reclaim, ReclaimableRow
<1> QED BY <1>1, <1>2, <1>3, <1>4, <1>5 DEF IInv, Times

LEMMA ReclaimExpiredLostKeeps ==
  ASSUME IInv, NEW q \in Requests, ReclaimExpiredLost(q)
  PROVE  IInv'
<1>1. TypeOK'
  BY DEF IInv, TypeOK, Rows, ReclaimExpiredLost, ReclaimableRow
<1>2. Times'
  BY DEF IInv, TypeOK, Times, ReclaimExpiredLost, ReclaimableRow
<1>3. (clock <= TTL => FirstLife)'
  BY DEF IInv, TypeOK, Rows, FirstLife, Holders, ReclaimExpiredLost, ReclaimableRow
<1>4. OneOperation'
  BY DEF IInv, TypeOK, Rows, OneOperation, Writers, ReclaimExpiredLost, ReclaimableRow
<1>5. ReplayIsEffect'
  BY DEF IInv, TypeOK, Rows, OneOperation, ReplayIsEffect, ReclaimExpiredLost, ReclaimableRow
<1> QED BY <1>1, <1>2, <1>3, <1>4, <1>5 DEF IInv, Times

LEMMA ReclaimLostKeeps ==
  ASSUME IInv, NEW q \in Requests, ReclaimLost(q)
  PROVE  IInv'
<1>1. TypeOK'
  BY DEF IInv, TypeOK, Rows, ReclaimLost, ReclaimableRow
<1>2. Times'
  BY DEF IInv, TypeOK, Times, ReclaimLost, ReclaimableRow
<1>3. (clock <= TTL => FirstLife)'
  BY DEF IInv, TypeOK, Rows, FirstLife, Holders, ReclaimLost, ReclaimableRow
<1>4. OneOperation'
  BY DEF IInv, TypeOK, Rows, OneOperation, Writers, ReclaimLost, ReclaimableRow
<1>5. ReplayIsEffect'
  BY DEF IInv, TypeOK, Rows, OneOperation, ReplayIsEffect, ReclaimLost, ReclaimableRow
<1> QED BY <1>1, <1>2, <1>3, <1>4, <1>5 DEF IInv, Times

LEMMA PerformKeeps ==
  ASSUME IInv, NEW q \in Requests, Perform(q)
  PROVE  IInv'
<1>1. TypeOK'
  BY DEF IInv, TypeOK, Rows, Perform
<1>2. Times'
  BY DEF IInv, TypeOK, Times, Perform
<1>3. (clock <= TTL => FirstLife)'
  BY DEF IInv, TypeOK, Rows, FirstLife, Holders, Perform
<1>4. OneOperation'
  BY DEF IInv, TypeOK, Rows, OneOperation, Writers, Perform
<1>5. ReplayIsEffect'
  BY DEF IInv, TypeOK, Rows, OneOperation, ReplayIsEffect, Perform
<1> QED BY <1>1, <1>2, <1>3, <1>4, <1>5 DEF IInv, Times

LEMMA MarkSucceededKeeps ==
  ASSUME IInv, NEW q \in Requests, MarkSucceeded(q)
  PROVE  IInv'
<1>a. SaveTime(q) + TTL \in Nat
  BY DEF IInv, TypeOK, SaveTime
<1>b. row \in Rows /\ row.id = id[q] =>
        row' = [row EXCEPT !.status = "succeeded", !.body = q, !.lock = 0,
                           !.expires = SaveTime(q) + TTL]
  BY DEF MarkSucceeded
<1>c. row \in Rows /\ row.id = id[q] =>
        /\ row'.id = row.id /\ row'.fp = row.fp /\ row'.status = "succeeded"
        /\ row'.expires = SaveTime(q) + TTL /\ row'.body = q
  BY <1>b DEF Rows
<1>d. row \in Rows /\ row.id = id[q] =>
        row' = [id |-> row.id, fp |-> row.fp, status |-> "succeeded", lock |-> 0,
                expires |-> SaveTime(q) + TTL, body |-> q]
  BY <1>b DEF Rows
<1>e. row \in Rows /\ row.id = id[q] => row' \in Rows
  BY <1>a, <1>d DEF Rows
<1>0. row \in Rows /\ row.id = id[q] =>
        /\ row' \in Rows /\ row'.id = row.id /\ row'.fp = row.fp
        /\ row'.status = "succeeded" /\ row'.expires = SaveTime(q) + TTL
        /\ row'.body = q
  BY <1>c, <1>e
<1>1. TypeOK'
  BY <1>0 DEF IInv, TypeOK, Rows, MarkSucceeded, SaveTime
<1>2. Times'
  BY DEF IInv, TypeOK, Times, MarkSucceeded, SaveTime
<1>3. (clock <= TTL => FirstLife)'
  <2> SUFFICES ASSUME clock <= TTL PROVE FirstLife'
    BY DEF MarkSucceeded
  <2>1. FirstLife
    BY DEF IInv
  <2>2. q \in Holders /\ row \in Rows /\ row.id = id[q] /\ id[q] = 1 /\ effects = {q}
    BY <2>1 DEF IInv, TypeOK, FirstLife, Holders, MarkSucceeded
  <2>3. /\ pc' = [pc EXCEPT ![q] = "done"] /\ id' = id /\ from' = from
        /\ effects' = effects /\ victim' = victim
    BY DEF MarkSucceeded
  <2>4. Holders' = {}
    BY <2>1, <2>2, <2>3 DEF IInv, TypeOK, FirstLife, Holders
  <2>5. Exists' /\ row'.id = 1 /\ row'.expires > TTL
    BY <1>0, <2>2 DEF IInv, TypeOK, SaveTime, MarkSucceeded
  <2>6. \A r \in Requests : pc'[r] = "reclaim" => pc[r] = "reclaim"
    BY <2>3 DEF IInv, TypeOK
  <2>7. \A r \in Requests : pc'[r] # "reclaimExpired"
    BY <2>1, <2>3 DEF IInv, TypeOK, FirstLife
  <2> QED
    BY <1>0, <2>1, <2>2, <2>3, <2>4, <2>5, <2>6, <2>7 DEF FirstLife
<1>4. OneOperation'
  BY DEF IInv, TypeOK, Rows, OneOperation, Writers, MarkSucceeded, SaveTime
<1>5. ReplayIsEffect'
  BY DEF IInv, TypeOK, Rows, OneOperation, ReplayIsEffect, MarkSucceeded, SaveTime
<1> QED BY <1>1, <1>2, <1>3, <1>4, <1>5 DEF IInv, Times

LEMMA MarkFailedRetryableKeeps ==
  ASSUME IInv, NEW q \in Requests, MarkFailedRetryable(q)
  PROVE  IInv'
<1>a. SaveTime(q) + TTL \in Nat /\ clock + Backoff \in Nat
  BY DEF IInv, TypeOK, SaveTime
<1>b. row \in Rows /\ row.id = id[q] =>
        row' = [row EXCEPT !.status = "failed_retryable", !.lock = clock + Backoff,
                           !.expires = SaveTime(q) + TTL]
  BY DEF MarkFailedRetryable, FailedRow
<1>0. row \in Rows /\ row.id = id[q] =>
        /\ row' \in Rows /\ row'.id = row.id /\ row'.fp = row.fp
        /\ row'.status = "failed_retryable" /\ row'.expires = SaveTime(q) + TTL
  BY <1>a, <1>b DEF Rows
<1>1. TypeOK'
  BY <1>0 DEF IInv, TypeOK, Rows, MarkFailedRetryable, SaveTime, FailedRow
<1>2. Times'
  BY DEF IInv, TypeOK, Times, MarkFailedRetryable, SaveTime, FailedRow
<1>3. (clock <= TTL => FirstLife)'
  <2> SUFFICES ASSUME clock <= TTL PROVE FirstLife'
    BY DEF MarkFailedRetryable
  <2>1. FirstLife
    BY DEF IInv
  <2>2. q \in Holders /\ row \in Rows /\ row.id = id[q] /\ id[q] = 1 /\ effects = {}
    BY <2>1 DEF IInv, TypeOK, FirstLife, Holders, MarkFailedRetryable
  <2>3. /\ pc' = [pc EXCEPT ![q] = "done"] /\ id' = id /\ from' = from
        /\ effects' = effects /\ victim' = victim
    BY DEF MarkFailedRetryable
  <2>4. Holders' = {}
    BY <2>1, <2>2, <2>3 DEF IInv, TypeOK, FirstLife, Holders
  <2>5. Exists' /\ row'.id = 1 /\ row'.expires > TTL
    BY <1>0, <2>2 DEF IInv, TypeOK, SaveTime, MarkFailedRetryable
  <2>6. \A r \in Requests : pc'[r] = "reclaim" => pc[r] = "reclaim"
    BY <2>3 DEF IInv, TypeOK
  <2>7. \A r \in Requests : pc'[r] # "reclaimExpired"
    BY <2>1, <2>3 DEF IInv, TypeOK, FirstLife
  <2> QED
    BY <1>0, <2>1, <2>2, <2>3, <2>4, <2>5, <2>6, <2>7 DEF FirstLife
<1>4. OneOperation'
  BY DEF IInv, TypeOK, Rows, OneOperation, Writers, MarkFailedRetryable, SaveTime, FailedRow
<1>5. ReplayIsEffect'
  BY DEF IInv, TypeOK, Rows, OneOperation, ReplayIsEffect, MarkFailedRetryable, SaveTime, FailedRow
<1> QED BY <1>1, <1>2, <1>3, <1>4, <1>5 DEF IInv, Times

LEMMA RenewKeeps ==
  ASSUME IInv, NEW q \in Requests, Renew(q)
  PROVE  IInv'
<1>a. clock + TTL \in Nat /\ clock + ProcessingTimeout \in Nat
  BY DEF IInv, TypeOK
<1>b. row \in Rows /\ row' = Extended(clock) =>
        row' = [row EXCEPT !.lock = clock + ProcessingTimeout, !.expires = clock + TTL]
  BY DEF Extended
<1>0. row \in Rows /\ row' = Extended(clock) =>
        /\ row' \in Rows /\ row'.id = row.id /\ row'.fp = row.fp
        /\ row'.status = row.status /\ row'.expires = clock + TTL
        /\ row'.body = row.body
  BY <1>a, <1>b DEF Rows
<1>1. TypeOK'
  BY <1>0 DEF IInv, TypeOK, Rows, Renew, Extended, request
<1>2. Times'
  BY DEF IInv, TypeOK, Times, Renew, Extended, request
<1>3. (clock <= TTL => FirstLife)'
  BY <1>0 DEF IInv, TypeOK, Rows, FirstLife, Holders, Renew, Extended, request
<1>4. OneOperation'
  <2>1. /\ Exists' = Exists
        /\ Exists => /\ row'.id = row.id /\ row'.fp = row.fp
                     /\ row'.status = row.status /\ row'.body = row.body
    BY <1>0, NoRowIsNone DEF IInv, TypeOK, Renew
  <2>2. UNCHANGED <<nextId, id, pc, fingerprint, effects>>
    BY DEF Renew, request, given
  <2> QED BY <2>1, <2>2 DEF IInv, OneOperation, Writers
<1>5. ReplayIsEffect'
  BY DEF IInv, TypeOK, Rows, OneOperation, ReplayIsEffect, Renew, Extended, request
<1> QED BY <1>1, <1>2, <1>3, <1>4, <1>5 DEF IInv, Times

LEMMA StatementFailsKeeps ==
  ASSUME IInv, NEW q \in Requests, StatementFails(q)
  PROVE  IInv'
<1>1. TypeOK'
  BY DEF IInv, TypeOK, Rows, StatementFails
<1>2. Times'
  BY DEF IInv, TypeOK, Times, StatementFails
<1>3. (clock <= TTL => FirstLife)'
  BY DEF IInv, TypeOK, Rows, FirstLife, Holders, StatementFails
<1>4. OneOperation'
  BY DEF IInv, TypeOK, Rows, OneOperation, Writers, StatementFails
<1>5. ReplayIsEffect'
  BY DEF IInv, TypeOK, Rows, OneOperation, ReplayIsEffect, StatementFails
<1> QED BY <1>1, <1>2, <1>3, <1>4, <1>5 DEF IInv, Times

LEMMA RenewFailsKeeps ==
  ASSUME IInv, NEW q \in Requests, RenewFails(q)
  PROVE  IInv'
<1>1. TypeOK'
  BY DEF IInv, TypeOK, Rows, RenewFails, request
<1>2. Times'
  BY DEF IInv, TypeOK, Times, RenewFails, request
<1>3. (clock <= TTL => FirstLife)'
  BY DEF IInv, TypeOK, Rows, FirstLife, Holders, RenewFails, request
<1>4. OneOperation'
  BY DEF IInv, TypeOK, Rows, OneOperation, Writers, RenewFails, request
<1>5. ReplayIsEffect'
  BY DEF IInv, TypeOK, Rows, OneOperation, ReplayIsEffect, RenewFails, request
<1> QED BY <1>1, <1>2, <1>3, <1>4, <1>5 DEF IInv, Times

LEMMA CrashKeeps ==
  ASSUME IInv, NEW q \in Requests, Crash(q)
  PROVE  IInv'
<1>1. TypeOK'
  BY DEF IInv, TypeOK, Rows, Crash
<1>2. Times'
  BY DEF IInv, TypeOK, Times, Crash
<1>3. (clock <= TTL => FirstLife)'
  BY DEF IInv, TypeOK, Rows, FirstLife, Holders, Crash
<1>4. OneOperation'
  BY DEF IInv, TypeOK, Rows, OneOperation, Writers, Crash
<1>5. ReplayIsEffect'
  BY DEF IInv, TypeOK, Rows, OneOperation, ReplayIsEffect, Crash
<1> QED BY <1>1, <1>2, <1>3, <1>4, <1>5 DEF IInv, Times

\* The cleanup finds nothing to select in the first life of the record.
LEMMA CleanupKeeps ==
  ASSUME IInv, Cleanup
  PROVE  IInv'
<1>1. TypeOK'
  BY DEF IInv, TypeOK, Rows, Cleanup, SelectVictim, DeleteVictim, Expired, request
<1>2. Times'
  BY DEF IInv, Times, Cleanup, SelectVictim, DeleteVictim, request
<1>3. (clock <= TTL => FirstLife)'
  BY DEF IInv, TypeOK, Rows, FirstLife, Holders, Cleanup, SelectVictim,
         DeleteVictim, Expired, request
<1>4. OneOperation'
  BY DEF IInv, TypeOK, OneOperation, Writers, Cleanup, SelectVictim,
         DeleteVictim, request
<1>5. ReplayIsEffect'
  BY DEF IInv, ReplayIsEffect, Cleanup, SelectVictim, DeleteVictim, request
<1> QED BY <1>1, <1>2, <1>3, <1>4, <1>5 DEF IInv, Times

LEMMA TickKeeps ==
  ASSUME IInv, Tick
  PROVE  IInv'
<1>1. TypeOK'
  BY DEF IInv, TypeOK, Tick, request
<1>2. Times'
  BY DEF IInv, TypeOK, Times, Tick, request
<1>3. (clock <= TTL => FirstLife)'
  BY DEF IInv, TypeOK, FirstLife, Holders, Tick, request
<1>4. OneOperation'
  BY DEF IInv, OneOperation, Writers, Tick, request
<1>5. ReplayIsEffect'
  BY DEF IInv, ReplayIsEffect, Tick, request
<1> QED BY <1>1, <1>2, <1>3, <1>4, <1>5 DEF IInv, Times

LEMMA StutterKeeps ==
  ASSUME IInv, UNCHANGED vars
  PROVE  IInv'
  BY DEF IInv, TypeOK, FirstLife, Holders, OneOperation, Writers,
         ReplayIsEffect, vars

\* The inductive invariant holds: the first life of a record, the fingerprints
\* of those who may write to it, and the responses replayed.
THEOREM Invariance == Spec => []IInv
<1>1. IInv /\ [Next]_vars => IInv'
  <2> SUFFICES ASSUME IInv, [Next]_vars PROVE IInv'
    OBVIOUS
  <2>1. ASSUME NEW q \in Requests, Start(q) PROVE IInv'
    BY <2>1, StartKeeps
  <2>2. ASSUME NEW q \in Requests, Serve(q) PROVE IInv'
    BY <2>2, CreateKeeps, CreateConflictsKeeps, ReadRefusesKeeps,
       ReadExpiredKeeps, ReadSucceededKeeps, ReadUnreadableKeeps,
       ReadProcessingKeeps, ReadBackoffKeeps, ReadFailedKeeps, ReclaimKeeps,
       ReclaimExpiredLostKeeps, ReclaimLostKeeps, PerformKeeps,
       MarkSucceededKeeps, MarkFailedRetryableKeeps, RenewKeeps DEF Serve
  <2>3. ASSUME NEW q \in Requests, Fault(q) PROVE IInv'
    BY <2>3, StatementFailsKeeps, RenewFailsKeeps, CrashKeeps DEF Fault
  <2>4. CASE Cleanup
    BY <2>4, CleanupKeeps
  <2>5. CASE Tick
    BY <2>5, TickKeeps
  <2>6. CASE UNCHANGED vars
    BY <2>6, StutterKeeps
  <2> QED BY <2>1, <2>2, <2>3, <2>4, <2>5, <2>6 DEF Next
<1> QED BY <1>1, InitIInv, PTL DEF Spec

\* Types are preserved.
THEOREM TypeCorrect == Spec => []TypeOK
<1>1. IInv => TypeOK
  BY DEF IInv
<1> QED BY <1>1, Invariance, PTL

\* The operation of a key takes effect at most once before its first record
\* can expire (TryReclaim and Execute's switch on the status).
THEOREM EffectOnce == Spec => []OnceBeforeExpiry
<1>1. IInv => OnceBeforeExpiry
  BY DEF IInv, FirstLife, OnceBeforeExpiry
<1> QED BY <1>1, Invariance, PTL

\* A stored failure hides no effect: the retry it allows is the first effect.
THEOREM FailureIsHonest == Spec => []FailureHidesNoEffect
<1>1. IInv => FailureHidesNoEffect
  BY DEF IInv, FirstLife, FailureHidesNoEffect
<1> QED BY <1>1, Invariance, PTL

\* A replayed response is that of an operation that took effect for the same
\* payload, also after expiry, takeover and cleanup.
THEOREM ReplayIsHonest == Spec => []ReplayIsEffect
<1>1. IInv => ReplayIsEffect
  BY DEF IInv
<1> QED BY <1>1, Invariance, PTL

-----------------------------------------------------------------------------
(* The lease of a detached execution.                                        *)

LEMMA StartLease ==
  ASSUME IInv, LeaseInv, NEW q \in Requests, Start(q)
  PROVE  LeaseInv'
BY DEF IInv, TypeOK, LeaseInv, Fresh, Lease, Claiming, Start

\* A statement of q takes nothing from an execution that created its record: q's own
\* record is another one, unless q is that execution.
LEMMA ServeLease ==
  ASSUME IInv, LeaseInv, NEW q \in Requests, Serve(q)
  PROVE  LeaseInv'
<1>0. TypeOK /\ OneOperation /\ (Exists => row \in Rows)
  BY DEF IInv, TypeOK
<1> USE DEF LeaseInv, Fresh, Lease, Claiming, TypeOK, Rows
<1>1. CASE Create(q)
  BY <1>0, <1>1 DEF Create, OneOperation
<1>2. CASE CreateConflicts(q)
  BY <1>0, <1>2 DEF CreateConflicts
<1>3. CASE ReadRefuses(q)
  BY <1>0, <1>3 DEF ReadRefuses, Matches
<1>4. CASE ReadExpired(q)
  <2>1. row.expires <= clock
    BY <1>0, <1>4 DEF IInv, ReadExpired
  <2>2. detached /\ faults + 2 <= TTL => \A r \in Requests : ~Fresh(r)
    BY <1>0, <1>4, <2>1 DEF ReadExpired
  <2>3. \A r \in Requests : pc'[r] \in Running => pc[r] \in Running /\ claim'[r] = claim[r]
    BY <1>4 DEF ReadExpired
  <2> QED BY <1>0, <1>4, <2>2, <2>3 DEF ReadExpired
<1>5. CASE ReadSucceeded(q)
  BY <1>0, <1>5 DEF ReadSucceeded, Reads, Matches
<1>6. CASE ReadUnreadable(q)
  BY <1>0, <1>6 DEF ReadUnreadable, Reads, Matches
<1>7. CASE ReadProcessing(q)
  BY <1>0, <1>7 DEF ReadProcessing, Reads, Matches
<1>8. CASE ReadBackoff(q)
  BY <1>0, <1>8 DEF ReadBackoff, Reads, Matches
<1>9. CASE ReadFailed(q)
  BY <1>0, <1>9 DEF ReadFailed, Reads, Matches
<1>10. CASE Reclaim(q)
  BY <1>0, <1>10 DEF Reclaim, ReclaimableRow
<1>11. CASE ReclaimExpiredLost(q)
  BY <1>0, <1>11 DEF ReclaimExpiredLost, ReclaimableRow
<1>12. CASE ReclaimLost(q)
  BY <1>0, <1>12 DEF ReclaimLost, ReclaimableRow
<1>13. CASE Perform(q)
  BY <1>0, <1>13 DEF Perform
<1>14. CASE MarkSucceeded(q)
  BY <1>0, <1>14 DEF MarkSucceeded, SaveTime
<1>15. CASE MarkFailedRetryable(q)
  BY <1>0, <1>15 DEF MarkFailedRetryable, FailedRow, SaveTime
<1>16. CASE Renew(q)
  <2>1. CASE Exists /\ row.id = id[q] /\ row.status = "processing"
    <3>1. row' = [row EXCEPT !.lock = clock + ProcessingTimeout, !.expires = clock + TTL]
      BY <1>16, <2>1 DEF Renew, Extended
    <3>2. row' \in Rows /\ row'.id = row.id /\ row'.status = row.status /\ row'.expires = clock + TTL
      <4>1. row \in Rows /\ clock + TTL \in Nat /\ clock + ProcessingTimeout \in Nat
        BY <1>0, <2>1
      <4> HIDE DEF TypeOK, LeaseInv
      <4> QED BY <3>1, <4>1 DEF Rows
    <3>3. UNCHANGED <<given, victim, nextId, clock, faults, renewing, pc, now, claim, id>>
      BY <1>16, <2>1 DEF Renew, request
    <3>4. due' = due \ {q} /\ row'.expires + 0 >= clock' + TTL
      BY <1>0, <1>16, <3>2, <3>3 DEF Renew
    <3>5. ASSUME NEW r \in Requests, Fresh(r), Lease(r) PROVE Lease(r)'
      BY <1>0, <3>2, <3>3, <3>4, <3>5
    <3>6. \A r \in Requests : Fresh(r)' => Fresh(r)
      BY <3>3
    <3> HIDE DEF Lease, Fresh
    <3> QED BY <3>3, <3>5, <3>6
  <2>2. CASE ~(Exists /\ row.id = id[q] /\ row.status = "processing")
    BY <1>0, <1>16, <2>2 DEF Renew, request
  <2> QED BY <2>1, <2>2
<1> QED BY <1>1, <1>2, <1>3, <1>4, <1>5, <1>6, <1>7, <1>8, <1>9, <1>10, <1>11, <1>12,
           <1>13, <1>14, <1>15, <1>16 DEF Serve

\* A fault is charged to what it delays: a failed renewal to the record, a statement
\* that fails or a crash ends the request.
LEMMA FaultLease ==
  ASSUME IInv, LeaseInv, NEW q \in Requests, Fault(q)
  PROVE  LeaseInv'
<1>0. /\ TypeOK /\ faults' = faults + 1 /\ UNCHANGED <<given, clock, row, nextId, victim, now, claim, id>>
      /\ \A r \in Requests : pc'[r] # pc[r] => r = q /\ pc'[r] \in {"done", "crashed"}
  BY DEF IInv, TypeOK, Fault, StatementFails, RenewFails, Crash, Answer, Goto, given, request
<1>1. faults' + 2 <= TTL => faults + 2 <= TTL
  BY <1>0 DEF TypeOK
<1>2. ASSUME NEW r \in Requests, Claiming(r)' PROVE Claiming(r)
  BY <1>0, <1>2 DEF Claiming
<1>3. ASSUME NEW r \in Requests, Fresh(r)', Lease(r) PROVE Lease(r)'
  <2>1. pc'[r] = pc[r] /\ Fresh(r)
    BY <1>0, <1>3 DEF Fresh, Running
  <2>2. (r \in renewing => r \in renewing') /\ (r # q => (r \in due <=> r \in due'))
    <3>1. CASE RenewFails(q)
      BY <3>1 DEF RenewFails
    <3>2. CASE StatementFails(q) \/ Crash(q)
      <4>1. pc'[q] \in {"done", "crashed"} /\ renewing' = renewing \ {q} /\ due' = due \ {q}
        BY <1>0, <3>2 DEF StatementFails, Crash, TypeOK
      <4>2. r # q
        BY <1>3, <4>1 DEF Fresh
      <4> QED BY <4>1, <4>2
    <3> QED BY <3>1, <3>2 DEF Fault
  <2>3. row'.expires + faults' + (IF r \in due' THEN 1 ELSE 0) >= clock' + TTL
    <3>1. row.expires \in Nat /\ faults \in Nat /\ clock \in Nat /\ TTL \in Nat
      BY <1>0, <1>3 DEF TypeOK, Lease, Rows, Exists
    <3>2. row.expires + faults + 1 >= clock + TTL
      BY <1>3, <3>1 DEF Lease
    <3>3. row'.expires = row.expires /\ clock' = clock
      BY <1>0
    <3> QED BY <1>0, <1>3, <2>2, <3>1, <3>2, <3>3 DEF Lease
  <2> QED BY <1>0, <1>3, <2>2, <2>3 DEF Lease, Exists
<1>4. ASSUME NEW r \in Requests, Fresh(r)' PROVE Fresh(r)
  BY <1>0, <1>4 DEF Fresh, Running
<1> QED BY <1>0, <1>1, <1>2, <1>3, <1>4 DEF LeaseInv, TypeOK

LEMMA CleanupLease ==
  ASSUME IInv, LeaseInv, Cleanup
  PROVE  LeaseInv'
<1>1. CASE SelectVictim
  BY <1>1 DEF IInv, TypeOK, Rows, OneOperation, LeaseInv, Fresh, Lease, Claiming, SelectVictim,
     Expired, request
<1>2. CASE DeleteVictim
  BY <1>2 DEF IInv, TypeOK, Rows, LeaseInv, Fresh, Lease, Claiming, DeleteVictim, request
<1> QED BY <1>1, <1>2 DEF Cleanup

\* A tick makes every claim that is under way a tick later, which is a fault, and every
\* detached execution's renewal due.
LEMMA TickLease ==
  ASSUME IInv, LeaseInv, Tick
  PROVE  LeaseInv'
<1>1. /\ clock' = clock + 1 /\ due' = renewing /\ due = {} /\ faults' \in {faults, faults + 1}
      /\ UNCHANGED <<given, row, nextId, victim, request, renewing>>
      /\ \A r \in Requests : Claiming(r) => faults' = faults + 1
  BY DEF Tick
<1>2. TypeOK /\ (Exists => row \in Rows)
  BY DEF IInv, TypeOK
<1>3. faults' + 2 <= TTL => faults + 2 <= TTL
  BY <1>1, <1>2 DEF TypeOK
<1>4. ASSUME NEW r \in Requests, Claiming(r)', now[r] + faults >= clock
      PROVE  now'[r] + faults' >= clock'
  BY <1>1, <1>2, <1>4 DEF TypeOK, Claiming, request
<1>5. ASSUME NEW r \in Requests, Fresh(r), Lease(r) PROVE Lease(r)'
  <2>1. row.expires \in Nat /\ clock \in Nat /\ faults \in Nat
    BY <1>2, <1>5 DEF TypeOK, Rows, Lease
  <2>2. row.expires + faults >= clock + TTL
    BY <1>1, <1>5, <2>1 DEF Lease
  <2>3. row'.expires + faults' + (IF r \in due' THEN 1 ELSE 0) >= clock' + TTL
    BY <1>1, <1>5, <2>1, <2>2 DEF Lease
  <2> QED BY <1>1, <1>5, <2>3 DEF Lease, request
<1>6. \A r \in Requests : (Fresh(r)' <=> Fresh(r)) /\ (Claiming(r)' <=> Claiming(r))
  BY <1>1 DEF Fresh, Claiming, request
<1> QED BY <1>1, <1>3, <1>4, <1>5, <1>6 DEF LeaseInv

\* The renewals' period is at most a third of the TTL (idempotency.go:469), so a
\* detached execution keeps the record it created as long as no more than TTL - 2 ticks
\* are lost to failed renewals and a late claim: it is neither deleted nor taken
\* over while it runs, whatever the cleanup and other requests of the key do.
THEOREM LeaseIsHeld == Spec => []DetachedLeaseHeld
<1>1. Init => LeaseInv
  BY DEF Init, LeaseInv, Fresh, Claiming
<1>2. IInv /\ LeaseInv /\ [Next]_vars => LeaseInv'
  <2>1. IInv /\ LeaseInv /\ UNCHANGED vars => LeaseInv'
    BY DEF LeaseInv, Fresh, Lease, Claiming, vars
  <2> QED BY <2>1, StartLease, ServeLease, FaultLease, CleanupLease, TickLease DEF Next
<1>3. IInv /\ LeaseInv => DetachedLeaseHeld
  BY DEF IInv, TypeOK, Rows, LeaseInv, Fresh, Lease, DetachedLeaseHeld
<1> QED BY <1>1, <1>2, <1>3, Invariance, PTL DEF Spec
=============================================================================
