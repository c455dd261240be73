---------------------------- MODULE Idempotency ----------------------------
(***************************************************************************)
(* The idempotency coordinator: Execute calls that carry one scope and     *)
(* Idempotency-Key, the row of idempotency_records they share, and the     *)
(* cleanup service.  Every repository call is one statement and one step;  *)
(* a request reads the clock once, when it starts, and compares with that  *)
(* value from then on.                                                     *)
(***************************************************************************)
EXTENDS Integers

CONSTANTS Requests,           \* the Execute calls
          Payloads,           \* fingerprints of method, route, actor and payload
          Fingerprints,       \* the payloads the requests may have
          None,               \* no request
          TTL,                \* opts.TTL, in ticks
          ProcessingTimeout,  \* of the processing lock, in ticks
          Backoff,            \* FailedRetryBackoff, in ticks
          MaxClock,           \* bound on the clock
          LastStart,          \* bound on the time requests arrive
          MaxRun,             \* bound on the ticks a request runs
          MaxFaults           \* bound on crashes, stalls and failed statements

ASSUME IdempotencyAssumption ==
  /\ TTL \in Nat \ {0} /\ ProcessingTimeout \in Nat /\ Backoff \in Nat
  /\ {MaxClock, LastStart, MaxRun, MaxFaults} \subseteq Nat
  /\ None \notin Requests
  /\ Fingerprints \subseteq [Requests -> Payloads]

VARIABLES
  fingerprint,
  detached,  \* the scope's handler sets ExecutionTimeout > 0
  clock,     \* the time, the same for the instances and the database
  row,       \* the row of the key; NoRow when there is none
  nextId,    \* BIGSERIAL
  victim,    \* the row DeleteExpired has selected, 0 if none
  pc, now, claim, from, id,
  answer,    \* what Execute returned, "none" while it runs
  replay,    \* the request whose response was replayed
  effects,   \* requests whose business operation took effect
  due,       \* requests whose renewal has not yet run in this tick
  renewing,  \* requests whose renewal goroutine is alive
  faults

given == <<fingerprint, detached>>
vars == <<given, clock, row, nextId, victim, pc, now, claim, from, id, answer,
          replay, effects, due, renewing, faults>>
request == <<pc, now, claim, from, id, answer, replay>>

Statuses == {"processing", "succeeded", "failed_retryable"}
Rows == [id : Nat \ {0}, fp : Payloads, status : Statuses,
         lock : Nat, expires : Nat, body : Requests \cup {None}]
\* A missing row; BIGSERIAL ids start at 1.
NoRow == [id |-> 0]
Exists == row # NoRow

Steps == {"idle", "create", "read", "reclaimExpired", "reread", "reclaim",
          "execute", "saveOk", "saveFail", "done", "crashed"}
Running == {"execute", "saveOk", "saveFail"}
Answers == {"none", "Done", "Replayed", "Failed", "KeyConflict", "InProgress",
            "RetryBackoff", "StoreUnavailable"}

Init ==
  /\ fingerprint \in Fingerprints /\ detached \in BOOLEAN
  /\ clock = 1 /\ row = NoRow /\ nextId = 1 /\ victim = 0
  /\ pc = [r \in Requests |-> "idle"]
  /\ now = [r \in Requests |-> 0]
  /\ claim = [r \in Requests |-> "none"]
  /\ from = [r \in Requests |-> "processing"]
  /\ id = [r \in Requests |-> 0]
  /\ answer = [r \in Requests |-> "none"]
  /\ replay = [r \in Requests |-> None]
  /\ effects = {} /\ due = {} /\ renewing = {} /\ faults = 0

-----------------------------------------------------------------------------
\* Helpers: leaving Execute with an answer, and starting the operation.

Answer(r, a) ==
  /\ pc' = [pc EXCEPT ![r] = "done"]
  /\ answer' = [answer EXCEPT ![r] = a]
  /\ renewing' = renewing \ {r}
  /\ due' = due \ {r}
  /\ UNCHANGED <<now, claim, from, id>>

Goto(r, step) == pc' = [pc EXCEPT ![r] = step]

Claimed(r, mode, i) ==
  /\ Goto(r, "execute")
  /\ claim' = [claim EXCEPT ![r] = mode]
  /\ id' = [id EXCEPT ![r] = i]
  /\ renewing' = IF detached THEN renewing \cup {r} ELSE renewing
  /\ UNCHANGED <<now, from, answer, replay, due>>

\* MUTANT: the lock is not compared with the request's time.
ReclaimableAnyLock(r, status) ==
  Exists /\ row.id = id[r] /\ row.status \in {status, "processing"}
\* The WHERE clause of TryReclaim: lock = 0 stands for a NULL locked_until.
ReclaimableRow(r, status) ==
  Exists /\ row.id = id[r] /\ row.status = status /\ row.lock <= now[r]

\* MUTANT: a key reused with another payload is not refused.
MatchesAny(r) == TRUE
Matches(r) == row.fp = fingerprint[r]

\* MUTANT: the renewal extends the lock only.
ExtendedLockOnly(t) == [row EXCEPT !.lock = t + ProcessingTimeout]
Extended(t) == [row EXCEPT !.lock = t + ProcessingTimeout, !.expires = t + TTL]

-----------------------------------------------------------------------------
\* One action per repository call of Execute.

Start(r) ==
  /\ pc[r] = "idle" /\ clock <= LastStart
  /\ Goto(r, "create")
  /\ now' = [now EXCEPT ![r] = clock]
  /\ UNCHANGED <<given, clock, row, nextId, victim, claim, from, id, answer, replay,
                 effects, due, renewing, faults>>

\* CreateProcessing: INSERT ... ON CONFLICT DO NOTHING.
Create(r) ==
  /\ pc[r] = "create" /\ ~Exists
  /\ row' = [id |-> nextId, fp |-> fingerprint[r], status |-> "processing",
             lock |-> now[r] + ProcessingTimeout, expires |-> now[r] + TTL,
             body |-> None]
  /\ nextId' = nextId + 1
  /\ Claimed(r, "new", nextId)
  /\ UNCHANGED <<given, clock, victim, effects, faults>>

CreateConflicts(r) ==
  /\ pc[r] = "create" /\ Exists
  /\ Goto(r, "read")
  /\ UNCHANGED <<given, clock, row, nextId, victim, now, claim, from, id, answer,
                 replay, effects, due, renewing, faults>>

\* GetByScopeAndKeyHash finds no row, or one of another payload.
ReadRefuses(r) ==
  /\ pc[r] \in {"read", "reread"}
  /\ IF Exists THEN ~Matches(r) /\ Answer(r, "KeyConflict")
               ELSE Answer(r, "StoreUnavailable")
  /\ UNCHANGED <<given, clock, row, nextId, victim, replay, effects, faults>>

\* The first read finds an expired row, whatever its status.
ReadExpired(r) ==
  /\ pc[r] = "read" /\ Exists /\ Matches(r) /\ row.expires <= now[r]
  /\ Goto(r, "reclaimExpired")
  /\ from' = [from EXCEPT ![r] = row.status]
  /\ id' = [id EXCEPT ![r] = row.id]
  /\ UNCHANGED <<given, clock, row, nextId, victim, now, claim, answer, replay,
                 effects, due, renewing, faults>>

\* The switch on the status of the row that was read, expired or not if it
\* was read for the second time.
Reads(r, status) ==
  /\ pc[r] \in {"read", "reread"} /\ Exists /\ Matches(r)
  /\ pc[r] = "read" => row.expires > now[r]
  /\ row.status = status

ReadSucceeded(r) ==
  /\ Reads(r, "succeeded")
  /\ Answer(r, "Replayed")
  /\ replay' = [replay EXCEPT ![r] = row.body]
  /\ UNCHANGED <<given, clock, row, nextId, victim, effects, faults>>

\* The stored response was truncated and cannot be decoded.
ReadUnreadable(r) ==
  /\ Reads(r, "succeeded")
  /\ Answer(r, "StoreUnavailable")
  /\ UNCHANGED <<given, clock, row, nextId, victim, replay, effects, faults>>

ReadProcessing(r) ==
  /\ Reads(r, "processing")
  /\ Answer(r, "InProgress")
  /\ UNCHANGED <<given, clock, row, nextId, victim, replay, effects, faults>>

ReadBackoff(r) ==
  /\ Reads(r, "failed_retryable") /\ row.lock > now[r]
  /\ Answer(r, "RetryBackoff")
  /\ UNCHANGED <<given, clock, row, nextId, victim, replay, effects, faults>>

ReadFailed(r) ==
  /\ Reads(r, "failed_retryable") /\ row.lock <= now[r]
  /\ Goto(r, "reclaim")
  /\ from' = [from EXCEPT ![r] = "failed_retryable"]
  /\ id' = [id EXCEPT ![r] = row.id]
  /\ UNCHANGED <<given, clock, row, nextId, victim, now, claim, answer, replay,
                 effects, due, renewing, faults>>

\* TryReclaim; it keeps the row's fingerprint and body.
Reclaim(r) ==
  /\ pc[r] \in {"reclaimExpired", "reclaim"} /\ ReclaimableRow(r, from[r])
  /\ row' = [row EXCEPT !.status = "processing",
                        !.lock = now[r] + ProcessingTimeout,
                        !.expires = now[r] + TTL]
  /\ Claimed(r, IF pc[r] = "reclaim" THEN "reclaim" ELSE "expired_reclaim",
             id[r])
  /\ UNCHANGED <<given, clock, nextId, victim, effects, faults>>

ReclaimExpiredLost(r) ==
  /\ pc[r] = "reclaimExpired" /\ ~ReclaimableRow(r, from[r])
  /\ Goto(r, "reread")
  /\ UNCHANGED <<given, clock, row, nextId, victim, now, claim, from, id, answer,
                 replay, effects, due, renewing, faults>>

ReclaimLost(r) ==
  /\ pc[r] = "reclaim" /\ ~ReclaimableRow(r, from[r])
  /\ Answer(r, "InProgress")
  /\ UNCHANGED <<given, clock, row, nextId, victim, replay, effects, faults>>

\* execute(ctx): an operation that reports an error has had no effect.
Perform(r) ==
  /\ pc[r] = "execute"
  /\ \/ Goto(r, "saveOk") /\ effects' = effects \cup {r}
     \/ Goto(r, "saveFail") /\ UNCHANGED effects
  /\ UNCHANGED <<given, clock, row, nextId, victim, now, claim, from, id, answer,
                 replay, due, renewing, faults>>

\* A detached execution takes a new time for its result.
SaveTime(r) == IF detached THEN clock ELSE now[r]

\* MarkSucceeded: by id alone, whatever the row has become.
MarkSucceeded(r) ==
  /\ pc[r] = "saveOk"
  /\ row' = IF Exists /\ row.id = id[r]
              THEN [row EXCEPT !.status = "succeeded", !.body = r, !.lock = 0,
                               !.expires = SaveTime(r) + TTL]
              ELSE row
  /\ Answer(r, "Done")
  /\ UNCHANGED <<given, clock, nextId, victim, replay, effects, faults>>

\* MUTANT: the status and the error reason are swapped.
FailedRowSwapped(r) == [row EXCEPT !.status = "EXECUTION_FAILED",
                                   !.lock = clock + Backoff,
                                   !.expires = SaveTime(r) + TTL]
FailedRow(r) == [row EXCEPT !.status = "failed_retryable",
                            !.lock = clock + Backoff,
                            !.expires = SaveTime(r) + TTL]

MarkFailedRetryable(r) ==
  /\ pc[r] = "saveFail"
  /\ row' = IF Exists /\ row.id = id[r] THEN FailedRow(r) ELSE row
  /\ Answer(r, "Failed")
  /\ UNCHANGED <<given, clock, nextId, victim, replay, effects, faults>>

\* ExtendProcessingLock, once in every third of the lease; the goroutine ends
\* when the row is not its own to extend.
Renew(r) ==
  /\ r \in due
  /\ due' = due \ {r}
  /\ IF Exists /\ row.id = id[r] /\ row.status = "processing"
       THEN row' = Extended(clock) /\ UNCHANGED renewing
       ELSE renewing' = renewing \ {r} /\ UNCHANGED row
  /\ UNCHANGED <<given, clock, nextId, victim, request, effects, faults>>

-----------------------------------------------------------------------------
\* Faults.

\* A statement fails, or the client has gone: an attached request uses the
\* client's context to store its result.  The row stays as it is.
StatementFails(r) ==
  /\ faults < MaxFaults
  /\ pc[r] \in Steps \ {"idle", "execute", "done", "crashed"}
  /\ Answer(r, IF pc[r] = "saveFail" THEN "Failed" ELSE "StoreUnavailable")
  /\ faults' = faults + 1
  /\ UNCHANGED <<given, clock, row, nextId, victim, replay, effects>>

RenewFails(r) ==
  /\ faults < MaxFaults /\ r \in due
  /\ due' = due \ {r} /\ faults' = faults + 1
  /\ UNCHANGED <<given, clock, row, nextId, victim, request, effects, renewing>>

Crash(r) ==
  /\ faults < MaxFaults
  /\ pc[r] \in Steps \ {"idle", "done", "crashed"}
  /\ Goto(r, "crashed") /\ faults' = faults + 1
  /\ due' = due \ {r} /\ renewing' = renewing \ {r}
  /\ UNCHANGED <<given, clock, row, nextId, victim, now, claim, from, id, answer,
                 replay, effects>>

-----------------------------------------------------------------------------
\* DeleteExpired selects its victims on a snapshot and deletes them by id, so
\* a row changed by another statement in between is deleted all the same.

\* MUTANT: only finished rows are cleaned up.
ExpiredFinished(t) == Exists /\ row.expires <= t /\ row.status # "processing"
Expired(t) == Exists /\ row.expires <= t

SelectVictim ==
  /\ victim = 0 /\ Expired(clock)
  /\ victim' = row.id
  /\ UNCHANGED <<given, clock, row, nextId, request, effects, due, renewing, faults>>

DeleteVictim ==
  /\ victim # 0
  /\ row' = IF Exists /\ row.id = victim THEN NoRow ELSE row
  /\ victim' = 0
  /\ UNCHANGED <<given, clock, nextId, request, effects, due, renewing, faults>>

\* A third of the lease passes: every renewal has run.  That a request spends
\* it between two statements of its claim is one of the faults.
Claiming(r) ==
  pc[r] \in {"create", "read", "reclaimExpired", "reread", "reclaim"}

Tick ==
  /\ clock < MaxClock /\ due = {}
  /\ \A r \in Requests :
       pc[r] \notin {"idle", "done", "crashed"} => clock - now[r] < MaxRun
  /\ IF \A r \in Requests : ~Claiming(r)
       THEN UNCHANGED faults
       ELSE faults < MaxFaults /\ faults' = faults + 1
  /\ clock' = clock + 1
  /\ due' = renewing
  /\ UNCHANGED <<given, row, nextId, victim, request, effects, renewing>>

Serve(r) ==
  \/ Create(r) \/ CreateConflicts(r) \/ ReadRefuses(r) \/ ReadExpired(r)
  \/ ReadSucceeded(r) \/ ReadUnreadable(r)
  \/ ReadProcessing(r) \/ ReadBackoff(r) \/ ReadFailed(r)
  \/ Reclaim(r) \/ ReclaimExpiredLost(r) \/ ReclaimLost(r)
  \/ Perform(r) \/ MarkSucceeded(r) \/ MarkFailedRetryable(r) \/ Renew(r)

Fault(r) == StatementFails(r) \/ RenewFails(r) \/ Crash(r)
Cleanup == SelectVictim \/ DeleteVictim

Next == \/ \E r \in Requests : Start(r) \/ Serve(r) \/ Fault(r)
        \/ Cleanup \/ Tick

Spec == Init /\ [][Next]_vars

\* The same without the cleanup service, which may be minutes late.
UncleanedSpec ==
  Init /\ [][Tick \/ \E r \in Requests : Start(r) \/ Serve(r) \/ Fault(r)]_vars

\* Handlers run to their end or crash, the cleanup service runs every minute.
FairSpec == /\ Spec /\ WF_vars(Tick) /\ WF_vars(Cleanup)
            /\ \A r \in Requests : WF_vars(Serve(r))

-----------------------------------------------------------------------------
\* Types of the row and of what each request remembers of it.
TypeOK ==
  /\ fingerprint \in [Requests -> Payloads] /\ detached \in BOOLEAN
  /\ clock \in Nat /\ nextId \in Nat \ {0} /\ victim \in Nat /\ faults \in Nat
  /\ row \in Rows \cup {NoRow}
  /\ pc \in [Requests -> Steps]
  /\ now \in [Requests -> Nat]
  /\ claim \in [Requests -> {"none", "new", "expired_reclaim", "reclaim"}]
  /\ from \in [Requests -> Statuses]
  /\ id \in [Requests -> Nat]
  /\ answer \in [Requests -> Answers]
  /\ replay \in [Requests -> Requests \cup {None}]
  /\ effects \subseteq Requests /\ due \subseteq Requests
  /\ renewing \subseteq Requests

\* Until the first record can have expired, the operation of a key takes
\* effect at most once, whatever requests race, fail, crash, are cancelled or
\* retry after a backoff (idempotency_test.go:356).
OnceBeforeExpiry ==
  clock <= TTL => \A r, s \in effects : r = s

\* A replayed response is that of an operation that took effect, for a request
\* with the same method, route, actor and payload; also when a stale executor
\* overwrote the record or the row was deleted and made anew.
ReplayIsEffect ==
  \A r \in Requests : answer[r] = "Replayed" =>
    replay[r] \in effects /\ fingerprint[replay[r]] = fingerprint[r]

\* Before the first record can have expired, a record that invites a retry
\* hides no effect: neither a crash nor a response that could not be stored
\* turns an operation that took effect into a retryable failure.
FailureHidesNoEffect ==
  clock <= TTL /\ Exists /\ row.status = "failed_retryable" => effects = {}

\* A detached execution keeps the record it created, however long it runs beyond the
\* lock and the TTL (idempotency_detached_test.go:76), also when renewals fail or the
\* claim was late, as long as two of the ticks in a TTL are left.
DetachedLeaseHeld ==
  detached /\ faults + 2 <= TTL =>
    \A r \in Requests : pc[r] \in Running /\ claim[r] = "new" =>
      /\ Exists /\ row.id = id[r] /\ row.status = "processing"
      /\ row.expires > clock

\* The test of concurrent requests says that they "should execute business
\* side-effect once" (idempotency_test.go:417): two operations of one key that
\* took effect were requested at least a TTL apart.
SingleSideEffect ==
  \A r, s \in effects :
    r # s => now[r] + TTL <= now[s] \/ now[s] + TTL <= now[r]

\* A key does not stay taken: crashed executors' records and stored responses
\* all expire and are deleted.
KeyIsFreed == Exists ~> ~Exists

\* The inductive invariant behind OnceBeforeExpiry.  Before the first expiry
\* one row is created, with id 1, and never deleted; at most one request runs
\* the operation, only while the row says so; and an effect leaves the row
\* processing or succeeded, which nobody can reclaim.
Holders == {r \in Requests : pc[r] \in Running}
FirstLife ==
  /\ victim = 0
  /\ IF Exists THEN row.id = 1 /\ row.expires > TTL ELSE nextId = 1
  /\ \A r \in Requests : id[r] \in {0, 1} /\ pc[r] # "reclaimExpired"
  /\ \A r \in Holders : Exists /\ row.status = "processing" /\ id[r] = 1
  /\ \A r, s \in Holders : r = s
  /\ \A r \in Holders : pc[r] # "saveOk" => effects = {}
  /\ \A r \in Holders : pc[r] = "saveOk" => effects = {r}
  /\ \A r \in Requests : pc[r] = "reclaim" =>
       id[r] = 1 /\ from[r] = "failed_retryable"
  /\ effects # {} => Exists /\ row.status # "failed_retryable"
  /\ \A r, s \in effects : r = s

\* And the part behind ReplayIsEffect: whoever may still write to the row by
\* its id has the row's fingerprint, because ids are never used twice.
Writers == {r \in Requests : pc[r] \in Running \cup {"reclaim", "reclaimExpired"}}
OneOperation ==
  /\ Exists => row.id < nextId
  /\ \A r \in Requests : id[r] < nextId
  /\ \A r \in Writers :
       Exists /\ row.id = id[r] => row.fp = fingerprint[r]
  /\ \A r \in Requests : pc[r] = "saveOk" => r \in effects
  /\ Exists /\ row.status = "succeeded" =>
       row.body \in effects /\ row.fp = fingerprint[row.body]

IInv ==
  /\ TypeOK
  /\ clock >= 1
  /\ \A r \in Requests : now[r] <= clock /\ (pc[r] # "idle" => now[r] >= 1)
  /\ clock <= TTL => FirstLife
  /\ OneOperation
  /\ ReplayIsEffect

\* Behind DetachedLeaseHeld: a claim is late by no more ticks than there were faults;
\* the record that a detached execution created belongs to it alone, and expires a TTL
\* after the last renewal, which is at most one tick ago but for those that failed.
Lease(r) ==
  /\ Exists /\ row.id = id[r] /\ row.status = "processing"
  /\ row.expires + faults + (IF r \in due THEN 1 ELSE 0) >= clock + TTL
  /\ r \in renewing /\ victim # id[r]
  /\ \A s \in Requests : s # r => id[s] # id[r]

Fresh(r) == pc[r] \in Running /\ claim[r] = "new"

LeaseInv ==
  /\ victim < nextId
  /\ detached /\ faults + 2 <= TTL =>
       /\ \A r \in Requests : Claiming(r) => now[r] + faults >= clock
       /\ \A r \in Requests : Fresh(r) => Lease(r)
=============================================================================
