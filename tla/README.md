# TLA+ models of apipool

apipool is an API gateway in Go: clients call it with keys it sold them, it
forwards the calls to pooled accounts of upstream providers, bills them, and
takes payments for balances and subscriptions. This directory holds TLA+ models
of the parts of the backend where money, an upstream account or a promise about
a retry depends on the order in which concurrent requests, jobs, callbacks and
crashes happen; the TLC
configurations that check them on small instances; and proofs, checked by TLAPS,
of what matters most for instances of every size.

Paths below are relative to `src/backend/internal/` unless they begin with
`src/`. `PROJECT.json` maps each definition to the lines it models, and lists
the runs, one mutation for each checked property, the findings, the hazards and
the theorems.

    tlc -workers 2 -config MCPaymentOrder_safety.cfg MCPaymentOrder
    tlapm PaymentOrderProofs.tla

## 1. Inventory

### State, operations and interactions

The program runs as one or more instances over one PostgreSQL database and one
Redis. A request is a goroutine; the state it shares with others is rows, Redis
keys, and per-process structures under mutexes. There is no message bus: one
instance tells another something by a row (outbox tables, versions) or a key.

| Component | State | Operations | Interacts with | What is hard |
|---|---|---|---|---|
| Payment orders (`service/payment_order*.go`, `payment_fulfillment.go`) | row of `payment_orders`, `payment_audit_logs` | create, webhook, verify, cancel, expire, reconcile, admin retry, fulfil | providers, redeem codes, subscriptions, affiliates, cache invalidation | duplicate and late webhooks; a lease whose version is `updated_at`; crashes between credit and completion |
| Refunds (`service/payment_refund.go`) | same row and audits, `users.balance` | request, prepare, execute, query-and-finalise | gateway, usage billing on the same balance | gateway answers that are lost or pending; failed rollbacks; a unique audit per action |
| Providers (`payment/`) | provider's order, instance configuration | create, query, cancel, refund, notify | orders, refunds | external answers |
| Affiliates, redeem codes, promo codes | rows with a used flag or a balance | accrue, thaw, transfer; redeem | orders, balance | single transactions with CAS |
| Idempotency (`service/idempotency.go`) | row of `idempotency_records` | claim, read, reclaim, run, store, renew, clean up | handlers of payments and of administration | an executor that outlives its lock; expiry; cleanup |
| In-flight reservations (`service/billing_inflight_reservation.go`, `repository/billing_inflight_cache.go`) | ZSET and HASH per scope in Redis, a reference count per handle | reserve, renew, acquire, release | handlers, billing tasks, balance cache | admission on a balance read earlier; release against charge; late renewals |
| Usage billing (`service/gateway_usage_billing.go`, `usage_record_worker_pool.go`, `billing_cache_service.go`, `user_platform_quota_flusher.go`) | balance, subscription windows, key quotas, usage logs with a dedup row, caches, write queue | submit, charge, deduct or invalidate a cache, flush | reservations, eligibility | a bounded pool; cache writes out of order |
| Concurrency slots (`service/concurrency_service.go`) | ZSET of slots and wait counters | acquire, wait, release, clean up | every gateway handler | crashed owners, counters at their limit |
| Batch images (`service/batch_image_*.go`) | jobs, items, billing holds, Redis queue | submit, lease, poll, settle, release, recover | balance, provider | a hold against a crash; leased queue entries |
| OAuth refresh (`service/oauth_refresh_api.go`, `token_refresh_service.go`) | tokens of an account, a lock in Redis | refresh in a request, refresh in background | gateways | a refresh token may be used once |
| Scheduler snapshot and outbox (`service/scheduler_*.go`) | outbox rows, watermark, versioned buckets in Redis | append, poll, rebuild, swap | gateways | a watermark that runs ahead of a commit |
| User message queue (`service/user_msg_queue_service.go`) | lock and delay per account in Redis | acquire, release, reap | gateways | orphan locks |
| Scheduling, failover, rate limits, breakers | per-account blocks with deadlines, sticky sessions | choose, block, unblock, retry | upstream | mostly data |
| Auth cache and outbox | two-level cache of API keys, outbox rows | get, invalidate, publish | administration | a stale entry after an update |
| Leader and system-operation locks | Redis or database lock, idempotency record | acquire, renew, release | jobs | expiry during work |
| WebSocket pool | leases of connections in a process | acquire, preempt, release | gateways | leases and preemption |
| The rest | see `PROJECT.json` | administration, authentication, settings, reporting, mail, plugins, ORM, frontend | | rows and I/O, little interleaving |

### What makes each correct

* Payment orders: an order is credited once, only for a payment of its amount;
  completed means credited; a paid order is never closed; a webhook that is looked
  at is acknowledged only when nothing is left to do; an order that is paid gets
  completed once what it credits is there.
* Refunds: one refund runs at a time; no more is deducted than the order; an
  order shown as refundable holds no deduction and had nothing sent back; a
  refunded order had its money sent back.
* Idempotency: one effect per key until the record expires; a replayed response
  is that of such an effect; a retry is invited only when nothing was done; a key
  is freed in the end.
* Reservations: a reservation is withdrawn only when its charges are visible;
  reservations admitted together fit the balance; none is left for ever.
* Usage billing: each request is charged once in every ledger it counts in, and a
  cache never shows more than the database for longer than it promises.
* Concurrency slots: at most the limit held; slots of a crashed owner come back.
* Batch images: a hold is settled or released exactly once, and only for its own
  job; a completed job is paid for; no job is lost; a hold ends once the provider can
  be reached.
* OAuth refresh: the account keeps its valid refresh token; only a token the provider
  no longer accepts takes it out of service; the cached access token follows the stored one.
* Scheduler outbox: every change reaches the snapshot in the end; nothing read
  before a bucket was retired is published after it.

The hazards behind these, each at its line, are in `PROJECT.json` under
"hazards"; a hazard of several lines is listed at the one where it bites. Those without a property
say why: the pending-order and daily limits of order creation span several orders while the module
models one, and a batch capture whose answer is lost is one the code may release as well.

## 2. Plan

Modules in the order of the money at stake; those before *next* are done. What a deployment or an
order fixes (its type, its provider, attached or detached) is chosen in `Init`, so that one run covers all of it.

| Module | Composes or implements | Runs | Proved |
|---|---|---|---|
| `OrderLedger` | abstract: open, received, credited, decided, settled | through `PaymentOrder` | refinement by `PaymentOrder` |
| `PaymentOrder` | orders, webhooks, leases, redeem codes, assignment, rebate | `order_*` | all safety |
| `PaymentRefund` | refunds, gateway | `refund_*` | all safety |
| `Idempotency` | coordinator, cleanup | `idem_*` | all safety |
| `InflightReservation` | reservations, billing tasks, balance cache | `inflight_*` | all safety |
| `HoldLedger` | abstract: held, captured or released; the job done or void | through `BatchImage` | refinement by `BatchImage` |
| `BatchImageQueue`, `BatchImage` | Redis queue and job lock; submission, cancellation, replay, recovery, workers, settlement | `batch_*` | all safety |
| `SnapshotBucket`, `SchedulerOutbox`, `SchedulerSnapshot` | epoch fence; outbox and watermark; pollers, full rebuilds, readers, group lifecycle | `sched_*` | all safety |
| `OAuthProvider`, `TokenRefresh` | rotating grants; refresh, token cache, administrators | `token_*` | all safety |
| *next:* usage billing | dedup row, balance, subscription and key quotas, platform quota flusher; abstract: each request charged once | charge retried, flusher crashed | once-only charge |
| concurrency slots | acquire, wait counters, cleanup by prefix | limit, crash | limit |
| reservations in other scopes | `ReserveFixedCharge` on subscription and key scopes | three scopes | |
| auth cache outbox, user message queue, leader and system-operation lock, order-creation limits, WebSocket pool, failover loop | small modules | | |
| orders with refunds | composition of `PaymentOrder` and `PaymentRefund` on one row | both sides at once | credited minus refunded |
| further proofs | | | `CacheFollows` under faults it could survive; the safety lemmas that an argument for the liveness properties would rest on |

## 3. The models

In all of them a step is one database statement or transaction, one Redis script
or one call of a provider; any other actor may run between two steps. Crashes,
failed statements, lost answers and stalls draw on one budget, `MaxFaults`.
Where a condition or an update is worth mutating it has a name of its own, and
the form a plausible bug would give it stands before it and is used by nothing.

### PaymentOrder and OrderLedger

One order. `orderType`, `status`, `paidAt` and `tradeNo` are columns of the row (the
type is chosen in `Init` and stays); `code`,
`assigned` and `rebated` are the redeem code and the two audit rows that make a
repeated fulfilment harmless; `acked` says that the provider has been told to stop sending the
webhook, `unseen` that this was done without a look at the order; `credits` and `rebates` count what the user and the
inviter got. Workers are request goroutines of any instance, each at a step `pc`
of a `task`: webhook, cancel, expire, verify (the payer's check, and the
reconciliation job for an order not yet due) or admin retry.

| Code | Actions |
|---|---|
| `CreateOrder`, `invokeProvider` after the insert | `ProviderAccepts`, `ProviderRejects` |
| `checkPaidWithOptions`, `cancelCore` | `QueryFails`, `QueryPaid`, `QueryUnpaid`, `CancelUpstream`, `CancelRow`, `PersistTradeNo` |
| `confirmPayment`, `toPaid`, `alreadyProcessed` | `Confirm`, `ToPaid`, `AlreadyProcessed`, `LoseRead` |
| `Execute*Fulfillment`, `acquirePaymentFulfillmentLease` | `Execute`, `Acquire`, `AcquireLost`, `ReloadLease` |
| `doBalance`, `doSub`, the rebate | `LookupCode`, `CreateCode`, `RedeemCode`, `CheckGroup`, `TargetMissing`, `AssignSubscription`, `InvalidateCache`, `ApplyRebate` |
| `handleNotify`, `GetWebhookProviders` | `StartWebhook`, `WebhookUnseen`, the webhook's ways to `Return` |
| `markCompleted`, `markFailed` | `MarkCompleted`, `CompleteLost`, `MarkFailed` |

`updated_at` is both the version of the lease and the clock of the grace period.
It is modelled by what the code asks of it: `holders`, the workers whose lease
version equals it (any write to the row empties the set), and `recent`, whether it is
less than five minutes old. The five minutes of `paymentGraceMinutes` and of
`paymentFulfillmentLeaseDuration` are the same number, so one flag serves both.
Time passes while no worker is under the lease; a worker that does stall that
long is a fault. A statement that committed although its answer was lost is the
step followed by `StepFails`.

Two things that are no fault and have no budget. `GetWebhookProviders` may find no provider for a
notification: `handleNotify` then answers success to every provider but WeChat Pay
(`handler/payment_webhook_handler.go:90`), whatever the order waits for (`WebhookUnseen`). A
notification that WeChat Pay is refused, or that fails its verification, changes nothing and is
sent again: it is no step of the model. And what an order credits may be missing: `doSub` refuses a group that is
deleted or inactive, the assignment one that is deleted or of another type, and the redemption
a user who is deleted. Each attempt marks the order FAILED, any number of times or for ever
(`TargetMissing`). The properties say where they except the two: `AckOnlyWhenSettled` is about the
webhooks that are looked at, and `UnackedPaidCompletes` about orders whose target is there in the end.

`OrderLedger` is the order without requests, leases, crashes or time: closed,
received, credited once, the rebate decided once, settled. `ImplementsLedger`
says that `PaymentOrder` implements it under the mapping `ledgerPhase`.

Abstracted: the refund statuses are one status "REFUND"; the expiry job's leader
lock is left out, so that several jobs may run, which the code must survive; the
instance and currency of a payment are part of "the expected amount". Left out:
redemption of the order's code by a user who types it in, orders of a type no
fulfilment supports, failed audit writes that nothing reads, and the creation
limits. An order whose base amount for the rebate is not positive, or a deployment without affiliates,
makes no claim of a rebate; the model has them as orders whose rebate is decided.

### PaymentRefund

One completed balance order, with the requests of any number of admins, the
user's balance (which usage may spend meanwhile) and the gateway. The steps of a
request follow `ExecuteRefund`: `Lock` (the CAS to REFUNDING), `Deduct`, the
gateway call, then `MarkRefundOk`, `MarkRefundPending` or the rollback with
`RestoreStatus` or `MarkFailed`. `Query` and the `Finalize*` actions are
`QueryAndFinalizeRefund`. `plan` is the `RefundPlan` that `PrepareRefund` built on
an earlier copy. `audits` is the set of actions in the audit table, because the
table is unique in (order, action): a best-effort second write changes nothing,
and one inside a transaction rolls it back.

The gateway sends back at most what was paid. Where `keyed` holds, providers (Stripe, for
instance) recognise a refund of the same order and amount and repeat their
answer; to the others (Alipay) each attempt is new. `lostAnswers` counts refunds that were
made and reported as errors; `lostWrites` counts audits that were not written or
not read and balance writes reported as failed although they took effect. The
properties say under which of them they hold.

Left out: deduction of subscription days, orders without a trade number, and
rows that were REFUND_PENDING before the audit existed.

### Idempotency

Each element of `Requests` is one call of `Execute` on the same scope and key,
with the `fingerprint` that `Init` gives it. `row` is the record; ids are never used twice. A request
reads the clock once, at `Start`, and compares with that value ever after, as the
code does; only detached executions read it again. `Create`, `Read*`, `Reclaim*`, `Perform`,
`MarkSucceeded` and `MarkFailedRetryable` are the repository calls; `Renew` is the
goroutine that extends lock and expiry of a detached execution each third of the
lease (one tick); `detached` is a property of the scope's handler, chosen in `Init`. `SelectVictim` and `DeleteVictim` are the two halves of
`DeleteExpired`, whose DELETE by id under READ COMMITTED may remove a row that
was reclaimed after the subquery saw it.

`Crash` also stands for a client's disconnect and for a final statement that
committed with its answer lost, which leave the same rows. An operation that
reports an error is taken to have had no effect. A tick while a request is still
claiming is a fault (a stall). Left out: calls without a key, observe-only mode,
and the handler's fail-open mode, which no production caller sets.

### InflightReservation

One user in balance mode. `members` are the reservations in Redis and `left` the
ticks each has left (a tick is a third of the TTL, the period of the renewal);
counting down in place of a clock needs no bound on time. An
expired member stays until a script purges it, or until the keys expire.
`Check` and `Read` are the two reads of the cached balance, `Reserve` and
`Refuse` the script with the balance as its argument. `refs`, `handles` and
`releasing` are the handle: `Acquire` happens in `Submit`, `decRef` in `Return`
and `Finish`, and the release script is the separate step `Release`. Tasks charge
the database (`Charge`) and then the cache, by invalidation or deduction or
through the write queue `writes`, whose workers take entries in any order.

A call that timed out may have been run by Redis: a reservation may exist without a
handle (`ReserveFails`), and a renewal may arrive later within the same tick
(`RenewArrives`; the call's timeout is two seconds, far below a tick). The
fail-open paths are faults. A charge may exceed the estimate. Execution of a
task inline, when the pool is stopped or in sync mode, is a special case of a queued one; a
`GetUserBalance` that joins another by singleflight equals an earlier
arrival; a request refused for another reason equals one that never starts.

Left out: recharges, the scopes of subscriptions and API keys, the estimate
itself, the wrapper that does not renew, and the dedup row of usage logs.

### BatchImage, BatchImageQueue and HoldLedger

One batch image job of one user, from `Submit` to the end of its billing hold. `status`,
`retry` and `lastError` are columns of the job; `claims` are the rows of
`usage_billing_dedup` that make hold, capture and release each take effect once, and
`ends` those of them that moved money. `others` is what the user's other jobs freeze.
`BatchImageQueue` is the Redis queue as the scripts of `repository/batch_image_queue.go` see one
job: the inflight key, its entries in the ready list (there may be several), the delayed and active sets, and
the job lock with its owner's token.

| Code | Actions |
|---|---|
| `Submit`, `abortOrphanProviderJob`, `releaseFailedSubmitHold` | `CreateJob` ... `SubmitEnqueue`, `AbortOrphan`, `SubmitRelease`, `MarkSubmitFailed`, `HideFailed` |
| `Cancel`, `Submit` under a known key | `StartCancel` ... `CancelRelease`, `StartReplay`, `ClientEnqueue` |
| `ReleaseStaleUnsubmittedOnce` | `RecoverFail`, `RecoverRelease`, `RecoverEnqueue` |
| `RunOnce`, job lock, heartbeat | `ReserveJob`, `LockJob`, `LockConflict`, `AckJob`, `RequeueJob`, `Unlock` |
| `Process`, `indexAndSettle` | `Load`, `Process`, `Get`, `MovesTo`, `Index`, `OutOfReach` |
| `Settle`, `failExhaustedSettlement` | `LoadSettlement`, `Capture`, `MarkSettled`, `RecordFailure`, `Exhausted*` |
| movers, TTLs | `MoveDelayed`, `RecoverActive`, `ExpireLock` |

Nothing in the code orders the writers: rows are protected by the transition
table (`CanTransition`), ends by their claims, and workers by the lock. `HoldLedger` says what this adds up to:
held once, captured or released, both only in doubt; `ImplementsLedger` is the refinement. `doubt` is set
by a fault that leaves a worker, or a later one, not knowing whether the capture took effect, or that
lets two workers run under the lock; the code then may end a hold twice, which the hazards say. `missed`
is set by a fault of the submission or of a later request: `JobIsOwned` and `HoldEnds` are about the jobs it has spared,
whatever happens to the workers.

`OutOfReach` is what a worker meets when the provider is not registered, the account is deleted or
unsuitable, the provider's job has no name, `Get` fails or the output is missing
(`service/batch_image_processor.go:75`, `:97`, `:189`). It is no fault and has no
budget: the job is queued again, any number of times or for ever, and since `Cancel`
fails on the same lookups (`service/batch_image_public.go:723`, the second outcome of `CancelUpstream`)
nothing then ends its hold. `HoldEnds` and `QueuedHoldEnds` therefore assume
`ReachableInTheEnd`: after some point no worker meets it any more. They say that the job goes on from
wherever it then is, with whatever else failed meanwhile. For a job that stays out of reach they claim nothing, and the
code has no limit after which it gives such a job up.

Left out: cleanup of outputs and the status it sets, downloads, prices and items,
`DeleteRecord`, the seven-day life of the inflight key, an owner whose user row is deleted
(`repository/usage_billing_repo.go:319` and `:356` then refuse capture and release, and the
hold stays frozen with the rest of that user's balance), and (by the budget) a second fault.

### SchedulerSnapshot, SnapshotBucket and SchedulerOutbox

One bucket of one group on one platform. `SnapshotBucket` is the set of Redis keys
that the Lua scripts of `repository/scheduler_cache.go` work on: the epoch of writers, the retired mark,
the last version and the published snapshot. `life` counts retirements and exists in the model only; it says
when a snapshot was read. `SchedulerOutbox` is the table and the watermark: rows get ids when inserted and
become visible at commit, an unhandled row with the same dedup key suppresses another, and
`Claim` is the list statement that frees that key. `late` marks a row that committed after a later one was polled.
`accounts` counts the changes of the group's accounts, which is all a snapshot needs to know of them.

`Poll` is `pollOutbox` with the handlers of account and group events; `Full` a full rebuild; `Rebuild` the
load and publication of one bucket, also by a request that misses the cache; `Lifecycle` is `prepareGroupLifecycle` under its
lease. Writers take the bucket lock with `TakeLock` and delete it whoever owns it by then. An account event
in the transaction of a usage charge is inserted before the commit (`InsertInTx`, `CommitTx`), the others after
it (`Enqueue`, which may fail).

Left out: the cache of single accounts, bulk, last-used and full-rebuild events, queries shared between
buckets, the coalescing of rebuild requests, the lag latch, the in-process cache, several
groups and platforms.

### TokenRefresh and OAuthProvider

One account whose provider rotates refresh tokens. `OAuthProvider` is the provider, modelled from the use
`service/oauth_refresh_api.go` makes of it: each grant has one valid turn, which a refresh ends. A
credentials document is a turn of a grant and the `_token_version` it was stored with. `cas` distinguishes Grok
accounts, whose refreshes write only if the document is the one presented, from
Claude's and OpenAI's, whose refreshes write unconditionally.

| Code | Actions |
|---|---|
| `RefreshIfNeeded` | `TakeMutex`, `TakeLock`, `LockHeld`, `LockFails`, `Reread`, `Present`, `Rejected`, `LoseAnswer`, `Recover`, `Persist`, `Purge`, `Release` |
| `GetAccessToken` of the three providers, `CheckTokenVersion`, the waits | `StartRequest`, `CheckTokenVersion`, `SetAccessToken`, `Await` |
| `refreshWithRetryWithRateGate`, `postRefreshActions` | `StartBackground`, `SetError`, `CoolDown`, `Invalidate` |
| `refreshSingleAccount`, `UpdateAccount`, `ApplyOAuthCredentials` | `StartManual`, `StartEdit`, `StartReauth`, `Load`, `UpdateAccount`, `ClearAccountError` |

`due` are the documents whose access token is about to expire: they get there by `Age` and stay. A caller's copy
of the account (`acct`, `tried`) may be older than the row. The Redis lock has an owner in the model and none in the code:
`Release` deletes it whoever has it. It lapses once its owner is gone; that an owner stalls for the whole
TTL is a fault. `late` marks a cache entry whose document was replaced between the version check
and the SET, a window the code leaves open. A token is dead when the provider no longer accepts it: `Rejected` stands for every
answer that the code takes for final, `access_denied` and refused entitlements
(`service/token_refresh_service.go:1435`) among them. `Await` and `Purge` each merge two reads of the code into one step.

Left out: Gemini and Antigravity, whose tokens do not rotate; the quarantine of Grok accounts
by requests (`grok_credential_failure.go`); accounts without a refresh token; rate gates, provider breakers,
the containment of errors that accounts of one provider share and of ambiguous 403 answers; the job's page cursor; the number of retries, which is arbitrary; and the scheduler's copies of an account, so that a
request starts from the row as it is.

## 4. Runs

Two of the interchangeable actors suffice for nearly every race of these
modules: each hazard listed is between one request that is late and one that
overtook it. The budgets are the smallest with which every fault, and every pair
that matters (a stall and then a crash, say), occurs; every action of each module
is taken in some passing run.

| Run | Bounds | Shows |
|---|---|---|
| `order_safety` | both order types, 2 symmetric workers, 3 faults, 1 swallowed read error | One credit, for the expected payment; each acknowledgement of a webhook that is looked at is of a settled or expired order, unless a read was lost; refinement of `OrderLedger`, so that a paid order is never closed, the rebate is decided once and after the credit, and COMPLETED comes after both and stays. Three faults allow a takeover of a stalled worker, a takeover of that one, and a crash. |
| `order_live` | both types, 2 workers, 1 fault | A PAID order whose webhook is still sent again is completed, if its group and user are there in the end; a due order leaves PENDING unless the provider reports another amount, also when its webhook was answered without being looked at. |
| `refund_safety` | both kinds of provider, 2 symmetric admins, an order of 2 units (so that it can be refunded in part), balance 3, overdraft bounded, 2 faults | The user loses at most the order's amount; a restored order holds nothing of it; refunded and refundable agree with what was sent back; without a fault or a second deferral a refund in REFUNDING has a request at work on it, so that none is stuck. |
| `refund_held` (fails) | no fault, an operator who polls | Finding 1. |
| `idem_key` | attached and detached; 3 requests, the third with the payload of the others or another; TTL 3, lock and backoff 1, starts until 4, runs of 3 ticks, clock to 10, 1 fault | One effect before the record can expire; replays; renewal keeps the record of a detached execution when the lock and the TTL it began with have run out, also when one renewal has failed or the claim was a tick late, which a TTL of 3 is the smallest to allow; every record is deleted in the end. Three requests of one payload are needed for two of them to reclaim what the third left. Requests that start at 4 find the first record expired, so that reclaims, deletions and re-creations occur; the clock goes on until a record renewed by the last execution has expired. |
| `idem_reclaim` (fails) | TTL 3, no fault, no cleanup | Finding 2. |
| `inflight_tasks` | 2 requests with estimates 1 and 2, on a balance of 3 that covers both or of 2 that does not; the first with 2 tasks that cost more than the estimate; TTL 3, 1 fault | Release only when settled; renewal outlives one missed call and revives nothing; the reservations in Redis never add up to more than a balance one of them was admitted with; the store is empty in the end, whatever crashed or hangs. |
| `inflight_visible` (fails) | 2 requests, no fault | Finding 3. |
| `batch_job` | 2 workers, hold 2 of which 1 is used, 2 retries of the settlement, 1 fault | The frozen balance is that of the holds; the job is never lost by the queue and leaves it only when its hold has ended; whatever becomes of the workers there is always somebody to go on with a submitted job and to end the hold of a failed one; refinement of `HoldLedger`, so that completed is paid; every hold ends once the provider and its job can be reached. Two retries are the fewest with a retry and an exhaustion; 1 of 2 tells capture from release in the balance. |
| `batch_leak` (fails) | no fault | Finding 4. |
| `sched_fresh` | 1 poller and 1 goroutine that rebuilds everything or serves a miss; 1 change of accounts, the group off and on, 1 fault | A retired bucket stays empty and an open one has nothing older than its retirement; a group's bucket follows its status once its events are handled; the watermark passes only what was handled; the cache comes to agree with the database. Two writers suffice for a late publication, and off and on for one that survives a retirement. One change means that an event suppressed inside an open transaction is not reached. |
| `token_rotation` | 2 workers in one process or two, each at any task; conditional and unconditional accounts; 2 grants of 2 turns, 1 act of an administrator or user, 1 fault | The grant is not lost; no live account is disabled; the cache follows the row; an expiring token is dealt with after a crash that leaves the lock. One turn to use per grant is enough for a token that is presented twice; a second grant is the one a user authorises while the first is being refreshed. |

Deadlock is not checked: orders, refunds and jobs come to rest, requests and tasks end,
the database stops changing at its bound, and the clock of `Idempotency` stops at its bound. Progress is what the
temporal properties check.

### Fairness

* `PaymentOrder!FairSpec`: weak fairness of each request's steps (goroutines run)
  and of time; strong fairness of `StartExpire`, because the job runs every minute,
  and of the webhook's redelivery until it is acknowledged, because providers
  resend on any other answer and the notification is not refused each time. It is strong because the model's two workers may both be busy, which
  goroutines never are. Nothing is assumed of payers and admins, nor that anybody sets a
missing group right: that is the premise of `UnackedPaidCompletes`.
* `PaymentRefund!PolledSpec`, used by the failing run only: weak fairness of a request
  that has started, of the gateway's decision, and of an operator who polls, so that the
  failure is not for want of any of them.
* `Idempotency!FairSpec`: weak fairness of time, which is bounded, of the cleanup
  service, which runs every minute, and of the steps of a request that has
  started. None of starts: a client need not retry.
* `InflightReservation!LiveSpec`: weak fairness of the end of requests, of release,
  renewal, key expiry and time. None for billing tasks, which may hang.
* `BatchImage!FairSpec`: weak fairness of each actor's steps once begun, of workers
  that look for jobs, of the movers and the stale-active recovery (tickers), of the
  expiry of a lock nobody keeps, and of the end of what the provider runs. A step that finds the provider out of reach is a
  step of the worker; that this comes to an end is the premise of the two liveness properties. None of
  clients, and none of the recovery job's choice of this job.
* `SchedulerSnapshot!FairSpec`: weak fairness of the pollers and of what is under way,
  of the ends of transactions, of queueing and of TTLs; strong fairness of
  `StartFull`, because the rebuild runs on a timer (its interval is taken to be
  positive) while in the instance one goroutine both rebuilds and serves misses.
* `TokenRefresh!FairSpec`: weak fairness of what is under way, of the end of a cooldown and
  of the lock's TTL; strong fairness of `StartBackground`, because the job visits every account
  again and again. `ExpiryHandled` is claimed only where requests leave the account alone in
  the end: the job skips an account whose lock is taken, and nothing stops requests from
  taking it each time.

## 5. Findings

1. `refund_held`. A refund that goes pending a second time (the first was
   refused in the end, and retried) writes a second REFUND_PENDING audit, which the unique
   index refuses; the transaction with the status is rolled back, the order
   stays in REFUNDING, from which no operation leads, and the deduction is kept even when the
   gateway refuses again (`service/payment_refund.go:839`).
2. `idem_reclaim`. Two requests that read the same expired succeeded record can
   both execute: `TryReclaim` compares status and lock, and both are again as the second one
   saw them once the first has finished (`repository/idempotency_repo.go:112`).
3. `inflight_visible`. The SET of a balance loaded before a charge is queued, and
   can be executed after it; the cache then hides a charge whose reservation is gone, until the
   entry expires (`service/billing_cache_service.go:335`).
4. `batch_leak`. A cancellation between the creation of a job and its hold claims the
   release before there is anything to release; the submission then takes the hold, is
   refused the next transition, and its own release is answered as already claimed. The
   hold stays frozen (`service/batch_image_public.go:760`).

Weaker disagreements between comments and code are hazards in `PROJECT.json`: a stalled worker can adopt the lease of the one that took over
(`service/payment_fulfillment.go:359`), a crashed key answers IN_PROGRESS until the TTL
(`service/idempotency.go:357`), the balance used by the reserve script was read before it
(`service/billing_inflight_reservation.go:319`), and the ten seconds before a consumed event is deleted do
not bring back an event that committed below the watermark
(`repository/scheduler_outbox_repo.go:122`): only the next full rebuild makes up for it.

## 6. Proofs

Every theorem holds for all values of the constants that satisfy the named
assumptions of its module: any sets of workers, admins, requests and tasks, any
amounts, timeouts and TTLs, any budget of faults and any bound on clocks. Every safety
invariant and every safety action property of the passing runs is the subject of a theorem. Each proof has the
same shape: an inductive invariant that implies the property; a lemma per action or group of actions shows that
it is preserved; the theorems follow from it. `IInv` (`TInv` for tokens; `FenceInv` and `BatchInv` for the scheduler) carries the properties that
hold whatever fails; a second invariant, relative to the first, carries each of those that
need more: `AnswerInv`, `GatewayInv`, `LeaseInv`, `RenewedInv`, `CoveredInv`, `OwnedInv`, `LifeInv`, `CacheInv`.

`PaymentOrderProofs` (assumption: the bounds are natural numbers).
`CreditOnce` is not inductive: a worker about to redeem must know that
the code is unused or that its CAS will refuse. `LedgerInv` states `credits` as a function of the
code and the assignment audit; `WorkerInv` what each worker knows from its step
(one at `complete` has the credit and the rebate decision behind it, whether or not it still
holds the lease); `PaymentInv` ties the row to the provider's order, in particular that a creation
request that still runs belongs to an order nobody can have paid, which is what
makes the unguarded write of FAILED harmless. From these: `CreditedOnce`,
`RebatedAfterCredit`, `CompletedWithCredit`, the action properties `CompletedStays` and
`PaidStays`, and `Refinement`: every step is a step of `OrderLedger` or leaves its variables alone. The lease plays no part
in the proofs of the credit: it is the redeem code's CAS and the assignment audit
that protect the money, which is why a worker that adopts another's lease does no harm to the money.
`AckSettled` looks at each way a webhook is answered with success: by a worker, or without a look at the order, which
`unseen` then records and which is the only such answer the property excepts besides a lost read. It rests on `AnswerInv`: a webhook never queries
or cancels, and once `toPaid`'s CAS has failed the row is neither PENDING nor CANCELLED and will not be again, so what
`alreadyProcessed` reads later is at least as settled as what made the CAS fail.

`PaymentRefundProofs` (the amount is positive; the balances are integers). `StatusInv` is exclusion: between
`Lock` and its final write a request is alone and the status is REFUNDING, so
its unguarded writes are safe. `HeldInv` says where the deduction is: with the attempt that runs, in the
pending audit, or marked by a REFUND_ROLLBACK_FAILED audit. Its marked case is an inequality,
because a retry of a marked order deducts nothing and gives back nothing. It is claimed only
while no write's outcome was lost. `RefundingRuns` adds that whoever is past the CAS is the one the status
REFUNDING stands for. `StatusFollowsGateway` relates the row to the gateway. `KnownInv` says what the row and
each request may take for sent back: a provider that recognises a refund has sent that amount, a pending
verdict is about the pending amount, and whoever is about to write REFUNDED has a plan of no more than what was
returned; it holds whatever is lost. `UnreturnedInv` says when nothing was sent back and nothing may be: before the gateway's answer, after its refusal,
and once a pending refund has failed; it is claimed while no answer was lost, since the code takes every error for a refusal.

`IdempotencyProofs` (TTL positive, timeouts natural numbers). `FirstLife` describes a key until its first record can
expire: one row with id 1, one holder at most, an effect only with the row processing
or succeeded. `OneOperation` needs no such limit: ids are never used twice,
so whoever may write to the row by its id has its fingerprint, which gives `ReplayIsHonest`
even though `MarkSucceeded` writes by id alone. `LeaseIsHeld` is an argument about time: the record that a detached
execution created belongs to it alone, is not the cleanup's victim, and what it has left, plus the renewal it is owed in
this tick, plus the faults so far, is at least the TTL (`Lease`). A claim that is late by a tick makes the record a tick older at
its creation, and a renewal that fails a tick older than it would be; both are faults, so the execution keeps its record while
there have been no more than TTL - 2 of them. The code renews at a third of the smaller of lease and TTL (`service/idempotency.go:469`), so
that a TTL has at least three ticks and one such fault is survived, and more where the lease is the shorter. It is
claimed for executions that created their record.

`InflightReservationProofs` (tasks are finite and disjoint from requests; estimates and costs positive). The count is
the running handler plus the tasks that hold a reference (`RefsExact`), unfinished tasks hold one
(`PendingHold`), and a handle is being withdrawn only at zero (`ReleasingSettled`). `HeldUntilSettled` and
`NothingRevived` are action properties over it. `HeldToTheEnd` counts: what a running handler's
reservation has left, plus the renewal it is owed in this tick, plus the faults so far, is at least the TTL
(`RenewedInv`); a tick takes one and owes one, a renewal in time gives it back, a late or failed one is a fault.
`NeverOvercommitted` needs the sum over a set that nobody has ordered. The fold of the model is unfolded into the recursive function it
stands for, and the facts about it (it exists, its value does not depend on the set it was computed on or on the order, and it grows with the
set) are each proved by way of a smallest set for which they fail, which well-foundedness of the subset order provides. Then a
reservation that the script admits is covered by its own balance together with any of the others, and every other step leaves fewer reservations, or
changes the balance of a request that has none yet.

`BatchImageProofs` (hold and retries positive, the cost at most the hold). No single guard keeps capture and
release apart, so the invariant says which steps of each actor are possible in each state of row and claims: until
the row is settling nothing is captured; from the choice between capture and exhaustion to its end the row stays
settling and the lock keeps other workers out, unless there is doubt; an exhausted settlement stays exhausted. From it
come `Paid`, `Frozen`, `AckWhenEnded` and `Refinement`. `NotLost` needs only the queue: each script
that takes the job out of one place puts it into another or drops the key. `AlwaysOwned` says who goes on: `Progressed` ties
the submission's step to the row it has made, so that queue, workers and the owner's requests only ever see submitted jobs;
`Owners` says that the key is there while the queue or a worker has an open job, that a
worker acknowledges only an ended one, and that whoever cancels a job under a submission goes on to release it.
It is claimed, as the property is, while no fault has hit the submission or a later request (`missed`) and nothing is in doubt; that no
error path of a request is taken then (`Undisturbed`) is part of it. A worker's fault does to job and queue what a worker's own step may do, short of
acknowledging the job (`WorkerFaultEffects`), so one lemma (`WorkOwned`) carries both.

`SchedulerSnapshotProofs` (bounds natural numbers, nobody is not a goroutine, and no snapshot is the mark for
none). The fence: a token is of an epoch not
above the present one, below it while the bucket is retired, and what was loaded under the present epoch is of the present
life; so the script that accepts only the present epoch of an open bucket publishes nothing older. The watermark:
everything a batch could list up to its last id is handled or still to be handled by that poll, and the last id is
claimed, so that an open row below it is late when it commits. The lifecycles (`LifecyclesSettle`): while the
bucket does not agree with the group there is an event that promises it will (`LifeInv`). Either the event is still to be
inserted; or some unhandled event is skipped by no batch, and everyone who is going to handle it with a status already
read has read the present one and will make of the bucket what it asks for (`Promised`). Whoever is about to apply a status holds the lease, and either
has the present status, or an event is left whose handler will read it again: that is why the order in which lifecycles of several instances
run does not matter. The property is claimed as soon as the events are handled, also while a lifecycle still runs.

`TokenRefreshProofs` (any placement of workers on processes). What the provider has given out is ordered by turns, so a
rejected token is dead for good, whatever fails and whoever writes: that is the part of `QuarantineJust` about Grok accounts.
The rest is claimed while no fault strikes: then at most one worker is between `reread` and `release`, what it has reread is
still stored when it presents it, and the valid turn is the stored one or the one in its hands. `TokenKept` allows one
re-authorisation of a Grok account besides, which the conditional write survives. `CacheIsFollowed` uses the order of the versions: while
nothing disturbs the account every copy of a document is the stored one or has a lower version, what a worker is going to store has a
higher one, and what it is going to put into the cache it has compared with the row; so a SET of an older document is one that the
row overtook after the comparison (`late`).

### Only model-checked

* All liveness, and the fairness it rests on, which is out of the provers' reach: `UnackedPaidCompletes`, `DueOrderResolves`, `KeyIsFreed`, `EventuallyFree`,
  `HoldEnds`, `QueuedHoldEnds`, `EventuallyFresh` and `ExpiryHandled`.
* What the failing runs refute.

## 7. What is not modelled

`PROJECT.json` lists each component with the reason. In short: the protocol
gateways, scheduling weights, content filters and prices are functions on data; administration,
settings, authentication and reporting are statements on single rows; providers,
mail, plugins, backups and the frontend are I/O. What a modelled component leaves out is
at the end of its part of section 3. The components with
interleavings of their own that have no module yet are in the plan above. Two facts about the
environment are taken as given: a PostgreSQL statement or transaction and a Redis script are atomic,
and the clocks of the instances and the database agree.
