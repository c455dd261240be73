---------------------------- MODULE PaymentOrder ----------------------------
(***************************************************************************)
(* One payment order of internal/service/payment_*.go: creation, provider  *)
(* webhook, cancellation, expiry, reconciliation, and the fulfilment that  *)
(* credits the order, run by any number of concurrent requests.            *)
(*                                                                         *)
(* A worker is one request goroutine (of any instance).  Each step is one  *)
(* database statement or transaction, or one provider call; between two    *)
(* steps every other worker may run.                                       *)
(*                                                                         *)
(* payment_orders.updated_at is the version of the fulfilment lease.       *)
(* Timestamps are abstracted by the two things the code asks of them:      *)
(*   holders  the workers whose lease.version equals the row's updated_at  *)
(*            (every write to the row empties it, time.Now() being new),   *)
(*   recent   whether updated_at is less than five minutes old, which is   *)
(*            both paymentGraceMinutes and paymentFulfillmentLeaseDuration.*)
(***************************************************************************)
EXTENDS Integers, FiniteSets

CONSTANTS
    Workers,     \* request goroutines
    MaxFaults,   \* bound: injected crashes, stalls, failed statements and calls
    MaxLostReads \* bound: reads whose error is swallowed by returning nil

ASSUME BoundsAssumption == MaxFaults \in Nat /\ MaxLostReads \in Nat

VARIABLES
    orderType, \* payment_orders.order_type
    unseen,    \* a webhook was answered with success before the order was looked at
    creation,  \* the CreateOrder request that owns the row
    status,    \* payment_orders.status; "REFUND" stands for every refund status
    paidAt,    \* payment_orders.paid_at is set
    tradeNo,   \* payment_trade_no holds the provider's own trade number
    recent,    \* updated_at is less than five minutes old
    holders,   \* workers whose lease.version is the current updated_at
    due,       \* expires_at has passed
    upstream,  \* the provider's order
    acked,     \* the provider got a success answer to its webhook
    code,      \* redeem_codes row of recharge_code
    assigned,  \* SUBSCRIPTION_ASSIGNED audit row of the order
    rebated,   \* AFFILIATE_REBATE_APPLIED or _SKIPPED audit row
    credits,   \* times the order was credited to the user
    rebates,   \* times a rebate was accrued to the inviter
    pc,        \* next step of each worker
    task,      \* entry point of each worker
    seen,      \* the copy of the order a query works on already had the trade number
    faults,    \* faults injected so far
    lostReads  \* swallowed read errors so far

outsideVars == <<orderType, unseen>>
rowVars == <<status, paidAt, tradeNo, recent, holders, due>>
ledgerVars == <<code, assigned, rebated, credits, rebates>>
workerVars == <<pc, task, seen>>
budgetVars == <<faults, lostReads>>
vars == <<outsideVars, creation, rowVars, upstream, acked, ledgerVars, workerVars, budgetVars>>

-----------------------------------------------------------------------------
\* payment.OrderTypeBalance and payment.OrderTypeSubscription.
OrderTypes == {"balance", "subscription"}

Statuses == {"PENDING", "PAID", "RECHARGING", "COMPLETED", "FAILED",
             "CANCELLED", "EXPIRED", "REFUND"}

\* Statuses from which a fulfilment may start.
Fulfillable == {"PAID", "FAILED", "RECHARGING"}

\* "paid": the expected amount arrived; "mispaid": another amount did.
Upstreams == {"none", "unpaid", "paid", "mispaid", "cancelled"}

Tasks == {"none", "webhook", "cancel", "expire", "verify", "retry"}

\* The steps at which a worker works under a lease it believes it holds.
LeaseSteps == {"lookup", "create", "redeem", "group", "assign", "invalidate", "rebate",
               "complete", "completeLost", "markFailed"}

Steps == LeaseSteps \cup
         {"idle", "query", "persist", "cancelUpstream", "cancelRow", "confirm",
          "toPaid", "already", "execute", "acquire", "acquireLost", "reload"}

FlagsOK ==
    /\ paidAt \in BOOLEAN /\ tradeNo \in BOOLEAN
    /\ recent \in BOOLEAN /\ due \in BOOLEAN
    /\ acked \in BOOLEAN /\ unseen \in BOOLEAN
    /\ assigned \in BOOLEAN /\ rebated \in BOOLEAN
    /\ seen \in [Workers -> BOOLEAN]

TypeOK ==
    /\ FlagsOK
    /\ orderType \in OrderTypes
    /\ creation \in {"invoking", "done", "failed"}
    /\ status \in Statuses
    /\ holders \subseteq Workers
    /\ upstream \in Upstreams
    /\ code \in {"none", "unused", "used"}
    /\ credits \in Nat /\ rebates \in Nat
    /\ pc \in [Workers -> Steps]
    /\ task \in [Workers -> Tasks]
    /\ faults \in Nat /\ lostReads \in Nat

-----------------------------------------------------------------------------
(* Helpers *)

\* Every ent update of the row sets updated_at to now.
Touch == recent' = TRUE /\ holders' = {}

SetStatus(s) ==
    /\ status' = s
    /\ Touch
    /\ UNCHANGED <<paidAt, tradeNo, due>>

\* Only the query looks at the worker's copy of the trade number.
GoTo(w, step) ==
    /\ pc' = [pc EXCEPT ![w] = step]
    /\ seen' = [seen EXCEPT ![w] = FALSE]
    /\ UNCHANGED <<task, acked>>

\* The request returns; a webhook that returns nil is answered with success.
Return(w, ok) ==
    /\ pc' = [pc EXCEPT ![w] = "idle"]
    /\ task' = [task EXCEPT ![w] = "none"]
    /\ seen' = [seen EXCEPT ![w] = FALSE]
    /\ acked' = (acked \/ (ok /\ task[w] = "webhook"))

Enter(w, t, step) ==
    /\ pc[w] = "idle"
    /\ pc' = [pc EXCEPT ![w] = step]
    /\ task' = [task EXCEPT ![w] = t]
    /\ seen' = [seen EXCEPT ![w] = tradeNo /\ step = "query"]
    /\ UNCHANGED <<outsideVars, creation, rowVars, upstream, acked, ledgerVars, budgetVars>>

\* One step of w that leaves the row, the ledger and the budgets alone.
OnlyMoves == UNCHANGED <<outsideVars, creation, rowVars, upstream, ledgerVars, budgetVars>>

FirstFulfilmentStep == IF orderType = "balance" THEN "lookup" ELSE "group"

-----------------------------------------------------------------------------
(* The conditions that guard the writes.  Some stand after the form they     *)
(* would have with a plausible bug; the runs must tell the two apart.       *)

\* cancelCore's CAS.
Cancellable == status = "PENDING"

\* confirmPayment: the amount paid is the amount due.
AmountMatches == upstream = "paid"

\* toPaid's CAS; EXPIRED for paymentGraceMinutes only.
Payable == status \in {"PENDING", "CANCELLED"} \/ (status = "EXPIRED" /\ recent)

\* acquirePaymentFulfillmentLease's CAS; a stale lease may be taken over.
AcquirableOnce == status \in {"PAID", "FAILED"}
Acquirable == status \in {"PAID", "FAILED"} \/ (status = "RECHARGING" /\ ~recent)

\* The CAS of markCompleted and markFailed.
LeaseIgnored(w) == TRUE
HoldsLease(w) == status = "RECHARGING" /\ w \in holders

\* RedeemCodeRepository.Use's CAS.
RedeemableTwice == code # "none"
Redeemable == code = "unused"

\* ensurePaymentSubscriptionAssigned finds no assignment audit.
Assignable == ~assigned

\* tryClaimAffiliateRebateAudit inserts its row.
Claimable == ~rebated

-----------------------------------------------------------------------------
(* Creation: createOrderInTx has committed the PENDING row with its        *)
(* recharge code and invokeProvider is talking to the provider.            *)

Init ==
    /\ orderType \in OrderTypes /\ unseen = FALSE
    /\ creation = "invoking"
    /\ status = "PENDING" /\ paidAt = FALSE /\ tradeNo = FALSE
    /\ recent = TRUE /\ holders = {} /\ due = FALSE
    /\ upstream = "none" /\ acked = FALSE
    /\ code = "none" /\ assigned = FALSE /\ rebated = FALSE
    /\ credits = 0 /\ rebates = 0
    /\ pc = [w \in Workers |-> "idle"]
    /\ task = [w \in Workers |-> "none"]
    /\ seen = [w \in Workers |-> FALSE]
    /\ faults = 0 /\ lostReads = 0

\* invokeProvider saves the payment details; the user now has a pay URL.
ProviderAccepts ==
    /\ creation = "invoking"
    /\ creation' = "done"
    /\ upstream' = IF upstream = "none" THEN "unpaid" ELSE upstream
    /\ SetStatus(status)
    /\ UNCHANGED <<outsideVars, acked, ledgerVars, workerVars, budgetVars>>

\* ... with the provider's constant in place of OrderStatusFailed.
ProviderRejectsRaw ==
    /\ creation = "invoking"
    /\ creation' = "failed"
    /\ SetStatus("failed")
    /\ UNCHANGED <<outsideVars, upstream, acked, ledgerVars, workerVars, budgetVars>>

\* CreateOrder on a provider error: the row is set to FAILED unconditionally.
ProviderRejects ==
    /\ creation = "invoking"
    /\ creation' = "failed"
    /\ SetStatus("FAILED")
    /\ UNCHANGED <<outsideVars, upstream, acked, ledgerVars, workerVars, budgetVars>>

-----------------------------------------------------------------------------
(* The environment *)

UserPays ==
    /\ upstream = "unpaid"
    /\ upstream' \in {"paid", "mispaid"}
    /\ UNCHANGED <<outsideVars, creation, rowVars, acked, ledgerVars, workerVars, budgetVars>>

DueTimePasses ==
    /\ ~due
    /\ due' = TRUE
    /\ UNCHANGED <<outsideVars, creation, status, paidAt, tradeNo, recent, holders, upstream,
                   acked, ledgerVars, workerVars, budgetVars>>

\* Five minutes pass without a write to the row and without a request that
\* holds, or has just acquired, the lease.
FiveMinutesPass ==
    /\ recent
    /\ \A w \in Workers : pc[w] \notin LeaseSteps \cup {"reload"}
    /\ recent' = FALSE
    /\ UNCHANGED <<outsideVars, creation, status, paidAt, tradeNo, holders, due, upstream,
                   acked, ledgerVars, workerVars, budgetVars>>

\* payment_refund.go moves the order among COMPLETED and the refund statuses.
RefundMoves ==
    /\ status \in {"COMPLETED", "REFUND"}
    /\ \E s \in {"COMPLETED", "REFUND"} : SetStatus(s)
    /\ UNCHANGED <<outsideVars, creation, upstream, acked, ledgerVars, workerVars, budgetVars>>

-----------------------------------------------------------------------------
(* Entry points *)

\* GetWebhookProviders finds no provider to verify the notification with (its
\* instance is gone, the fallback is ambiguous or not registered, a read failed):
\* except for wxpay it is answered with success, and the order is not looked at.
\* A later one changes nothing more.
WebhookUnseen ==
    /\ upstream \in {"paid", "mispaid"}
    /\ ~acked
    /\ acked' = TRUE /\ unseen' = TRUE
    /\ UNCHANGED <<orderType, creation, rowVars, upstream, ledgerVars,
                   workerVars, budgetVars>>

\* The provider delivers a success notification, possibly again, and it is
\* verified and confirmed; one that is refused changes nothing.
StartWebhook(w) ==
    /\ upstream \in {"paid", "mispaid"}
    /\ Enter(w, "webhook", "confirm")

StartCancel(w) == status = "PENDING" /\ Enter(w, "cancel", "query")

StartExpire(w) == status = "PENDING" /\ due /\ Enter(w, "expire", "query")

\* VerifyOrderByOutTradeNo, the resume-token lookup and, for a PENDING order
\* that is not yet due, the reconciliation job.
StartVerify(w) == status \in {"PENDING", "EXPIRED"} /\ Enter(w, "verify", "query")

StartRetry(w) == paidAt /\ status \in Fulfillable /\ Enter(w, "retry", "execute")

-----------------------------------------------------------------------------
(* checkPaidWithOptions and cancelCore *)

\* ... with an expiry that gives up when the provider cannot be asked.
QueryFailsReturns(w) ==
    /\ pc[w] = "query"
    /\ Return(w, TRUE)
    /\ OnlyMoves

\* The provider cannot be asked, or answers with an error.
QueryFails(w) ==
    /\ pc[w] = "query"
    /\ IF task[w] = "verify" THEN Return(w, TRUE) ELSE GoTo(w, "cancelRow")
    /\ OnlyMoves

\* Upstream says paid; its trade number may differ from the one on the copy.
QueryPaid(w) ==
    /\ pc[w] = "query"
    /\ upstream \in {"paid", "mispaid"}
    /\ \/ GoTo(w, "confirm")
       \/ ~seen[w] /\ GoTo(w, "persist")
    /\ OnlyMoves

QueryUnpaid(w) ==
    /\ pc[w] = "query"
    /\ upstream \notin {"paid", "mispaid"}
    /\ IF task[w] = "verify" THEN Return(w, TRUE) ELSE GoTo(w, "cancelUpstream")
    /\ OnlyMoves

\* CancelPayment, whose error is ignored, of a provider that may not offer it.
CancelUpstream(w) ==
    /\ pc[w] = "cancelUpstream"
    /\ \/ UNCHANGED upstream
       \/ upstream \in {"none", "unpaid"} /\ upstream' = "cancelled"
    /\ GoTo(w, "cancelRow")
    /\ UNCHANGED <<outsideVars, creation, rowVars, ledgerVars, budgetVars>>

\* cancelCore's CAS from PENDING.
CancelRow(w) ==
    /\ pc[w] = "cancelRow"
    /\ IF Cancellable
         THEN SetStatus(IF task[w] = "expire" THEN "EXPIRED" ELSE "CANCELLED")
         ELSE UNCHANGED rowVars
    /\ Return(w, TRUE)
    /\ UNCHANGED <<outsideVars, creation, upstream, ledgerVars, budgetVars>>

\* The upstream trade number is stored whatever the status of the row is now.
PersistTradeNo(w) ==
    /\ pc[w] = "persist"
    /\ \/ tradeNo' = TRUE /\ Touch /\ UNCHANGED <<status, paidAt, due>>
       \/ UNCHANGED rowVars
    /\ GoTo(w, "confirm")
    /\ UNCHANGED <<outsideVars, creation, upstream, ledgerVars, budgetVars>>

-----------------------------------------------------------------------------
(* confirmPayment, toPaid and alreadyProcessed *)

Confirm(w) ==
    /\ pc[w] = "confirm"
    /\ IF AmountMatches THEN GoTo(w, "toPaid") ELSE Return(w, FALSE)
    /\ OnlyMoves

ToPaid(w) ==
    /\ pc[w] = "toPaid"
    /\ IF Payable
         THEN /\ status' = "PAID"
              /\ paidAt' = TRUE
              /\ tradeNo' = TRUE
              /\ Touch
              /\ UNCHANGED due
              /\ GoTo(w, "execute")
         ELSE GoTo(w, "already") /\ UNCHANGED rowVars
    /\ UNCHANGED <<outsideVars, creation, upstream, ledgerVars, budgetVars>>

\* EXPIRED beyond the grace period is audited as PAYMENT_AFTER_EXPIRY and
\* acknowledged, like every other status that is not fulfillable.
AlreadyProcessed(w) ==
    /\ pc[w] = "already"
    /\ IF status \in Fulfillable THEN GoTo(w, "execute") ELSE Return(w, TRUE)
    /\ OnlyMoves

\* confirmPayment and alreadyProcessed return nil when their Get fails.
LoseRead(w) ==
    /\ pc[w] \in {"confirm", "already"}
    /\ lostReads < MaxLostReads
    /\ lostReads' = lostReads + 1
    /\ Return(w, TRUE)
    /\ UNCHANGED <<outsideVars, creation, rowVars, upstream, ledgerVars, faults>>

-----------------------------------------------------------------------------
(* ExecuteBalanceFulfillment and ExecuteSubscriptionFulfillment *)

Execute(w) ==
    /\ pc[w] = "execute"
    /\ \/ status \in Fulfillable /\ GoTo(w, "acquire")
       \/ status \notin Fulfillable /\ Return(w, status = "COMPLETED")
    /\ OnlyMoves

\* acquirePaymentFulfillmentLease: the CAS to RECHARGING.
Acquire(w) ==
    /\ pc[w] = "acquire"
    /\ IF Acquirable
         THEN SetStatus("RECHARGING") /\ GoTo(w, "reload")
         ELSE GoTo(w, "acquireLost") /\ UNCHANGED rowVars
    /\ UNCHANGED <<outsideVars, creation, upstream, ledgerVars, budgetVars>>

\* ... with a lost race answered as a success.
AcquireLostOk(w) ==
    /\ pc[w] = "acquireLost"
    /\ Return(w, TRUE)
    /\ OnlyMoves

AcquireLost(w) ==
    /\ pc[w] = "acquireLost"
    /\ Return(w, status = "COMPLETED")
    /\ OnlyMoves

\* The lease version is read back in a statement of its own.
ReloadLease(w) ==
    /\ pc[w] = "reload"
    /\ IF status = "RECHARGING"
         THEN holders' = holders \cup {w} /\ GoTo(w, FirstFulfilmentStep)
         ELSE UNCHANGED holders /\ Return(w, FALSE)
    /\ UNCHANGED <<outsideVars, creation, status, paidAt, tradeNo, recent, due, upstream,
                   ledgerVars, budgetVars>>

(* doBalance *)

\* GetByCode and resolveRedeemAction.
LookupCode(w) ==
    /\ pc[w] = "lookup"
    /\ \/ code = "none" /\ GoTo(w, "create")
       \/ code = "unused" /\ GoTo(w, "redeem")
       \/ code = "used" /\ GoTo(w, "rebate")
    /\ OnlyMoves

\* redeem_codes.code is unique: a second creation fails.
CreateCode(w) ==
    /\ pc[w] = "create"
    /\ IF code = "none"
         THEN code' = "unused" /\ GoTo(w, "redeem")
         ELSE UNCHANGED code /\ GoTo(w, "markFailed")
    /\ UNCHANGED <<outsideVars, creation, rowVars, upstream, assigned, rebated, credits,
                   rebates, budgetVars>>

\* redeemForPaymentFulfillment: one transaction marks the code used (CAS on
\* unused) and adds the amount to the balance.
RedeemCode(w) ==
    /\ pc[w] = "redeem"
    /\ IF Redeemable
         THEN code' = "used" /\ credits' = credits + 1 /\ GoTo(w, "rebate")
         ELSE UNCHANGED <<code, credits>> /\ GoTo(w, "markFailed")
    /\ UNCHANGED <<outsideVars, creation, rowVars, upstream, assigned, rebated, rebates,
                   budgetVars>>

(* doSub *)

\* The group is read, on every attempt, in a statement of its own.
CheckGroup(w) ==
    /\ pc[w] = "group"
    /\ GoTo(w, "assign")
    /\ OnlyMoves

\* ensurePaymentSubscriptionAssigned: one transaction under an advisory lock.
AssignSubscription(w) ==
    /\ pc[w] = "assign"
    /\ assigned' = TRUE
    /\ credits' = IF Assignable THEN credits + 1 ELSE credits
    /\ GoTo(w, "invalidate")
    /\ UNCHANGED <<outsideVars, creation, rowVars, upstream, code, rebated, rebates, budgetVars>>

\* The cache invalidation that follows the commit.
InvalidateCache(w) ==
    /\ pc[w] = "invalidate"
    /\ GoTo(w, "rebate")
    /\ OnlyMoves

(* Both *)

\* What the order credits is not there: its group is deleted or inactive, or, read
\* again by an assignment, deleted or no subscription group; its user is deleted.
\* An administrator may change that at any time, so every attempt may find it,
\* any number of times or for ever.
TargetMissing(w) ==
    /\ \/ pc[w] \in {"group", "redeem"}
       \/ pc[w] = "assign" /\ Assignable
    /\ GoTo(w, "markFailed")
    /\ OnlyMoves

\* applyAffiliateRebateForOrder: claim, accrue (or skip) and commit.
ApplyRebate(w) ==
    /\ pc[w] = "rebate"
    /\ rebated' = TRUE
    /\ IF Claimable
         THEN rebates' \in {rebates, rebates + 1}
         ELSE UNCHANGED rebates
    /\ GoTo(w, "complete")
    /\ UNCHANGED <<outsideVars, creation, rowVars, upstream, code, assigned, credits, budgetVars>>

MarkCompleted(w) ==
    /\ pc[w] = "complete"
    /\ IF HoldsLease(w)
         THEN SetStatus("COMPLETED") /\ Return(w, TRUE)
         ELSE UNCHANGED rowVars /\ GoTo(w, "completeLost")
    /\ UNCHANGED <<outsideVars, creation, upstream, ledgerVars, budgetVars>>

CompleteLost(w) ==
    /\ pc[w] = "completeLost"
    /\ IF status = "COMPLETED" THEN Return(w, TRUE) ELSE GoTo(w, "markFailed")
    /\ OnlyMoves

MarkFailed(w) ==
    /\ pc[w] = "markFailed"
    /\ IF HoldsLease(w) THEN SetStatus("FAILED") ELSE UNCHANGED rowVars
    /\ Return(w, FALSE)
    /\ UNCHANGED <<outsideVars, creation, upstream, ledgerVars, budgetVars>>

-----------------------------------------------------------------------------
(* Faults *)

\* A fulfilment step returns an error before any effect, or loses its answer:
\* the worker goes on to markFailed.
StepFails(w) ==
    /\ pc[w] \in LeaseSteps \ {"markFailed"}
    /\ faults < MaxFaults
    /\ faults' = faults + 1
    /\ GoTo(w, "markFailed")
    /\ UNCHANGED <<outsideVars, creation, rowVars, upstream, ledgerVars, lostReads>>

\* The instance crashes, or a statement fails on a path that only returns the
\* error.  No row changes.
Abort(w) ==
    /\ pc[w] # "idle"
    /\ faults < MaxFaults
    /\ faults' = faults + 1
    /\ Return(w, FALSE)
    /\ UNCHANGED <<outsideVars, creation, rowVars, upstream, ledgerVars, lostReads>>

\* A request stalls for longer than paymentFulfillmentLeaseDuration in the
\* middle of a fulfilment.
WorkerStalls(w) ==
    /\ pc[w] \in LeaseSteps \cup {"reload"}
    /\ recent
    /\ recent' = FALSE
    /\ faults < MaxFaults
    /\ faults' = faults + 1
    /\ UNCHANGED <<outsideVars, creation, status, paidAt, tradeNo, holders, due, upstream,
                   acked, ledgerVars, workerVars, lostReads>>

-----------------------------------------------------------------------------
Start(w) ==
    \/ StartWebhook(w) \/ StartCancel(w) \/ StartExpire(w)
    \/ StartVerify(w)  \/ StartRetry(w)

Check(w) ==
    \/ QueryFails(w) \/ QueryPaid(w) \/ QueryUnpaid(w)
    \/ CancelUpstream(w) \/ CancelRow(w) \/ PersistTradeNo(w)

Pay(w) == Confirm(w) \/ ToPaid(w) \/ AlreadyProcessed(w)

Fulfil(w) ==
    \/ Execute(w) \/ Acquire(w) \/ AcquireLost(w) \/ ReloadLease(w)
    \/ LookupCode(w) \/ CreateCode(w) \/ RedeemCode(w)
    \/ CheckGroup(w) \/ TargetMissing(w) \/ AssignSubscription(w) \/ InvalidateCache(w)
    \/ ApplyRebate(w) \/ MarkCompleted(w) \/ CompleteLost(w) \/ MarkFailed(w)

Step(w) == Check(w) \/ Pay(w) \/ Fulfil(w)

Fault(w) == LoseRead(w) \/ StepFails(w) \/ Abort(w) \/ WorkerStalls(w)

Environment ==
    \/ ProviderAccepts \/ ProviderRejects
    \/ UserPays \/ DueTimePasses \/ FiveMinutesPass \/ RefundMoves
    \/ WebhookUnseen

Next == Environment \/ \E w \in Workers : Start(w) \/ Step(w) \/ Fault(w)

Spec == Init /\ [][Next]_vars
-----------------------------------------------------------------------------
(* Properties *)

Settled == status \in {"COMPLETED", "REFUND"}

\* The order is credited at most once (doBalance, ensurePaymentSubscriptionAssigned),
\* whichever webhooks, checks, retries and stale workers fulfil it, and only when the
\* provider received the expected amount and the row says so (confirmPayment's guards,
\* toPaid's paid_at).
CreditOnce ==
    /\ credits <= 1
    /\ credits > 0 => paidAt /\ upstream = "paid"

\* The inviter's rebate is accrued at most once, never without the credit
\* (applyAffiliateRebateForOrder).
RebateFollowsCredit == rebates <= credits

\* COMPLETED, and every refund status behind it, is reached only with the credit
\* and the rebate decision behind it, also when a stale worker completes.
CompletedIsCredited ==
    Settled => credits = 1 /\ rebated

\* A paid order is never cancelled, expired or reopened, whichever cancel,
\* expiry or creation request is still running with an older copy of it.
PaidNeverDropped ==
    [][paidAt => paidAt' /\ status' \notin {"PENDING", "CANCELLED", "EXPIRED"}]_vars

\* A completed order is never fulfilled again, also by a duplicate webhook, a
\* stale worker or an admin retry that read it earlier.
CompletedIsFinal ==
    [][Settled => Settled']_vars

\* A webhook that reaches HandlePaymentNotification tells the provider to stop
\* only when the order is completed or found expired, also when it lost the lease
\* to another worker, unless a read failed (handleNotify answers success when
\* HandlePaymentNotification returns nil).  Not so a webhook whose provider is not
\* found: it is answered with success whatever the order still waits for.
AckOnlyWhenSettled ==
    [][~acked /\ acked' => \/ Settled' \/ status' = "EXPIRED"
                          \/ lostReads' > lostReads \/ unseen']_vars

-----------------------------------------------------------------------------
(* The inductive invariant behind the safety properties *)

PaidSteps == LeaseSteps \cup
             {"toPaid", "already", "execute", "acquire", "acquireLost", "reload"}

\* Money: the row is paid only if the provider is, and a creation request that
\* still runs, or failed, belongs to an order nobody could pay.
PaymentInv ==
    /\ creation # "done" => upstream \in {"none", "cancelled"}
    /\ paidAt => upstream = "paid" /\ status \notin {"PENDING", "CANCELLED", "EXPIRED"}
    /\ status \in {"PAID", "RECHARGING", "COMPLETED", "REFUND"} => paidAt
    /\ status = "FAILED" => paidAt \/ creation = "failed"

\* The ledger: one credit, recorded by the redeem code or the assignment audit.
LedgerInv ==
    /\ credits = IF code = "used" \/ assigned THEN 1 ELSE 0
    /\ orderType = "balance" => ~assigned
    /\ orderType = "subscription" => code = "none"
    /\ credits = 1 => paidAt
    /\ rebated => credits = 1
    /\ rebates <= 1 /\ (~rebated => rebates = 0)

\* What a worker knows from the step it is at.
WorkerInv ==
    \A w \in Workers :
        /\ pc[w] \in PaidSteps => upstream = "paid"
        /\ pc[w] \in LeaseSteps \cup {"reload"} => paidAt
        /\ pc[w] \in {"lookup", "create", "redeem"} => orderType = "balance"
        /\ pc[w] \in {"group", "assign", "invalidate"} => orderType = "subscription"
        /\ pc[w] \in {"invalidate", "rebate", "complete", "completeLost"} => credits = 1
        /\ pc[w] \in {"complete", "completeLost"} => rebated

\* At every step these hold together; CreditOnce, RebateFollowsCredit and
\* CompletedIsCredited follow from them.
CoreInv == PaymentInv /\ LedgerInv /\ WorkerInv /\ CompletedIsCredited

IInv == TypeOK /\ CoreInv

\* What a webhook may answer: it never asks the provider nor cancels, and a row
\* that toPaid's CAS found in no payable status can only become more settled.
AnswerInv ==
    \A w \in Workers :
        /\ task[w] = "webhook" => pc[w] \notin {"query", "persist", "cancelUpstream", "cancelRow"}
        /\ pc[w] = "already" => status \notin {"PENDING", "CANCELLED"}

-----------------------------------------------------------------------------
(* The order as its ledger sees it *)

ledgerPhase ==
    IF Settled THEN "settled"
    ELSE IF credits > 0 THEN "credited"
    ELSE IF paidAt THEN "received"
    ELSE IF status = "PENDING" THEN "open" ELSE "closed"

Ledger == INSTANCE OrderLedger WITH
            phase <- ledgerPhase, decided <- rebated

\* Every step of the requests is a step of the ledger or leaves it alone.
ImplementsLedger == Ledger!Spec

-----------------------------------------------------------------------------
(* Liveness.  Requests that started go on (WF of their steps); time passes;  *)
(* the expiry job runs every minute and the provider sends its webhook again *)
(* until it is acknowledged, and it is not refused each time (SF, because    *)
(* the model's workers may all be busy, which goroutines never are).         *)
(* Nothing makes the administrator set a group right.                        *)

Redeliver == ~acked /\ \E w \in Workers : StartWebhook(w)

Fairness ==
    /\ \A w \in Workers : WF_vars(Step(w))
    /\ WF_vars(DueTimePasses)
    /\ WF_vars(FiveMinutesPass)
    /\ SF_vars(Redeliver)
    /\ SF_vars(\E w \in Workers : StartExpire(w))

FairSpec == Spec /\ Fairness

\* While the provider still retries its webhook, a PAID order is completed in
\* spite of crashes, lost leases and failed statements, and of a group or user
\* that was missing for a while.  Not so if it is missing for ever (doSub, redeem),
\* or if the webhook is answered without being looked at.
UnackedPaidCompletes ==
    <>[][~\E w \in Workers : TargetMissing(w)]_vars
    => ((status = "PAID" /\ ~acked) ~> (Settled \/ unseen))

\* A due order leaves PENDING, unless the provider reports a payment of another
\* amount, which checkPaid calls already paid on every run of the job.
DueOrderResolves ==
    (status = "PENDING" /\ due) ~> (status # "PENDING" \/ upstream = "mispaid")
=============================================================================
