---------------------------- MODULE PaymentRefund ----------------------------
(***************************************************************************)
(* Refunds of one completed balance order (payment_refund.go): the user's  *)
(* request, the admin's prepare-and-execute, the gateway's answer, and the *)
(* query that finalises a refund the gateway left pending.                 *)
(*                                                                         *)
(* An admin is one request goroutine; its steps are single statements,     *)
(* transactions or provider calls.  payment_audit_logs is unique in        *)
(* (order_id, action) (migrations/131), so audits is a set of actions: a   *)
(* second best-effort write is ignored, a second write in a transaction    *)
(* rolls the transaction back.                                             *)
(***************************************************************************)
EXTENDS Integers, FiniteSets

CONSTANTS
    Admins,     \* refund requests
    Amount,     \* order.Amount, in units the refund can be split into
    Balance0,   \* the user's balance when the order completes
    MinBalance, \* bound: how far usage billing may overdraw the balance
    MaxFaults   \* bound: crashes, failed statements, lost gateway answers

ASSUME AmountAssumption == Amount \in Nat \ {0}
ASSUME BalanceAssumption == Balance0 \in Int /\ MinBalance \in Int /\ MinBalance <= 0
ASSUME FaultsAssumption == MaxFaults \in Nat

VARIABLES
    status,       \* payment_orders.status
    refundAmount, \* payment_orders.refund_amount
    audits,       \* actions in payment_audit_logs
    heldAtPending,\* balanceDeducted of the REFUND_PENDING audit
    balance,      \* users.balance
    taken,        \* net amount refunds have taken from the balance
    keyed,        \* the order's provider deduplicates refunds by order and amount
    returned,     \* money the gateway has sent back
    refundKeys,   \* amounts of the refunds the gateway has completed
    pending,      \* amount of the gateway's last pending refund
    verdict,      \* what the gateway says of it
    pc, plan,     \* step and RefundPlan of each admin
    faults,       \* faults injected so far
    lostAnswers,  \* of them, refunds the gateway made and answered with an error
    lostWrites    \* of them, audits not written or not read, and balance writes
                  \* that took effect and were reported as failed

rowVars == <<status, refundAmount, audits, heldAtPending>>
moneyVars == <<balance, taken>>
gatewayVars == <<keyed, returned, refundKeys, pending, verdict>>
adminVars == <<pc, plan>>
faultVars == <<faults, lostAnswers, lostWrites>>
vars == <<rowVars, moneyVars, gatewayVars, adminVars, faultVars>>

-----------------------------------------------------------------------------
Statuses == {"COMPLETED", "REFUND_REQUESTED", "REFUNDING", "REFUND_PENDING",
             "REFUNDED", "PARTIALLY_REFUNDED", "REFUND_FAILED"}

\* Statuses from which PrepareRefund and ExecuteRefund start.
Refundable == {"COMPLETED", "REFUND_REQUESTED", "REFUND_FAILED"}

AuditActions == {"REFUND_PENDING", "REFUND_ROLLBACK_FAILED", "REFUND_FAILED",
                 "REFUND_SUCCESS"}

\* amount: RefundAmount; deduct: BalanceToDeduct; from: Order.Status at the
\* time of PrepareRefund.
Plans == [amount : 1..Amount, deduct : 0..Amount, from : Statuses]

NoPlan == [amount |-> Amount, deduct |-> 0, from |-> "COMPLETED"]

\* The steps between the CAS to REFUNDING and the final write.
ExecuteSteps == {"deduct", "gateway", "markOk", "markPending", "rollback",
                 "restore", "markFailed"}

AdminSteps == ExecuteSteps \cup
              {"idle", "request", "lock", "finalizeOk", "finalizeFail", "finalizeKeep"}

TypeOK ==
    /\ status \in Statuses
    /\ refundAmount \in 0..Amount
    /\ audits \subseteq AuditActions
    /\ heldAtPending \in 0..Amount
    /\ balance \in Int /\ taken \in Int
    /\ keyed \in BOOLEAN
    /\ returned \in Nat
    /\ refundKeys \subseteq 1..Amount
    /\ pending \in 0..Amount
    /\ verdict \in {"none", "pending", "success", "failed"}
    /\ pc \in [Admins -> AdminSteps]
    /\ plan \in [Admins -> Plans]
    /\ faults \in Nat /\ lostAnswers \in Nat /\ lostWrites \in Nat

Least(a, b) == IF a < b THEN a ELSE b
NonNegative(n) == IF n > 0 THEN n ELSE 0

\* What DeductAvailableBalance takes of n; and without its clamp at zero.
AvailableSigned(n) == Least(n, balance)
Available(n) == Least(n, NonNegative(balance))

RefundedStatus(amount) == IF amount < Amount THEN "PARTIALLY_REFUNDED" ELSE "REFUNDED"

\* Conditions and choices, each preceded by forms a plausible bug would give it;
\* the runs must tell them apart.

\* ExecuteRefund's CAS.
Lockable == status \in Refundable

\* An earlier attempt deducted and could not roll back.
NeverDeducted == FALSE
AlreadyDeducted == "REFUND_ROLLBACK_FAILED" \in audits

\* finishRefund on a pending answer.
DeferredIsOk == "markOk"
AfterDeferral == "markPending"

GoTo(a, step) == pc' = [pc EXCEPT ![a] = step] /\ UNCHANGED plan

Done(a) == pc' = [pc EXCEPT ![a] = "idle"] /\ plan' = [plan EXCEPT ![a] = NoPlan]

NoFault == UNCHANGED faultVars

SpendFault == faults < MaxFaults /\ faults' = faults + 1

-----------------------------------------------------------------------------
Init ==
    /\ status = "COMPLETED" /\ refundAmount = 0 /\ audits = {} /\ heldAtPending = 0
    /\ balance = Balance0 /\ taken = 0
    /\ keyed \in BOOLEAN
    /\ returned = 0 /\ refundKeys = {} /\ pending = 0 /\ verdict = "none"
    /\ pc = [a \in Admins |-> "idle"] /\ plan = [a \in Admins |-> NoPlan]
    /\ faults = 0 /\ lostAnswers = 0 /\ lostWrites = 0

\* Usage billing charges the balance, below zero if need be.
UserSpends ==
    /\ balance > MinBalance
    /\ balance' = balance - 1
    /\ UNCHANGED <<rowVars, taken, gatewayVars, adminVars, faultVars>>

\* The gateway decides a refund it had answered as pending.
GatewaySettles ==
    /\ verdict = "pending"
    /\ \/ /\ verdict' = "success"
          /\ returned' = returned + pending
          /\ refundKeys' = refundKeys \cup {pending}
       \/ verdict' = "failed" /\ UNCHANGED <<returned, refundKeys>>
    /\ UNCHANGED <<rowVars, moneyVars, keyed, pending, adminVars, faultVars>>

-----------------------------------------------------------------------------
(* RequestRefund *)

StartRequest(a) ==
    /\ pc[a] = "idle"
    /\ status = "COMPLETED" /\ balance >= Amount
    /\ GoTo(a, "request")
    /\ UNCHANGED <<rowVars, moneyVars, gatewayVars>> /\ NoFault

RequestRow(a) ==
    /\ pc[a] = "request"
    /\ IF status = "COMPLETED"
         THEN status' = "REFUND_REQUESTED" /\ refundAmount' = Amount
         ELSE UNCHANGED <<status, refundAmount>>
    /\ Done(a)
    /\ UNCHANGED <<audits, heldAtPending, moneyVars, gatewayVars>> /\ NoFault

-----------------------------------------------------------------------------
(* PrepareRefund and prepDeduct *)

Prepare(a, amount, deduct, force) ==
    /\ pc[a] = "idle"
    /\ status \in Refundable
    /\ deduct => balance >= amount \/ force
    /\ pc' = [pc EXCEPT ![a] = "lock"]
    /\ plan' = [plan EXCEPT ![a] =
                  [amount |-> amount, from |-> status,
                   deduct |-> IF deduct THEN Available(amount) ELSE 0]]
    /\ UNCHANGED <<rowVars, moneyVars, gatewayVars>> /\ NoFault

(* ExecuteRefund *)

Lock(a) ==
    /\ pc[a] = "lock"
    /\ IF Lockable
         THEN status' = "REFUNDING" /\ GoTo(a, "deduct")
         ELSE UNCHANGED status /\ Done(a)
    /\ UNCHANGED <<refundAmount, audits, heldAtPending, moneyVars, gatewayVars>>
    /\ NoFault

Move(n) == balance' = balance - n /\ taken' = taken + n

DeductStep(a, n) ==
    /\ pc[a] = "deduct"
    /\ Move(n)
    /\ plan' = [plan EXCEPT ![a].deduct = n]
    /\ pc' = [pc EXCEPT ![a] = "gateway"]
    /\ UNCHANGED <<rowVars, gatewayVars>>

\* A deduction that an earlier attempt could not roll back is not made again.
Deduct(a) ==
    /\ DeductStep(a, IF AlreadyDeducted THEN 0 ELSE Available(plan[a].deduct))
    /\ NoFault

\* hasAuditLog takes a failed read for "no such audit".
DeductUnread(a) ==
    /\ AlreadyDeducted
    /\ DeductStep(a, Available(plan[a].deduct))
    /\ SpendFault /\ lostWrites' = lostWrites + 1 /\ UNCHANGED lostAnswers

\* The deduction fails, or takes effect and is reported as failed.
DeductFails(a) ==
    /\ pc[a] = "deduct" /\ plan[a].deduct > 0 /\ ~AlreadyDeducted
    /\ SpendFault /\ UNCHANGED lostAnswers
    /\ \/ UNCHANGED <<moneyVars, lostWrites>>
       \/ Move(Available(plan[a].deduct)) /\ lostWrites' = lostWrites + 1
    /\ GoTo(a, "restore")
    /\ UNCHANGED <<rowVars, gatewayVars>>

-----------------------------------------------------------------------------
(* gwRefund.  The gateway refuses to send back more than was paid; a keyed   *)
(* one repeats its answer to a refund it knows.                              *)

KnownDone(amount) == keyed /\ amount \in refundKeys
KnownPending(amount) == keyed /\ verdict = "pending" /\ pending = amount
InFlight == IF verdict = "pending" THEN pending ELSE 0
Accepts(amount) == ~KnownDone(amount) /\ ~KnownPending(amount)
                     /\ returned + InFlight + amount <= Amount

SendsBack(amount) ==
    /\ Accepts(amount)
    /\ returned' = returned + amount
    /\ refundKeys' = refundKeys \cup {amount}
    /\ UNCHANGED <<keyed, pending, verdict>>

GatewaySucceeds(a) ==
    /\ pc[a] = "gateway"
    /\ \/ KnownDone(plan[a].amount) /\ UNCHANGED gatewayVars
       \/ SendsBack(plan[a].amount)
    /\ GoTo(a, "markOk")
    /\ UNCHANGED <<rowVars, moneyVars>> /\ NoFault

GatewayDefers(a) ==
    /\ pc[a] = "gateway"
    /\ \/ KnownPending(plan[a].amount) /\ UNCHANGED gatewayVars
       \/ /\ Accepts(plan[a].amount) /\ verdict # "pending"
          /\ pending' = plan[a].amount
          /\ verdict' = "pending"
          /\ UNCHANGED <<keyed, returned, refundKeys>>
    /\ GoTo(a, AfterDeferral)
    /\ UNCHANGED <<rowVars, moneyVars>> /\ NoFault

GatewayRefuses(a) ==
    /\ pc[a] = "gateway"
    /\ ~KnownDone(plan[a].amount) /\ ~KnownPending(plan[a].amount)
    /\ GoTo(a, "rollback")
    /\ UNCHANGED <<rowVars, moneyVars, gatewayVars>> /\ NoFault

\* The refund is made, and the call ends in a timeout.
AnswerLost(a) ==
    /\ pc[a] = "gateway"
    /\ SendsBack(plan[a].amount)
    /\ SpendFault
    /\ lostAnswers' = lostAnswers + 1 /\ UNCHANGED lostWrites
    /\ GoTo(a, "rollback")
    /\ UNCHANGED <<rowVars, moneyVars>>

-----------------------------------------------------------------------------
(* finishRefund and handleGwFail *)

MarkRefundOk(a) ==
    /\ pc[a] = "markOk"
    /\ status' = RefundedStatus(plan[a].amount)
    /\ refundAmount' = plan[a].amount
    /\ audits' = audits \cup {"REFUND_SUCCESS"}
    /\ Done(a)
    /\ UNCHANGED <<heldAtPending, moneyVars, gatewayVars>> /\ NoFault

\* One transaction; it fails if the order already has a REFUND_PENDING audit.
MarkRefundPending(a) ==
    /\ pc[a] = "markPending"
    /\ IF "REFUND_PENDING" \in audits
         THEN UNCHANGED rowVars
         ELSE /\ status' = "REFUND_PENDING"
              /\ refundAmount' = plan[a].amount
              /\ audits' = audits \cup {"REFUND_PENDING"}
              /\ heldAtPending' = plan[a].deduct
    /\ Done(a)
    /\ UNCHANGED <<moneyVars, gatewayVars>> /\ NoFault

RollbackRefund(a) ==
    /\ pc[a] = "rollback"
    /\ Move(-plan[a].deduct)
    /\ GoTo(a, "restore")
    /\ UNCHANGED <<rowVars, gatewayVars>> /\ NoFault

\* ... with a failed rollback passed over.
RollbackFailsSilently(a) ==
    /\ pc[a] = "rollback" /\ plan[a].deduct > 0
    /\ SpendFault
    /\ GoTo(a, "restore")
    /\ UNCHANGED <<rowVars, moneyVars, gatewayVars, lostAnswers, lostWrites>>

\* The rollback fails and is audited, or the audit is lost as well, or the
\* rollback took effect and was reported as failed.
RollbackFails(a) ==
    /\ pc[a] = "rollback" /\ plan[a].deduct > 0
    /\ SpendFault /\ UNCHANGED lostAnswers
    /\ \/ /\ audits' = audits \cup {"REFUND_ROLLBACK_FAILED"}
          /\ UNCHANGED <<moneyVars, lostWrites>>
       \/ lostWrites' = lostWrites + 1 /\ UNCHANGED <<audits, moneyVars>>
       \/ /\ Move(-plan[a].deduct) /\ lostWrites' = lostWrites + 1
          /\ audits' = audits \cup {"REFUND_ROLLBACK_FAILED"}
    /\ GoTo(a, "markFailed")
    /\ UNCHANGED <<status, refundAmount, heldAtPending, gatewayVars>>

\* ... without the write.
RestoreNothing(a) ==
    /\ pc[a] = "restore"
    /\ Done(a)
    /\ UNCHANGED <<rowVars, moneyVars, gatewayVars>> /\ NoFault

\* The status PrepareRefund saw, unless that was REFUND_FAILED.
RestoreStatus(a) ==
    /\ pc[a] = "restore"
    /\ status' = IF plan[a].from = "REFUND_REQUESTED" THEN "REFUND_REQUESTED" ELSE "COMPLETED"
    /\ Done(a)
    /\ UNCHANGED <<refundAmount, audits, heldAtPending, moneyVars, gatewayVars>> /\ NoFault

MarkFailed(a) ==
    /\ pc[a] = "markFailed"
    /\ status' = "REFUND_FAILED"
    /\ audits' = audits \cup {"REFUND_FAILED"}
    /\ Done(a)
    /\ UNCHANGED <<refundAmount, heldAtPending, moneyVars, gatewayVars>> /\ NoFault

-----------------------------------------------------------------------------
(* QueryAndFinalizeRefund *)

\* Reads the order, the REFUND_PENDING audit and the gateway's verdict.
Query(a) ==
    /\ pc[a] = "idle"
    /\ status = "REFUND_PENDING" /\ "REFUND_PENDING" \in audits
    /\ verdict \in {"success", "failed"}
    /\ plan' = [plan EXCEPT ![a] = [amount |-> refundAmount, deduct |-> heldAtPending,
                                    from |-> status]]
    /\ pc' = [pc EXCEPT ![a] = IF verdict = "success" THEN "finalizeOk" ELSE "finalizeFail"]
    /\ UNCHANGED <<rowVars, moneyVars, gatewayVars>> /\ NoFault

\* finalizePendingRefundSuccess: one transaction, with a REFUND_SUCCESS audit.
FinalizeOk(a) ==
    /\ pc[a] = "finalizeOk"
    /\ IF status = "REFUND_PENDING" /\ "REFUND_SUCCESS" \notin audits
         THEN /\ status' = RefundedStatus(plan[a].amount)
              /\ refundAmount' = plan[a].amount
              /\ audits' = audits \cup {"REFUND_SUCCESS"}
         ELSE UNCHANGED <<status, refundAmount, audits>>
    /\ Done(a)
    /\ UNCHANGED <<heldAtPending, moneyVars, gatewayVars>> /\ NoFault

\* finalizeRefundFailedTx: claim, give the held deduction back, audit; all or
\* nothing.
FinalizeFail(a) ==
    /\ pc[a] = "finalizeFail"
    /\ IF status = "REFUND_PENDING" /\ "REFUND_FAILED" \notin audits
         THEN /\ status' = "REFUND_FAILED"
              /\ audits' = audits \cup {"REFUND_FAILED"}
              /\ Move(-plan[a].deduct)
         ELSE UNCHANGED <<status, audits, moneyVars>>
    /\ Done(a)
    /\ UNCHANGED <<refundAmount, heldAtPending, gatewayVars>> /\ NoFault

\* Giving the deduction back failed and rolled the first transaction back.
ReturnFails(a) ==
    /\ pc[a] = "finalizeFail" /\ status = "REFUND_PENDING" /\ plan[a].deduct > 0
    /\ SpendFault
    /\ GoTo(a, "finalizeKeep")
    /\ UNCHANGED <<rowVars, moneyVars, gatewayVars, lostAnswers, lostWrites>>

\* The second transaction keeps the deduction and records that it did.
FinalizeKeep(a) ==
    /\ pc[a] = "finalizeKeep"
    /\ IF status = "REFUND_PENDING" /\ audits \cap {"REFUND_FAILED", "REFUND_ROLLBACK_FAILED"} = {}
         THEN /\ status' = "REFUND_FAILED"
              /\ audits' = audits \cup {"REFUND_FAILED", "REFUND_ROLLBACK_FAILED"}
         ELSE UNCHANGED <<status, audits>>
    /\ Done(a)
    /\ UNCHANGED <<refundAmount, heldAtPending, moneyVars, gatewayVars>> /\ NoFault

\* A crash, or a failed statement on a path that only returns the error.
Abort(a) ==
    /\ pc[a] # "idle"
    /\ SpendFault
    /\ Done(a)
    /\ UNCHANGED <<rowVars, moneyVars, gatewayVars, lostAnswers, lostWrites>>

-----------------------------------------------------------------------------
Execute(a) ==
    \/ Lock(a) \/ Deduct(a)
    \/ GatewaySucceeds(a) \/ GatewayDefers(a) \/ GatewayRefuses(a)
    \/ MarkRefundOk(a) \/ MarkRefundPending(a) \/ RollbackRefund(a)
    \/ RestoreStatus(a) \/ MarkFailed(a)

Finalize(a) == FinalizeOk(a) \/ FinalizeFail(a) \/ FinalizeKeep(a)

Fault(a) == DeductUnread(a) \/ DeductFails(a) \/ AnswerLost(a) \/ RollbackFails(a) \/ ReturnFails(a) \/ Abort(a)

Next ==
    \/ UserSpends \/ GatewaySettles
    \/ \E a \in Admins :
         \/ StartRequest(a) \/ RequestRow(a)
         \/ \E amount \in 1..Amount, deduct, force \in BOOLEAN : Prepare(a, amount, deduct, force)
         \/ Query(a) \/ Execute(a) \/ Finalize(a) \/ Fault(a)

Spec == Init /\ [][Next]_vars

\* A request that has started goes on; the gateway decides in the end.
FairSpec ==
    /\ Spec
    /\ WF_vars(GatewaySettles)
    /\ \A a \in Admins : WF_vars(RequestRow(a) \/ Execute(a) \/ Finalize(a))

\* An operator polls REFUND_PENDING orders as well.
PolledSpec == FairSpec /\ WF_vars(\E a \in Admins : Query(a))
-----------------------------------------------------------------------------
(* Properties *)

Refunded == status \in {"REFUNDED", "PARTIALLY_REFUNDED"}

\* ExecuteRefund's CAS admits one request at a time, also while others finalise,
\* request or were prepared on an older copy, so each may write the row and the
\* balance without a guard.
RefundExclusive ==
    \A a \in Admins : pc[a] \in ExecuteSteps =>
        /\ status = "REFUNDING"
        /\ \A b \in Admins : pc[b] \in ExecuteSteps => b = a

\* Retries, rollbacks that failed and finalisations that kept the deduction
\* never take more than the order's amount from the user, nor give back what was
\* not taken, unless a write's outcome was lost.
DeductedAtMostOnce == lostWrites = 0 => taken \in 0..Amount

\* An order that is shown as completed, or waiting for a refund, holds none of
\* the user's balance, unless the audit says that a rollback failed.
NothingHeldWhenRestored ==
    lostWrites = 0 /\ status \in {"COMPLETED", "REFUND_REQUESTED"}
      => taken = 0 \/ "REFUND_ROLLBACK_FAILED" \in audits

\* REFUNDED and PARTIALLY_REFUNDED are written only when the gateway has sent that
\* much back, also when a late finalisation writes them; and an order that may be
\* refunded (again) has had nothing sent back, unless the gateway's answer was lost:
\* handleGwFail takes every error for a refusal.
StatusMatchesReturned ==
    /\ Refunded => returned >= refundAmount
    /\ lostAnswers = 0 /\ status \in Refundable => returned = 0

\* A refunded order stays refunded, whatever older request is still running.
RefundedIsFinal == [][Refunded => UNCHANGED status]_vars

\* An order in REFUNDING, which no operation accepts, always has a request at work
\* that will write the outcome, whatever the other requests do and the gateway
\* answers: only a fault, or a second deferral, can leave it behind.
RefundingIsRunning ==
    faults = 0 /\ status = "REFUNDING" /\ "REFUND_PENDING" \notin audits
      => \E a \in Admins : pc[a] \in ExecuteSteps

\* payment_refund.go, markRefundPending: the deduction kept while the gateway
\* decides is given back by finalizeRefundFailed when the gateway says it failed
\* (unless a later attempt refunds the order after all), and the row and the audit
\* are written together so that it can be read then.
FailedRefundReturnsDeduction ==
    (verdict = "failed" /\ taken > 0) ~> (taken = 0 \/ verdict # "failed" \/ Refunded)

-----------------------------------------------------------------------------
(* The inductive invariant behind the safety properties *)

Marked == "REFUND_ROLLBACK_FAILED" \in audits

\* Who may be where: RefundExclusive, and the order is found pending only after
\* the audit was written with it.
StatusInv ==
    /\ RefundExclusive
    /\ status = "REFUND_PENDING" => "REFUND_PENDING" \in audits /\ refundAmount > 0
    /\ verdict = "pending" => pending > 0
    /\ \A a \in Admins : pc[a] \in {"finalizeOk", "finalizeFail", "finalizeKeep"} =>
         "REFUND_PENDING" \in audits /\ plan[a].deduct = heldAtPending

\* An unmarked order's deduction is the one the running attempt, or the pending
\* refund, will give back; a marked one's is larger than what they will.
HeldInv ==
    /\ taken \in 0..Amount
    /\ status \in Refundable => taken = 0 \/ Marked
    /\ status = "REFUND_PENDING" =>
         heldAtPending = taken \/ (Marked /\ heldAtPending <= taken)
    /\ \A a \in Admins :
         /\ pc[a] \in {"deduct", "restore"} => taken = 0 \/ Marked
         /\ pc[a] \in {"gateway", "markOk", "markPending", "rollback"} =>
              plan[a].deduct = taken \/ (Marked /\ plan[a].deduct <= taken)
         /\ pc[a] = "markFailed" => Marked

IInv == TypeOK /\ StatusInv /\ (lostWrites = 0 => HeldInv)

\* What the row and the requests know of the gateway is true of it: only the
\* executor, of which there is one, starts a refund there, and a settled refund
\* does not change until the next one.
KnownInv ==
    /\ \A k \in refundKeys : k <= returned
    /\ verdict = "success" => pending \in refundKeys
    /\ status = "REFUND_PENDING" => pending = refundAmount /\ verdict # "none"
    /\ Refunded => returned >= refundAmount
    /\ \A a \in Admins :
         /\ pc[a] \in {"markOk", "finalizeOk"} => plan[a].amount <= returned
         /\ pc[a] = "markPending" => pending = plan[a].amount /\ verdict # "none"
         /\ pc[a] \in {"finalizeFail", "finalizeKeep"} /\ status = "REFUND_PENDING"
              => verdict = "failed"

\* Nothing was sent back, nor may still be, before the gateway's answer, after a
\* refusal, and once a pending refund has failed.
UnreturnedInv ==
    /\ status \in Refundable => returned = 0 /\ verdict # "pending"
    /\ status = "REFUND_PENDING" /\ verdict # "success" => returned = 0
    /\ \A a \in Admins :
         /\ pc[a] \in {"deduct", "gateway", "rollback", "restore", "markFailed"}
              => returned = 0 /\ verdict # "pending"
         /\ pc[a] = "markPending" /\ verdict # "success" => returned = 0

GatewayInv == KnownInv /\ (lostAnswers = 0 => UnreturnedInv)
=============================================================================
