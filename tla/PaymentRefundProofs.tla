------------------------ MODULE PaymentRefundProofs -------------------------
(***************************************************************************)
(* Proofs about PaymentRefund for every set of admins, every amount and    *)
(* balance, keyed and unkeyed gateways, and every bound on the faults.     *)
(***************************************************************************)
EXTENDS PaymentRefund, TLAPS

USE AmountAssumption, BalanceAssumption, FaultsAssumption
USE DEF rowVars, moneyVars, gatewayVars, adminVars, faultVars, NoFault, SpendFault,
        GoTo, Done, Move, Marked, AlreadyDeducted, Refundable

-----------------------------------------------------------------------------
(* Arithmetic of the deduction *)

LEMMA AvailableBounds ==
  ASSUME balance \in Int, NEW n \in Nat
  PROVE  Available(n) \in 0..n
BY DEF Available, Least, NonNegative

LEMMA NoPlanIsPlan == NoPlan \in Plans
BY DEF NoPlan, Plans, Statuses

-----------------------------------------------------------------------------
(* Types *)

LEMMA ExecuteTypeOK ==
  ASSUME IInv, NEW a \in Admins, Execute(a)
  PROVE  TypeOK'
<1>0. Available(plan[a].deduct) \in 0..plan[a].deduct /\ plan[a].deduct \in 0..Amount
  BY AvailableBounds DEF IInv, TypeOK, Plans
<1>1. CASE Lock(a)
  BY <1>1, NoPlanIsPlan
  DEF IInv, TypeOK, StatusInv, RefundExclusive, Plans, Statuses, AuditActions,
      AdminSteps, ExecuteSteps, Lock, Lockable
<1>2. CASE Deduct(a)
  BY <1>2, NoPlanIsPlan, <1>0
  DEF IInv, TypeOK, StatusInv, RefundExclusive, Plans, Statuses, AuditActions,
      AdminSteps, ExecuteSteps, Deduct, DeductStep
<1>3. CASE GatewaySucceeds(a)
  <2>1. plan[a] \in Plans
    BY DEF IInv, TypeOK
  <2>2. audits' \subseteq AuditActions
    BY <1>3 DEF IInv, TypeOK, AuditActions, GatewaySucceeds, SendsBack, Accepts,
        KnownDone, KnownPending
  <2>3. refundKeys' \subseteq 1..Amount
    BY <1>3, <2>1 DEF IInv, TypeOK, Plans, GatewaySucceeds, SendsBack, Accepts,
        KnownDone, KnownPending
  <2> QED
    BY <1>3, <2>1, <2>2, <2>3, NoPlanIsPlan
    DEF IInv, TypeOK, StatusInv, Plans, Statuses, AdminSteps, ExecuteSteps,
        GatewaySucceeds, SendsBack, Accepts, KnownDone, KnownPending
<1>4. CASE GatewayDefers(a)
  <2>1. plan[a] \in Plans
    BY DEF IInv, TypeOK
  <2>2. audits' \subseteq AuditActions
    BY <1>4 DEF IInv, TypeOK, AuditActions, GatewayDefers, Accepts, KnownDone,
        KnownPending, AfterDeferral
  <2>3. refundKeys' \subseteq 1..Amount
    BY <1>4, <2>1 DEF IInv, TypeOK, Plans, GatewayDefers, Accepts, KnownDone,
        KnownPending, AfterDeferral
  <2> QED
    BY <1>4, <2>1, <2>2, <2>3, NoPlanIsPlan
    DEF IInv, TypeOK, StatusInv, Plans, Statuses, AdminSteps, ExecuteSteps,
        GatewayDefers, Accepts, KnownDone, KnownPending, AfterDeferral
<1>5. CASE GatewayRefuses(a)
  BY <1>5, NoPlanIsPlan
  DEF IInv, TypeOK, StatusInv, RefundExclusive, Plans, Statuses, AuditActions,
      AdminSteps, ExecuteSteps, GatewayRefuses, KnownDone, KnownPending
<1>6. CASE MarkRefundOk(a)
  BY <1>6, NoPlanIsPlan
  DEF IInv, TypeOK, StatusInv, RefundExclusive, Plans, Statuses, AuditActions,
      AdminSteps, ExecuteSteps, MarkRefundOk, RefundedStatus
<1>7. CASE MarkRefundPending(a)
  <2>1. plan[a] \in Plans
    BY DEF IInv, TypeOK
  <2>2. audits' \subseteq AuditActions
    BY <1>7 DEF IInv, TypeOK, AuditActions, MarkRefundPending
  <2>3. refundKeys' \subseteq 1..Amount
    BY <1>7, <2>1 DEF IInv, TypeOK, Plans, MarkRefundPending
  <2> QED
    BY <1>7, <2>1, <2>2, <2>3, NoPlanIsPlan
    DEF IInv, TypeOK, StatusInv, Plans, Statuses, AdminSteps, ExecuteSteps,
        MarkRefundPending
<1>8. CASE RollbackRefund(a)
  BY <1>8, NoPlanIsPlan
  DEF IInv, TypeOK, StatusInv, RefundExclusive, Plans, Statuses, AuditActions,
      AdminSteps, ExecuteSteps, RollbackRefund
<1>9. CASE RestoreStatus(a)
  BY <1>9, NoPlanIsPlan
  DEF IInv, TypeOK, StatusInv, RefundExclusive, Plans, Statuses, AuditActions,
      AdminSteps, ExecuteSteps, RestoreStatus
<1>10. CASE MarkFailed(a)
  BY <1>10, NoPlanIsPlan
  DEF IInv, TypeOK, StatusInv, RefundExclusive, Plans, Statuses, AuditActions,
      AdminSteps, ExecuteSteps, MarkFailed
<1> QED BY <1>1, <1>2, <1>3, <1>4, <1>5, <1>6, <1>7, <1>8, <1>9, <1>10 DEF Execute

LEMMA FinalizeTypeOK ==
  ASSUME IInv, NEW a \in Admins, Finalize(a)
  PROVE  TypeOK'
<1>1. CASE FinalizeOk(a)
  <2>1. plan[a] \in Plans
    BY DEF IInv, TypeOK
  <2>2. audits' \subseteq AuditActions
    BY <1>1 DEF IInv, TypeOK, AuditActions, FinalizeOk, RefundedStatus
  <2>3. refundKeys' \subseteq 1..Amount
    BY <1>1, <2>1 DEF IInv, TypeOK, Plans, FinalizeOk, RefundedStatus
  <2> QED
    BY <1>1, <2>1, <2>2, <2>3, NoPlanIsPlan
    DEF IInv, TypeOK, StatusInv, Plans, Statuses, AdminSteps, ExecuteSteps, FinalizeOk,
        RefundedStatus
<1>2. CASE FinalizeFail(a)
  <2>1. plan[a] \in Plans
    BY DEF IInv, TypeOK
  <2>2. audits' \subseteq AuditActions
    BY <1>2 DEF IInv, TypeOK, AuditActions, FinalizeFail
  <2>3. refundKeys' \subseteq 1..Amount
    BY <1>2, <2>1 DEF IInv, TypeOK, Plans, FinalizeFail
  <2> QED
    BY <1>2, <2>1, <2>2, <2>3, NoPlanIsPlan
    DEF IInv, TypeOK, StatusInv, Plans, Statuses, AdminSteps, ExecuteSteps, FinalizeFail
<1>3. CASE FinalizeKeep(a)
  BY <1>3, NoPlanIsPlan
  DEF IInv, TypeOK, StatusInv, RefundExclusive, Plans, Statuses, AuditActions,
      AdminSteps, ExecuteSteps, FinalizeKeep
<1> QED BY <1>1, <1>2, <1>3 DEF Finalize

LEMMA FaultTypeOK ==
  ASSUME IInv, NEW a \in Admins, Fault(a)
  PROVE  TypeOK'
<1>0. Available(plan[a].deduct) \in 0..plan[a].deduct /\ plan[a].deduct \in 0..Amount
  BY AvailableBounds DEF IInv, TypeOK, Plans
<1>1. CASE DeductUnread(a)
  BY <1>1, NoPlanIsPlan, <1>0
  DEF IInv, TypeOK, StatusInv, RefundExclusive, Plans, Statuses, AuditActions,
      AdminSteps, ExecuteSteps, DeductUnread, DeductStep
<1>2. CASE DeductFails(a)
  BY <1>2, NoPlanIsPlan, <1>0
  DEF IInv, TypeOK, StatusInv, RefundExclusive, Plans, Statuses, AuditActions,
      AdminSteps, ExecuteSteps, DeductFails
<1>3. CASE AnswerLost(a)
  <2>1. plan[a] \in Plans
    BY DEF IInv, TypeOK
  <2>2. audits' \subseteq AuditActions
    BY <1>3 DEF IInv, TypeOK, AuditActions, AnswerLost, SendsBack, Accepts
  <2>3. refundKeys' \subseteq 1..Amount
    BY <1>3, <2>1 DEF IInv, TypeOK, Plans, AnswerLost, SendsBack, Accepts
  <2> QED
    BY <1>3, <2>1, <2>2, <2>3, NoPlanIsPlan
    DEF IInv, TypeOK, StatusInv, Plans, Statuses, AdminSteps, ExecuteSteps, AnswerLost,
        SendsBack, Accepts
<1>4. CASE RollbackFails(a)
  <2>1. plan[a] \in Plans
    BY DEF IInv, TypeOK
  <2>2. audits' \subseteq AuditActions
    BY <1>4 DEF IInv, TypeOK, AuditActions, RollbackFails
  <2>3. refundKeys' \subseteq 1..Amount
    BY <1>4, <2>1 DEF IInv, TypeOK, Plans, RollbackFails
  <2> QED
    BY <1>4, <2>1, <2>2, <2>3, NoPlanIsPlan
    DEF IInv, TypeOK, StatusInv, Plans, Statuses, AdminSteps, ExecuteSteps, RollbackFails
<1>5. CASE ReturnFails(a)
  BY <1>5, NoPlanIsPlan
  DEF IInv, TypeOK, StatusInv, RefundExclusive, Plans, Statuses, AuditActions,
      AdminSteps, ExecuteSteps, ReturnFails
<1>6. CASE Abort(a)
  BY <1>6, NoPlanIsPlan
  DEF IInv, TypeOK, StatusInv, RefundExclusive, Plans, Statuses, AuditActions,
      AdminSteps, ExecuteSteps, Abort
<1> QED BY <1>1, <1>2, <1>3, <1>4, <1>5, <1>6 DEF Fault

LEMMA RestTypeOK ==
  ASSUME IInv,
         UserSpends \/ GatewaySettles
           \/ \E a \in Admins :
                \/ StartRequest(a) \/ RequestRow(a) \/ Query(a)
                \/ \E amount \in 1..Amount, deduct, force \in BOOLEAN :
                     Prepare(a, amount, deduct, force)
  PROVE  TypeOK'
<1>1. CASE UserSpends
  BY <1>1 DEF IInv, TypeOK, StatusInv, RefundExclusive, Plans, Statuses, AuditActions,
      AdminSteps, ExecuteSteps, UserSpends
<1>2. CASE GatewaySettles
  <2>1. pending \in 1..Amount
    BY <1>2 DEF IInv, TypeOK, StatusInv, GatewaySettles
  <2>2. refundKeys' \subseteq 1..Amount
    BY <1>2, <2>1 DEF IInv, TypeOK, GatewaySettles
  <2> QED BY <1>2, <2>2 DEF IInv, TypeOK, GatewaySettles
<1>3. ASSUME NEW a \in Admins, StartRequest(a) PROVE TypeOK'
  BY <1>3, NoPlanIsPlan DEF IInv, TypeOK, StatusInv, RefundExclusive, Plans, Statuses,
      AuditActions, AdminSteps, ExecuteSteps, StartRequest
<1>4. ASSUME NEW a \in Admins, RequestRow(a) PROVE TypeOK'
  BY <1>4, NoPlanIsPlan DEF IInv, TypeOK, StatusInv, RefundExclusive, Plans, Statuses,
      AuditActions, AdminSteps, ExecuteSteps, RequestRow
<1>5. ASSUME NEW a \in Admins, Query(a) PROVE TypeOK'
  BY <1>5, NoPlanIsPlan DEF IInv, TypeOK, StatusInv, RefundExclusive, Plans, Statuses,
      AuditActions, AdminSteps, ExecuteSteps, Query
<1>6. ASSUME NEW a \in Admins, NEW amount \in 1..Amount, NEW deduct \in BOOLEAN,
             NEW force \in BOOLEAN, Prepare(a, amount, deduct, force)
      PROVE  TypeOK'
  <2>1. Available(amount) \in 0..amount
    BY AvailableBounds DEF IInv, TypeOK
  <2> QED BY <1>6, <2>1 DEF IInv, TypeOK, StatusInv, RefundExclusive, Plans, Statuses,
      AuditActions, AdminSteps, ExecuteSteps, Prepare
<1> QED BY <1>1, <1>2, <1>3, <1>4, <1>5, <1>6

-----------------------------------------------------------------------------
(* Who may be where *)

LEMMA ExecuteStatusInv ==
  ASSUME IInv, NEW a \in Admins, Execute(a)
  PROVE  StatusInv'
<1>0. Available(plan[a].deduct) \in 0..plan[a].deduct /\ plan[a].deduct \in 0..Amount
  BY AvailableBounds DEF IInv, TypeOK, Plans
<1>1. CASE Lock(a)
  BY <1>1, NoPlanIsPlan
  DEF IInv, TypeOK, StatusInv, RefundExclusive, Plans, Statuses, ExecuteSteps, Lock,
      Lockable
<1>2. CASE Deduct(a)
  BY <1>2, NoPlanIsPlan, <1>0
  DEF IInv, TypeOK, StatusInv, RefundExclusive, Plans, Statuses, ExecuteSteps, Deduct,
      DeductStep
<1>3. CASE GatewaySucceeds(a)
  BY <1>3, NoPlanIsPlan
  DEF IInv, TypeOK, StatusInv, RefundExclusive, Plans, Statuses, ExecuteSteps,
      GatewaySucceeds, SendsBack, Accepts, KnownDone, KnownPending
<1>4. CASE GatewayDefers(a)
  BY <1>4, NoPlanIsPlan
  DEF IInv, TypeOK, StatusInv, RefundExclusive, Plans, Statuses, ExecuteSteps,
      GatewayDefers, Accepts, KnownDone, KnownPending, AfterDeferral
<1>5. CASE GatewayRefuses(a)
  BY <1>5, NoPlanIsPlan
  DEF IInv, TypeOK, StatusInv, RefundExclusive, Plans, Statuses, ExecuteSteps,
      GatewayRefuses, KnownDone, KnownPending
<1>6. CASE MarkRefundOk(a)
  BY <1>6, NoPlanIsPlan
  DEF IInv, TypeOK, StatusInv, RefundExclusive, Plans, Statuses, ExecuteSteps,
      MarkRefundOk, RefundedStatus
<1>7. CASE MarkRefundPending(a)
  BY <1>7, NoPlanIsPlan
  DEF IInv, TypeOK, StatusInv, RefundExclusive, Plans, Statuses, ExecuteSteps,
      MarkRefundPending
<1>8. CASE RollbackRefund(a)
  BY <1>8, NoPlanIsPlan
  DEF IInv, TypeOK, StatusInv, RefundExclusive, Plans, Statuses, ExecuteSteps,
      RollbackRefund
<1>9. CASE RestoreStatus(a)
  BY <1>9, NoPlanIsPlan
  DEF IInv, TypeOK, StatusInv, RefundExclusive, Plans, Statuses, ExecuteSteps,
      RestoreStatus
<1>10. CASE MarkFailed(a)
  BY <1>10, NoPlanIsPlan
  DEF IInv, TypeOK, StatusInv, RefundExclusive, Plans, Statuses, ExecuteSteps, MarkFailed
<1> QED BY <1>1, <1>2, <1>3, <1>4, <1>5, <1>6, <1>7, <1>8, <1>9, <1>10 DEF Execute

LEMMA FinalizeStatusInv ==
  ASSUME IInv, NEW a \in Admins, Finalize(a)
  PROVE  StatusInv'
<1>1. CASE FinalizeOk(a)
  BY <1>1, NoPlanIsPlan
  DEF IInv, TypeOK, StatusInv, RefundExclusive, Plans, Statuses, ExecuteSteps,
      FinalizeOk, RefundedStatus
<1>2. CASE FinalizeFail(a)
  BY <1>2, NoPlanIsPlan
  DEF IInv, TypeOK, StatusInv, RefundExclusive, Plans, Statuses, ExecuteSteps,
      FinalizeFail
<1>3. CASE FinalizeKeep(a)
  BY <1>3, NoPlanIsPlan
  DEF IInv, TypeOK, StatusInv, RefundExclusive, Plans, Statuses, ExecuteSteps,
      FinalizeKeep
<1> QED BY <1>1, <1>2, <1>3 DEF Finalize

LEMMA FaultStatusInv ==
  ASSUME IInv, NEW a \in Admins, Fault(a)
  PROVE  StatusInv'
<1>0. Available(plan[a].deduct) \in 0..plan[a].deduct /\ plan[a].deduct \in 0..Amount
  BY AvailableBounds DEF IInv, TypeOK, Plans
<1>1. CASE DeductUnread(a)
  BY <1>1, NoPlanIsPlan, <1>0
  DEF IInv, TypeOK, StatusInv, RefundExclusive, Plans, Statuses, ExecuteSteps,
      DeductUnread, DeductStep
<1>2. CASE DeductFails(a)
  BY <1>2, NoPlanIsPlan, <1>0
  DEF IInv, TypeOK, StatusInv, RefundExclusive, Plans, Statuses, ExecuteSteps, DeductFails
<1>3. CASE AnswerLost(a)
  BY <1>3, NoPlanIsPlan
  DEF IInv, TypeOK, StatusInv, RefundExclusive, Plans, Statuses, ExecuteSteps,
      AnswerLost, SendsBack, Accepts
<1>4. CASE RollbackFails(a)
  BY <1>4, NoPlanIsPlan
  DEF IInv, TypeOK, StatusInv, RefundExclusive, Plans, Statuses, ExecuteSteps,
      RollbackFails
<1>5. CASE ReturnFails(a)
  BY <1>5, NoPlanIsPlan
  DEF IInv, TypeOK, StatusInv, RefundExclusive, Plans, Statuses, ExecuteSteps, ReturnFails
<1>6. CASE Abort(a)
  BY <1>6, NoPlanIsPlan
  DEF IInv, TypeOK, StatusInv, RefundExclusive, Plans, Statuses, ExecuteSteps, Abort
<1> QED BY <1>1, <1>2, <1>3, <1>4, <1>5, <1>6 DEF Fault

LEMMA RestStatusInv ==
  ASSUME IInv,
         UserSpends \/ GatewaySettles
           \/ \E a \in Admins :
                \/ StartRequest(a) \/ RequestRow(a) \/ Query(a)
                \/ \E amount \in 1..Amount, deduct, force \in BOOLEAN :
                     Prepare(a, amount, deduct, force)
  PROVE  StatusInv'
<1>1. CASE UserSpends
  BY <1>1 DEF IInv, TypeOK, StatusInv, RefundExclusive, Plans, Statuses, ExecuteSteps,
      UserSpends
<1>2. CASE GatewaySettles
  BY <1>2 DEF IInv, TypeOK, StatusInv, RefundExclusive, Plans, Statuses, ExecuteSteps,
      GatewaySettles
<1>3. ASSUME NEW a \in Admins, StartRequest(a) PROVE StatusInv'
  BY <1>3, NoPlanIsPlan DEF IInv, TypeOK, StatusInv, RefundExclusive, Plans, Statuses,
      ExecuteSteps, StartRequest
<1>4. ASSUME NEW a \in Admins, RequestRow(a) PROVE StatusInv'
  BY <1>4, NoPlanIsPlan DEF IInv, TypeOK, StatusInv, RefundExclusive, Plans, Statuses,
      ExecuteSteps, RequestRow
<1>5. ASSUME NEW a \in Admins, Query(a) PROVE StatusInv'
  BY <1>5, NoPlanIsPlan DEF IInv, TypeOK, StatusInv, RefundExclusive, Plans, Statuses,
      ExecuteSteps, Query
<1>6. ASSUME NEW a \in Admins, NEW amount \in 1..Amount, NEW deduct \in BOOLEAN,
             NEW force \in BOOLEAN, Prepare(a, amount, deduct, force)
      PROVE  StatusInv'
  <2>1. Available(amount) \in 0..amount
    BY AvailableBounds DEF IInv, TypeOK
  <2> QED BY <1>6, <2>1 DEF IInv, TypeOK, StatusInv, RefundExclusive, Plans, Statuses,
      ExecuteSteps, Prepare
<1> QED BY <1>1, <1>2, <1>3, <1>4, <1>5, <1>6

-----------------------------------------------------------------------------
(* The deduction *)

LEMMA ExecuteHeldInv ==
  ASSUME IInv, lostWrites' = 0, HeldInv, NEW a \in Admins, Execute(a)
  PROVE  HeldInv'
<1>0. Available(plan[a].deduct) \in 0..plan[a].deduct /\ plan[a].deduct \in 0..Amount
  BY AvailableBounds DEF IInv, TypeOK, Plans
<1>1. CASE Lock(a)
  BY <1>1, NoPlanIsPlan
  DEF IInv, TypeOK, StatusInv, RefundExclusive, HeldInv, Plans, Statuses, ExecuteSteps,
      Lock, Lockable
<1>2. CASE Deduct(a)
  BY <1>2, NoPlanIsPlan, <1>0
  DEF IInv, TypeOK, StatusInv, RefundExclusive, HeldInv, Plans, Statuses, ExecuteSteps,
      Deduct, DeductStep
<1>3. CASE GatewaySucceeds(a)
  BY <1>3, NoPlanIsPlan
  DEF IInv, TypeOK, StatusInv, RefundExclusive, HeldInv, Plans, Statuses, ExecuteSteps,
      GatewaySucceeds, SendsBack, Accepts, KnownDone, KnownPending
<1>4. CASE GatewayDefers(a)
  BY <1>4, NoPlanIsPlan
  DEF IInv, TypeOK, StatusInv, RefundExclusive, HeldInv, Plans, Statuses, ExecuteSteps,
      GatewayDefers, Accepts, KnownDone, KnownPending, AfterDeferral
<1>5. CASE GatewayRefuses(a)
  BY <1>5, NoPlanIsPlan
  DEF IInv, TypeOK, StatusInv, RefundExclusive, HeldInv, Plans, Statuses, ExecuteSteps,
      GatewayRefuses, KnownDone, KnownPending
<1>6. CASE MarkRefundOk(a)
  BY <1>6, NoPlanIsPlan
  DEF IInv, TypeOK, StatusInv, RefundExclusive, HeldInv, Plans, Statuses, ExecuteSteps,
      MarkRefundOk, RefundedStatus
<1>7. CASE MarkRefundPending(a)
  BY <1>7, NoPlanIsPlan
  DEF IInv, TypeOK, StatusInv, RefundExclusive, HeldInv, Plans, Statuses, ExecuteSteps,
      MarkRefundPending
<1>8. CASE RollbackRefund(a)
  BY <1>8, NoPlanIsPlan
  DEF IInv, TypeOK, StatusInv, RefundExclusive, HeldInv, Plans, Statuses, ExecuteSteps,
      RollbackRefund
<1>9. CASE RestoreStatus(a)
  BY <1>9, NoPlanIsPlan
  DEF IInv, TypeOK, StatusInv, RefundExclusive, HeldInv, Plans, Statuses, ExecuteSteps,
      RestoreStatus
<1>10. CASE MarkFailed(a)
  BY <1>10, NoPlanIsPlan
  DEF IInv, TypeOK, StatusInv, RefundExclusive, HeldInv, Plans, Statuses, ExecuteSteps,
      MarkFailed
<1> QED BY <1>1, <1>2, <1>3, <1>4, <1>5, <1>6, <1>7, <1>8, <1>9, <1>10 DEF Execute

LEMMA FinalizeHeldInv ==
  ASSUME IInv, lostWrites' = 0, HeldInv, NEW a \in Admins, Finalize(a)
  PROVE  HeldInv'
<1>1. CASE FinalizeOk(a)
  BY <1>1, NoPlanIsPlan
  DEF IInv, TypeOK, StatusInv, RefundExclusive, HeldInv, Plans, Statuses, ExecuteSteps,
      FinalizeOk, RefundedStatus
<1>2. CASE FinalizeFail(a)
  BY <1>2, NoPlanIsPlan
  DEF IInv, TypeOK, StatusInv, RefundExclusive, HeldInv, Plans, Statuses, ExecuteSteps,
      FinalizeFail
<1>3. CASE FinalizeKeep(a)
  BY <1>3, NoPlanIsPlan
  DEF IInv, TypeOK, StatusInv, RefundExclusive, HeldInv, Plans, Statuses, ExecuteSteps,
      FinalizeKeep
<1> QED BY <1>1, <1>2, <1>3 DEF Finalize

LEMMA FaultHeldInv ==
  ASSUME IInv, lostWrites' = 0, HeldInv, NEW a \in Admins, Fault(a)
  PROVE  HeldInv'
<1>0. Available(plan[a].deduct) \in 0..plan[a].deduct /\ plan[a].deduct \in 0..Amount
  BY AvailableBounds DEF IInv, TypeOK, Plans
<1>1. CASE DeductUnread(a)
  BY <1>1, NoPlanIsPlan, <1>0
  DEF IInv, TypeOK, StatusInv, RefundExclusive, HeldInv, Plans, Statuses, ExecuteSteps,
      DeductUnread, DeductStep
<1>2. CASE DeductFails(a)
  BY <1>2, NoPlanIsPlan, <1>0
  DEF IInv, TypeOK, StatusInv, RefundExclusive, HeldInv, Plans, Statuses, ExecuteSteps,
      DeductFails
<1>3. CASE AnswerLost(a)
  BY <1>3, NoPlanIsPlan
  DEF IInv, TypeOK, StatusInv, RefundExclusive, HeldInv, Plans, Statuses, ExecuteSteps,
      AnswerLost, SendsBack, Accepts
<1>4. CASE RollbackFails(a)
  BY <1>4, NoPlanIsPlan
  DEF IInv, TypeOK, StatusInv, RefundExclusive, HeldInv, Plans, Statuses, ExecuteSteps,
      RollbackFails
<1>5. CASE ReturnFails(a)
  BY <1>5, NoPlanIsPlan
  DEF IInv, TypeOK, StatusInv, RefundExclusive, HeldInv, Plans, Statuses, ExecuteSteps,
      ReturnFails
<1>6. CASE Abort(a)
  BY <1>6, NoPlanIsPlan
  DEF IInv, TypeOK, StatusInv, RefundExclusive, HeldInv, Plans, Statuses, ExecuteSteps,
      Abort
<1> QED BY <1>1, <1>2, <1>3, <1>4, <1>5, <1>6 DEF Fault

LEMMA RestHeldInv ==
  ASSUME IInv, lostWrites' = 0, HeldInv,
         UserSpends \/ GatewaySettles
           \/ \E a \in Admins :
                \/ StartRequest(a) \/ RequestRow(a) \/ Query(a)
                \/ \E amount \in 1..Amount, deduct, force \in BOOLEAN :
                     Prepare(a, amount, deduct, force)
  PROVE  HeldInv'
<1>1. CASE UserSpends
  BY <1>1 DEF IInv, TypeOK, StatusInv, RefundExclusive, HeldInv, Plans, Statuses,
      ExecuteSteps, UserSpends
<1>2. CASE GatewaySettles
  BY <1>2 DEF IInv, TypeOK, StatusInv, RefundExclusive, HeldInv, Plans, Statuses,
      ExecuteSteps, GatewaySettles
<1>3. ASSUME NEW a \in Admins, StartRequest(a) PROVE HeldInv'
  BY <1>3, NoPlanIsPlan DEF IInv, TypeOK, StatusInv, RefundExclusive, HeldInv, Plans,
      Statuses, ExecuteSteps, StartRequest
<1>4. ASSUME NEW a \in Admins, RequestRow(a) PROVE HeldInv'
  BY <1>4, NoPlanIsPlan DEF IInv, TypeOK, StatusInv, RefundExclusive, HeldInv, Plans,
      Statuses, ExecuteSteps, RequestRow
<1>5. ASSUME NEW a \in Admins, Query(a) PROVE HeldInv'
  BY <1>5, NoPlanIsPlan DEF IInv, TypeOK, StatusInv, RefundExclusive, HeldInv, Plans,
      Statuses, ExecuteSteps, Query
<1>6. ASSUME NEW a \in Admins, NEW amount \in 1..Amount, NEW deduct \in BOOLEAN,
             NEW force \in BOOLEAN, Prepare(a, amount, deduct, force)
      PROVE  HeldInv'
  <2>1. Available(amount) \in 0..amount
    BY AvailableBounds DEF IInv, TypeOK
  <2> QED BY <1>6, <2>1 DEF IInv, TypeOK, StatusInv, RefundExclusive, HeldInv, Plans,
      Statuses, ExecuteSteps, Prepare
<1> QED BY <1>1, <1>2, <1>3, <1>4, <1>5, <1>6

-----------------------------------------------------------------------------
(* No order is left in REFUNDING *)

LEMMA FaultCounts ==
  ASSUME IInv, NEW a \in Admins, Fault(a)
  PROVE  faults' > 0
BY DEF IInv, TypeOK, Fault, DeductUnread, DeductStep, DeductFails, AnswerLost,
   RollbackFails, ReturnFails, Abort

\* A request that is not executing leaves those that are at work alone.
LEMMA BystanderKeepsRunning ==
  ASSUME RefundingIsRunning, UNCHANGED <<status, audits, faults>>, NEW a \in Admins,
         pc \in [Admins -> AdminSteps], pc[a] \notin ExecuteSteps,
         pc' = [pc EXCEPT ![a] = pc'[a]]
  PROVE  RefundingIsRunning'
<1> SUFFICES ASSUME (faults = 0 /\ status = "REFUNDING" /\ "REFUND_PENDING" \notin audits)'
             PROVE  \E b \in Admins : pc'[b] \in ExecuteSteps
  BY DEF RefundingIsRunning
<1>1. PICK b \in Admins : pc[b] \in ExecuteSteps
  BY DEF RefundingIsRunning
<1> QED BY <1>1

\* Whoever takes a step of ExecuteRefund goes on with it or writes the outcome.
LEMMA ExecuteKeepsRunning ==
  ASSUME IInv, RefundingIsRunning, NEW a \in Admins, Execute(a)
  PROVE  RefundingIsRunning'
<1>1. pc' = [pc EXCEPT ![a] = pc'[a]] /\ pc \in [Admins -> AdminSteps]
  BY DEF IInv, TypeOK, Execute, Lock, Deduct, DeductStep, GatewaySucceeds,
     GatewayDefers, GatewayRefuses, MarkRefundOk, MarkRefundPending, RollbackRefund,
     RestoreStatus, MarkFailed
<1>2. CASE Lock(a)
  <2>1. CASE status \in Refundable
    BY <1>1, <1>2, <2>1 DEF Lock, Lockable, ExecuteSteps, RefundingIsRunning
  <2>2. CASE status \notin Refundable
    BY <1>1, <1>2, <2>2, BystanderKeepsRunning DEF Lock, Lockable, ExecuteSteps
  <2> QED BY <2>1, <2>2
<1>3. CASE ~Lock(a)
  <2>1. pc'[a] \in ExecuteSteps \/ status' # "REFUNDING" \/ "REFUND_PENDING" \in audits'
    BY <1>1, <1>3 DEF IInv, TypeOK, Execute, Deduct, DeductStep, GatewaySucceeds,
       GatewayDefers, GatewayRefuses, MarkRefundOk, MarkRefundPending, RollbackRefund,
       RestoreStatus, MarkFailed, ExecuteSteps, AfterDeferral, RefundedStatus
  <2> QED BY <2>1 DEF RefundingIsRunning
<1> QED BY <1>2, <1>3

LEMMA RestKeepsRunning ==
  ASSUME IInv, RefundingIsRunning, NEW a \in Admins,
         \/ StartRequest(a) \/ RequestRow(a) \/ Query(a) \/ Finalize(a)
         \/ \E amount \in 1..Amount, deduct, force \in BOOLEAN :
              Prepare(a, amount, deduct, force)
  PROVE  RefundingIsRunning'
<1>1. /\ pc \in [Admins -> AdminSteps] /\ pc[a] \notin ExecuteSteps
      /\ pc' = [pc EXCEPT ![a] = pc'[a]]
  BY DEF IInv, TypeOK, StartRequest, RequestRow, Query, Prepare, Finalize, FinalizeOk,
     FinalizeFail, FinalizeKeep, ExecuteSteps
<1>2. status' # "REFUNDING" \/ UNCHANGED <<status, audits, faults>>
  BY DEF StartRequest, RequestRow, Query, Prepare, Finalize, FinalizeOk, FinalizeFail,
     FinalizeKeep, RefundedStatus
<1> QED BY <1>1, <1>2, BystanderKeepsRunning DEF RefundingIsRunning

LEMMA StepKeepsRunning ==
  ASSUME IInv, RefundingIsRunning, Next
  PROVE  RefundingIsRunning'
<1>1. CASE UserSpends \/ GatewaySettles
  BY <1>1 DEF UserSpends, GatewaySettles, RefundingIsRunning
<1>2. ASSUME NEW a \in Admins, Fault(a) PROVE RefundingIsRunning'
  BY <1>2, FaultCounts DEF RefundingIsRunning
<1> QED BY <1>1, <1>2, ExecuteKeepsRunning, RestKeepsRunning DEF Next

-----------------------------------------------------------------------------
(* What is known of the gateway *)

LEMMA ExecuteKnownInv ==
  ASSUME IInv, KnownInv, NEW a \in Admins, Execute(a)
  PROVE  KnownInv'
<1>0. TypeOK /\ StatusInv /\ TypeOK'
  BY ExecuteTypeOK DEF IInv
<1>1. CASE Lock(a)
  BY <1>0, <1>1
  DEF KnownInv, TypeOK, StatusInv, RefundExclusive, ExecuteSteps, Plans, NoPlan,
      Refunded, Lock, Lockable
<1>2. CASE Deduct(a)
  BY <1>0, <1>2
  DEF KnownInv, TypeOK, StatusInv, RefundExclusive, ExecuteSteps, Plans, NoPlan,
      Refunded, Deduct, DeductStep
<1>3. CASE GatewaySucceeds(a)
  BY <1>0, <1>3
  DEF KnownInv, TypeOK, StatusInv, RefundExclusive, ExecuteSteps, Plans, NoPlan,
      Refunded, GatewaySucceeds, SendsBack, Accepts, KnownDone
<1>4. CASE GatewayDefers(a)
  BY <1>0, <1>4
  DEF KnownInv, TypeOK, StatusInv, RefundExclusive, ExecuteSteps, Plans, NoPlan,
      Refunded, GatewayDefers, Accepts, KnownPending, AfterDeferral
<1>5. CASE GatewayRefuses(a)
  BY <1>0, <1>5
  DEF KnownInv, TypeOK, StatusInv, RefundExclusive, ExecuteSteps, Plans, NoPlan,
      Refunded, GatewayRefuses
<1>6. CASE MarkRefundOk(a)
  BY <1>0, <1>6
  DEF KnownInv, TypeOK, StatusInv, RefundExclusive, ExecuteSteps, Plans, NoPlan,
      Refunded, MarkRefundOk, RefundedStatus
<1>7. CASE MarkRefundPending(a)
  BY <1>0, <1>7
  DEF KnownInv, TypeOK, StatusInv, RefundExclusive, ExecuteSteps, Plans, NoPlan,
      Refunded, MarkRefundPending
<1>8. CASE RollbackRefund(a)
  BY <1>0, <1>8
  DEF KnownInv, TypeOK, StatusInv, RefundExclusive, ExecuteSteps, Plans, NoPlan,
      Refunded, RollbackRefund
<1>9. CASE RestoreStatus(a)
  BY <1>0, <1>9
  DEF KnownInv, TypeOK, StatusInv, RefundExclusive, ExecuteSteps, Plans, NoPlan,
      Refunded, RestoreStatus
<1>10. CASE MarkFailed(a)
  BY <1>0, <1>10
  DEF KnownInv, TypeOK, StatusInv, RefundExclusive, ExecuteSteps, Plans, NoPlan,
      Refunded, MarkFailed
<1> QED BY <1>1, <1>2, <1>3, <1>4, <1>5, <1>6, <1>7, <1>8, <1>9, <1>10 DEF Execute

LEMMA FinalizeKnownInv ==
  ASSUME IInv, KnownInv, NEW a \in Admins, Finalize(a)
  PROVE  KnownInv'
<1>0. TypeOK /\ StatusInv /\ TypeOK'
  BY FinalizeTypeOK DEF IInv
<1>1. CASE FinalizeOk(a)
  BY <1>0, <1>1
  DEF KnownInv, TypeOK, StatusInv, RefundExclusive, ExecuteSteps, Plans, NoPlan,
      Refunded, FinalizeOk, RefundedStatus
<1>2. CASE FinalizeFail(a)
  BY <1>0, <1>2
  DEF KnownInv, TypeOK, StatusInv, RefundExclusive, ExecuteSteps, Plans, NoPlan,
      Refunded, FinalizeFail
<1>3. CASE FinalizeKeep(a)
  BY <1>0, <1>3
  DEF KnownInv, TypeOK, StatusInv, RefundExclusive, ExecuteSteps, Plans, NoPlan,
      Refunded, FinalizeKeep
<1> QED BY <1>1, <1>2, <1>3 DEF Finalize

LEMMA FaultKnownInv ==
  ASSUME IInv, KnownInv, NEW a \in Admins, Fault(a)
  PROVE  KnownInv'
<1>0. TypeOK /\ StatusInv /\ TypeOK'
  BY FaultTypeOK DEF IInv
<1>1. CASE DeductUnread(a)
  BY <1>0, <1>1
  DEF KnownInv, TypeOK, StatusInv, RefundExclusive, ExecuteSteps, Plans, NoPlan,
      Refunded, DeductUnread, DeductStep
<1>2. CASE DeductFails(a)
  BY <1>0, <1>2
  DEF KnownInv, TypeOK, StatusInv, RefundExclusive, ExecuteSteps, Plans, NoPlan,
      Refunded, DeductFails
<1>3. CASE AnswerLost(a)
  BY <1>0, <1>3
  DEF KnownInv, TypeOK, StatusInv, RefundExclusive, ExecuteSteps, Plans, NoPlan,
      Refunded, AnswerLost, SendsBack, Accepts
<1>4. CASE RollbackFails(a)
  BY <1>0, <1>4
  DEF KnownInv, TypeOK, StatusInv, RefundExclusive, ExecuteSteps, Plans, NoPlan,
      Refunded, RollbackFails
<1>5. CASE ReturnFails(a)
  BY <1>0, <1>5
  DEF KnownInv, TypeOK, StatusInv, RefundExclusive, ExecuteSteps, Plans, NoPlan,
      Refunded, ReturnFails
<1>6. CASE Abort(a)
  BY <1>0, <1>6
  DEF KnownInv, TypeOK, StatusInv, RefundExclusive, ExecuteSteps, Plans, NoPlan,
      Refunded, Abort
<1> QED BY <1>1, <1>2, <1>3, <1>4, <1>5, <1>6 DEF Fault

LEMMA ExecuteUnreturnedInv ==
  ASSUME IInv, KnownInv, UnreturnedInv, NEW a \in Admins, Execute(a)
  PROVE  UnreturnedInv'
<1>0. TypeOK /\ StatusInv /\ TypeOK'
  BY ExecuteTypeOK DEF IInv
<1>1. CASE Lock(a)
  BY <1>0, <1>1
  DEF UnreturnedInv, TypeOK, StatusInv, RefundExclusive, ExecuteSteps, Plans,
      NoPlan, Refunded, Lock, Lockable
<1>2. CASE Deduct(a)
  BY <1>0, <1>2
  DEF UnreturnedInv, TypeOK, StatusInv, RefundExclusive, ExecuteSteps, Plans,
      NoPlan, Refunded, Deduct, DeductStep
<1>3. CASE GatewaySucceeds(a)
  BY <1>0, <1>3
  DEF UnreturnedInv, TypeOK, StatusInv, RefundExclusive, ExecuteSteps, Plans,
      NoPlan, Refunded, GatewaySucceeds, SendsBack, Accepts, KnownDone
<1>4. CASE GatewayDefers(a)
  BY <1>0, <1>4
  DEF UnreturnedInv, TypeOK, StatusInv, RefundExclusive, ExecuteSteps, Plans,
      NoPlan, Refunded, GatewayDefers, Accepts, KnownPending, AfterDeferral
<1>5. CASE GatewayRefuses(a)
  BY <1>0, <1>5
  DEF UnreturnedInv, TypeOK, StatusInv, RefundExclusive, ExecuteSteps, Plans,
      NoPlan, Refunded, GatewayRefuses
<1>6. CASE MarkRefundOk(a)
  BY <1>0, <1>6
  DEF UnreturnedInv, TypeOK, StatusInv, RefundExclusive, ExecuteSteps, Plans,
      NoPlan, Refunded, MarkRefundOk, RefundedStatus
<1>7. CASE MarkRefundPending(a)
  BY <1>0, <1>7
  DEF UnreturnedInv, TypeOK, StatusInv, RefundExclusive, ExecuteSteps, Plans,
      NoPlan, Refunded, MarkRefundPending
<1>8. CASE RollbackRefund(a)
  BY <1>0, <1>8
  DEF UnreturnedInv, TypeOK, StatusInv, RefundExclusive, ExecuteSteps, Plans,
      NoPlan, Refunded, RollbackRefund
<1>9. CASE RestoreStatus(a)
  BY <1>0, <1>9
  DEF UnreturnedInv, TypeOK, StatusInv, RefundExclusive, ExecuteSteps, Plans,
      NoPlan, Refunded, RestoreStatus
<1>10. CASE MarkFailed(a)
  BY <1>0, <1>10
  DEF UnreturnedInv, TypeOK, StatusInv, RefundExclusive, ExecuteSteps, Plans,
      NoPlan, Refunded, MarkFailed
<1> QED BY <1>1, <1>2, <1>3, <1>4, <1>5, <1>6, <1>7, <1>8, <1>9, <1>10 DEF Execute

LEMMA FinalizeUnreturnedInv ==
  ASSUME IInv, KnownInv, UnreturnedInv, NEW a \in Admins, Finalize(a)
  PROVE  UnreturnedInv'
<1>0. TypeOK /\ StatusInv /\ TypeOK'
  BY FinalizeTypeOK DEF IInv
<1>1. CASE FinalizeOk(a)
  BY <1>0, <1>1
  DEF UnreturnedInv, TypeOK, StatusInv, RefundExclusive, ExecuteSteps, Plans,
      NoPlan, Refunded, FinalizeOk, RefundedStatus
<1>2. CASE FinalizeFail(a)
  BY <1>0, <1>2
  DEF UnreturnedInv, KnownInv, TypeOK, StatusInv, RefundExclusive, ExecuteSteps,
      Plans, NoPlan, Refunded, FinalizeFail
<1>3. CASE FinalizeKeep(a)
  BY <1>0, <1>3
  DEF UnreturnedInv, KnownInv, TypeOK, StatusInv, RefundExclusive, ExecuteSteps,
      Plans, NoPlan, Refunded, FinalizeKeep
<1> QED BY <1>1, <1>2, <1>3 DEF Finalize

LEMMA FaultUnreturnedInv ==
  ASSUME IInv, KnownInv, UnreturnedInv, lostAnswers' = 0, NEW a \in Admins, Fault(a)
  PROVE  UnreturnedInv'
<1>0. TypeOK /\ StatusInv /\ TypeOK'
  BY FaultTypeOK DEF IInv
<1>1. CASE DeductUnread(a)
  BY <1>0, <1>1
  DEF UnreturnedInv, TypeOK, StatusInv, RefundExclusive, ExecuteSteps, Plans,
      NoPlan, Refunded, DeductUnread, DeductStep
<1>2. CASE DeductFails(a)
  BY <1>0, <1>2
  DEF UnreturnedInv, TypeOK, StatusInv, RefundExclusive, ExecuteSteps, Plans,
      NoPlan, Refunded, DeductFails
<1>3. CASE AnswerLost(a)
  BY <1>0, <1>3
  DEF UnreturnedInv, TypeOK, StatusInv, RefundExclusive, ExecuteSteps, Plans,
      NoPlan, Refunded, AnswerLost, SendsBack, Accepts
<1>4. CASE RollbackFails(a)
  BY <1>0, <1>4
  DEF UnreturnedInv, TypeOK, StatusInv, RefundExclusive, ExecuteSteps, Plans,
      NoPlan, Refunded, RollbackFails
<1>5. CASE ReturnFails(a)
  BY <1>0, <1>5
  DEF UnreturnedInv, TypeOK, StatusInv, RefundExclusive, ExecuteSteps, Plans,
      NoPlan, Refunded, ReturnFails
<1>6. CASE Abort(a)
  BY <1>0, <1>6
  DEF UnreturnedInv, TypeOK, StatusInv, RefundExclusive, ExecuteSteps, Plans,
      NoPlan, Refunded, Abort
<1> QED BY <1>1, <1>2, <1>3, <1>4, <1>5, <1>6 DEF Fault

LEMMA RestKnownInv ==
  ASSUME IInv, KnownInv,
         \/ UserSpends \/ GatewaySettles
         \/ \E a \in Admins :
              \/ StartRequest(a) \/ RequestRow(a) \/ Query(a)
              \/ \E amount \in 1..Amount, deduct, force \in BOOLEAN :
                   Prepare(a, amount, deduct, force)
  PROVE  KnownInv'
<1>0. TypeOK /\ StatusInv /\ TypeOK'
  BY RestTypeOK DEF IInv
<1>1. CASE UserSpends
  BY <1>0, <1>1
  DEF KnownInv, TypeOK, StatusInv, RefundExclusive, ExecuteSteps, Plans, NoPlan,
      Refunded, UserSpends
<1>2. CASE GatewaySettles
  BY <1>0, <1>2
  DEF KnownInv, TypeOK, StatusInv, RefundExclusive, ExecuteSteps, Plans, NoPlan,
      Refunded, GatewaySettles
<1>3. ASSUME NEW a \in Admins, StartRequest(a) PROVE KnownInv'
  BY <1>0, <1>3
  DEF KnownInv, TypeOK, StatusInv, RefundExclusive, ExecuteSteps, Plans, NoPlan,
      Refunded, StartRequest
<1>4. ASSUME NEW a \in Admins, RequestRow(a) PROVE KnownInv'
  BY <1>0, <1>4
  DEF KnownInv, TypeOK, StatusInv, RefundExclusive, ExecuteSteps, Plans, NoPlan,
      Refunded, RequestRow
<1>5. ASSUME NEW a \in Admins, Query(a) PROVE KnownInv'
  BY <1>0, <1>5
  DEF KnownInv, TypeOK, StatusInv, RefundExclusive, ExecuteSteps, Plans, NoPlan,
      Refunded, Query
<1>6. ASSUME NEW a \in Admins, NEW amount \in 1..Amount, NEW deduct \in BOOLEAN,
             NEW force \in BOOLEAN, Prepare(a, amount, deduct, force)
      PROVE  KnownInv'
  BY <1>0, <1>6
  DEF KnownInv, TypeOK, StatusInv, RefundExclusive, ExecuteSteps, Plans, NoPlan,
      Refunded, Prepare
<1> QED BY <1>1, <1>2, <1>3, <1>4, <1>5, <1>6

LEMMA RestUnreturnedInv ==
  ASSUME IInv, KnownInv, UnreturnedInv,
         \/ UserSpends \/ GatewaySettles
         \/ \E a \in Admins :
              \/ StartRequest(a) \/ RequestRow(a) \/ Query(a)
              \/ \E amount \in 1..Amount, deduct, force \in BOOLEAN :
                   Prepare(a, amount, deduct, force)
  PROVE  UnreturnedInv'
<1>0. TypeOK /\ StatusInv /\ TypeOK'
  BY RestTypeOK DEF IInv
<1>1. CASE UserSpends
  BY <1>0, <1>1
  DEF UnreturnedInv, TypeOK, StatusInv, RefundExclusive, ExecuteSteps, Plans,
      NoPlan, Refunded, UserSpends
<1>2. CASE GatewaySettles
  BY <1>0, <1>2
  DEF UnreturnedInv, TypeOK, StatusInv, RefundExclusive, ExecuteSteps, Plans,
      NoPlan, Refunded, GatewaySettles
<1>3. ASSUME NEW a \in Admins, StartRequest(a) PROVE UnreturnedInv'
  BY <1>0, <1>3
  DEF UnreturnedInv, TypeOK, StatusInv, RefundExclusive, ExecuteSteps, Plans,
      NoPlan, Refunded, StartRequest
<1>4. ASSUME NEW a \in Admins, RequestRow(a) PROVE UnreturnedInv'
  BY <1>0, <1>4
  DEF UnreturnedInv, TypeOK, StatusInv, RefundExclusive, ExecuteSteps, Plans,
      NoPlan, Refunded, RequestRow
<1>5. ASSUME NEW a \in Admins, Query(a) PROVE UnreturnedInv'
  BY <1>0, <1>5
  DEF UnreturnedInv, KnownInv, TypeOK, StatusInv, RefundExclusive, ExecuteSteps,
      Plans, NoPlan, Refunded, Query
<1>6. ASSUME NEW a \in Admins, NEW amount \in 1..Amount, NEW deduct \in BOOLEAN,
             NEW force \in BOOLEAN, Prepare(a, amount, deduct, force)
      PROVE  UnreturnedInv'
  BY <1>0, <1>6
  DEF UnreturnedInv, TypeOK, StatusInv, RefundExclusive, ExecuteSteps, Plans,
      NoPlan, Refunded, Prepare
<1> QED BY <1>1, <1>2, <1>3, <1>4, <1>5, <1>6

\* A loss is never forgotten: only a fault moves the two counters.
LEMMA LossesStay ==
  ASSUME IInv, Next
  PROVE  lostAnswers' >= lostAnswers /\ lostWrites' >= lostWrites
<1>1. lostAnswers \in Nat /\ lostWrites \in Nat
  BY DEF IInv, TypeOK
<1>2. NoFault => UNCHANGED <<lostAnswers, lostWrites>>
  BY DEF NoFault, faultVars
<1>3. UserSpends \/ GatewaySettles => NoFault
  BY DEF UserSpends, GatewaySettles
<1>4. ASSUME NEW a \in Admins,
             \/ StartRequest(a) \/ RequestRow(a) \/ Query(a)
             \/ \E amount \in 1..Amount, deduct, force \in BOOLEAN :
                  Prepare(a, amount, deduct, force)
      PROVE  NoFault
  BY <1>4 DEF StartRequest, RequestRow, Query, Prepare
<1>5. ASSUME NEW a \in Admins, Execute(a) PROVE NoFault
  <2>1. Lock(a) \/ Deduct(a) => NoFault
    BY DEF Lock, Deduct, DeductStep
  <2>2. GatewaySucceeds(a) \/ GatewayDefers(a) \/ GatewayRefuses(a) => NoFault
    BY DEF GatewaySucceeds, GatewayDefers, GatewayRefuses
  <2>3. MarkRefundOk(a) \/ MarkRefundPending(a) \/ RollbackRefund(a) => NoFault
    BY DEF MarkRefundOk, MarkRefundPending, RollbackRefund
  <2>4. RestoreStatus(a) \/ MarkFailed(a) => NoFault
    BY DEF RestoreStatus, MarkFailed
  <2> QED BY <1>5, <2>1, <2>2, <2>3, <2>4 DEF Execute
<1>6. ASSUME NEW a \in Admins, Finalize(a) PROVE NoFault
  BY <1>6 DEF Finalize, FinalizeOk, FinalizeFail, FinalizeKeep
<1>7. ASSUME NEW a \in Admins, Fault(a)
      PROVE  lostAnswers' >= lostAnswers /\ lostWrites' >= lostWrites
  <2>1. CASE DeductUnread(a) BY <1>1, <2>1 DEF DeductUnread
  <2>2. CASE DeductFails(a) BY <1>1, <2>2 DEF DeductFails
  <2>3. CASE AnswerLost(a) BY <1>1, <2>3 DEF AnswerLost
  <2>4. CASE RollbackFails(a) BY <1>1, <2>4 DEF RollbackFails
  <2>5. CASE ReturnFails(a) \/ Abort(a) BY <1>1, <2>5 DEF ReturnFails, Abort
  <2> QED BY <1>7, <2>1, <2>2, <2>3, <2>4, <2>5 DEF Fault
<1>8. CASE NoFault BY <1>1, <1>2, <1>8
<1> QED BY <1>3, <1>4, <1>5, <1>6, <1>7, <1>8 DEF Next

LEMMA StepGatewayInv ==
  ASSUME IInv, GatewayInv, Next
  PROVE  GatewayInv'
<1>1. KnownInv'
  BY ExecuteKnownInv, FinalizeKnownInv, FaultKnownInv, RestKnownInv DEF Next, GatewayInv
<1>2. ASSUME lostAnswers' = 0 PROVE UnreturnedInv'
  <2>1. KnownInv /\ UnreturnedInv
    BY <1>2, LossesStay DEF IInv, TypeOK, GatewayInv
  <2> QED
    BY <1>2, <2>1, ExecuteUnreturnedInv, FinalizeUnreturnedInv, FaultUnreturnedInv,
       RestUnreturnedInv DEF Next
<1> QED BY <1>1, <1>2 DEF GatewayInv

-----------------------------------------------------------------------------
(* The theorems *)

LEMMA InitIInv == Init => IInv
BY NoPlanIsPlan DEF Init, IInv, TypeOK, StatusInv, RefundExclusive, HeldInv, Statuses,
   AdminSteps, ExecuteSteps

LEMMA StepIInv ==
  ASSUME IInv, Next
  PROVE  IInv'
<1>1. TypeOK'
  BY ExecuteTypeOK, FinalizeTypeOK, FaultTypeOK, RestTypeOK DEF Next
<1>2. StatusInv'
  BY ExecuteStatusInv, FinalizeStatusInv, FaultStatusInv, RestStatusInv DEF Next
<1>3. lostWrites' = 0 => HeldInv'
  <2>1. ASSUME lostWrites' = 0 PROVE lostWrites = 0
    BY <2>1, LossesStay DEF IInv, TypeOK
  <2>2. ASSUME lostWrites' = 0 PROVE HeldInv
    BY <2>1, <2>2 DEF IInv
  <2> QED
    BY <2>2, ExecuteHeldInv, FinalizeHeldInv, FaultHeldInv, RestHeldInv DEF Next
<1> QED BY <1>1, <1>2, <1>3 DEF IInv

LEMMA StutterIInv == ASSUME IInv, UNCHANGED vars PROVE IInv'
BY DEF IInv, vars, TypeOK, StatusInv, RefundExclusive, HeldInv

\* Every reachable state satisfies the inductive invariant.
THEOREM Invariance == Spec => []IInv
<1>1. IInv /\ [Next]_vars => IInv'
  BY StepIInv, StutterIInv
<1> QED BY InitIInv, <1>1, PTL DEF Spec

\* Types, for every amount and any number of concurrent requests.
THEOREM TypeCorrect == Spec => []TypeOK
<1>1. IInv => TypeOK BY DEF IInv
<1> QED BY Invariance, <1>1, PTL

\* ExecuteRefund's CAS is a lock: one request at a time works on a refund.
THEOREM Exclusive == Spec => []RefundExclusive
<1>1. IInv => RefundExclusive BY DEF IInv, StatusInv
<1> QED BY Invariance, <1>1, PTL

\* The user is never charged more than the order's amount, nor paid out.
THEOREM DeductedOnce == Spec => []DeductedAtMostOnce
<1>1. IInv => DeductedAtMostOnce BY DEF IInv, HeldInv, DeductedAtMostOnce
<1> QED BY Invariance, <1>1, PTL

\* A restored order holds nothing that the audit does not tell of.
THEOREM RestoredHoldsNothing == Spec => []NothingHeldWhenRestored
<1>1. IInv => NothingHeldWhenRestored
  BY DEF IInv, HeldInv, NothingHeldWhenRestored
<1> QED BY Invariance, <1>1, PTL

\* No step moves a refunded order: nobody is refunding it, and those who would begin
\* or finish a refund find neither a status that can be locked nor a pending one.
LEMMA StepKeepsRefunded ==
  ASSUME IInv, Refunded, Next
  PROVE  status' = status
<1>1. /\ \A a \in Admins : pc[a] \notin ExecuteSteps
      /\ status \notin Refundable /\ status \notin {"COMPLETED", "REFUND_PENDING"}
  BY DEF IInv, StatusInv, RefundExclusive, Refunded, Refundable
<1>2. UserSpends \/ GatewaySettles => status' = status
  BY DEF UserSpends, GatewaySettles, rowVars
<1>3. ASSUME NEW a \in Admins,
             \/ StartRequest(a) \/ RequestRow(a) \/ Query(a)
             \/ \E amount \in 1..Amount, deduct, force \in BOOLEAN :
                  Prepare(a, amount, deduct, force)
      PROVE  status' = status
  BY <1>1, <1>3 DEF StartRequest, RequestRow, Query, Prepare, rowVars
<1>4. ASSUME NEW a \in Admins, Execute(a) PROVE status' = status
  <2>1. pc[a] \in ExecuteSteps \/ Lock(a)
    BY <1>4 DEF Execute, Deduct, DeductStep, GatewaySucceeds, GatewayDefers, GatewayRefuses,
       MarkRefundOk, MarkRefundPending, RollbackRefund, RestoreStatus, MarkFailed,
       ExecuteSteps
  <2> QED BY <1>1, <2>1 DEF Lock, Lockable
<1>5. ASSUME NEW a \in Admins, Finalize(a) PROVE status' = status
  BY <1>1, <1>5 DEF Finalize, FinalizeOk, FinalizeFail, FinalizeKeep, rowVars
<1>6. ASSUME NEW a \in Admins, Fault(a) PROVE status' = status
  BY <1>6 DEF Fault, DeductUnread, DeductStep, DeductFails, AnswerLost, RollbackFails, ReturnFails,
     Abort, rowVars
<1> QED BY <1>2, <1>3, <1>4, <1>5, <1>6 DEF Next

\* A request that was prepared, or is finalising, on an older copy of the order
\* cannot move it out of REFUNDED.
THEOREM RefundedStays == Spec => RefundedIsFinal
<1>1. ASSUME IInv, Next PROVE Refunded => UNCHANGED status
  BY <1>1, StepKeepsRefunded
<1>2. IInv /\ [Next]_vars => [Refunded => UNCHANGED status]_vars
  BY <1>1
<1> QED BY Invariance, <1>2, PTL DEF Spec, RefundedIsFinal

\* An order is left behind in REFUNDING only by a fault or a second deferral.
THEOREM RefundingRuns == Spec => []RefundingIsRunning
<1>1. Init => RefundingIsRunning
  BY DEF Init, RefundingIsRunning
<1>2. IInv /\ RefundingIsRunning /\ [Next]_vars => RefundingIsRunning'
  BY StepKeepsRunning DEF vars, RefundingIsRunning
<1> QED BY Invariance, <1>1, <1>2, PTL DEF Spec

\* Whoever writes the outcome writes what the gateway has done: a refunded order's
\* money was sent back, and one that may be refunded again has had none, as long as
\* the gateway's answers arrive.
THEOREM StatusFollowsGateway == Spec => []StatusMatchesReturned
<1>1. Init => GatewayInv
  BY DEF Init, GatewayInv, KnownInv, UnreturnedInv, Refunded
<1>2. IInv /\ GatewayInv /\ [Next]_vars => GatewayInv'
  BY StepGatewayInv DEF vars, GatewayInv, KnownInv, UnreturnedInv, Refunded
<1>3. GatewayInv => StatusMatchesReturned
  BY DEF GatewayInv, KnownInv, UnreturnedInv, StatusMatchesReturned
<1> QED BY Invariance, <1>1, <1>2, <1>3, PTL DEF Spec
=============================================================================
