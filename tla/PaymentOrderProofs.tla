------------------------- MODULE PaymentOrderProofs -------------------------
(***************************************************************************)
(* Proofs about PaymentOrder for every set of workers and every bound on   *)
(* the faults.                                                             *)
(***************************************************************************)
EXTENDS PaymentOrder, TLAPS

USE DEF outsideVars, rowVars, ledgerVars, workerVars, budgetVars,
        SetStatus, Touch, GoTo, Return, Enter, OnlyMoves, Settled,
        Cancellable, AmountMatches, Payable, Acquirable, Redeemable, Assignable,
        Claimable,
        Steps, LeaseSteps, PaidSteps, OrderTypes, Statuses, Upstreams, Tasks, Fulfillable

-----------------------------------------------------------------------------
(* Types *)

LEMMA EnvironmentFlagsOK ==
  ASSUME FlagsOK, Environment
  PROVE  FlagsOK'
<1>1. CASE ProviderAccepts
  BY <1>1, Zenon DEF ProviderAccepts, FlagsOK
<1>2. CASE ProviderRejects
  BY <1>2, Zenon DEF ProviderRejects, FlagsOK
<1>3. CASE UserPays
  BY <1>3, Zenon DEF UserPays, FlagsOK
<1>4. CASE DueTimePasses
  BY <1>4, Zenon DEF DueTimePasses, FlagsOK
<1>5. CASE FiveMinutesPass
  BY <1>5, Zenon DEF FiveMinutesPass, FlagsOK
<1>6. CASE RefundMoves
  BY <1>6, Zenon DEF RefundMoves, FlagsOK
<1>7. CASE WebhookUnseen
  BY <1>7, Zenon DEF WebhookUnseen, FlagsOK
<1> QED BY <1>1, <1>2, <1>3, <1>4, <1>5, <1>6, <1>7 DEF Environment

LEMMA StartFlagsOK ==
  ASSUME FlagsOK, NEW w \in Workers, Start(w)
  PROVE  FlagsOK'
<1>1. CASE StartWebhook(w)
  BY <1>1, Zenon DEF StartWebhook, FlagsOK
<1>2. CASE StartCancel(w)
  BY <1>2, Zenon DEF StartCancel, FlagsOK
<1>3. CASE StartExpire(w)
  BY <1>3, Zenon DEF StartExpire, FlagsOK
<1>4. CASE StartVerify(w)
  BY <1>4, Zenon DEF StartVerify, FlagsOK
<1>5. CASE StartRetry(w)
  BY <1>5, Zenon DEF StartRetry, FlagsOK
<1> QED BY <1>1, <1>2, <1>3, <1>4, <1>5 DEF Start

LEMMA CheckFlagsOK ==
  ASSUME FlagsOK, NEW w \in Workers, Check(w)
  PROVE  FlagsOK'
<1>1. CASE QueryFails(w)
  BY <1>1, Zenon DEF QueryFails, FlagsOK
<1>2. CASE QueryPaid(w)
  BY <1>2, Zenon DEF QueryPaid, FlagsOK
<1>3. CASE QueryUnpaid(w)
  BY <1>3, Zenon DEF QueryUnpaid, FlagsOK
<1>4. CASE CancelUpstream(w)
  BY <1>4, Zenon DEF CancelUpstream, FlagsOK
<1>5. CASE CancelRow(w)
  BY <1>5, Zenon DEF CancelRow, FlagsOK
<1>6. CASE PersistTradeNo(w)
  BY <1>6, Zenon DEF PersistTradeNo, FlagsOK
<1> QED BY <1>1, <1>2, <1>3, <1>4, <1>5, <1>6 DEF Check

LEMMA PayFlagsOK ==
  ASSUME FlagsOK, NEW w \in Workers, Pay(w)
  PROVE  FlagsOK'
<1>1. CASE Confirm(w)
  BY <1>1, Zenon DEF Confirm, FlagsOK
<1>2. CASE ToPaid(w)
  BY <1>2, Zenon DEF ToPaid, FlagsOK
<1>3. CASE AlreadyProcessed(w)
  BY <1>3, Zenon DEF AlreadyProcessed, FlagsOK
<1> QED BY <1>1, <1>2, <1>3 DEF Pay

LEMMA FulfilFlagsOK ==
  ASSUME FlagsOK, NEW w \in Workers, Fulfil(w)
  PROVE  FlagsOK'
<1>1. CASE Execute(w)
  BY <1>1, Zenon DEF Execute, FlagsOK
<1>2. CASE Acquire(w)
  BY <1>2, Zenon DEF Acquire, FlagsOK
<1>3. CASE AcquireLost(w)
  BY <1>3, Zenon DEF AcquireLost, FlagsOK
<1>4. CASE ReloadLease(w)
  BY <1>4, Zenon DEF ReloadLease, FlagsOK
<1>5. CASE LookupCode(w)
  BY <1>5, Zenon DEF LookupCode, FlagsOK
<1>6. CASE CreateCode(w)
  BY <1>6, Zenon DEF CreateCode, FlagsOK
<1>7. CASE RedeemCode(w)
  BY <1>7, Zenon DEF RedeemCode, FlagsOK
<1>8. CASE AssignSubscription(w)
  BY <1>8, Zenon DEF AssignSubscription, FlagsOK
<1>9. CASE InvalidateCache(w)
  BY <1>9, Zenon DEF InvalidateCache, FlagsOK
<1>10. CASE ApplyRebate(w)
  BY <1>10, Zenon DEF ApplyRebate, FlagsOK
<1>11. CASE MarkCompleted(w)
  BY <1>11, Zenon DEF MarkCompleted, FlagsOK
<1>12. CASE CompleteLost(w)
  BY <1>12, Zenon DEF CompleteLost, FlagsOK
<1>13. CASE MarkFailed(w)
  BY <1>13, Zenon DEF MarkFailed, FlagsOK
<1>14. CASE CheckGroup(w)
  BY <1>14, Zenon DEF CheckGroup, FlagsOK
<1>15. CASE TargetMissing(w)
  BY <1>15, Zenon DEF TargetMissing, FlagsOK
<1> QED BY <1>1, <1>2, <1>3, <1>4, <1>5, <1>6, <1>7, <1>8, <1>9, <1>10, <1>11, <1>12,
    <1>13, <1>14, <1>15 DEF Fulfil

LEMMA FaultFlagsOK ==
  ASSUME FlagsOK, NEW w \in Workers, Fault(w)
  PROVE  FlagsOK'
<1>1. CASE LoseRead(w)
  BY <1>1, Zenon DEF LoseRead, FlagsOK
<1>2. CASE StepFails(w)
  BY <1>2, Zenon DEF StepFails, FlagsOK
<1>3. CASE Abort(w)
  BY <1>3, Zenon DEF Abort, FlagsOK
<1>4. CASE WorkerStalls(w)
  BY <1>4, Zenon DEF WorkerStalls, FlagsOK
<1> QED BY <1>1, <1>2, <1>3, <1>4 DEF Fault

-----------------------------------------------------------------------------
(* The steps preserve CoreInv. *)

LEMMA EnvironmentCoreInv ==
  ASSUME IInv, Environment
  PROVE  CoreInv'
<1>1. CASE ProviderAccepts
  BY <1>1
  DEF ProviderAccepts, IInv, CoreInv, TypeOK, PaymentInv, LedgerInv, WorkerInv,
      CompletedIsCredited, HoldsLease
<1>2. CASE ProviderRejects
  BY <1>2
  DEF ProviderRejects, IInv, CoreInv, TypeOK, PaymentInv, LedgerInv, WorkerInv,
      CompletedIsCredited, HoldsLease
<1>3. CASE UserPays
  BY <1>3
  DEF UserPays, IInv, CoreInv, TypeOK, PaymentInv, LedgerInv, WorkerInv,
      CompletedIsCredited, HoldsLease
<1>4. CASE DueTimePasses
  BY <1>4
  DEF DueTimePasses, IInv, CoreInv, TypeOK, PaymentInv, LedgerInv, WorkerInv,
      CompletedIsCredited, HoldsLease
<1>5. CASE FiveMinutesPass
  <2>1. PaymentInv'
    BY <1>5 DEF FiveMinutesPass, IInv, CoreInv, TypeOK, PaymentInv, WorkerInv, HoldsLease
  <2>2. LedgerInv'
    BY <1>5 DEF FiveMinutesPass, IInv, CoreInv, TypeOK, LedgerInv
  <2>3. WorkerInv'
    BY <1>5
    DEF FiveMinutesPass, IInv, CoreInv, TypeOK, PaymentInv, LedgerInv, WorkerInv,
        FirstFulfilmentStep
  <2>4. CompletedIsCredited'
    BY <1>5 DEF FiveMinutesPass, IInv, CoreInv, TypeOK, WorkerInv, CompletedIsCredited
  <2> QED BY <2>1, <2>2, <2>3, <2>4 DEF CoreInv
<1>6. CASE RefundMoves
  BY <1>6
  DEF RefundMoves, IInv, CoreInv, TypeOK, PaymentInv, LedgerInv, WorkerInv,
      CompletedIsCredited, HoldsLease
<1>7. CASE WebhookUnseen
  BY <1>7
  DEF WebhookUnseen, IInv, CoreInv, TypeOK, PaymentInv, LedgerInv, WorkerInv,
      CompletedIsCredited, HoldsLease
<1> QED BY <1>1, <1>2, <1>3, <1>4, <1>5, <1>6, <1>7 DEF Environment

LEMMA StartCoreInv ==
  ASSUME IInv, NEW w \in Workers, Start(w)
  PROVE  CoreInv'
<1>1. CASE StartWebhook(w)
  BY <1>1
  DEF StartWebhook, IInv, CoreInv, TypeOK, PaymentInv, LedgerInv, WorkerInv,
      CompletedIsCredited, HoldsLease
<1>2. CASE StartCancel(w)
  BY <1>2
  DEF StartCancel, IInv, CoreInv, TypeOK, PaymentInv, LedgerInv, WorkerInv,
      CompletedIsCredited, HoldsLease
<1>3. CASE StartExpire(w)
  BY <1>3
  DEF StartExpire, IInv, CoreInv, TypeOK, PaymentInv, LedgerInv, WorkerInv,
      CompletedIsCredited, HoldsLease
<1>4. CASE StartVerify(w)
  BY <1>4
  DEF StartVerify, IInv, CoreInv, TypeOK, PaymentInv, LedgerInv, WorkerInv,
      CompletedIsCredited, HoldsLease
<1>5. CASE StartRetry(w)
  BY <1>5
  DEF StartRetry, IInv, CoreInv, TypeOK, PaymentInv, LedgerInv, WorkerInv,
      CompletedIsCredited, HoldsLease
<1> QED BY <1>1, <1>2, <1>3, <1>4, <1>5 DEF Start

LEMMA CheckCoreInv ==
  ASSUME IInv, NEW w \in Workers, Check(w)
  PROVE  CoreInv'
<1>1. CASE QueryFails(w)
  <2>1. PaymentInv'
    BY <1>1 DEF QueryFails, IInv, CoreInv, TypeOK, PaymentInv, WorkerInv, HoldsLease
  <2>2. LedgerInv'
    BY <1>1 DEF QueryFails, IInv, CoreInv, TypeOK, LedgerInv
  <2>3. WorkerInv'
    BY <1>1
    DEF QueryFails, IInv, CoreInv, TypeOK, PaymentInv, LedgerInv, WorkerInv,
        FirstFulfilmentStep
  <2>4. CompletedIsCredited'
    BY <1>1 DEF QueryFails, IInv, CoreInv, TypeOK, WorkerInv, CompletedIsCredited
  <2> QED BY <2>1, <2>2, <2>3, <2>4 DEF CoreInv
<1>2. CASE QueryPaid(w)
  BY <1>2
  DEF QueryPaid, IInv, CoreInv, TypeOK, PaymentInv, LedgerInv, WorkerInv,
      CompletedIsCredited, HoldsLease
<1>3. CASE QueryUnpaid(w)
  <2>1. PaymentInv'
    BY <1>3 DEF QueryUnpaid, IInv, CoreInv, TypeOK, PaymentInv, WorkerInv, HoldsLease
  <2>2. LedgerInv'
    BY <1>3 DEF QueryUnpaid, IInv, CoreInv, TypeOK, LedgerInv
  <2>3. WorkerInv'
    BY <1>3
    DEF QueryUnpaid, IInv, CoreInv, TypeOK, PaymentInv, LedgerInv, WorkerInv,
        FirstFulfilmentStep
  <2>4. CompletedIsCredited'
    BY <1>3 DEF QueryUnpaid, IInv, CoreInv, TypeOK, WorkerInv, CompletedIsCredited
  <2> QED BY <2>1, <2>2, <2>3, <2>4 DEF CoreInv
<1>4. CASE CancelUpstream(w)
  BY <1>4
  DEF CancelUpstream, IInv, CoreInv, TypeOK, PaymentInv, LedgerInv, WorkerInv,
      CompletedIsCredited, HoldsLease
<1>5. CASE CancelRow(w)
  <2>1. PaymentInv'
    BY <1>5 DEF CancelRow, IInv, CoreInv, TypeOK, PaymentInv, WorkerInv, HoldsLease
  <2>2. LedgerInv'
    BY <1>5 DEF CancelRow, IInv, CoreInv, TypeOK, LedgerInv
  <2>3. WorkerInv'
    BY <1>5
    DEF CancelRow, IInv, CoreInv, TypeOK, PaymentInv, LedgerInv, WorkerInv,
        FirstFulfilmentStep
  <2>4. CompletedIsCredited'
    BY <1>5 DEF CancelRow, IInv, CoreInv, TypeOK, WorkerInv, CompletedIsCredited
  <2> QED BY <2>1, <2>2, <2>3, <2>4 DEF CoreInv
<1>6. CASE PersistTradeNo(w)
  <2>1. PaymentInv'
    BY <1>6 DEF PersistTradeNo, IInv, CoreInv, TypeOK, PaymentInv, WorkerInv, HoldsLease
  <2>2. LedgerInv'
    BY <1>6 DEF PersistTradeNo, IInv, CoreInv, TypeOK, LedgerInv
  <2>3. WorkerInv'
    BY <1>6
    DEF PersistTradeNo, IInv, CoreInv, TypeOK, PaymentInv, LedgerInv, WorkerInv,
        FirstFulfilmentStep
  <2>4. CompletedIsCredited'
    BY <1>6 DEF PersistTradeNo, IInv, CoreInv, TypeOK, WorkerInv, CompletedIsCredited
  <2> QED BY <2>1, <2>2, <2>3, <2>4 DEF CoreInv
<1> QED BY <1>1, <1>2, <1>3, <1>4, <1>5, <1>6 DEF Check

LEMMA PayCoreInv ==
  ASSUME IInv, NEW w \in Workers, Pay(w)
  PROVE  CoreInv'
<1>1. CASE Confirm(w)
  <2>1. PaymentInv'
    BY <1>1 DEF Confirm, IInv, CoreInv, TypeOK, PaymentInv, WorkerInv, HoldsLease
  <2>2. LedgerInv'
    BY <1>1 DEF Confirm, IInv, CoreInv, TypeOK, LedgerInv
  <2>3. WorkerInv'
    BY <1>1
    DEF Confirm, IInv, CoreInv, TypeOK, PaymentInv, LedgerInv, WorkerInv,
        FirstFulfilmentStep
  <2>4. CompletedIsCredited'
    BY <1>1 DEF Confirm, IInv, CoreInv, TypeOK, WorkerInv, CompletedIsCredited
  <2> QED BY <2>1, <2>2, <2>3, <2>4 DEF CoreInv
<1>2. CASE ToPaid(w)
  <2>1. PaymentInv'
    BY <1>2 DEF ToPaid, IInv, CoreInv, TypeOK, PaymentInv, WorkerInv, HoldsLease
  <2>2. LedgerInv'
    BY <1>2 DEF ToPaid, IInv, CoreInv, TypeOK, LedgerInv
  <2>3. WorkerInv'
    BY <1>2
    DEF ToPaid, IInv, CoreInv, TypeOK, PaymentInv, LedgerInv, WorkerInv,
        FirstFulfilmentStep
  <2>4. CompletedIsCredited'
    BY <1>2 DEF ToPaid, IInv, CoreInv, TypeOK, WorkerInv, CompletedIsCredited
  <2> QED BY <2>1, <2>2, <2>3, <2>4 DEF CoreInv
<1>3. CASE AlreadyProcessed(w)
  <2>1. PaymentInv'
    BY <1>3 DEF AlreadyProcessed, IInv, CoreInv, TypeOK, PaymentInv, WorkerInv, HoldsLease
  <2>2. LedgerInv'
    BY <1>3 DEF AlreadyProcessed, IInv, CoreInv, TypeOK, LedgerInv
  <2>3. WorkerInv'
    BY <1>3
    DEF AlreadyProcessed, IInv, CoreInv, TypeOK, PaymentInv, LedgerInv, WorkerInv,
        FirstFulfilmentStep
  <2>4. CompletedIsCredited'
    BY <1>3 DEF AlreadyProcessed, IInv, CoreInv, TypeOK, WorkerInv, CompletedIsCredited
  <2> QED BY <2>1, <2>2, <2>3, <2>4 DEF CoreInv
<1> QED BY <1>1, <1>2, <1>3 DEF Pay

LEMMA FulfilCoreInv ==
  ASSUME IInv, NEW w \in Workers, Fulfil(w)
  PROVE  CoreInv'
<1>1. CASE Execute(w)
  <2>1. PaymentInv'
    BY <1>1 DEF Execute, IInv, CoreInv, TypeOK, PaymentInv, WorkerInv, HoldsLease
  <2>2. LedgerInv'
    BY <1>1 DEF Execute, IInv, CoreInv, TypeOK, LedgerInv
  <2>3. WorkerInv'
    BY <1>1
    DEF Execute, IInv, CoreInv, TypeOK, PaymentInv, LedgerInv, WorkerInv,
        FirstFulfilmentStep
  <2>4. CompletedIsCredited'
    BY <1>1 DEF Execute, IInv, CoreInv, TypeOK, WorkerInv, CompletedIsCredited
  <2> QED BY <2>1, <2>2, <2>3, <2>4 DEF CoreInv
<1>2. CASE Acquire(w)
  <2>1. PaymentInv'
    BY <1>2 DEF Acquire, IInv, CoreInv, TypeOK, PaymentInv, WorkerInv, HoldsLease
  <2>2. LedgerInv'
    BY <1>2 DEF Acquire, IInv, CoreInv, TypeOK, LedgerInv
  <2>3. WorkerInv'
    BY <1>2
    DEF Acquire, IInv, CoreInv, TypeOK, PaymentInv, LedgerInv, WorkerInv,
        FirstFulfilmentStep
  <2>4. CompletedIsCredited'
    BY <1>2 DEF Acquire, IInv, CoreInv, TypeOK, WorkerInv, CompletedIsCredited
  <2> QED BY <2>1, <2>2, <2>3, <2>4 DEF CoreInv
<1>3. CASE AcquireLost(w)
  BY <1>3
  DEF AcquireLost, IInv, CoreInv, TypeOK, PaymentInv, LedgerInv, WorkerInv,
      CompletedIsCredited, HoldsLease
<1>4. CASE ReloadLease(w)
  <2>1. PaymentInv'
    BY <1>4 DEF ReloadLease, IInv, CoreInv, TypeOK, PaymentInv, WorkerInv, HoldsLease
  <2>2. LedgerInv'
    BY <1>4 DEF ReloadLease, IInv, CoreInv, TypeOK, LedgerInv
  <2>3. WorkerInv'
    BY <1>4
    DEF ReloadLease, IInv, CoreInv, TypeOK, PaymentInv, LedgerInv, WorkerInv,
        FirstFulfilmentStep
  <2>4. CompletedIsCredited'
    BY <1>4 DEF ReloadLease, IInv, CoreInv, TypeOK, WorkerInv, CompletedIsCredited
  <2> QED BY <2>1, <2>2, <2>3, <2>4 DEF CoreInv
<1>5. CASE LookupCode(w)
  BY <1>5
  DEF LookupCode, IInv, CoreInv, TypeOK, PaymentInv, LedgerInv, WorkerInv,
      CompletedIsCredited, HoldsLease
<1>6. CASE CreateCode(w)
  BY <1>6
  DEF CreateCode, IInv, CoreInv, TypeOK, PaymentInv, LedgerInv, WorkerInv,
      CompletedIsCredited, HoldsLease
<1>7. CASE RedeemCode(w)
  BY <1>7
  DEF RedeemCode, IInv, CoreInv, TypeOK, PaymentInv, LedgerInv, WorkerInv,
      CompletedIsCredited, HoldsLease
<1>8. CASE AssignSubscription(w)
  BY <1>8
  DEF AssignSubscription, IInv, CoreInv, TypeOK, PaymentInv, LedgerInv, WorkerInv,
      CompletedIsCredited, HoldsLease
<1>9. CASE InvalidateCache(w)
  BY <1>9
  DEF InvalidateCache, IInv, CoreInv, TypeOK, PaymentInv, LedgerInv, WorkerInv,
      CompletedIsCredited, HoldsLease
<1>10. CASE ApplyRebate(w)
  BY <1>10
  DEF ApplyRebate, IInv, CoreInv, TypeOK, PaymentInv, LedgerInv, WorkerInv,
      CompletedIsCredited, HoldsLease
<1>11. CASE MarkCompleted(w)
  <2>1. PaymentInv'
    BY <1>11 DEF MarkCompleted, IInv, CoreInv, TypeOK, PaymentInv, WorkerInv, HoldsLease
  <2>2. LedgerInv'
    BY <1>11 DEF MarkCompleted, IInv, CoreInv, TypeOK, LedgerInv
  <2>3. WorkerInv'
    BY <1>11
    DEF MarkCompleted, IInv, CoreInv, TypeOK, PaymentInv, LedgerInv, WorkerInv,
        FirstFulfilmentStep
  <2>4. CompletedIsCredited'
    BY <1>11 DEF MarkCompleted, IInv, CoreInv, TypeOK, WorkerInv, CompletedIsCredited
  <2> QED BY <2>1, <2>2, <2>3, <2>4 DEF CoreInv
<1>12. CASE CompleteLost(w)
  BY <1>12
  DEF CompleteLost, IInv, CoreInv, TypeOK, PaymentInv, LedgerInv, WorkerInv,
      CompletedIsCredited, HoldsLease
<1>13. CASE MarkFailed(w)
  BY <1>13
  DEF MarkFailed, IInv, CoreInv, TypeOK, PaymentInv, LedgerInv, WorkerInv,
      CompletedIsCredited, HoldsLease
<1>14. CASE CheckGroup(w)
  BY <1>14
  DEF CheckGroup, IInv, CoreInv, TypeOK, PaymentInv, LedgerInv, WorkerInv,
      CompletedIsCredited, HoldsLease
<1>15. CASE TargetMissing(w)
  BY <1>15
  DEF TargetMissing, IInv, CoreInv, TypeOK, PaymentInv, LedgerInv, WorkerInv,
      CompletedIsCredited, HoldsLease
<1> QED BY <1>1, <1>2, <1>3, <1>4, <1>5, <1>6, <1>7, <1>8, <1>9, <1>10, <1>11, <1>12,
    <1>13, <1>14, <1>15 DEF Fulfil

LEMMA FaultCoreInv ==
  ASSUME IInv, NEW w \in Workers, Fault(w)
  PROVE  CoreInv'
<1>1. CASE LoseRead(w)
  BY <1>1
  DEF LoseRead, IInv, CoreInv, TypeOK, PaymentInv, LedgerInv, WorkerInv,
      CompletedIsCredited, HoldsLease
<1>2. CASE StepFails(w)
  BY <1>2
  DEF StepFails, IInv, CoreInv, TypeOK, PaymentInv, LedgerInv, WorkerInv,
      CompletedIsCredited, HoldsLease
<1>3. CASE Abort(w)
  BY <1>3
  DEF Abort, IInv, CoreInv, TypeOK, PaymentInv, LedgerInv, WorkerInv,
      CompletedIsCredited, HoldsLease
<1>4. CASE WorkerStalls(w)
  <2>1. PaymentInv'
    BY <1>4 DEF WorkerStalls, IInv, CoreInv, TypeOK, PaymentInv, WorkerInv, HoldsLease
  <2>2. LedgerInv'
    BY <1>4 DEF WorkerStalls, IInv, CoreInv, TypeOK, LedgerInv
  <2>3. WorkerInv'
    BY <1>4
    DEF WorkerStalls, IInv, CoreInv, TypeOK, PaymentInv, LedgerInv, WorkerInv,
        FirstFulfilmentStep
  <2>4. CompletedIsCredited'
    BY <1>4 DEF WorkerStalls, IInv, CoreInv, TypeOK, WorkerInv, CompletedIsCredited
  <2> QED BY <2>1, <2>2, <2>3, <2>4 DEF CoreInv
<1> QED BY <1>1, <1>2, <1>3, <1>4 DEF Fault

LEMMA EnvironmentTypeOK ==
  ASSUME TypeOK, Environment
  PROVE  TypeOK'
<1>0. FlagsOK' BY EnvironmentFlagsOK DEF TypeOK
<1>1. CASE ProviderAccepts
  BY <1>0, <1>1 DEF ProviderAccepts, TypeOK
<1>2. CASE ProviderRejects
  BY <1>0, <1>2 DEF ProviderRejects, TypeOK
<1>3. CASE UserPays
  BY <1>0, <1>3 DEF UserPays, TypeOK
<1>4. CASE DueTimePasses
  BY <1>0, <1>4 DEF DueTimePasses, TypeOK
<1>5. CASE FiveMinutesPass
  BY <1>0, <1>5 DEF FiveMinutesPass, TypeOK
<1>6. CASE RefundMoves
  BY <1>0, <1>6 DEF RefundMoves, TypeOK
<1>7. CASE WebhookUnseen
  BY <1>0, <1>7 DEF WebhookUnseen, TypeOK
<1> QED BY <1>1, <1>2, <1>3, <1>4, <1>5, <1>6, <1>7 DEF Environment

LEMMA StartTypeOK ==
  ASSUME TypeOK, NEW w \in Workers, Start(w)
  PROVE  TypeOK'
<1>0. FlagsOK' BY StartFlagsOK DEF TypeOK
<1>1. CASE StartWebhook(w)
  BY <1>0, <1>1 DEF StartWebhook, TypeOK
<1>2. CASE StartCancel(w)
  BY <1>0, <1>2 DEF StartCancel, TypeOK
<1>3. CASE StartExpire(w)
  BY <1>0, <1>3 DEF StartExpire, TypeOK
<1>4. CASE StartVerify(w)
  BY <1>0, <1>4 DEF StartVerify, TypeOK
<1>5. CASE StartRetry(w)
  BY <1>0, <1>5 DEF StartRetry, TypeOK
<1> QED BY <1>1, <1>2, <1>3, <1>4, <1>5 DEF Start

LEMMA CheckTypeOK ==
  ASSUME TypeOK, NEW w \in Workers, Check(w)
  PROVE  TypeOK'
<1>0. FlagsOK' BY CheckFlagsOK DEF TypeOK
<1>1. CASE QueryFails(w)
  BY <1>0, <1>1 DEF QueryFails, TypeOK
<1>2. CASE QueryPaid(w)
  BY <1>0, <1>2 DEF QueryPaid, TypeOK
<1>3. CASE QueryUnpaid(w)
  BY <1>0, <1>3 DEF QueryUnpaid, TypeOK
<1>4. CASE CancelUpstream(w)
  BY <1>0, <1>4 DEF CancelUpstream, TypeOK
<1>5. CASE CancelRow(w)
  BY <1>0, <1>5 DEF CancelRow, TypeOK
<1>6. CASE PersistTradeNo(w)
  BY <1>0, <1>6 DEF PersistTradeNo, TypeOK
<1> QED BY <1>1, <1>2, <1>3, <1>4, <1>5, <1>6 DEF Check

LEMMA PayTypeOK ==
  ASSUME TypeOK, NEW w \in Workers, Pay(w)
  PROVE  TypeOK'
<1>0. FlagsOK' BY PayFlagsOK DEF TypeOK
<1>1. CASE Confirm(w)
  BY <1>0, <1>1 DEF Confirm, TypeOK
<1>2. CASE ToPaid(w)
  BY <1>0, <1>2 DEF ToPaid, TypeOK
<1>3. CASE AlreadyProcessed(w)
  BY <1>0, <1>3 DEF AlreadyProcessed, TypeOK
<1> QED BY <1>1, <1>2, <1>3 DEF Pay

LEMMA FulfilTypeOK ==
  ASSUME TypeOK, NEW w \in Workers, Fulfil(w)
  PROVE  TypeOK'
<1>0. FlagsOK' BY FulfilFlagsOK DEF TypeOK
<1>1. CASE Execute(w)
  BY <1>0, <1>1 DEF Execute, TypeOK
<1>2. CASE Acquire(w)
  BY <1>0, <1>2 DEF Acquire, TypeOK
<1>3. CASE AcquireLost(w)
  BY <1>0, <1>3 DEF AcquireLost, TypeOK
<1>4. CASE ReloadLease(w)
  BY <1>0, <1>4 DEF ReloadLease, TypeOK, FirstFulfilmentStep
<1>5. CASE LookupCode(w)
  BY <1>0, <1>5 DEF LookupCode, TypeOK
<1>6. CASE CreateCode(w)
  BY <1>0, <1>6 DEF CreateCode, TypeOK
<1>7. CASE RedeemCode(w)
  BY <1>0, <1>7 DEF RedeemCode, TypeOK
<1>8. CASE AssignSubscription(w)
  BY <1>0, <1>8 DEF AssignSubscription, TypeOK
<1>9. CASE InvalidateCache(w)
  BY <1>0, <1>9 DEF InvalidateCache, TypeOK
<1>10. CASE ApplyRebate(w)
  BY <1>0, <1>10 DEF ApplyRebate, TypeOK
<1>11. CASE MarkCompleted(w)
  BY <1>0, <1>11 DEF MarkCompleted, TypeOK
<1>12. CASE CompleteLost(w)
  BY <1>0, <1>12 DEF CompleteLost, TypeOK
<1>13. CASE MarkFailed(w)
  BY <1>0, <1>13 DEF MarkFailed, TypeOK
<1>14. CASE CheckGroup(w)
  BY <1>0, <1>14 DEF CheckGroup, TypeOK
<1>15. CASE TargetMissing(w)
  BY <1>0, <1>15 DEF TargetMissing, TypeOK
<1> QED BY <1>1, <1>2, <1>3, <1>4, <1>5, <1>6, <1>7, <1>8, <1>9, <1>10, <1>11, <1>12,
    <1>13, <1>14, <1>15 DEF Fulfil

LEMMA FaultTypeOK ==
  ASSUME TypeOK, NEW w \in Workers, Fault(w)
  PROVE  TypeOK'
<1>0. FlagsOK' BY FaultFlagsOK DEF TypeOK
<1>1. CASE LoseRead(w)
  BY <1>0, <1>1 DEF LoseRead, TypeOK
<1>2. CASE StepFails(w)
  BY <1>0, <1>2 DEF StepFails, TypeOK
<1>3. CASE Abort(w)
  BY <1>0, <1>3 DEF Abort, TypeOK
<1>4. CASE WorkerStalls(w)
  BY <1>0, <1>4 DEF WorkerStalls, TypeOK
<1> QED BY <1>1, <1>2, <1>3, <1>4 DEF Fault

LEMMA TypeStep ==
  ASSUME TypeOK, Next
  PROVE  TypeOK'
BY EnvironmentTypeOK, StartTypeOK, CheckTypeOK, PayTypeOK, FulfilTypeOK, FaultTypeOK
DEF Next, Step

LEMMA CoreStep ==
  ASSUME IInv, Next
  PROVE  CoreInv'
BY EnvironmentCoreInv, StartCoreInv, CheckCoreInv, PayCoreInv, FulfilCoreInv, FaultCoreInv
DEF Next, Step

LEMMA InitIInv == Init => IInv
<1> SUFFICES ASSUME Init PROVE IInv OBVIOUS
<1>1. FlagsOK BY Zenon DEF Init, FlagsOK
<1>2. TypeOK BY <1>1 DEF Init, TypeOK
<1>3. CoreInv BY DEF Init, CoreInv, PaymentInv, LedgerInv, WorkerInv, CompletedIsCredited
<1> QED BY <1>2, <1>3 DEF IInv

LEMMA StutterIInv == ASSUME IInv, UNCHANGED vars PROVE IInv'
<1>1. FlagsOK' BY Zenon DEF vars, IInv, TypeOK, FlagsOK
<1>2. TypeOK' BY <1>1 DEF vars, IInv, TypeOK
<1>3. CoreInv' BY DEF vars, IInv, CoreInv, PaymentInv, LedgerInv, WorkerInv,
    CompletedIsCredited
<1> QED BY <1>2, <1>3 DEF IInv

-----------------------------------------------------------------------------
(* Theorems *)

\* The inductive invariant holds in every behaviour.
THEOREM Invariance == Spec => []IInv
<1>1. IInv /\ [Next]_vars => IInv'
  BY StutterIInv, TypeStep, CoreStep DEF IInv
<1> QED BY <1>1, InitIInv, PTL DEF Spec

\* Types of the order row, the ledger and the workers.
THEOREM TypeCorrect == Spec => []TypeOK
<1>1. IInv => TypeOK BY DEF IInv
<1> QED BY <1>1, Invariance, PTL

\* The order is credited at most once, however many workers fulfil it, and nothing
\* is credited that the provider did not receive.
THEOREM CreditedOnce == Spec => []CreditOnce
<1>1. IInv => credits <= 1 BY DEF IInv, CoreInv, LedgerInv
<1>2. IInv => (credits > 0 => paidAt /\ upstream = "paid")
  BY DEF IInv, CoreInv, TypeOK, LedgerInv, PaymentInv
<1>3. IInv => CreditOnce BY <1>1, <1>2 DEF CreditOnce
<1> QED BY <1>3, Invariance, PTL

\* The rebate is accrued at most once and never without the credit.
THEOREM RebatedAfterCredit == Spec => []RebateFollowsCredit
<1>1. IInv => RebateFollowsCredit
  BY DEF IInv, CoreInv, TypeOK, LedgerInv, RebateFollowsCredit
<1> QED BY <1>1, Invariance, PTL

\* COMPLETED and the refund statuses are only reached with the credit.
THEOREM CompletedWithCredit == Spec => []CompletedIsCredited
<1>1. IInv => CompletedIsCredited BY DEF IInv, CoreInv
<1> QED BY <1>1, Invariance, PTL

-----------------------------------------------------------------------------
(* Every step is a step of the ledger, or leaves the ledger alone. *)

USE DEF ledgerPhase, Ledger!Next, Ledger!vars, Ledger!Close, Ledger!Receive,
        Ledger!Credit, Ledger!Decide, Ledger!Settle

LedgerStep == [Ledger!Next]_(Ledger!vars)
USE DEF LedgerStep

LEMMA EnvironmentLedgerStep ==
  ASSUME IInv, IInv', Environment
  PROVE  LedgerStep
<1>1. CASE ProviderAccepts
  BY <1>1 DEF ProviderAccepts, IInv, CoreInv, TypeOK, PaymentInv, LedgerInv, WorkerInv,
      CompletedIsCredited, HoldsLease
<1>2. CASE ProviderRejects
  BY <1>2 DEF ProviderRejects, IInv, CoreInv, TypeOK, PaymentInv, LedgerInv, WorkerInv,
      CompletedIsCredited, HoldsLease
<1>3. CASE UserPays
  BY <1>3 DEF UserPays, IInv, CoreInv, TypeOK, PaymentInv, LedgerInv, WorkerInv,
      CompletedIsCredited, HoldsLease
<1>4. CASE DueTimePasses
  BY <1>4 DEF DueTimePasses, IInv, CoreInv, TypeOK, PaymentInv, LedgerInv, WorkerInv,
      CompletedIsCredited, HoldsLease
<1>5. CASE FiveMinutesPass
  BY <1>5 DEF FiveMinutesPass, IInv, CoreInv, TypeOK, PaymentInv, LedgerInv, WorkerInv,
      CompletedIsCredited, HoldsLease
<1>6. CASE RefundMoves
  BY <1>6 DEF RefundMoves, IInv, CoreInv, TypeOK, PaymentInv, LedgerInv, WorkerInv,
      CompletedIsCredited, HoldsLease
<1>7. CASE WebhookUnseen
  BY <1>7 DEF WebhookUnseen, IInv, CoreInv, TypeOK, PaymentInv, LedgerInv, WorkerInv,
      CompletedIsCredited, HoldsLease
<1> QED BY <1>1, <1>2, <1>3, <1>4, <1>5, <1>6, <1>7 DEF Environment

LEMMA StartLedgerStep ==
  ASSUME IInv, IInv', NEW w \in Workers, Start(w)
  PROVE  LedgerStep
<1>1. CASE StartWebhook(w)
  BY <1>1 DEF StartWebhook, IInv, CoreInv, TypeOK, PaymentInv, LedgerInv, WorkerInv,
      CompletedIsCredited, HoldsLease
<1>2. CASE StartCancel(w)
  BY <1>2 DEF StartCancel, IInv, CoreInv, TypeOK, PaymentInv, LedgerInv, WorkerInv,
      CompletedIsCredited, HoldsLease
<1>3. CASE StartExpire(w)
  BY <1>3 DEF StartExpire, IInv, CoreInv, TypeOK, PaymentInv, LedgerInv, WorkerInv,
      CompletedIsCredited, HoldsLease
<1>4. CASE StartVerify(w)
  BY <1>4 DEF StartVerify, IInv, CoreInv, TypeOK, PaymentInv, LedgerInv, WorkerInv,
      CompletedIsCredited, HoldsLease
<1>5. CASE StartRetry(w)
  BY <1>5 DEF StartRetry, IInv, CoreInv, TypeOK, PaymentInv, LedgerInv, WorkerInv,
      CompletedIsCredited, HoldsLease
<1> QED BY <1>1, <1>2, <1>3, <1>4, <1>5 DEF Start

LEMMA CheckLedgerStep ==
  ASSUME IInv, IInv', NEW w \in Workers, Check(w)
  PROVE  LedgerStep
<1>1. CASE QueryFails(w)
  BY <1>1 DEF QueryFails, IInv, CoreInv, TypeOK, PaymentInv, LedgerInv, WorkerInv,
      CompletedIsCredited, HoldsLease
<1>2. CASE QueryPaid(w)
  BY <1>2 DEF QueryPaid, IInv, CoreInv, TypeOK, PaymentInv, LedgerInv, WorkerInv,
      CompletedIsCredited, HoldsLease
<1>3. CASE QueryUnpaid(w)
  BY <1>3 DEF QueryUnpaid, IInv, CoreInv, TypeOK, PaymentInv, LedgerInv, WorkerInv,
      CompletedIsCredited, HoldsLease
<1>4. CASE CancelUpstream(w)
  BY <1>4 DEF CancelUpstream, IInv, CoreInv, TypeOK, PaymentInv, LedgerInv, WorkerInv,
      CompletedIsCredited, HoldsLease
<1>5. CASE CancelRow(w)
  BY <1>5 DEF CancelRow, IInv, CoreInv, TypeOK, PaymentInv, LedgerInv, WorkerInv,
      CompletedIsCredited, HoldsLease
<1>6. CASE PersistTradeNo(w)
  BY <1>6 DEF PersistTradeNo, IInv, CoreInv, TypeOK, PaymentInv, LedgerInv, WorkerInv,
      CompletedIsCredited, HoldsLease
<1> QED BY <1>1, <1>2, <1>3, <1>4, <1>5, <1>6 DEF Check

LEMMA PayLedgerStep ==
  ASSUME IInv, IInv', NEW w \in Workers, Pay(w)
  PROVE  LedgerStep
<1>1. CASE Confirm(w)
  BY <1>1 DEF Confirm, IInv, CoreInv, TypeOK, PaymentInv, LedgerInv, WorkerInv,
      CompletedIsCredited, HoldsLease
<1>2. CASE ToPaid(w)
  BY <1>2 DEF ToPaid, IInv, CoreInv, TypeOK, PaymentInv, LedgerInv, WorkerInv,
      CompletedIsCredited, HoldsLease
<1>3. CASE AlreadyProcessed(w)
  BY <1>3 DEF AlreadyProcessed, IInv, CoreInv, TypeOK, PaymentInv, LedgerInv,
      WorkerInv, CompletedIsCredited, HoldsLease
<1> QED BY <1>1, <1>2, <1>3 DEF Pay

LEMMA FulfilLedgerStep ==
  ASSUME IInv, IInv', NEW w \in Workers, Fulfil(w)
  PROVE  LedgerStep
<1>1. CASE Execute(w)
  BY <1>1 DEF Execute, IInv, CoreInv, TypeOK, PaymentInv, LedgerInv, WorkerInv,
      CompletedIsCredited, HoldsLease
<1>2. CASE Acquire(w)
  BY <1>2 DEF Acquire, IInv, CoreInv, TypeOK, PaymentInv, LedgerInv, WorkerInv,
      CompletedIsCredited, HoldsLease
<1>3. CASE AcquireLost(w)
  BY <1>3 DEF AcquireLost, IInv, CoreInv, TypeOK, PaymentInv, LedgerInv, WorkerInv,
      CompletedIsCredited, HoldsLease
<1>4. CASE ReloadLease(w)
  BY <1>4 DEF ReloadLease, IInv, CoreInv, TypeOK, PaymentInv, LedgerInv, WorkerInv,
      CompletedIsCredited, HoldsLease
<1>5. CASE LookupCode(w)
  BY <1>5 DEF LookupCode, IInv, CoreInv, TypeOK, PaymentInv, LedgerInv, WorkerInv,
      CompletedIsCredited, HoldsLease
<1>6. CASE CreateCode(w)
  BY <1>6 DEF CreateCode, IInv, CoreInv, TypeOK, PaymentInv, LedgerInv, WorkerInv,
      CompletedIsCredited, HoldsLease
<1>7. CASE RedeemCode(w)
  BY <1>7 DEF RedeemCode, IInv, CoreInv, TypeOK, PaymentInv, LedgerInv, WorkerInv,
      CompletedIsCredited, HoldsLease
<1>8. CASE AssignSubscription(w)
  BY <1>8 DEF AssignSubscription, IInv, CoreInv, TypeOK, PaymentInv, LedgerInv,
      WorkerInv, CompletedIsCredited, HoldsLease
<1>9. CASE InvalidateCache(w)
  BY <1>9 DEF InvalidateCache, IInv, CoreInv, TypeOK, PaymentInv, LedgerInv, WorkerInv,
      CompletedIsCredited, HoldsLease
<1>10. CASE ApplyRebate(w)
  <2>1. credits = 1 /\ credits' = credits /\ status' = status /\ ledgerPhase' = ledgerPhase
    BY <1>10 DEF ApplyRebate, IInv, CoreInv, WorkerInv
  <2>2. CASE rebated
    <3>1. UNCHANGED <<rebated, rebates>> BY <1>10, <2>2, Zenon DEF ApplyRebate
    <3> QED BY <2>1, <3>1
  <2>3. CASE ~rebated
    <3>1. ledgerPhase = "credited"
      BY <2>1, <2>3 DEF IInv, CoreInv, CompletedIsCredited
    <3>2. rebated' = TRUE /\ rebates' \in {rebates, rebates + 1}
      BY <1>10, <2>3 DEF ApplyRebate
    <3>3. Ledger!Decide BY <2>1, <2>3, <3>1, <3>2
    <3> QED BY <3>3 DEF Ledger!Next
  <2> QED BY <2>2, <2>3
<1>11. CASE MarkCompleted(w)
  BY <1>11 DEF MarkCompleted, IInv, CoreInv, TypeOK, PaymentInv, LedgerInv, WorkerInv,
      CompletedIsCredited, HoldsLease
<1>12. CASE CompleteLost(w)
  BY <1>12 DEF CompleteLost, IInv, CoreInv, TypeOK, PaymentInv, LedgerInv, WorkerInv,
      CompletedIsCredited, HoldsLease
<1>13. CASE MarkFailed(w)
  BY <1>13 DEF MarkFailed, IInv, CoreInv, TypeOK, PaymentInv, LedgerInv, WorkerInv,
      CompletedIsCredited, HoldsLease
<1>14. CASE CheckGroup(w)
  BY <1>14 DEF CheckGroup, IInv, CoreInv, TypeOK, PaymentInv, LedgerInv, WorkerInv,
      CompletedIsCredited, HoldsLease
<1>15. CASE TargetMissing(w)
  BY <1>15 DEF TargetMissing, IInv, CoreInv, TypeOK, PaymentInv, LedgerInv, WorkerInv,
      CompletedIsCredited, HoldsLease
<1> QED BY <1>1, <1>2, <1>3, <1>4, <1>5, <1>6, <1>7, <1>8, <1>9, <1>10, <1>11, <1>12,
    <1>13, <1>14, <1>15 DEF Fulfil

LEMMA FaultLedgerStep ==
  ASSUME IInv, IInv', NEW w \in Workers, Fault(w)
  PROVE  LedgerStep
<1>1. CASE LoseRead(w)
  BY <1>1 DEF LoseRead, IInv, CoreInv, TypeOK, PaymentInv, LedgerInv, WorkerInv,
      CompletedIsCredited, HoldsLease
<1>2. CASE StepFails(w)
  BY <1>2 DEF StepFails, IInv, CoreInv, TypeOK, PaymentInv, LedgerInv, WorkerInv,
      CompletedIsCredited, HoldsLease
<1>3. CASE Abort(w)
  BY <1>3 DEF Abort, IInv, CoreInv, TypeOK, PaymentInv, LedgerInv, WorkerInv,
      CompletedIsCredited, HoldsLease
<1>4. CASE WorkerStalls(w)
  BY <1>4 DEF WorkerStalls, IInv, CoreInv, TypeOK, PaymentInv, LedgerInv, WorkerInv,
      CompletedIsCredited, HoldsLease
<1> QED BY <1>1, <1>2, <1>3, <1>4 DEF Fault

LEMMA NextLedgerStep ==
  ASSUME IInv, IInv', [Next]_vars
  PROVE  LedgerStep
<1>1. CASE UNCHANGED vars BY <1>1 DEF vars
<1>2. CASE Next
  BY <1>2, EnvironmentLedgerStep, StartLedgerStep, CheckLedgerStep, PayLedgerStep,
     FulfilLedgerStep, FaultLedgerStep DEF Next, Step
<1> QED BY <1>1, <1>2

\* PaymentOrder implements OrderLedger.
THEOREM Refinement == Spec => ImplementsLedger
<1>1. Init => Ledger!Init BY DEF Init, Ledger!Init
<1>2. IInv /\ IInv' /\ [Next]_vars => [Ledger!Next]_(Ledger!vars)
  BY NextLedgerStep
<1> QED BY <1>1, <1>2, Invariance, PTL DEF Spec, ImplementsLedger, Ledger!Spec

\* A completed order is never fulfilled again: the ledger has no step after Settle.
THEOREM CompletedStays == Spec => CompletedIsFinal
<1>1. IInv /\ IInv' /\ [Next]_vars => [Settled => Settled']_vars
  BY NextLedgerStep
<1> QED BY <1>1, Invariance, PTL DEF Spec, CompletedIsFinal

\* A paid order is never cancelled, expired or reopened.
THEOREM PaidStays == Spec => PaidNeverDropped
<1>1. IInv /\ IInv' /\ [Next]_vars
        => [paidAt => paidAt' /\ status' \notin {"PENDING", "CANCELLED", "EXPIRED"}]_vars
  <2> SUFFICES ASSUME IInv, IInv', [Next]_vars, paidAt
               PROVE  paidAt' /\ status' \notin {"PENDING", "CANCELLED", "EXPIRED"}
    BY Zenon
  <2>1. LedgerStep BY NextLedgerStep
  <2>2. ledgerPhase \in {"received", "credited", "settled"} BY Zenon
  <2>3. ledgerPhase' \in {"received", "credited", "settled"} BY <2>1, <2>2
  <2>4. paidAt'
    BY <2>3 DEF IInv, CoreInv, TypeOK, PaymentInv, LedgerInv
  <2> QED BY <2>4 DEF IInv, CoreInv, PaymentInv
<1> QED BY <1>1, Invariance, PTL DEF Spec, PaidNeverDropped

-----------------------------------------------------------------------------
(* What the provider's webhook is answered with *)

Answered == /\ AnswerInv'
            /\ ~acked /\ acked' => \/ Settled' \/ status' = "EXPIRED"
                                   \/ lostReads' > lostReads \/ unseen'

LEMMA EnvironmentAnswers ==
  ASSUME IInv, AnswerInv, Environment
  PROVE  Answered
<1>1. CASE ProviderAccepts
  BY <1>1 DEF Answered, AnswerInv, ProviderAccepts, IInv, TypeOK, LeaseSteps
<1>2. CASE ProviderRejects
  BY <1>2 DEF Answered, AnswerInv, ProviderRejects, IInv, TypeOK, LeaseSteps
<1>3. CASE UserPays
  BY <1>3 DEF Answered, AnswerInv, UserPays, IInv, TypeOK, LeaseSteps
<1>4. CASE DueTimePasses
  BY <1>4 DEF Answered, AnswerInv, DueTimePasses, IInv, TypeOK, LeaseSteps
<1>5. CASE FiveMinutesPass
  BY <1>5 DEF Answered, AnswerInv, FiveMinutesPass, IInv, TypeOK, LeaseSteps
<1>6. CASE RefundMoves
  BY <1>6 DEF Answered, AnswerInv, RefundMoves, IInv, TypeOK, LeaseSteps
<1>7. CASE WebhookUnseen
  BY <1>7 DEF Answered, AnswerInv, WebhookUnseen, IInv, TypeOK, LeaseSteps
<1> QED BY <1>1, <1>2, <1>3, <1>4, <1>5, <1>6, <1>7 DEF Environment

LEMMA StartAnswers ==
  ASSUME IInv, AnswerInv, NEW w \in Workers, Start(w)
  PROVE  Answered
<1>1. CASE StartWebhook(w)
  BY <1>1 DEF Answered, AnswerInv, StartWebhook, IInv, TypeOK, LeaseSteps
<1>2. CASE StartCancel(w)
  BY <1>2 DEF Answered, AnswerInv, StartCancel, IInv, TypeOK, LeaseSteps
<1>3. CASE StartExpire(w)
  BY <1>3 DEF Answered, AnswerInv, StartExpire, IInv, TypeOK, LeaseSteps
<1>4. CASE StartVerify(w)
  BY <1>4 DEF Answered, AnswerInv, StartVerify, IInv, TypeOK, LeaseSteps
<1>5. CASE StartRetry(w)
  BY <1>5 DEF Answered, AnswerInv, StartRetry, IInv, TypeOK, LeaseSteps
<1> QED BY <1>1, <1>2, <1>3, <1>4, <1>5 DEF Start

LEMMA CheckAnswers ==
  ASSUME IInv, AnswerInv, NEW w \in Workers, Check(w)
  PROVE  Answered
<1>1. CASE QueryFails(w)
  BY <1>1 DEF Answered, AnswerInv, QueryFails, IInv, TypeOK, LeaseSteps
<1>2. CASE QueryPaid(w)
  BY <1>2 DEF Answered, AnswerInv, QueryPaid, IInv, TypeOK, LeaseSteps
<1>3. CASE QueryUnpaid(w)
  BY <1>3 DEF Answered, AnswerInv, QueryUnpaid, IInv, TypeOK, LeaseSteps
<1>4. CASE CancelUpstream(w)
  BY <1>4 DEF Answered, AnswerInv, CancelUpstream, IInv, TypeOK, LeaseSteps
<1>5. CASE CancelRow(w)
  BY <1>5 DEF Answered, AnswerInv, CancelRow, IInv, TypeOK, LeaseSteps
<1>6. CASE PersistTradeNo(w)
  BY <1>6 DEF Answered, AnswerInv, PersistTradeNo, IInv, TypeOK, LeaseSteps
<1> QED BY <1>1, <1>2, <1>3, <1>4, <1>5, <1>6 DEF Check

LEMMA PayAnswers ==
  ASSUME IInv, AnswerInv, NEW w \in Workers, Pay(w)
  PROVE  Answered
<1>1. CASE Confirm(w)
  BY <1>1 DEF Answered, AnswerInv, Confirm, IInv, TypeOK, LeaseSteps
<1>2. CASE ToPaid(w)
  BY <1>2 DEF Answered, AnswerInv, ToPaid, IInv, TypeOK, LeaseSteps
<1>3. CASE AlreadyProcessed(w)
  BY <1>3 DEF Answered, AnswerInv, AlreadyProcessed, IInv, TypeOK, LeaseSteps
<1> QED BY <1>1, <1>2, <1>3 DEF Pay

LEMMA FulfilAnswers ==
  ASSUME IInv, AnswerInv, NEW w \in Workers, Fulfil(w)
  PROVE  Answered
<1>1. CASE Execute(w)
  <2>1. AnswerInv'
    BY <1>1 DEF AnswerInv, Execute, IInv, TypeOK, LeaseSteps
  <2>2. (~acked /\ acked' => status = "COMPLETED") /\ UNCHANGED status
    <3>1. CASE status \in Fulfillable
      BY <1>1, <3>1 DEF Execute
    <3>2. CASE status \notin Fulfillable
      BY <1>1, <3>2, Zenon DEF Execute
    <3> QED BY <3>1, <3>2
  <2> QED BY <2>1, <2>2 DEF Answered
<1>2. CASE Acquire(w)
  BY <1>2 DEF Answered, AnswerInv, Acquire, IInv, TypeOK, LeaseSteps
<1>3. CASE AcquireLost(w)
  BY <1>3 DEF Answered, AnswerInv, AcquireLost, IInv, TypeOK, LeaseSteps
<1>4. CASE ReloadLease(w)
  BY <1>4 DEF Answered, AnswerInv, ReloadLease, FirstFulfilmentStep, IInv, TypeOK, LeaseSteps
<1>5. CASE LookupCode(w)
  BY <1>5 DEF Answered, AnswerInv, LookupCode, IInv, TypeOK, LeaseSteps
<1>6. CASE CreateCode(w)
  BY <1>6 DEF Answered, AnswerInv, CreateCode, IInv, TypeOK, LeaseSteps
<1>7. CASE RedeemCode(w)
  BY <1>7 DEF Answered, AnswerInv, RedeemCode, IInv, TypeOK, LeaseSteps
<1>8. CASE AssignSubscription(w)
  BY <1>8 DEF Answered, AnswerInv, AssignSubscription, IInv, TypeOK, LeaseSteps
<1>9. CASE InvalidateCache(w)
  BY <1>9 DEF Answered, AnswerInv, InvalidateCache, IInv, TypeOK, LeaseSteps
<1>10. CASE ApplyRebate(w)
  BY <1>10 DEF Answered, AnswerInv, ApplyRebate, IInv, TypeOK, LeaseSteps
<1>11. CASE MarkCompleted(w)
  BY <1>11 DEF Answered, AnswerInv, MarkCompleted, IInv, TypeOK, LeaseSteps
<1>12. CASE CompleteLost(w)
  BY <1>12 DEF Answered, AnswerInv, CompleteLost, IInv, TypeOK, LeaseSteps
<1>13. CASE MarkFailed(w)
  BY <1>13 DEF Answered, AnswerInv, MarkFailed, IInv, TypeOK, LeaseSteps
<1>14. CASE CheckGroup(w)
  BY <1>14 DEF Answered, AnswerInv, CheckGroup, IInv, TypeOK, LeaseSteps
<1>15. CASE TargetMissing(w)
  BY <1>15 DEF Answered, AnswerInv, TargetMissing, IInv, TypeOK, LeaseSteps
<1> QED BY <1>1, <1>2, <1>3, <1>4, <1>5, <1>6, <1>7, <1>8, <1>9, <1>10, <1>11,
           <1>12, <1>13, <1>14, <1>15 DEF Fulfil

LEMMA FaultAnswers ==
  ASSUME IInv, AnswerInv, NEW w \in Workers, Fault(w)
  PROVE  Answered
<1>1. CASE LoseRead(w)
  BY <1>1 DEF Answered, AnswerInv, LoseRead, IInv, TypeOK, LeaseSteps
<1>2. CASE StepFails(w)
  BY <1>2 DEF Answered, AnswerInv, StepFails, IInv, TypeOK, LeaseSteps
<1>3. CASE Abort(w)
  BY <1>3 DEF Answered, AnswerInv, Abort, IInv, TypeOK, LeaseSteps
<1>4. CASE WorkerStalls(w)
  BY <1>4 DEF Answered, AnswerInv, WorkerStalls, IInv, TypeOK, LeaseSteps
<1> QED BY <1>1, <1>2, <1>3, <1>4 DEF Fault

LEMMA StepAnswers ==
  ASSUME IInv, AnswerInv, Next
  PROVE  Answered
BY EnvironmentAnswers, StartAnswers, CheckAnswers, PayAnswers, FulfilAnswers, FaultAnswers
   DEF Next, Step

\* A webhook whose provider is found is answered with success only when the order
\* is settled or found expired, or a read failed.
THEOREM AckSettled == Spec => AckOnlyWhenSettled
<1>1. Init => AnswerInv BY DEF Init, AnswerInv
<1>2. IInv /\ AnswerInv /\ [Next]_vars => AnswerInv'
  BY StepAnswers DEF vars, AnswerInv, Answered
<1>3. IInv /\ AnswerInv /\ [Next]_vars
        => [~acked /\ acked' => \/ Settled' \/ status' = "EXPIRED"
                               \/ lostReads' > lostReads \/ unseen']_vars
  BY StepAnswers DEF Answered
<1> QED BY Invariance, <1>1, <1>2, <1>3, PTL DEF Spec, AckOnlyWhenSettled
=============================================================================
