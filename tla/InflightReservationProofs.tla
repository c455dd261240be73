---------------------- MODULE InflightReservationProofs ----------------------
(***************************************************************************)
(* InflightReservation: for any requests, tasks, amounts, TTL and number   *)
(* of faults, a live reservation is withdrawn only when its handler and    *)
(* all its billing tasks have ended, none is ever revived, one outlasts    *)
(* its handler, and several together are covered by a balance one of them  *)
(* was admitted with.                                                      *)
(***************************************************************************)
EXTENDS InflightReservation, FiniteSetTheorems, WellFoundedInduction, TLAPS

USE InflightAssumption DEF Goto, GotoTask, Fault, Pending, TaskSteps, Steps, Started,
  store, balances, handle, tasks

\* The tasks that hold a reference on a handle are finitely many.
LEMMA HeldByFinite ==
  ASSUME holding \subseteq Tasks, NEW r \in Requests
  PROVE  /\ IsFiniteSet(HeldBy(r)) /\ Cardinality(HeldBy(r)) \in Nat
         /\ Cardinality(HeldBy(r)) = 0 <=> HeldBy(r) = {}
<1>1. HeldBy(r) \subseteq Tasks
  BY DEF HeldBy
<1>2. IsFiniteSet(HeldBy(r))
  BY <1>1, FS_Subset
<1> QED BY <1>2, FS_CardinalityType, FS_EmptySet

\* A step that leaves the tasks' references alone.
LEMMA FrameKeeps ==
  ASSUME IInv, UNCHANGED <<pc, refs, handles, releasing, holding>>,
         \A t \in Tasks : task[t] \in Pending <=> task'[t] \in Pending
  PROVE  RefsExact' /\ PendingHold' /\ ReleasingSettled'
<1>1. RefsExact'
  BY DEF IInv, RefsExact, HandlerRefs, HeldBy
<1> QED BY <1>1 DEF IInv, PendingHold, ReleasingSettled

\* A step of one request before its handler runs or after its crash.
LEMMA AdmissionKeeps ==
  ASSUME IInv, NEW r \in Requests, pc[r] \notin Started, NEW step \in Steps \ {"idle"},
         pc' = [pc EXCEPT ![r] = step],
         UNCHANGED <<refs, handles, releasing, holding, task>>
  PROVE  RefsExact' /\ PendingHold' /\ ReleasingSettled'
<1>0. r \notin handles /\ r \notin releasing
  BY DEF IInv, NothingEarly, TypeOK
<1>1. RefsExact'
  BY <1>0 DEF IInv, TypeOK, RefsExact, HandlerRefs, HeldBy
<1>2. ReleasingSettled'
  BY <1>0 DEF IInv, TypeOK, ReleasingSettled
<1> QED BY <1>1, <1>2 DEF IInv, PendingHold

LEMMA InitIInv == Init => IInv
<1> SUFFICES ASSUME Init PROVE IInv
  OBVIOUS
<1>1. TypeOK
  BY DEF Init, TypeOK
<1> QED BY <1>1 DEF Init, IInv, RefsExact, PendingHold, ReleasingSettled, NothingEarly

LEMMA CheckKeeps ==
  ASSUME IInv, NEW r \in Requests, Check(r)
  PROVE  IInv'
<1>1. TypeOK'
  BY DEF IInv, TypeOK, NothingEarly, Writes, Check, Reads
<1>2. RefsExact' /\ PendingHold' /\ ReleasingSettled'
  BY AdmissionKeeps DEF IInv, TypeOK, Check, Reads
<1>3. NothingEarly'
  BY DEF IInv, TypeOK, NothingEarly, Check, Reads
<1> QED BY <1>1, <1>2, <1>3 DEF IInv

LEMMA ReadKeeps ==
  ASSUME IInv, NEW r \in Requests, Read(r)
  PROVE  IInv'
<1>1. TypeOK'
  BY DEF IInv, TypeOK, NothingEarly, Writes, Read, Reads
<1>2. RefsExact' /\ PendingHold' /\ ReleasingSettled'
  BY AdmissionKeeps DEF IInv, TypeOK, Read, Reads
<1>3. NothingEarly'
  BY DEF IInv, TypeOK, NothingEarly, Read, Reads
<1> QED BY <1>1, <1>2, <1>3 DEF IInv

LEMMA ReadFailsKeeps ==
  ASSUME IInv, NEW r \in Requests, ReadFails(r)
  PROVE  IInv'
<1>1. TypeOK'
  BY DEF IInv, TypeOK, NothingEarly, Writes, ReadFails
<1>2. RefsExact' /\ PendingHold' /\ ReleasingSettled'
  BY AdmissionKeeps DEF IInv, TypeOK, ReadFails
<1>3. NothingEarly'
  BY DEF IInv, TypeOK, NothingEarly, ReadFails
<1> QED BY <1>1, <1>2, <1>3 DEF IInv

LEMMA ReserveKeeps ==
  ASSUME IInv, NEW r \in Requests, Reserve(r)
  PROVE  IInv'
<1>1. TypeOK'
  BY DEF IInv, TypeOK, NothingEarly, Writes, Reserve, Register, Expired, Unexpired
<1>0. r \notin handles /\ HeldBy(r) = {} /\ Cardinality({}) = 0
  BY FS_EmptySet DEF IInv, NothingEarly, PendingHold, TypeOK, HeldBy, Reserve
<1>a. RefsExact'
  <2>1. \A q \in Requests : HeldBy(q)' = HeldBy(q)
    BY DEF HeldBy, Reserve
  <2>2. refs'[r] = 1 /\ pc'[r] = "running"
    BY DEF IInv, TypeOK, Reserve
  <2>3. \A q \in handles : refs'[q] = refs[q] /\ HandlerRefs(q)' = HandlerRefs(q)
    BY <1>0 DEF IInv, TypeOK, HandlerRefs, Reserve
  <2>4. refs'[r] = HandlerRefs(r)' + Cardinality(HeldBy(r)')
    <3>1. Cardinality(HeldBy(r)') = 0
      BY <1>0, <2>1
    <3> QED BY <2>2, <3>1 DEF HandlerRefs
  <2>5. \A q \in handles : refs'[q] = HandlerRefs(q)' + Cardinality(HeldBy(q)')
    BY <2>1, <2>3 DEF IInv, TypeOK, RefsExact
  <2> QED BY <2>4, <2>5 DEF RefsExact, Reserve
<1>b. PendingHold'
  BY DEF IInv, TypeOK, NothingEarly, PendingHold, Reserve, Register, Expired, Unexpired
<1>c. ReleasingSettled'
  BY HeldByFinite DEF IInv, TypeOK, NothingEarly, RefsExact, HandlerRefs, ReleasingSettled, Reserve, Register, Expired, Unexpired
<1>2. RefsExact' /\ PendingHold' /\ ReleasingSettled'
  BY <1>a, <1>b, <1>c
<1>3. NothingEarly'
  BY DEF IInv, TypeOK, NothingEarly, Reserve, Register, Expired, Unexpired
<1> QED BY <1>1, <1>2, <1>3 DEF IInv

LEMMA RefuseKeeps ==
  ASSUME IInv, NEW r \in Requests, Refuse(r)
  PROVE  IInv'
<1>1. TypeOK'
  BY DEF IInv, TypeOK, NothingEarly, Writes, Refuse, Purged, Expired, Unexpired
<1>2. RefsExact' /\ PendingHold' /\ ReleasingSettled'
  BY AdmissionKeeps DEF IInv, TypeOK, Refuse, Purged, Expired, Unexpired
<1>3. NothingEarly'
  BY DEF IInv, TypeOK, NothingEarly, Refuse, Purged, Expired, Unexpired
<1> QED BY <1>1, <1>2, <1>3 DEF IInv

LEMMA ReserveFailsKeeps ==
  ASSUME IInv, NEW r \in Requests, ReserveFails(r)
  PROVE  IInv'
<1>1. TypeOK'
  BY DEF IInv, TypeOK, NothingEarly, Writes, ReserveFails, Register, Purged, Expired, Unexpired
<1>2. RefsExact' /\ PendingHold' /\ ReleasingSettled'
  BY AdmissionKeeps DEF IInv, TypeOK, ReserveFails, Register, Purged, Expired, Unexpired
<1>3. NothingEarly'
  BY DEF IInv, TypeOK, NothingEarly, ReserveFails, Register, Purged, Expired, Unexpired
<1> QED BY <1>1, <1>2, <1>3 DEF IInv

LEMMA RenewKeeps ==
  ASSUME IInv, NEW r \in Requests, Renew(r)
  PROVE  IInv'
<1>1. TypeOK'
  BY DEF IInv, TypeOK, NothingEarly, Writes, Renew, RenewScript, Expired, Unexpired
<1>2. RefsExact' /\ PendingHold' /\ ReleasingSettled'
  BY FrameKeeps DEF IInv, TypeOK, Renew, RenewScript, Expired, Unexpired
<1>3. NothingEarly'
  BY DEF IInv, TypeOK, NothingEarly, Renew, RenewScript, Expired, Unexpired
<1> QED BY <1>1, <1>2, <1>3 DEF IInv

LEMMA RenewFailsKeeps ==
  ASSUME IInv, NEW r \in Requests, RenewFails(r)
  PROVE  IInv'
<1>1. TypeOK'
  BY DEF IInv, TypeOK, NothingEarly, Writes, RenewFails
<1>2. RefsExact' /\ PendingHold' /\ ReleasingSettled'
  BY FrameKeeps DEF IInv, TypeOK, RenewFails
<1>3. NothingEarly'
  BY DEF IInv, TypeOK, NothingEarly, RenewFails
<1> QED BY <1>1, <1>2, <1>3 DEF IInv

LEMMA RenewArrivesKeeps ==
  ASSUME IInv, NEW r \in Requests, RenewArrives(r)
  PROVE  IInv'
<1>1. TypeOK'
  BY DEF IInv, TypeOK, NothingEarly, Writes, RenewArrives, RenewScript, Expired, Unexpired
<1>2. RefsExact' /\ PendingHold' /\ ReleasingSettled'
  BY FrameKeeps DEF IInv, TypeOK, RenewArrives, RenewScript, Expired, Unexpired
<1>3. NothingEarly'
  BY DEF IInv, TypeOK, NothingEarly, RenewArrives, RenewScript, Expired, Unexpired
<1> QED BY <1>1, <1>2, <1>3 DEF IInv

LEMMA ReturnKeeps ==
  ASSUME IInv, NEW r \in Requests, Return(r)
  PROVE  IInv'
<1>1. TypeOK'
  BY DEF IInv, TypeOK, NothingEarly, Writes, Return, HandlerRef, DecRef, StopRenewal
<1>a. RefsExact'
  <2>1. \A q \in Requests : HeldBy(q)' = HeldBy(q)
    BY DEF HeldBy, Return
  <2>2. \A q \in handles \ {r} : refs'[q] = refs[q] /\ HandlerRefs(q)' = HandlerRefs(q)
    BY DEF IInv, TypeOK, HandlerRefs, Return, HandlerRef, DecRef
  <2>3. r \in handles => refs'[r] = refs[r] - 1 /\ HandlerRefs(r) = 1 /\ HandlerRefs(r)' = 0
    BY DEF IInv, TypeOK, HandlerRefs, Return, HandlerRef, DecRef
  <2>4. \A q \in Requests : Cardinality(HeldBy(q)) \in Nat
    BY HeldByFinite DEF IInv, TypeOK
  <2> HIDE DEF HandlerRefs
  <2> QED BY <2>1, <2>2, <2>3, <2>4 DEF IInv, TypeOK, RefsExact, Return
<1>b. PendingHold'
  BY DEF IInv, TypeOK, NothingEarly, PendingHold, Return, HandlerRef, DecRef, StopRenewal
<1>c. ReleasingSettled'
  BY HeldByFinite DEF IInv, TypeOK, NothingEarly, RefsExact, HandlerRefs, ReleasingSettled, Return, HandlerRef, DecRef, StopRenewal
<1>2. RefsExact' /\ PendingHold' /\ ReleasingSettled'
  BY <1>a, <1>b, <1>c
<1>3. NothingEarly'
  BY DEF IInv, TypeOK, NothingEarly, Return, HandlerRef, DecRef, StopRenewal
<1> QED BY <1>1, <1>2, <1>3 DEF IInv

LEMMA ReleaseKeeps ==
  ASSUME IInv, NEW r \in Requests, Release(r)
  PROVE  IInv'
<1>1. TypeOK'
  BY DEF IInv, TypeOK, NothingEarly, Writes, Release
<1>a. RefsExact'
  BY HeldByFinite DEF IInv, TypeOK, NothingEarly, RefsExact, HandlerRefs, HeldBy, PendingHold, Release
<1>b. PendingHold'
  BY DEF IInv, TypeOK, NothingEarly, PendingHold, Release
<1>c. ReleasingSettled'
  BY HeldByFinite DEF IInv, TypeOK, NothingEarly, RefsExact, HandlerRefs, ReleasingSettled, Release
<1>2. RefsExact' /\ PendingHold' /\ ReleasingSettled'
  BY <1>a, <1>b, <1>c
<1>3. NothingEarly'
  BY DEF IInv, TypeOK, NothingEarly, Release
<1> QED BY <1>1, <1>2, <1>3 DEF IInv

LEMMA ReleaseFailsKeeps ==
  ASSUME IInv, NEW r \in Requests, ReleaseFails(r)
  PROVE  IInv'
<1>1. TypeOK'
  BY DEF IInv, TypeOK, NothingEarly, Writes, ReleaseFails
<1>a. RefsExact'
  BY HeldByFinite DEF IInv, TypeOK, NothingEarly, RefsExact, HandlerRefs, HeldBy, PendingHold, ReleaseFails
<1>b. PendingHold'
  BY DEF IInv, TypeOK, NothingEarly, PendingHold, ReleaseFails
<1>c. ReleasingSettled'
  BY HeldByFinite DEF IInv, TypeOK, NothingEarly, RefsExact, HandlerRefs, ReleasingSettled, ReleaseFails
<1>2. RefsExact' /\ PendingHold' /\ ReleasingSettled'
  BY <1>a, <1>b, <1>c
<1>3. NothingEarly'
  BY DEF IInv, TypeOK, NothingEarly, ReleaseFails
<1> QED BY <1>1, <1>2, <1>3 DEF IInv

LEMMA CrashKeeps ==
  ASSUME IInv, NEW r \in Requests, Crash(r)
  PROVE  IInv'
<1>1. TypeOK'
  BY DEF IInv, TypeOK, NothingEarly, Writes, Crash, StopRenewal, HeldBy
<1>a. RefsExact'
  <2>1. HeldBy(r)' = {} /\ Cardinality({}) = 0
    BY FS_EmptySet DEF HeldBy, Crash
  <2>2. \A q \in Requests \ {r} : HeldBy(q)' = HeldBy(q)
    BY DEF HeldBy, Crash
  <2>3. refs'[r] = 0 /\ pc'[r] = "crashed"
    BY DEF IInv, TypeOK, Crash
  <2>4. \A q \in handles \ {r} : refs'[q] = refs[q] /\ HandlerRefs(q)' = HandlerRefs(q)
    BY DEF IInv, TypeOK, HandlerRefs, Crash
  <2>5. refs'[r] = HandlerRefs(r)' + Cardinality(HeldBy(r)')
    <3>1. Cardinality(HeldBy(r)') = 0
      BY <2>1
    <3> QED BY <2>3, <3>1 DEF HandlerRefs
  <2>6. \A q \in handles \ {r} : refs'[q] = HandlerRefs(q)' + Cardinality(HeldBy(q)')
    BY <2>2, <2>4 DEF IInv, TypeOK, RefsExact
  <2> QED BY <2>5, <2>6 DEF RefsExact, Crash
<1>b. PendingHold'
  BY DEF IInv, TypeOK, NothingEarly, PendingHold, Crash, StopRenewal, HeldBy
<1>c. ReleasingSettled'
  BY HeldByFinite DEF IInv, TypeOK, NothingEarly, RefsExact, HandlerRefs, ReleasingSettled, Crash, StopRenewal, HeldBy
<1>2. RefsExact' /\ PendingHold' /\ ReleasingSettled'
  BY <1>a, <1>b, <1>c
<1>3. NothingEarly'
  BY DEF IInv, TypeOK, NothingEarly, Crash, StopRenewal, HeldBy
<1> QED BY <1>1, <1>2, <1>3 DEF IInv

LEMMA SubmitKeeps ==
  ASSUME IInv, NEW t \in Tasks, Submit(t)
  PROVE  IInv'
<1>1. TypeOK'
  BY DEF IInv, TypeOK, NothingEarly, Writes, Submit, Acquire
<1>0. t \notin holding /\ pc[Of[t]] = "running" /\ Of[t] \in Requests
  BY DEF IInv, TypeOK, PendingHold, Submit
<1>d. Of[t] \in handles => refs[Of[t]] > 0
  BY <1>0, HeldByFinite DEF IInv, TypeOK, RefsExact, HandlerRefs
<1>a. RefsExact'
  <2>1. CASE Of[t] \in handles
    <3>1. /\ refs' = [refs EXCEPT ![Of[t]] = @ + 1]
          /\ holding' = holding \cup {t} /\ UNCHANGED <<pc, handles>>
      BY <1>d, <2>1 DEF Submit, Acquire
    <3>2. \A q \in Requests \ {Of[t]} : HeldBy(q)' = HeldBy(q)
      BY <3>1 DEF HeldBy
    <3>3. HeldBy(Of[t])' = HeldBy(Of[t]) \cup {t} /\ t \notin HeldBy(Of[t])
      BY <1>0, <3>1 DEF HeldBy
    <3>4. Cardinality(HeldBy(Of[t])') = Cardinality(HeldBy(Of[t])) + 1
      BY <1>0, <3>3, HeldByFinite, FS_AddElement DEF IInv, TypeOK
    <3>5. \A q \in Requests : Cardinality(HeldBy(q)) \in Nat
      BY HeldByFinite DEF IInv, TypeOK
    <3>6. \A q \in Requests : HandlerRefs(q)' = HandlerRefs(q) /\ HandlerRefs(q) \in Nat
      BY <3>1 DEF HandlerRefs
    <3>7. \A q \in handles \ {Of[t]} : refs'[q] = HandlerRefs(q)' + Cardinality(HeldBy(q)')
      BY <3>1, <3>2, <3>6 DEF IInv, TypeOK, RefsExact
    <3>8. refs'[Of[t]] = HandlerRefs(Of[t])' + Cardinality(HeldBy(Of[t])')
      BY <1>0, <2>1, <3>1, <3>4, <3>5, <3>6 DEF IInv, TypeOK, RefsExact
    <3> QED BY <3>1, <3>7, <3>8 DEF RefsExact
  <2>2. CASE Of[t] \notin handles
    BY <2>2 DEF IInv, RefsExact, HandlerRefs, HeldBy, Submit, Acquire
  <2> QED BY <2>1, <2>2
<1>b. PendingHold'
  <2>1. Of[t] \in handles => holding' = holding \cup {t}
    BY <1>d DEF Submit, Acquire
  <2>2. Of[t] \notin handles => holding' = holding
    BY DEF Submit, Acquire
  <2>3. task' = [task EXCEPT ![t] = "queued"] /\ handles' = handles
    BY DEF Submit
  <2> QED BY <2>1, <2>2, <2>3 DEF IInv, TypeOK, PendingHold
<1>c. ReleasingSettled'
  BY HeldByFinite DEF IInv, TypeOK, NothingEarly, RefsExact, HandlerRefs, ReleasingSettled, Submit, Acquire
<1>2. RefsExact' /\ PendingHold' /\ ReleasingSettled'
  BY <1>a, <1>b, <1>c
<1>3. NothingEarly'
  BY DEF IInv, TypeOK, NothingEarly, Submit, Acquire
<1> QED BY <1>1, <1>2, <1>3 DEF IInv

LEMMA SubmitDroppedKeeps ==
  ASSUME IInv, NEW t \in Tasks, SubmitDropped(t)
  PROVE  IInv'
<1>1. TypeOK'
  BY DEF IInv, TypeOK, NothingEarly, Writes, SubmitDropped
<1>2. RefsExact' /\ PendingHold' /\ ReleasingSettled'
  BY FrameKeeps DEF IInv, TypeOK, SubmitDropped
<1>3. NothingEarly'
  BY DEF IInv, TypeOK, NothingEarly, SubmitDropped
<1> QED BY <1>1, <1>2, <1>3 DEF IInv

LEMMA ChargeKeeps ==
  ASSUME IInv, NEW t \in Tasks, Charge(t)
  PROVE  IInv'
<1>1. TypeOK'
  BY DEF IInv, TypeOK, NothingEarly, Writes, Charge
<1>2. RefsExact' /\ PendingHold' /\ ReleasingSettled'
  BY FrameKeeps DEF IInv, TypeOK, Charge
<1>3. NothingEarly'
  BY DEF IInv, TypeOK, NothingEarly, Charge
<1> QED BY <1>1, <1>2, <1>3 DEF IInv

LEMMA ChargeFailsKeeps ==
  ASSUME IInv, NEW t \in Tasks, ChargeFails(t)
  PROVE  IInv'
<1>1. TypeOK'
  BY DEF IInv, TypeOK, NothingEarly, Writes, ChargeFails
<1>2. RefsExact' /\ PendingHold' /\ ReleasingSettled'
  BY FrameKeeps DEF IInv, TypeOK, ChargeFails
<1>3. NothingEarly'
  BY DEF IInv, TypeOK, NothingEarly, ChargeFails
<1> QED BY <1>1, <1>2, <1>3 DEF IInv

LEMMA SyncInvalidateKeeps ==
  ASSUME IInv, NEW t \in Tasks, SyncInvalidate(t)
  PROVE  IInv'
<1>1. TypeOK'
  BY DEF IInv, TypeOK, NothingEarly, Writes, SyncInvalidate
<1>2. RefsExact' /\ PendingHold' /\ ReleasingSettled'
  BY FrameKeeps DEF IInv, TypeOK, SyncInvalidate
<1>3. NothingEarly'
  BY DEF IInv, TypeOK, NothingEarly, SyncInvalidate
<1> QED BY <1>1, <1>2, <1>3 DEF IInv

LEMMA SyncDeductKeeps ==
  ASSUME IInv, NEW t \in Tasks, SyncDeduct(t)
  PROVE  IInv'
<1>1. TypeOK'
  BY DEF IInv, TypeOK, NothingEarly, Writes, SyncDeduct, Deducted
<1>2. RefsExact' /\ PendingHold' /\ ReleasingSettled'
  BY FrameKeeps DEF IInv, TypeOK, SyncDeduct, Deducted
<1>3. NothingEarly'
  BY DEF IInv, TypeOK, NothingEarly, SyncDeduct, Deducted
<1> QED BY <1>1, <1>2, <1>3 DEF IInv

LEMMA InvalidateFailsKeeps ==
  ASSUME IInv, NEW t \in Tasks, InvalidateFails(t)
  PROVE  IInv'
<1>1. TypeOK'
  BY DEF IInv, TypeOK, NothingEarly, Writes, InvalidateFails
<1>2. RefsExact' /\ PendingHold' /\ ReleasingSettled'
  BY FrameKeeps DEF IInv, TypeOK, InvalidateFails
<1>3. NothingEarly'
  BY DEF IInv, TypeOK, NothingEarly, InvalidateFails
<1> QED BY <1>1, <1>2, <1>3 DEF IInv

LEMMA DeductFailsKeeps ==
  ASSUME IInv, NEW t \in Tasks, DeductFails(t)
  PROVE  IInv'
<1>1. TypeOK'
  BY DEF IInv, TypeOK, NothingEarly, Writes, DeductFails, Deducted
<1>2. RefsExact' /\ PendingHold' /\ ReleasingSettled'
  BY FrameKeeps DEF IInv, TypeOK, DeductFails, Deducted
<1>3. NothingEarly'
  BY DEF IInv, TypeOK, NothingEarly, DeductFails, Deducted
<1> QED BY <1>1, <1>2, <1>3 DEF IInv

LEMMA FinishKeeps ==
  ASSUME IInv, NEW t \in Tasks, Finish(t)
  PROVE  IInv'
<1>0. Of[t] \in Requests /\ task[t] \in Pending /\ pc[Of[t]] \in {"running", "done"}
  BY DEF IInv, NothingEarly, Finish
<1>d. ASSUME t \in holding
      PROVE  /\ refs' = [refs EXCEPT ![Of[t]] = @ - 1]
             /\ holding' = holding \ {t} /\ UNCHANGED <<pc, handles>>
             /\ \A q \in Requests \ {Of[t]} : HeldBy(q)' = HeldBy(q)
             /\ HeldBy(Of[t])' = HeldBy(Of[t]) \ {t} /\ t \in HeldBy(Of[t])
             /\ releasing' = IF refs[Of[t]] - 1 <= 0 THEN releasing \cup {Of[t]} ELSE releasing
             /\ Of[t] \in handles
  BY <1>d DEF Finish, DecRef, HeldBy, IInv, PendingHold
<1>e. ASSUME t \in holding
      PROVE  /\ Cardinality(HeldBy(Of[t])') = Cardinality(HeldBy(Of[t])) - 1
             /\ Cardinality(HeldBy(Of[t])') \in Nat /\ Cardinality(HeldBy(Of[t])) \in Nat
  <2>1. IsFiniteSet(HeldBy(Of[t]))
    BY <1>0, HeldByFinite DEF IInv, TypeOK
  <2>2. /\ IsFiniteSet(HeldBy(Of[t]) \ {t})
        /\ Cardinality(HeldBy(Of[t]) \ {t}) = Cardinality(HeldBy(Of[t])) - 1
    BY <1>d, <1>e, <2>1, FS_RemoveElement
  <2> QED BY <1>d, <1>e, <2>1, <2>2, FS_CardinalityType
<1>f. t \notin holding => UNCHANGED <<pc, handles, refs, releasing, holding>>
  BY DEF Finish
<1>1. TypeOK'
  <2>1. refs' \in [Requests -> Int] /\ holding' \subseteq Tasks
    BY <1>0, <1>d, <1>f DEF IInv, TypeOK
  <2>2. releasing' \subseteq handles'
    BY <1>0, <1>d, <1>f DEF IInv, TypeOK
  <2>3. task' \in [Tasks -> TaskSteps]
    BY DEF IInv, TypeOK, Finish
  <2> QED BY <2>1, <2>2, <2>3 DEF IInv, TypeOK, Writes, Finish
<1>a. RefsExact'
  <2>1. CASE t \in holding
    <3>1. \A q \in Requests : HandlerRefs(q)' = HandlerRefs(q) /\ HandlerRefs(q) \in Nat
      BY <1>d, <2>1 DEF HandlerRefs
    <3>2. \A q \in handles \ {Of[t]} : refs'[q] = HandlerRefs(q)' + Cardinality(HeldBy(q)')
      BY <1>d, <2>1, <3>1 DEF IInv, TypeOK, RefsExact
    <3>3. refs'[Of[t]] = HandlerRefs(Of[t])' + Cardinality(HeldBy(Of[t])')
      BY <1>0, <1>d, <1>e, <2>1, <3>1 DEF IInv, TypeOK, RefsExact
    <3> QED BY <1>d, <2>1, <3>2, <3>3 DEF RefsExact
  <2>2. CASE t \notin holding
    BY <1>f, <2>2 DEF IInv, RefsExact, HandlerRefs, HeldBy
  <2> QED BY <2>1, <2>2
<1>b. PendingHold'
  BY DEF IInv, TypeOK, NothingEarly, PendingHold, Finish, DecRef
<1>c. ReleasingSettled'
  <2>1. CASE t \in holding
    <3>1. Of[t] \notin releasing
      BY <1>0, <1>d, <1>e, <2>1 DEF IInv, RefsExact, HandlerRefs, ReleasingSettled
    <3>2. Of[t] \in releasing' => refs'[Of[t]] = 0 /\ pc'[Of[t]] = "done"
      BY <1>0, <1>a, <1>d, <1>e, <2>1, <3>1 DEF IInv, TypeOK, RefsExact, HandlerRefs
    <3>3. \A q \in releasing' \ {Of[t]} : q \in releasing /\ refs'[q] = refs[q] /\ pc'[q] = pc[q]
      BY <1>0, <1>d, <2>1 DEF IInv, TypeOK
    <3> QED BY <3>2, <3>3 DEF IInv, ReleasingSettled
  <2>2. CASE t \notin holding
    BY <1>f, <2>2 DEF IInv, ReleasingSettled
  <2> QED BY <2>1, <2>2
<1>2. RefsExact' /\ PendingHold' /\ ReleasingSettled'
  BY <1>a, <1>b, <1>c
<1>3. NothingEarly'
  BY DEF IInv, TypeOK, NothingEarly, Finish, DecRef
<1> QED BY <1>1, <1>2, <1>3 DEF IInv

LEMMA ApplyWriteKeeps ==
  ASSUME IInv, NEW w \in writes, ApplyWrite(w) \/ WriteFails(w)
  PROVE  IInv'
<1>1. TypeOK'
  BY DEF IInv, TypeOK, Writes, ApplyWrite, WriteFails, Deducted
<1>2. RefsExact' /\ PendingHold' /\ ReleasingSettled'
  BY FrameKeeps DEF ApplyWrite, WriteFails
<1>3. NothingEarly'
  BY DEF IInv, NothingEarly, ApplyWrite, WriteFails
<1> QED BY <1>1, <1>2, <1>3 DEF IInv

LEMMA TimeKeeps ==
  ASSUME IInv, CacheExpires \/ KeysExpire \/ Tick \/ Stall
  PROVE  IInv'
<1>1. TypeOK'
  BY DEF IInv, TypeOK, CacheExpires, KeysExpire, Tick, Stall, Elapse
<1>2. RefsExact' /\ PendingHold' /\ ReleasingSettled'
  BY FrameKeeps DEF CacheExpires, KeysExpire, Tick, Stall, Elapse
<1>3. NothingEarly'
  BY DEF IInv, TypeOK, NothingEarly, CacheExpires, KeysExpire, Unexpired, Expired,
         Tick, Stall, Elapse
<1> QED BY <1>1, <1>2, <1>3 DEF IInv

LEMMA NextKeeps == IInv /\ [Next]_vars => IInv'
<1> SUFFICES ASSUME IInv, [Next]_vars PROVE IInv'
  OBVIOUS
<1>1. ASSUME NEW r \in Requests,
             \/ RequestStep(r) \/ RequestFails(r) \/ Renew(r)
             \/ RenewArrives(r) \/ Return(r) \/ Release(r)
      PROVE  IInv'
  BY <1>1, CheckKeeps, ReadKeeps, ReserveKeeps, RefuseKeeps, ReadFailsKeeps,
     ReserveFailsKeeps, RenewFailsKeeps, ReleaseFailsKeeps, CrashKeeps, RenewKeeps,
     RenewArrivesKeeps, ReturnKeeps, ReleaseKeeps DEF RequestStep, RequestFails
<1>2. ASSUME NEW t \in Tasks,
             Submit(t) \/ SubmitDropped(t) \/ TaskStep(t) \/ TaskFails(t)
      PROVE  IInv'
  BY <1>2, SubmitKeeps, SubmitDroppedKeeps, ChargeKeeps, SyncInvalidateKeeps,
     SyncDeductKeeps, FinishKeeps, ChargeFailsKeeps, InvalidateFailsKeeps,
     DeductFailsKeeps DEF TaskStep, TaskFails
<1>3. CASE UNCHANGED vars
  BY <1>3 DEF vars, IInv, TypeOK, Writes, RefsExact, HandlerRefs, HeldBy, PendingHold,
              ReleasingSettled, NothingEarly
<1> QED BY <1>1, <1>2, <1>3, ApplyWriteKeeps, TimeKeeps DEF Next

\* The inductive invariant holds for every value of the constants.
THEOREM Invariance == Spec => []IInv
  BY InitIInv, NextKeeps, PTL DEF Spec

\* The state keeps its types: no reservation outlives the TTL, a renewal runs
\* only for a handle.
THEOREM TypeCorrect == Spec => []TypeOK
  BY Invariance, PTL DEF IInv

\* InflightReservation: the reference count is what the comment says of it,
\* whatever the order of HandlerDone, Acquire and the tasks' ends.
THEOREM CountIsExact == Spec => []RefsExact
  BY Invariance, PTL DEF IInv

LEMMA SettledWhenReleasing ==
  ASSUME IInv, NEW r \in releasing PROVE Settled(r)
<1>1. r \in handles /\ refs[r] = 0 /\ pc[r] = "done"
  BY DEF IInv, TypeOK, ReleasingSettled
<1>2. Cardinality(HeldBy(r)) = 0
  BY <1>1, HeldByFinite DEF IInv, TypeOK, RefsExact, HandlerRefs
<1>3. HeldBy(r) = {}
  BY <1>1, <1>2, HeldByFinite DEF IInv, TypeOK
<1> QED BY <1>1, <1>3 DEF IInv, PendingHold, HeldBy, Settled

\* A live member leaves the store only by Release.
LEMMA OnlyReleaseWithdraws ==
  ASSUME IInv, [Next]_vars, NEW r \in Unexpired, r \notin members'
  PROVE  r \in releasing
<1>1. ASSUME NEW q \in Requests,
             \/ RequestStep(q) \/ RequestFails(q) \/ Renew(q)
             \/ RenewArrives(q) \/ Return(q) \/ Release(q)
      PROVE  r \in releasing
  BY <1>1 DEF RequestStep, RequestFails, Check, Read, Reserve, Refuse, ReadFails,
     ReserveFails, RenewFails, ReleaseFails, Crash, Renew, RenewArrives, Return, Release,
     Register, Purged, RenewScript, Expired, Unexpired
<1>2. ASSUME NEW t \in Tasks,
             Submit(t) \/ SubmitDropped(t) \/ TaskStep(t) \/ TaskFails(t)
      PROVE  r \in members'
  BY <1>2 DEF TaskStep, TaskFails, Submit, SubmitDropped, Charge, SyncInvalidate,
     SyncDeduct, Finish, ChargeFails, InvalidateFails, DeductFails, Unexpired
<1>3. ASSUME NEW w \in writes, ApplyWrite(w) \/ WriteFails(w)
      PROVE  r \in members'
  BY <1>3 DEF ApplyWrite, WriteFails, Unexpired
<1>4. CASE CacheExpires \/ KeysExpire \/ Tick \/ Stall \/ UNCHANGED vars
  BY <1>4 DEF CacheExpires, KeysExpire, Tick, Stall, Elapse, vars, Unexpired
<1> QED BY <1>1, <1>2, <1>3, <1>4 DEF Next

\* The promise of InflightReservation: a live reservation is withdrawn only
\* once its handler has returned and all its billing tasks have ended.
THEOREM HeldUntilSettled == Spec => ReleasedWhenSettled
<1>1. IInv /\ [Next]_vars =>
        [\A r \in Unexpired : r \in members' \/ Settled(r)]_vars
  BY SettledWhenReleasing, OnlyReleaseWithdraws
<1> QED BY <1>1, Invariance, PTL DEF Spec, ReleasedWhenSettled

LEMMA StepRevivesNone ==
  ASSUME IInv, [Next]_vars, NEW r \in Requests, pc[r] \in Started, r \notin Unexpired
  PROVE  left'[r] = 0
<1>0. left[r] = 0 /\ left \in [Requests -> 0 .. TTL]
  BY DEF IInv, TypeOK, NothingEarly, Unexpired, Expired
<1>1. ASSUME NEW q \in Requests,
             \/ RequestStep(q) \/ RequestFails(q) \/ Renew(q)
             \/ RenewArrives(q) \/ Return(q) \/ Release(q)
      PROVE  left'[r] = 0
  BY <1>0, <1>1 DEF RequestStep, RequestFails, Check, Read, Reserve, Refuse, ReadFails,
     ReserveFails, RenewFails, ReleaseFails, Crash, Renew, RenewArrives, Return, Release,
     Register, Purged, RenewScript, Expired, Unexpired
<1>2. ASSUME NEW t \in Tasks,
             Submit(t) \/ SubmitDropped(t) \/ TaskStep(t) \/ TaskFails(t)
      PROVE  left'[r] = 0
  BY <1>0, <1>2 DEF TaskStep, TaskFails, Submit, SubmitDropped, Charge, SyncInvalidate,
     SyncDeduct, Finish, ChargeFails, InvalidateFails, DeductFails
<1>3. ASSUME NEW w \in writes, ApplyWrite(w) \/ WriteFails(w)
      PROVE  left'[r] = 0
  BY <1>0, <1>3 DEF ApplyWrite, WriteFails
<1>4. CASE CacheExpires \/ KeysExpire \/ Tick \/ Stall \/ UNCHANGED vars
  BY <1>0, <1>4 DEF CacheExpires, KeysExpire, Tick, Stall, Elapse, vars
<1> QED BY <1>1, <1>2, <1>3, <1>4 DEF Next

\* The renew script: no reservation that has been released or has expired is
\* ever valid again, even when a renewal that timed out reaches Redis late.
THEOREM NothingRevived == Spec => NoRevival
<1>1. IInv /\ [Next]_vars =>
        [\A r \in Requests : pc[r] \in Started /\ r \notin Unexpired => left'[r] = 0]_vars
  BY StepRevivesNone
<1> QED BY <1>1, Invariance, PTL DEF Spec, NoRevival

-----------------------------------------------------------------------------
\* How long a running handler's reservation lasts.

LEMMA FewerBefore ==
  ASSUME NEW m \in Nat, NEW n \in Nat, NEW k \in Nat, n >= m, n + 2 <= k
  PROVE  m + 2 <= k
  OBVIOUS

LEMMA InitRenewed == Init => RenewedInv
  BY DEF Init, RenewedInv

\* What is left of the reservation of q does not shrink: nothing but time and
\* a renewal that fails makes it shrink.
LEMMA UntouchedRenewed ==
  ASSUME IInv, RenewedInv, faults' >= faults, faults' \in Nat, handles' = handles,
         NEW q \in handles', pc'[q] = "running" => pc[q] = "running",
         pc[q] = "running" =>
           /\ q \in Unexpired => q \in members' /\ left'[q] >= left[q] /\ left'[q] \in Nat
           /\ q \in renewing => q \in renewing'
           /\ Owing(q)' >= Owing(q) + faults - faults'
  PROVE  pc'[q] = "running" /\ faults' + 2 <= TTL => Renewed(q)'
<1> SUFFICES ASSUME pc'[q] = "running", faults' + 2 <= TTL PROVE Renewed(q)'
  OBVIOUS
<1>1. /\ faults \in Nat /\ TTL \in Nat /\ left[q] \in Nat /\ Owing(q) \in {0, 1}
      /\ Owing(q)' \in {0, 1}
  BY DEF IInv, TypeOK, Owing
<1>2. Renewed(q)
  <2>1. faults + 2 <= TTL
    BY <1>1, FewerBefore
  <2> QED BY <2>1 DEF RenewedInv
<1>3. q \in Unexpired /\ left[q] # 0
  BY <1>2 DEF Renewed, Unexpired, Expired
<1>4. q \in Unexpired'
  BY <1>1, <1>3 DEF Unexpired, Expired
<1>5. left'[q] + faults' + Owing(q)' >= TTL
  BY <1>1, <1>2, <1>3 DEF Renewed
<1> QED BY <1>2, <1>4, <1>5 DEF Renewed

LEMMA AdmissionRenewed ==
  ASSUME IInv, RenewedInv, NEW r \in Requests,
         Check(r) \/ Read(r) \/ Refuse(r) \/ ReadFails(r) \/ ReserveFails(r)
  PROVE  RenewedInv'
<1>1. r \notin handles /\ handles' = handles
  BY DEF IInv, NothingEarly, Check, Read, Refuse, ReadFails, ReserveFails
<1>2. faults' >= faults /\ faults' \in Nat
  BY DEF IInv, TypeOK, Check, Read, Refuse, ReadFails, ReserveFails
<1>3. ASSUME NEW q \in handles'
      PROVE  pc'[q] = "running" /\ faults' + 2 <= TTL => Renewed(q)'
  <2>1. q # r /\ q \in Requests /\ pc'[q] = pc[q]
    BY <1>1, <1>3 DEF IInv, TypeOK, Check, Read, Refuse, ReadFails, ReserveFails
  <2>2. q \in Unexpired => q \in members' /\ left'[q] = left[q]
    BY <2>1 DEF IInv, TypeOK, Check, Read, Refuse, ReadFails, ReserveFails, Register,
         Purged, Unexpired
  <2>3. UNCHANGED <<renewing, due>>
    BY DEF Check, Read, Refuse, ReadFails, ReserveFails
  <2>4. Owing(q)' = Owing(q) /\ Owing(q) \in {0, 1} /\ left[q] \in Nat /\ faults \in Nat
    BY <2>1, <2>3 DEF IInv, TypeOK, Owing
  <2>5. Owing(q)' >= Owing(q) + faults - faults'
    BY <1>2, <2>4
  <2>6. q \in Unexpired => q \in members' /\ left'[q] >= left[q] /\ left'[q] \in Nat
    BY <2>2, <2>4
  <2> QED BY <1>1, <1>2, <1>3, <2>1, <2>3, <2>5, <2>6, UntouchedRenewed
<1> QED BY <1>3 DEF RenewedInv

LEMMA ReserveRenewed ==
  ASSUME IInv, RenewedInv, NEW r \in Requests, Reserve(r)
  PROVE  RenewedInv'
<1>1. r \notin handles /\ r \notin due
  BY DEF IInv, TypeOK, NothingEarly, Reserve
<1>2. Renewed(r)'
  BY <1>1 DEF IInv, TypeOK, Reserve, Register, Renewed, Unexpired, Expired, Owing
<1>3. ASSUME NEW q \in handles, pc'[q] = "running", faults' + 2 <= TTL
      PROVE  Renewed(q)'
  <2>1. q # r /\ q \in Requests /\ pc[q] = "running" /\ faults' = faults
    BY <1>1, <1>3 DEF IInv, TypeOK, Reserve
  <2>2. Renewed(q)
    BY <1>3, <2>1 DEF RenewedInv
  <2>3. q \in members' /\ left'[q] = left[q] /\ q \in renewing' /\ due' = due
    BY <2>1, <2>2 DEF IInv, TypeOK, Reserve, Register, Renewed
  <2> QED BY <2>1, <2>2, <2>3 DEF Renewed, Unexpired, Expired, Owing
<1> QED BY <1>2, <1>3 DEF RenewedInv, Reserve

LEMMA RenewRenewed ==
  ASSUME IInv, RenewedInv, NEW r \in Requests, Renew(r) \/ RenewArrives(r)
  PROVE  RenewedInv'
<1>1. handles' = handles /\ faults' = faults /\ pc' = pc
  BY DEF Renew, RenewArrives
<1>2. ASSUME NEW q \in handles, pc[q] = "running", faults + 2 <= TTL
      PROVE  Renewed(q)'
  <2>1. q \in Requests /\ Renewed(q) /\ left[q] \in 0 .. TTL /\ faults \in Nat
    BY <1>2 DEF IInv, TypeOK, RenewedInv
  <2>2. q \in members /\ left[q] # 0 /\ q \in Unexpired /\ q \in renewing
    BY <2>1 DEF Renewed, Unexpired, Expired
  <2>3. CASE q = r
    <3>1. left'[q] = TTL /\ members' = members
      BY <2>1, <2>2, <2>3 DEF IInv, TypeOK, Renew, RenewArrives, RenewScript, Expired
    <3>2. q \in renewing'
      BY <2>2, <2>3 DEF Renew, RenewArrives, handle
    <3>3. Owing(q)' \in {0, 1}
      BY DEF Owing
    <3> QED BY <1>1, <2>1, <2>2, <3>1, <3>2, <3>3 DEF Renewed, Unexpired, Expired
  <2>4. CASE q # r
    <3>1. left'[q] = left[q] /\ q \in members'
      BY <2>1, <2>2, <2>4 DEF IInv, TypeOK, Renew, RenewArrives, RenewScript
    <3>2. q \in renewing' /\ (q \in due' <=> q \in due)
      BY <2>2, <2>4 DEF Renew, RenewArrives, handle
    <3>3. Owing(q)' = Owing(q)
      BY <3>2 DEF Owing
    <3> QED BY <1>1, <2>1, <2>2, <3>1, <3>2, <3>3 DEF Renewed, Unexpired, Expired
  <2> QED BY <2>3, <2>4
<1> QED BY <1>1, <1>2 DEF RenewedInv

LEMMA RenewFailsRenewed ==
  ASSUME IInv, RenewedInv, NEW r \in Requests, RenewFails(r)
  PROVE  RenewedInv'
<1>1. handles' = handles /\ faults' = faults + 1 /\ faults \in Nat
  BY DEF IInv, TypeOK, RenewFails
<1>2. ASSUME NEW q \in handles'
      PROVE  pc'[q] = "running" /\ faults' + 2 <= TTL => Renewed(q)'
  <2>1. q \in Requests /\ left[q] \in Nat /\ UNCHANGED <<pc, members, left, renewing>>
    BY <1>1, <1>2 DEF IInv, TypeOK, RenewFails
  <2>2. Owing(q)' >= Owing(q) - 1
    BY DEF Owing
  <2>3. Owing(q)' >= Owing(q) + faults - faults'
    BY <1>1, <2>2 DEF Owing
  <2>4. q \in Unexpired => q \in members' /\ left'[q] >= left[q] /\ left'[q] \in Nat
    BY <2>1 DEF Unexpired
  <2> QED BY <1>1, <1>2, <2>1, <2>3, <2>4, UntouchedRenewed
<1> QED BY <1>2 DEF RenewedInv

LEMMA EndRenewed ==
  ASSUME IInv, RenewedInv, NEW r \in Requests,
         Return(r) \/ Release(r) \/ ReleaseFails(r) \/ Crash(r)
  PROVE  RenewedInv'
<1>1. handles' = handles /\ faults' >= faults /\ faults' \in Nat /\ faults \in Nat
  BY DEF IInv, TypeOK, Return, Release, ReleaseFails, Crash
<1>2. pc'[r] # "running"
  <2>1. CASE Return(r) \/ Crash(r)
    BY <2>1 DEF IInv, TypeOK, Return, Crash
  <2>2. CASE Release(r) \/ ReleaseFails(r)
    BY <2>2 DEF IInv, ReleasingSettled, Release, ReleaseFails
  <2> QED BY <2>1, <2>2
<1>3. ASSUME NEW q \in handles'
      PROVE  pc'[q] = "running" /\ faults' + 2 <= TTL => Renewed(q)'
  <2>1. CASE q = r
    BY <1>2, <2>1
  <2>2. CASE q # r
    <3>1. q \in Requests /\ left[q] \in Nat /\ pc'[q] = pc[q]
      BY <1>1, <1>3, <2>2 DEF IInv, TypeOK, Return, Release, ReleaseFails, Crash
    <3>2. (q \in members' <=> q \in members) /\ left'[q] = left[q]
      BY <2>2, <3>1 DEF IInv, TypeOK, Return, Release, ReleaseFails, Crash
    <3>3. (q \in renewing' <=> q \in renewing) /\ (q \in due' <=> q \in due)
      BY <2>2 DEF Return, Release, ReleaseFails, Crash, StopRenewal
    <3>4. Owing(q)' = Owing(q) /\ Owing(q) \in {0, 1}
      BY <3>3 DEF Owing
    <3>5. Owing(q)' >= Owing(q) + faults - faults'
      BY <1>1, <3>4
    <3>6. q \in Unexpired => q \in members' /\ left'[q] >= left[q] /\ left'[q] \in Nat
      BY <3>1, <3>2 DEF Unexpired
    <3> QED BY <1>1, <1>3, <3>1, <3>3, <3>5, <3>6, UntouchedRenewed
  <2> QED BY <2>1, <2>2
<1> QED BY <1>3 DEF RenewedInv

\* A step of a task or of the cache touches no reservation.
LEMMA FrameRenewed ==
  ASSUME IInv, RenewedInv, UNCHANGED <<pc, handles, renewing, due, members, left>>,
         faults' >= faults, faults' \in Nat
  PROVE  RenewedInv'
<1>1. ASSUME NEW q \in handles'
      PROVE  pc'[q] = "running" /\ faults' + 2 <= TTL => Renewed(q)'
  <2>1. left[q] \in Nat /\ faults \in Nat /\ Owing(q)' = Owing(q) /\ Owing(q) \in {0, 1}
    BY <1>1 DEF IInv, TypeOK, Owing
  <2>2. Owing(q)' >= Owing(q) + faults - faults'
    BY <2>1
  <2>3. q \in Unexpired => q \in members' /\ left'[q] >= left[q] /\ left'[q] \in Nat
    BY <2>1 DEF Unexpired
  <2> QED BY <1>1, <2>2, <2>3, UntouchedRenewed
<1> QED BY <1>1 DEF RenewedInv

LEMMA TaskRenewed ==
  ASSUME IInv, RenewedInv, NEW t \in Tasks,
         Submit(t) \/ SubmitDropped(t) \/ TaskStep(t) \/ TaskFails(t)
  PROVE  RenewedInv'
<1>1. UNCHANGED <<pc, handles, renewing, due, members, left>>
  BY DEF TaskStep, TaskFails, Submit, SubmitDropped, Charge, SyncInvalidate,
     SyncDeduct, Finish, ChargeFails, InvalidateFails, DeductFails
<1>2. faults' \in {faults, faults + 1}
  BY DEF TaskStep, TaskFails, Submit, SubmitDropped, Charge, SyncInvalidate,
     SyncDeduct, Finish, ChargeFails, InvalidateFails, DeductFails
<1>3. faults' >= faults /\ faults' \in Nat
  BY <1>2 DEF IInv, TypeOK
<1> QED BY <1>1, <1>3, FrameRenewed

LEMMA CacheRenewed ==
  ASSUME IInv, RenewedInv,
         (\E w \in writes : ApplyWrite(w) \/ WriteFails(w)) \/ CacheExpires
  PROVE  RenewedInv'
<1>1. UNCHANGED <<pc, handles, renewing, due, members, left>>
  BY DEF ApplyWrite, WriteFails, CacheExpires
<1>2. faults' \in {faults, faults + 1}
  BY DEF ApplyWrite, WriteFails, CacheExpires
<1>3. faults' >= faults /\ faults' \in Nat
  BY <1>2 DEF IInv, TypeOK
<1> QED BY <1>1, <1>3, FrameRenewed

\* The keys expire only when no running handler holds a reservation that is due
\* to outlast it; a tick takes from each what its renewal gives back, and a
\* tick with a renewal outstanding is a fault.
LEMMA TimeRenewed ==
  ASSUME IInv, RenewedInv, KeysExpire \/ Tick \/ Stall
  PROVE  RenewedInv'
<1>1. CASE KeysExpire
  <2>1. UNCHANGED <<pc, handles, renewing, due, left, faults>> /\ Unexpired = {}
    BY <1>1 DEF KeysExpire
  <2>2. ~\E q \in handles : pc[q] = "running" /\ faults + 2 <= TTL
    BY <2>1 DEF RenewedInv, Renewed
  <2> QED BY <2>1, <2>2 DEF RenewedInv
<1>2. CASE Tick \/ Stall
  <2>1. UNCHANGED <<pc, handles, renewing, members>> /\ due' = renewing
    BY <1>2 DEF Tick, Stall, Elapse
  <2>2. faults \in Nat /\ faults' \in Nat /\ TTL \in Nat
    BY <1>2 DEF Tick, Stall, Elapse, IInv, TypeOK
  <2>3. ASSUME NEW q \in handles, pc[q] = "running", faults' + 2 <= TTL
        PROVE  Renewed(q)'
    <3>1. q \in Requests /\ left[q] \in Nat /\ faults' >= faults
      BY <1>2, <2>2, <2>3 DEF IInv, TypeOK, Tick, Stall
    <3>a. faults + 2 <= TTL
      BY <2>2, <2>3, <3>1, FewerBefore
    <3>2. Renewed(q)
      BY <2>3, <3>a DEF RenewedInv
    <3>3. q \in members /\ left[q] # 0 /\ q \in renewing
      BY <3>2 DEF Renewed, Unexpired, Expired
    <3>4. left'[q] = left[q] - 1 /\ Owing(q)' = 1
      BY <1>2, <2>1, <3>1, <3>3 DEF Tick, Stall, Elapse, Owing
    <3>5. Owing(q) + faults <= faults'
      BY <1>2, <2>2 DEF Tick, Stall, Owing
    <3>6. left'[q] + faults' + Owing(q)' >= TTL
      BY <2>2, <3>1, <3>2, <3>4, <3>5 DEF Renewed, Owing
    <3>7. left'[q] # 0
      BY <2>2, <2>3, <3>1, <3>4, <3>6
    <3> QED BY <2>1, <3>3, <3>6, <3>7 DEF Renewed, Unexpired, Expired
  <2> QED BY <2>1, <2>3 DEF RenewedInv
<1> QED BY <1>1, <1>2

LEMMA StepRenewed == IInv /\ RenewedInv /\ [Next]_vars => RenewedInv'
<1> SUFFICES ASSUME IInv, RenewedInv, [Next]_vars PROVE RenewedInv'
  OBVIOUS
<1>1. ASSUME NEW r \in Requests,
             \/ RequestStep(r) \/ RequestFails(r) \/ Renew(r)
             \/ RenewArrives(r) \/ Return(r) \/ Release(r)
      PROVE  RenewedInv'
  BY <1>1, AdmissionRenewed, ReserveRenewed, RenewRenewed, RenewFailsRenewed, EndRenewed
     DEF RequestStep, RequestFails
<1>2. CASE UNCHANGED vars
  BY <1>2 DEF vars, RenewedInv, Renewed, Unexpired, Expired, Owing
<1> QED BY <1>1, <1>2, TaskRenewed, CacheRenewed, TimeRenewed DEF Next

\* startRenewal: a reservation outlasts its handler, however long the request
\* runs, as long as no more than TTL - 2 renewals are late or fail.
THEOREM HeldToTheEnd == Spec => []HeldWhileRunning
<1>1. IInv /\ RenewedInv => HeldWhileRunning
  BY DEF RenewedInv, Renewed, HeldWhileRunning
<1>2. Spec => []RenewedInv
  BY InitRenewed, StepRenewed, Invariance, PTL DEF Spec
<1> QED BY <1>1, <1>2, Invariance, PTL

-----------------------------------------------------------------------------
\* What the reserve script's loop adds up.  The fold that models it takes the
\* reservations in an order nobody knows: its sum is proved to be independent
\* of the order, by way of the smallest set of which that would not hold.

\* A family of finite sets has a member without a proper subset in it.
LEMMA SmallestSet ==
  ASSUME NEW S, IsFiniteSet(S), NEW F, F \subseteq SUBSET S, F # {}
  PROVE  \E m \in F : \A s \in F : s \subseteq m => s = m
<1>0. FiniteSubsetsOf(S) = SUBSET S
  BY FS_FiniteSubsetsOfFinite
<1>1. IsWellFoundedOn(StrictSubsetOrdering(S), SUBSET S)
  <2>1. IsWellFoundedOn(StrictSubsetOrdering(S), FiniteSubsetsOf(S))
    BY FS_StrictSubsetOrderingWellFounded
  <2> QED BY <1>0, <2>1, Zenon
<1>2. PICK m \in F : \A s \in F : ~ (<<s, m>> \in StrictSubsetOrdering(S))
  BY <1>1, WFMin
<1> QED BY <1>2 DEF StrictSubsetOrdering

\* The sum of the amounts, as the fold computes it on every subset of S.
Chosen(s) == CHOOSE r \in s : TRUE
IsSum(g, S) ==
  g = [s \in SUBSET S |-> IF s = {} THEN 0 ELSE Amount[Chosen(s)] + g[s \ {Chosen(s)}]]

LEMMA ReservedIsSum ==
  ASSUME NEW S
  PROVE  Reserved(S) = (CHOOSE g : IsSum(g, S))[S]
BY DEF Reserved, MapThenSumSet, MapThenFoldSet, IsSum, Chosen

LEMMA SumAt ==
  ASSUME NEW g, NEW S, IsSum(g, S), NEW s \in SUBSET S
  PROVE  g[s] = IF s = {} THEN 0 ELSE Amount[Chosen(s)] + g[s \ {Chosen(s)}]
BY DEF IsSum

LEMMA ChosenIn ==
  ASSUME NEW s, s # {}
  PROVE  Chosen(s) \in s
BY DEF Chosen

\* Two sums agree on the sets that both have.
LEMMA SumsAgree ==
  ASSUME NEW S, IsFiniteSet(S), NEW T, T \subseteq S,
         NEW g, IsSum(g, S), NEW h, IsSum(h, T)
  PROVE  \A s \in SUBSET T : g[s] = h[s]
<1> DEFINE Bad == {s \in SUBSET T : g[s] # h[s]}
<1> SUFFICES ASSUME Bad # {} PROVE FALSE
  OBVIOUS
<1>1. IsFiniteSet(T)
  BY FS_Subset
<1>2. PICK m \in Bad : \A s \in Bad : s \subseteq m => s = m
  <2> HIDE DEF Bad
  <2>1. Bad \subseteq SUBSET T
    BY DEF Bad
  <2> QED BY <1>1, <2>1, SmallestSet
<1>3. m # {}
  <2>1. CASE m = {}
    <3>1. g[m] = 0 /\ h[m] = 0
      BY <2>1, SumAt
    <3> QED BY <3>1
  <2> QED BY <2>1
<1>4. Chosen(m) \in m
  BY <1>3, ChosenIn
<1>5. m \ {Chosen(m)} \in SUBSET T /\ m \ {Chosen(m)} \notin Bad
  BY <1>2, <1>4
<1>6. g[m \ {Chosen(m)}] = h[m \ {Chosen(m)}]
  BY <1>5
<1>7. g[m] = Amount[Chosen(m)] + g[m \ {Chosen(m)}]
  BY <1>3, SumAt
<1>8. h[m] = Amount[Chosen(m)] + h[m \ {Chosen(m)}]
  BY <1>3, SumAt
<1> QED BY <1>6, <1>7, <1>8

\* Every finite set has a sum: the smallest set without one would have one all
\* the same, put together from those of its subsets.
LEMMA SumExists ==
  ASSUME NEW S, IsFiniteSet(S)
  PROVE  \E g : IsSum(g, S)
<1> DEFINE Bad == {s \in SUBSET S : ~ \E g : IsSum(g, s)}
<1> SUFFICES ASSUME Bad # {} PROVE FALSE
  OBVIOUS
<1>2. PICK m \in Bad : \A s \in Bad : s \subseteq m => s = m
  <2> HIDE DEF Bad
  <2>1. Bad \subseteq SUBSET S
    BY DEF Bad
  <2> QED BY <2>1, SmallestSet
<1> DEFINE part(s) == CHOOSE g : IsSum(g, s)
<1>3. \A s \in SUBSET m : s # m => IsSum(part(s), s)
  BY <1>2
<1> DEFINE smaller(s) == s \ {Chosen(s)}
<1> DEFINE g == [s \in SUBSET m |-> IF s = {} THEN 0
                     ELSE Amount[Chosen(s)] + part(smaller(s))[smaller(s)]]
<1>4. ASSUME NEW s \in SUBSET m, s # {}
      PROVE  smaller(s) \in SUBSET m /\ g[smaller(s)] = part(smaller(s))[smaller(s)]
  <2>1. Chosen(s) \in s
    BY <1>4, ChosenIn
  <2> DEFINE t == smaller(s)
  <2>2. t \in SUBSET m /\ t # m /\ t \in SUBSET t
    BY <2>1
  <2>3. IsSum(part(t), t)
    BY <2>2, <1>3
  <2>9. IsFiniteSet(t)
    BY <2>2, FS_Subset
  <2>4. CASE t = {}
    <3>1. part(t)[t] = 0
      BY <2>2, <2>3, <2>4, SumAt
    <3>2. g[t] = 0
      BY <2>2, <2>4
    <3> QED BY <2>2, <3>1, <3>2
  <2>5. CASE t # {}
    <3> DEFINE u == smaller(t)
    <3>1. Chosen(t) \in t
      BY <2>5, ChosenIn
    <3>2. u \in SUBSET t /\ u \in SUBSET m /\ u # m /\ u \in SUBSET u
      BY <2>2, <3>1
    <3>3. IsSum(part(u), u)
      BY <3>2, <1>3
    <3>4. part(t)[t] = Amount[Chosen(t)] + part(t)[u]
      BY <2>2, <2>3, <2>5, SumAt
    <3>5. part(t)[u] = part(u)[u]
      <4> HIDE DEF part, u, t
      <4> QED BY <2>3, <2>9, <3>2, <3>3, SumsAgree
    <3>6. g[t] = Amount[Chosen(t)] + part(u)[u]
      BY <2>2, <2>5
    <3> QED BY <2>2, <3>4, <3>5, <3>6
  <2> QED BY <2>4, <2>5
<1>5. g = [s \in SUBSET m |-> IF s = {} THEN 0 ELSE Amount[Chosen(s)] + g[smaller(s)]]
  <2> DEFINE h == [s \in SUBSET m |-> IF s = {} THEN 0 ELSE Amount[Chosen(s)] + g[smaller(s)]]
  <2>1. \A s \in SUBSET m : g[s] = h[s]
    <3> SUFFICES ASSUME NEW s \in SUBSET m PROVE g[s] = h[s]
      OBVIOUS
    <3>1. CASE s = {}
      BY <3>1
    <3>2. CASE s # {}
      <4>1. g[s] = Amount[Chosen(s)] + part(smaller(s))[smaller(s)]
        BY <3>2
      <4>2. h[s] = Amount[Chosen(s)] + g[smaller(s)]
        BY <3>2
      <4> QED BY <4>1, <4>2, <1>4, <3>2
    <3> QED BY <3>1, <3>2
  <2>2. g \in [SUBSET m -> {g[s] : s \in SUBSET m}] /\ h \in [SUBSET m -> {h[s] : s \in SUBSET m}]
    OBVIOUS
  <2> HIDE DEF g, h
  <2>3. g = h
    BY <2>1, <2>2
  <2> QED BY <2>3 DEF h
<1>6. IsSum(g, m)
  <2> HIDE DEF g
  <2> QED BY <1>5 DEF IsSum
<1> QED BY <1>2, <1>6

\* What the script's loop adds up, one reservation at a time.
LEMMA ReservedUnfolds ==
  ASSUME NEW S, IsFiniteSet(S)
  PROVE  Reserved(S) = IF S = {} THEN 0 ELSE Amount[Chosen(S)] + Reserved(S \ {Chosen(S)})
<1> DEFINE part(s) == CHOOSE g : IsSum(g, s)
           T == S \ {Chosen(S)}
<1>1. IsSum(part(S), S)
  BY SumExists
<1>2. Reserved(S) = part(S)[S] /\ Reserved(T) = part(T)[T]
  BY ReservedIsSum
<1>3. IsFiniteSet(T) /\ T \in SUBSET S /\ T \in SUBSET T
  BY FS_Subset
<1>4. IsSum(part(T), T)
  BY <1>3, SumExists
<1>5. part(S)[T] = part(T)[T]
  <2> HIDE DEF part, T
  <2> QED BY <1>1, <1>3, <1>4, SumsAgree
<1>6. part(S)[S] = IF S = {} THEN 0 ELSE Amount[Chosen(S)] + part(S)[T]
  <2> HIDE DEF part
  <2> QED BY <1>1, SumAt
<1> QED BY <1>2, <1>5, <1>6

LEMMA ReservedType ==
  ASSUME NEW S, IsFiniteSet(S), S \subseteq Requests
  PROVE  Reserved(S) \in Nat
<1> DEFINE Bad == {s \in SUBSET S : Reserved(s) \notin Nat}
<1> SUFFICES ASSUME Bad # {} PROVE FALSE
  OBVIOUS
<1>1. PICK m \in Bad : \A s \in Bad : s \subseteq m => s = m
  <2> HIDE DEF Bad
  <2>1. Bad \subseteq SUBSET S
    BY DEF Bad
  <2> QED BY <2>1, SmallestSet
<1>2. IsFiniteSet(m) /\ m \subseteq Requests
  BY FS_Subset
<1>3. m # {}
  <2>1. m = {} => Reserved(m) = 0
    BY <1>2, ReservedUnfolds
  <2> QED BY <1>1, <2>1
<1>4. Chosen(m) \in m
  BY <1>3, ChosenIn
<1>5. m \ {Chosen(m)} \in SUBSET S /\ m \ {Chosen(m)} \notin Bad
  BY <1>1, <1>4
<1>6. Amount[Chosen(m)] \in Nat
  BY <1>2, <1>4
<1>7. Reserved(m) = Amount[Chosen(m)] + Reserved(m \ {Chosen(m)})
  BY <1>2, <1>3, ReservedUnfolds
<1> QED BY <1>5, <1>6, <1>7

\* The order in which the reservations are added does not matter.
LEMMA ReservedWithout ==
  ASSUME NEW S, IsFiniteSet(S), S \subseteq Requests, NEW r \in S
  PROVE  Reserved(S) = Amount[r] + Reserved(S \ {r})
<1> DEFINE Splits(s) == \A q \in s : Reserved(s) = Amount[q] + Reserved(s \ {q})
           Bad == {s \in SUBSET S : ~ Splits(s)}
<1> SUFFICES ASSUME Bad # {} PROVE FALSE
  OBVIOUS
<1>1. PICK m \in Bad : \A s \in Bad : s \subseteq m => s = m
  <2> HIDE DEF Bad
  <2>1. Bad \subseteq SUBSET S
    BY DEF Bad
  <2> QED BY <2>1, SmallestSet
<1>2. PICK q \in m : Reserved(m) # Amount[q] + Reserved(m \ {q})
  BY <1>1
<1> DEFINE c == Chosen(m)
           rest == (m \ {c}) \ {q}
<1>3. IsFiniteSet(m) /\ m \subseteq Requests /\ m # {}
  BY FS_Subset
<1>4. c \in m /\ Reserved(m) = Amount[c] + Reserved(m \ {c})
  <2>1. c \in m
    BY <1>3, ChosenIn
  <2>2. Reserved(m) = Amount[c] + Reserved(m \ {c})
    BY <1>3, ReservedUnfolds
  <2> QED BY <2>1, <2>2
<1>5. c # q
  BY <1>2, <1>4
<1>6. Splits(m \ {c}) /\ Splits(m \ {q})
  BY <1>1, <1>2, <1>4
<1>7. rest = (m \ {q}) \ {c} /\ q \in m \ {c} /\ c \in m \ {q}
  BY <1>2, <1>4, <1>5
<1>8. Reserved(m \ {c}) = Amount[q] + Reserved(rest)
  BY <1>6, <1>7
<1>9. Reserved(m \ {q}) = Amount[c] + Reserved(rest)
  BY <1>6, <1>7
<1>10. Reserved(rest) \in Nat /\ Amount[c] \in Nat /\ Amount[q] \in Nat
  <2>1. IsFiniteSet(rest) /\ rest \subseteq Requests
    BY <1>3, FS_Subset
  <2>2. Reserved(rest) \in Nat
    <3> HIDE DEF rest
    <3> QED BY <2>1, ReservedType
  <2>3. c \in Requests /\ q \in Requests
    BY <1>2, <1>3, <1>4
  <2> QED BY <2>2, <2>3
<1> QED
  <2> HIDE DEF rest, c
  <2> QED BY <1>2, <1>4, <1>8, <1>9, <1>10

\* More reservations never add up to less.
LEMMA ReservedGrows ==
  ASSUME NEW S, IsFiniteSet(S), S \subseteq Requests, NEW T, T \subseteq S
  PROVE  Reserved(T) <= Reserved(S)
<1> DEFINE Bad == {s \in SUBSET S : T \subseteq s /\ ~ (Reserved(T) <= Reserved(s))}
<1> SUFFICES ASSUME Bad # {} PROVE FALSE
  OBVIOUS
<1>1. PICK m \in Bad : \A s \in Bad : s \subseteq m => s = m
  <2> HIDE DEF Bad
  <2>1. Bad \subseteq SUBSET S
    BY DEF Bad
  <2> QED BY <2>1, SmallestSet
<1>2. IsFiniteSet(m) /\ IsFiniteSet(T) /\ m \subseteq Requests /\ T \subseteq Requests
  BY FS_Subset
<1>3. Reserved(T) \in Nat
  BY <1>2, ReservedType
<1>4. PICK q \in m : q \notin T
  BY <1>3
<1>5. m \ {q} \in SUBSET S /\ T \subseteq m \ {q} /\ m \ {q} \notin Bad
  BY <1>1, <1>4
<1>6. Reserved(m) = Amount[q] + Reserved(m \ {q})
  BY <1>2, ReservedWithout
<1>7. Reserved(m \ {q}) \in Nat /\ Amount[q] \in Nat
  <2>1. IsFiniteSet(m \ {q}) /\ m \ {q} \subseteq Requests
    BY <1>2, FS_Subset
  <2> QED BY <2>1, <1>2, ReservedType
<1> QED BY <1>3, <1>5, <1>6, <1>7

-----------------------------------------------------------------------------
\* Reservations and the balance they were admitted with.

CoveredInv == IsFiniteSet(members) /\ Covered

\* A step registers one reservation the script admits, takes a new balance for
\* a request that has none, or withdraws reservations.
LEMMA Admission ==
  ASSUME [Next]_vars
  PROVE  \/ \E r \in Requests : Read(r)
         \/ \E r \in Requests : pc[r] = "reserve" /\ Admits(r) /\ Register(r) /\ bal' = bal
         \/ members' \subseteq members /\ bal' = bal
<1>1. ASSUME NEW r \in Requests,
             \/ RequestStep(r) \/ RequestFails(r) \/ Renew(r)
             \/ RenewArrives(r) \/ Return(r) \/ Release(r)
      PROVE  \/ Read(r)
             \/ pc[r] = "reserve" /\ Admits(r) /\ Register(r) /\ bal' = bal
             \/ members' \subseteq members /\ bal' = bal
  BY <1>1 DEF RequestStep, RequestFails, Check, Reserve, Refuse, ReadFails,
     ReserveFails, RenewFails, ReleaseFails, Crash, Renew, RenewArrives, Return, Release,
     Purged, RenewScript, Unexpired
<1>2. ASSUME NEW t \in Tasks,
             Submit(t) \/ SubmitDropped(t) \/ TaskStep(t) \/ TaskFails(t)
      PROVE  members' \subseteq members /\ bal' = bal
  BY <1>2 DEF TaskStep, TaskFails, Submit, SubmitDropped, Charge, SyncInvalidate,
     SyncDeduct, Finish, ChargeFails, InvalidateFails, DeductFails
<1>3. ASSUME NEW w \in writes, ApplyWrite(w) \/ WriteFails(w)
      PROVE  members' \subseteq members /\ bal' = bal
  BY <1>3 DEF ApplyWrite, WriteFails
<1>4. CASE CacheExpires \/ KeysExpire \/ Tick \/ Stall \/ UNCHANGED vars
  BY <1>4 DEF CacheExpires, KeysExpire, Tick, Stall, Elapse, vars
<1> QED BY <1>1, <1>2, <1>3, <1>4 DEF Next

\* The reservation a script admits is covered together with all the others.
LEMMA AdmittedCovered ==
  ASSUME IInv, CoveredInv, NEW r \in Requests,
         pc[r] = "reserve", Admits(r), Register(r), bal' = bal
  PROVE  CoveredInv'
<1>1. r \notin members
  BY DEF IInv, NothingEarly
<1>2. Unexpired \subseteq members /\ members \subseteq Requests
  BY DEF IInv, TypeOK, Unexpired
<1>3. IsFiniteSet(members) /\ IsFiniteSet(Unexpired)
  BY <1>2, FS_Subset DEF CoveredInv
<1>4. members' = Unexpired \cup {r}
  BY DEF Register
<1>5. IsFiniteSet(members')
  BY <1>3, <1>4, FS_AddElement
<1>6. ASSUME NEW S \in SUBSET (members'), Cardinality(S) > 1
      PROVE  \E q \in S : Reserved(S) <= bal[q]
  <2>1. CASE r \notin S
    <3>1. S \subseteq members
      BY <1>2, <1>4, <2>1
    <3> QED BY <1>6, <3>1 DEF CoveredInv, Covered
  <2>2. CASE r \in S
    <3> DEFINE T == S \ {r}
    <3>1. T \subseteq Unexpired /\ IsFiniteSet(S) /\ IsFiniteSet(T) /\ S \subseteq Requests
      BY <1>2, <1>4, <1>5, FS_Subset
    <3>2. Unexpired # {}
      <4>1. Unexpired = {} => S = {r}
        BY <2>2, <3>1
      <4>2. Cardinality({r}) = 1
        BY FS_Singleton
      <4> QED BY <1>6, <4>1, <4>2
    <3>3. bal[r] - Reserved(Unexpired) >= Amount[r]
      BY <3>2 DEF Admits
    <3>4. Reserved(S) = Amount[r] + Reserved(T)
      BY <2>2, <3>1, ReservedWithout
    <3>5. Reserved(T) <= Reserved(Unexpired)
      <4> HIDE DEF T
      <4> QED BY <1>2, <1>3, <3>1, ReservedGrows
    <3>6. Reserved(T) \in Nat /\ Reserved(Unexpired) \in Nat
      <4> HIDE DEF T
      <4> QED BY <1>2, <1>3, <3>1, ReservedType
    <3>7. bal[r] \in Int /\ Amount[r] \in Nat
      BY DEF IInv, TypeOK
    <3>8. Reserved(S) <= bal[r]
      <4> HIDE DEF T
      <4> QED BY <3>3, <3>4, <3>5, <3>6, <3>7
    <3> QED BY <2>2, <3>8
  <2> QED BY <2>1, <2>2
<1> QED BY <1>5, <1>6 DEF CoveredInv, Covered, Reserved, MapThenSumSet, MapThenFoldSet

\* A balance is read before the reservation it admits exists.
LEMMA ReadCovered ==
  ASSUME IInv, CoveredInv, NEW r \in Requests, Read(r)
  PROVE  CoveredInv'
<1>1. r \notin members /\ members' = members
  BY DEF IInv, NothingEarly, Read
<1>2. \A q \in members : bal'[q] = bal[q]
  BY <1>1 DEF IInv, TypeOK, Read
<1>3. \A S : Reserved(S)' = Reserved(S)
  BY DEF Reserved, MapThenSumSet, MapThenFoldSet
<1> QED BY <1>1, <1>2, <1>3 DEF CoveredInv, Covered

LEMMA FewerCovered ==
  ASSUME CoveredInv, members' \subseteq members, bal' = bal
  PROVE  CoveredInv'
<1>1. IsFiniteSet(members')
  BY FS_Subset DEF CoveredInv
<1>2. \A S : Reserved(S)' = Reserved(S)
  BY DEF Reserved, MapThenSumSet, MapThenFoldSet
<1> QED BY <1>1, <1>2 DEF CoveredInv, Covered

LEMMA InitCovered == Init => CoveredInv
<1> SUFFICES ASSUME Init PROVE CoveredInv
  OBVIOUS
<1>1. members = {} /\ IsFiniteSet({}) /\ Cardinality({}) = 0
  BY FS_EmptySet DEF Init
<1>2. \A S \in SUBSET members : S = {}
  BY <1>1
<1> QED BY <1>1, <1>2 DEF CoveredInv, Covered

LEMMA StepCovered == IInv /\ CoveredInv /\ [Next]_vars => CoveredInv'
  BY Admission, AdmittedCovered, ReadCovered, FewerCovered

\* The reserve script: two or more reservations never add up to more than the
\* balance one of those requests was admitted with, also after some of them
\* have been released or have expired.
THEOREM NeverOvercommitted == Spec => []Covered
<1>1. Spec => []CoveredInv
  BY InitCovered, StepCovered, Invariance, PTL DEF Spec
<1> QED BY <1>1, PTL DEF CoveredInv
==============================================================================
