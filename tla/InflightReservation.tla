------------------------ MODULE InflightReservation ------------------------
(***************************************************************************)
(* The in-flight reservations of one user in balance mode: admission       *)
(* against the cached balance, the ZSET and HASH of reservations in Redis, *)
(* the handle's reference count shared by the handler and its billing      *)
(* tasks, renewal and expiry, and the charge in the database followed by   *)
(* the one in the cache.  A Redis script is one step, and so is a          *)
(* statement of the database.  A tick is a third of the reservation's TTL, *)
(* the period of the renewal.                                              *)
(***************************************************************************)
EXTENDS Integers, FiniteSets, FiniteSetsExt

CONSTANTS Requests,   \* requests of the user
          Tasks,      \* billing tasks
          Of,         \* the request that submits each task
          Amount,     \* estimate each request reserves
          Cost,       \* what each task charges
          Balances,   \* possible balances of the user at first
          NoEntry,    \* a missing key of the balance cache
          TTL,        \* of a reservation, in ticks
          MaxFaults   \* bound on failures, stalls and crashes

ASSUME InflightAssumption ==
  /\ IsFiniteSet(Tasks) /\ Requests \cap Tasks = {}
  /\ Of \in [Tasks -> Requests]
  /\ Amount \in [Requests -> Nat \ {0}] /\ Cost \in [Tasks -> Nat \ {0}]
  /\ Balances \subseteq Int /\ TTL \in Nat \ {0} /\ MaxFaults \in Nat
  /\ NoEntry \notin Int

VARIABLES
  db,         \* users.balance
  cache,      \* the cached balance
  writes,     \* queued cache writes; several workers take them in any order
  members,    \* members of the ZSET, fields of the HASH
  left,       \* ticks a member has left; an expired one stays until purged
  pc, bal,
  refs,       \* references of each handle
  handles,    \* requests with a handle
  renewing,   \* requests whose renewal goroutine is alive
  due,        \* renewals that have not yet run in this tick
  delayed,    \* renewals that timed out and Redis has yet to run
  releasing,  \* handles whose count has reached zero, not yet withdrawn
  task,
  holding,    \* tasks that have taken a reference
  faults

store == <<members, left>>
balances == <<db, cache, writes>>
handle == <<refs, handles, renewing, due, releasing>>
tasks == <<task, holding>>
vars == <<db, cache, writes, members, left, pc, bal, refs, handles, renewing,
          due, delayed, releasing, task, holding, faults>>

Steps == {"idle", "read", "reserve", "running", "done", "rejected", "crashed"}
Pending == {"queued", "invalidate", "deduct", "finish"}
TaskSteps == Pending \cup {"none", "dropped", "done", "lost"}
Writes == [kind : {"set", "deduct"}, amount : Int,
           by : (Requests \X {"idle", "read"}) \cup (Tasks \X {"deduct"})]

Init ==
  /\ db \in Balances /\ cache \in {db, NoEntry} /\ writes = {}
  /\ members = {} /\ left = [r \in Requests |-> 0]
  /\ pc = [r \in Requests |-> "idle"]
  /\ bal = [r \in Requests |-> 0]
  /\ refs = [r \in Requests |-> 0]
  /\ handles = {} /\ renewing = {} /\ due = {} /\ delayed = {} /\ releasing = {}
  /\ task = [t \in Tasks |-> "none"] /\ holding = {}
  /\ faults = 0

Fault == faults < MaxFaults /\ faults' = faults + 1
Goto(r, step) == pc' = [pc EXCEPT ![r] = step]
GotoTask(t, step) == task' = [task EXCEPT ![t] = step]
Deducted(amount) == IF cache = NoEntry THEN NoEntry ELSE cache - amount
HeldBy(r) == {t \in holding : Of[t] = r}

-----------------------------------------------------------------------------
\* Admission: the eligibility check, the balance read and the script.

\* GetUserBalance: the cached value, or the database's, then queued for the
\* cache unless the queue is full.
Reads(r, b) ==
  \/ cache # NoEntry /\ b = cache /\ UNCHANGED writes
  \/ /\ cache = NoEntry /\ b = db
     /\ writes' \in {writes, writes \cup {[kind |-> "set", amount |-> b, by |-> <<r, pc[r]>>]}}

\* CheckBillingEligibility: the balance must be positive.
Check(r) ==
  /\ pc[r] = "idle"
  /\ \E b \in {db, cache} \ {NoEntry} :
       Reads(r, b) /\ Goto(r, IF b > 0 THEN "read" ELSE "rejected")
  /\ UNCHANGED <<db, cache, store, bal, handle, delayed, tasks, faults>>

Read(r) ==
  /\ pc[r] = "read"
  /\ \E b \in {db, cache} \ {NoEntry} :
       Reads(r, b) /\ bal' = [bal EXCEPT ![r] = b]
  /\ Goto(r, "reserve")
  /\ UNCHANGED <<db, cache, store, handle, delayed, tasks, faults>>

\* The balance cannot be read: the request runs without a reservation.
ReadFails(r) ==
  /\ pc[r] = "read" /\ Fault
  /\ Goto(r, "running")
  /\ UNCHANGED <<balances, store, bal, handle, delayed, tasks>>

Reserved(S) == MapThenSumSet(LAMBDA r : Amount[r], S)
Expired == {r \in members : left[r] = 0}
Unexpired == members \ Expired

\* MUTANT: the sum leaves out one of the reservations.
AdmitsOneMore(r) ==
  \/ Unexpired = {}
  \/ \E q \in Unexpired : bal[r] - Reserved(Unexpired \ {q}) >= Amount[r]
Admits(r) == Unexpired = {} \/ bal[r] - Reserved(Unexpired) >= Amount[r]

Purged == members' = Unexpired /\ UNCHANGED left
Register(r) ==
  /\ members' = Unexpired \cup {r}
  /\ left' = [left EXCEPT ![r] = TTL]

Reserve(r) ==
  /\ pc[r] = "reserve" /\ Admits(r)
  /\ Register(r)
  /\ handles' = handles \cup {r}
  /\ refs' = [refs EXCEPT ![r] = 1]
  /\ renewing' = renewing \cup {r}
  /\ Goto(r, "running")
  /\ UNCHANGED <<balances, bal, due, delayed, releasing, tasks, faults>>

Refuse(r) ==
  /\ pc[r] = "reserve" /\ ~Admits(r)
  /\ Purged
  /\ Goto(r, "rejected")
  /\ UNCHANGED <<balances, bal, handle, delayed, tasks, faults>>

\* The script's answer is lost, before or after it ran: the request runs
\* without a handle.
ReserveFails(r) ==
  /\ pc[r] = "reserve" /\ Fault
  /\ \/ UNCHANGED store
     \/ Admits(r) /\ Register(r)
     \/ ~Admits(r) /\ Purged
  /\ Goto(r, "running")
  /\ UNCHANGED <<balances, bal, handle, delayed, tasks>>

-----------------------------------------------------------------------------
\* The reservation while the handler runs.

\* MUTANT: ZADD without XX, and no check of the score.
RenewScriptRevives(r) ==
  members' = members \cup {r} /\ left' = [left EXCEPT ![r] = TTL]

\* Renew script: an expired member is removed, a missing one stays missing.
RenewScript(r) ==
  IF r \in Expired
  THEN members' = members \ {r} /\ UNCHANGED left
  ELSE left' = [left EXCEPT ![r] = IF r \in members THEN TTL ELSE @] /\ UNCHANGED members

Renew(r) ==
  /\ r \in due
  /\ RenewScript(r)
  /\ due' = due \ {r}
  /\ renewing' = IF r \in Unexpired THEN renewing ELSE renewing \ {r}
  /\ UNCHANGED <<balances, pc, bal, refs, handles, delayed, releasing, tasks, faults>>

\* MUTANT: the renewal goroutine goes on.
RenewalGoesOn(r) == UNCHANGED <<renewing, due>>
\* MUTANT: HandlerDone does not wait for a renewal under way.
RenewalUnderWay(r) == renewing' = renewing \ {r} /\ UNCHANGED due
StopRenewal(r) == renewing' = renewing \ {r} /\ due' = due \ {r}

\* MUTANT: the goroutine gives up after the first failure.
RenewGivesUp(r) ==
  /\ r \in due /\ Fault
  /\ StopRenewal(r)
  /\ UNCHANGED <<balances, store, pc, bal, refs, handles, delayed, releasing, tasks>>
\* The call times out; Redis may still run the script, later.
RenewFails(r) ==
  /\ r \in due /\ Fault
  /\ due' = due \ {r}
  /\ delayed' \in {delayed, delayed \cup {r}}
  /\ UNCHANGED <<balances, store, pc, bal, refs, handles, renewing, releasing, tasks>>

RenewArrives(r) ==
  /\ r \in delayed
  /\ RenewScript(r)
  /\ delayed' = delayed \ {r}
  /\ UNCHANGED <<balances, pc, bal, handle, tasks, faults>>

\* decRef, and the hand-over to Release when it returns zero or less.
DecRef(r) ==
  /\ refs' = [refs EXCEPT ![r] = @ - 1]
  /\ releasing' = IF refs[r] - 1 <= 0 THEN releasing \cup {r} ELSE releasing

HandlerRef(r) == DecRef(r)

\* The handler returns: HandlerDone stops the renewal, then drops its reference.
Return(r) ==
  /\ pc[r] = "running"
  /\ Goto(r, "done")
  /\ IF r \in handles
     THEN HandlerRef(r) /\ StopRenewal(r)
     ELSE UNCHANGED <<refs, releasing, renewing, due>>
  /\ UNCHANGED <<balances, store, bal, handles, delayed, tasks, faults>>

Release(r) ==
  /\ r \in releasing
  /\ members' = members \ {r}
  /\ left' = [left EXCEPT ![r] = 0]
  /\ releasing' = releasing \ {r}
  /\ UNCHANGED <<balances, pc, bal, refs, handles, renewing, due, delayed, tasks, faults>>

ReleaseFails(r) ==
  /\ r \in releasing /\ Fault
  /\ releasing' = releasing \ {r}
  /\ UNCHANGED <<balances, store, pc, bal, refs, handles, renewing, due, delayed, tasks>>

\* The process that serves r dies, with its goroutines and queued tasks.
Crash(r) ==
  /\ \/ pc[r] = "running" \/ r \in releasing
     \/ \E t \in Tasks : Of[t] = r /\ task[t] \in Pending
  /\ Fault
  /\ Goto(r, "crashed")
  /\ task' = [t \in Tasks |-> IF Of[t] = r /\ task[t] \in Pending
                              THEN "lost" ELSE task[t]]
  /\ holding' = holding \ HeldBy(r)
  /\ refs' = [refs EXCEPT ![r] = 0]
  /\ StopRenewal(r)
  /\ releasing' = releasing \ {r}
  /\ UNCHANGED <<balances, store, bal, handles, delayed>>

-----------------------------------------------------------------------------
\* Billing tasks: submitted while the handler runs, executed by the pool.

\* MUTANT: the task is queued without a reference.
AcquireNothing(t) == UNCHANGED <<refs, holding>>

\* No reference on a missing or released handle.
Acquire(t) ==
  IF Of[t] \in handles /\ refs[Of[t]] > 0
  THEN refs' = [refs EXCEPT ![Of[t]] = @ + 1] /\ holding' = holding \cup {t}
  ELSE UNCHANGED <<refs, holding>>

Submit(t) ==
  /\ task[t] = "none" /\ pc[Of[t]] = "running"
  /\ Acquire(t)
  /\ GotoTask(t, "queued")
  /\ UNCHANGED <<balances, store, pc, bal, handles, renewing, due, delayed, releasing, faults>>

\* The pool is full under drop or sample: the task is abandoned, which gives
\* its reference back.
SubmitDropped(t) ==
  /\ task[t] = "none" /\ pc[Of[t]] = "running"
  /\ GotoTask(t, "dropped")
  /\ UNCHANGED <<balances, store, pc, bal, handle, delayed, holding, faults>>

\* The charge in the database; its result decides what becomes of the cache.
Charge(t) ==
  /\ task[t] = "queued"
  /\ db' = db - Cost[t]
  /\ GotoTask(t, IF db' <= 0 THEN "invalidate" ELSE "deduct")
  /\ UNCHANGED <<cache, writes, store, pc, bal, handle, delayed, holding, faults>>

\* The transaction fails, before or after its commit.
ChargeFails(t) ==
  /\ task[t] = "queued" /\ Fault
  /\ db' \in {db, db - Cost[t]}
  /\ GotoTask(t, "finish")
  /\ UNCHANGED <<cache, writes, store, pc, bal, handle, delayed, holding>>

SyncInvalidate(t) ==
  /\ task[t] = "invalidate"
  /\ cache' = NoEntry
  /\ GotoTask(t, "finish")
  /\ UNCHANGED <<db, writes, store, pc, bal, handle, delayed, holding, faults>>

SyncDeduct(t) ==
  /\ task[t] = "deduct"
  /\ cache' = Deducted(Cost[t])
  /\ GotoTask(t, "finish")
  /\ UNCHANGED <<db, writes, store, pc, bal, handle, delayed, holding, faults>>

\* A failed invalidation is only logged.
InvalidateFails(t) ==
  /\ task[t] = "invalidate" /\ Fault
  /\ GotoTask(t, "finish")
  /\ UNCHANGED <<balances, store, pc, bal, handle, delayed, holding>>

\* A failed deduction is queued, whether or not the script ran.
DeductFails(t) ==
  /\ task[t] = "deduct" /\ Fault
  /\ cache' \in {cache, Deducted(Cost[t])}
  /\ writes' = writes \cup {[kind |-> "deduct", amount |-> Cost[t], by |-> <<t, "deduct">>]}
  /\ GotoTask(t, "finish")
  /\ UNCHANGED <<db, store, pc, bal, handle, delayed, holding>>

\* The task ends, also by a panic, and gives its reference back.
Finish(t) ==
  /\ task[t] = "finish"
  /\ GotoTask(t, "done")
  /\ IF t \in holding THEN DecRef(Of[t]) /\ holding' = holding \ {t}
                      ELSE UNCHANGED <<refs, releasing, holding>>
  /\ UNCHANGED <<balances, store, pc, bal, handles, renewing, due, delayed, faults>>

-----------------------------------------------------------------------------
\* Redis and the clock.

\* A worker of the cache-write pool takes a write; a failed one is lost.
ApplyWrite(w) ==
  /\ w \in writes
  /\ cache' = IF w.kind = "set" THEN w.amount ELSE Deducted(w.amount)
  /\ writes' = writes \ {w}
  /\ UNCHANGED <<db, store, pc, bal, handle, delayed, tasks, faults>>

WriteFails(w) ==
  /\ w \in writes /\ Fault
  /\ writes' = writes \ {w}
  /\ UNCHANGED <<db, cache, store, pc, bal, handle, delayed, tasks>>

CacheExpires ==
  /\ cache # NoEntry
  /\ cache' = NoEntry
  /\ UNCHANGED <<db, writes, store, pc, bal, handle, delayed, tasks, faults>>

\* The keys' own TTL is at least that of each member.
KeysExpire ==
  /\ members # {} /\ Unexpired = {}
  /\ members' = {}
  /\ UNCHANGED <<balances, left, pc, bal, handle, delayed, tasks, faults>>

\* A call that timed out arrives in the same tick or never.
Elapse ==
  /\ left' = [r \in Requests |-> IF left[r] > 0 THEN left[r] - 1 ELSE 0]
  /\ due' = renewing /\ delayed' = {}
  /\ UNCHANGED <<balances, members, pc, bal, refs, handles, renewing, releasing, tasks>>

Tick == due = {} /\ Elapse /\ UNCHANGED faults
\* A renewal is late by a tick.
Stall == due # {} /\ Elapse /\ Fault

-----------------------------------------------------------------------------
RequestStep(r) == Check(r) \/ Read(r) \/ Reserve(r) \/ Refuse(r)
RequestFails(r) == ReadFails(r) \/ ReserveFails(r) \/ RenewFails(r)
                     \/ ReleaseFails(r) \/ Crash(r)
TaskStep(t) == Charge(t) \/ SyncInvalidate(t) \/ SyncDeduct(t) \/ Finish(t)
TaskFails(t) == ChargeFails(t) \/ InvalidateFails(t) \/ DeductFails(t)

Next ==
  \/ \E r \in Requests : RequestStep(r) \/ RequestFails(r) \/ Renew(r)
       \/ RenewArrives(r) \/ Return(r) \/ Release(r)
  \/ \E t \in Tasks : Submit(t) \/ SubmitDropped(t) \/ TaskStep(t) \/ TaskFails(t)
  \/ \E w \in writes : ApplyWrite(w) \/ WriteFails(w)
  \/ CacheExpires \/ KeysExpire \/ Tick \/ Stall

Spec == Init /\ [][Next]_vars

\* A goroutine that can run does run, requests end, time passes; nothing is
\* assumed of the tasks, which may be stuck for ever.
LiveSpec ==
  /\ Spec
  /\ \A r \in Requests : WF_vars(Return(r)) /\ WF_vars(Release(r)) /\ WF_vars(Renew(r))
  /\ WF_vars(KeysExpire) /\ WF_vars(Tick)

-----------------------------------------------------------------------------
\* Types of the state.
TypeOK ==
  /\ db \in Int /\ cache \in Int \cup {NoEntry} /\ writes \subseteq Writes
  /\ members \subseteq Requests /\ left \in [Requests -> 0 .. TTL]
  /\ pc \in [Requests -> Steps] /\ bal \in [Requests -> Int]
  /\ refs \in [Requests -> Int]
  /\ handles \subseteq Requests /\ renewing \subseteq handles
  /\ due \subseteq renewing /\ delayed \subseteq Requests
  /\ releasing \subseteq handles
  /\ task \in [Tasks -> TaskSteps] /\ holding \subseteq Tasks
  /\ faults \in Nat

\* The handle's count is the handler, while it runs, and the tasks that hold a
\* reference (Acquire, decRef).
HandlerRefs(r) == IF pc[r] = "running" THEN 1 ELSE 0
RefsExact ==
  \A r \in handles : refs[r] = HandlerRefs(r) + Cardinality(HeldBy(r))

\* Every unfinished task of a request with a handle holds a reference, and no
\* other task does.
PendingHold ==
  \A t \in Tasks :
    /\ t \in holding => task[t] \in Pending /\ Of[t] \in handles
    /\ Of[t] \in handles /\ task[t] \in Pending => t \in holding

\* A reservation is being withdrawn only with its count at zero.
ReleasingSettled == \A r \in releasing : refs[r] = 0 /\ pc[r] = "done"

\* A request has no handle, member or task before it is admitted, and a crash
\* ends its tasks.
Started == {"running", "done", "crashed"}
NothingEarly ==
  /\ \A r \in handles \cup members \cup delayed : pc[r] \in Started
  /\ \A t \in Tasks : task[t] \in Pending => pc[Of[t]] \in {"running", "done"}
  /\ \A r \in Requests : left[r] > 0 => r \in members

\* The inductive invariant.
IInv == TypeOK /\ RefsExact /\ PendingHold /\ ReleasingSettled /\ NothingEarly

\* What a running handler's reservation has left: each tick takes one, which
\* the renewal of that tick gives back unless it is late or fails.
Owing(r) == IF r \in due THEN 1 ELSE 0
Renewed(r) == r \in Unexpired /\ r \in renewing /\ left[r] + faults + Owing(r) >= TTL
RenewedInv ==
  \A r \in handles : pc[r] = "running" /\ faults + 2 <= TTL => Renewed(r)

\* InflightReservation's promise: a reservation that has not expired is
\* withdrawn only after its handler has returned and every billing task it
\* submitted has updated the cached balance or been dropped.
Settled(r) ==
  pc[r] = "done" /\ \A t \in Tasks : Of[t] = r => task[t] \notin Pending
ReleasedWhenSettled ==
  [][\A r \in Unexpired : r \in members' \/ Settled(r)]_vars

\* The renew script brings no reservation back: not one that has been
\* released, nor one that has expired, even when the call arrives late.
NoRevival ==
  [][\A r \in Requests : pc[r] \in Started /\ r \notin Unexpired => left'[r] = 0]_vars

\* startRenewal: the reservation outlasts its handler, however long it runs,
\* as long as at most TTL - 2 renewals are late or fail.
HeldWhileRunning ==
  \A r \in handles : pc[r] = "running" /\ faults + 2 <= TTL => r \in Unexpired

\* The reserve script: two or more reservations never add up to more than the
\* balance one of those requests was admitted with, also after some of them
\* have been released or have expired.
Covered ==
  \A S \in SUBSET members :
    Cardinality(S) > 1 => \E r \in S : Reserved(S) <= bal[r]

\* A reservation of a crashed request or a stuck task is gone in the end.
EventuallyFree == <>[](members = {})

\* What syncBalanceCacheAfterDeduction says it guarantees: once no reservation
\* is left and every charge is done, the balance that admission reads reflects
\* the charges.
ChargeVisible ==
  members = {} /\ (\A t \in Tasks : task[t] \notin Pending) =>
    cache = NoEntry \/ cache <= db
=============================================================================
