-------------------------- MODULE SchedulerSnapshot --------------------------
(***************************************************************************)
(* How one group's accounts reach the scheduler's snapshot cache (service/ *)
(* scheduler_snapshot_service.go): changes in the database queue events in *)
(* the outbox, the pollers of all instances handle them, full rebuilds run *)
(* on a timer, and a request that misses the cache publishes what it read  *)
(* from the database.  Each step is one statement, Lua script or Redis     *)
(* command; anyone may act between two.                                    *)
(*                                                                         *)
(* The accounts of the group are the number of changes made to them.  The  *)
(* group has one bucket and one platform.                                  *)
(***************************************************************************)
EXTENDS SnapshotBucket, SchedulerOutbox

CONSTANTS
    Pollers, Rebuilders, Readers, \* goroutines that poll, rebuild all, serve requests
    Nobody,     \* no goroutine owns the lease
    MaxChanges, \* bound: changes of the accounts
    MaxFlips,   \* bound: times the group is switched on or off
    MaxFaults   \* bound: crashes, errors, lost events and early expiries

Workers == Pollers \cup Rebuilders \cup Readers

ASSUME NobodyAssumption == Nobody \notin Workers
ASSUME KindsAssumption == Kinds = {"account", "group"}
ASSUME BoundsAssumption == {MaxChanges, MaxFlips, MaxFaults} \subseteq Nat

VARIABLES
    accounts, groupActive, \* the accounts' changes so far; the group's status
    flips,                 \* times the status was changed
    owed,                  \* events of committed changes still to be queued
    tx,                    \* the transaction that changes and queues at once
    lock, lease,           \* bucket lock; owner of the group lifecycle lease
    job,                   \* what each goroutine is doing
    faults, lost           \* faults so far; an event of the group was lost

dbVars == <<accounts, groupActive, flips, owed, tx>>
lockVars == <<lock, lease>>
faultVars == <<faults, lost>>
vars == <<bucketVars, outboxVars, dbVars, lockVars, job, faultVars>>

Steps == {"idle", "list", "next", "watermark", "cleanup", "groups", "capture",
          "lease", "decide", "apply", "lock", "load", "allocate", "activate"}

\* todo and last: the events of the batch not yet handled, and its last id.
\* seen: what the batch has rebuilt.  flag: the buckets a full rebuild found
\* registered, later the group's status as the lifecycle read it.  held: the work
\* goes on under the bucket lock.
Idle == [pc |-> "idle", todo |-> {}, last |-> 0, seen |-> {}, flag |-> FALSE,
         held |-> FALSE, strict |-> FALSE, token |-> 0, data |-> 0, life |-> 0]
NoTx == [open |-> FALSE, row |-> 0]

Init ==
    /\ BucketInit /\ OutboxInit
    /\ accounts = 0 /\ groupActive = TRUE /\ flips = 0
    /\ owed = [k \in Kinds |-> 0] /\ tx = NoTx
    /\ lock = FALSE /\ lease = Nobody
    /\ job = [w \in Workers |-> Idle]
    /\ faults = 0 /\ lost = FALSE

-----------------------------------------------------------------------------
(* The database. *)

\* An account changes; the event is queued after the commit (SetRateLimited).
ChangeAccounts ==
    /\ accounts + (IF tx.open THEN 1 ELSE 0) < MaxChanges
    /\ accounts' = accounts + 1
    /\ owed' = [owed EXCEPT !["account"] = @ + 1]
    /\ UNCHANGED <<groupActive, flips, tx, bucketVars, outboxVars, lockVars, job, faultVars>>

SwitchGroup ==
    /\ flips < MaxFlips
    /\ groupActive' = ~groupActive /\ flips' = flips + 1
    /\ owed' = [owed EXCEPT !["group"] = @ + 1]
    /\ UNCHANGED <<accounts, tx, bucketVars, outboxVars, lockVars, job, faultVars>>

Enqueue(k) ==
    /\ owed[k] > 0
    /\ Insert(k, "committed")
    /\ owed' = [owed EXCEPT ![k] = @ - 1]
    /\ UNCHANGED <<accounts, groupActive, flips, tx, bucketVars, lockVars, job, faultVars>>

\* The usage billing transaction that exhausts a quota queues its event first.
InsertInTx ==
    /\ ~tx.open /\ accounts < MaxChanges
    /\ Insert("account", "open")
    /\ tx' = [open |-> TRUE, row |-> IF Inserts("account") THEN Len(outbox') ELSE 0]
    /\ UNCHANGED <<accounts, groupActive, flips, owed, bucketVars, lockVars, job, faultVars>>

CommitTx ==
    /\ tx.open
    /\ IF tx.row = 0 THEN UNCHANGED outboxVars ELSE Commit(tx.row)
    /\ accounts' = accounts + 1 /\ tx' = NoTx
    /\ UNCHANGED <<groupActive, flips, owed, bucketVars, lockVars, job, faultVars>>

Database ==
    \/ ChangeAccounts \/ SwitchGroup \/ InsertInTx \/ CommitTx
    \/ \E k \in Kinds: Enqueue(k)

-----------------------------------------------------------------------------
(* How a goroutine's work ends. *)

At(w, step) == job[w].pc = step
Goes(w, change) == job' = [job EXCEPT ![w] = change]
Set(w, step) == [job[w] EXCEPT !.pc = step]

Event(p) == CHOOSE i \in job[p].todo: \A j \in job[p].todo: i <= j
Kind(p) == outbox[Event(p)].kind

\* The event is handled: the poller goes to the next one.
NextEvent(p, seen) ==
    LET rest == job[p].todo \ {Event(p)} IN
    [Idle EXCEPT !.pc = IF rest = {} THEN "watermark" ELSE "next",
                 !.todo = rest, !.last = job[p].last, !.seen = job[p].seen \cup seen]

\* What a batch need not rebuild again: markGroupLifecycleSeen marks the platforms
\* too, bucketsForPlatform only its own.
Rebuilt(p) == IF Kind(p) = "group" THEN {"account", "group"} ELSE {"account"}

Succeeds(w) ==
    IF job[w].todo # {}
    THEN Goes(w, NextEvent(w, Rebuilt(w))) /\ Handled(Event(w))
    ELSE Goes(w, Idle) /\ UNCHANGED outboxVars

\* Going on with the batch, so that the watermark passes the event.
FailsOver(w) ==
    IF job[w].todo # {}
    THEN Goes(w, NextEvent(w, {})) /\ UNCHANGED outboxVars
    ELSE Goes(w, Idle) /\ UNCHANGED outboxVars

\* An error ends a poll without moving the watermark, and a full rebuild.
Fails(w) == Goes(w, Idle) /\ UNCHANGED outboxVars

\* A busy lock or a fence is an error only for a task of a reopened bucket.
Yields(w) == IF job[w].strict THEN Fails(w) ELSE Succeeds(w)

-----------------------------------------------------------------------------
(* pollOutbox *)

StartPoll(p) ==
    /\ At(p, "idle")
    /\ Goes(p, [Idle EXCEPT !.pc = "list", !.last = watermark])
    /\ UNCHANGED <<bucketVars, outboxVars, dbVars, lockVars, faultVars>>

ListEvents(p) ==
    /\ At(p, "list")
    /\ LET batch == After(job[p].last) IN
       \/ /\ batch = {}
          /\ Fails(p)
       \/ /\ Claim(batch)
          /\ \E last \in batch:
                /\ \A i \in batch: i <= last
                /\ Goes(p, [Idle EXCEPT !.pc = "next", !.todo = batch, !.last = last])
    /\ UNCHANGED <<bucketVars, dbVars, lockVars, faultVars>>

SkipSeen(p) ==
    /\ At(p, "next") /\ Kind(p) \in job[p].seen
    /\ Succeeds(p)
    /\ UNCHANGED <<bucketVars, dbVars, lockVars, faultVars>>

\* handleAccountEvent, to the token of the bucket.
CaptureAccount(p) ==
    /\ At(p, "next") /\ Kind(p) = "account" /\ "account" \notin job[p].seen
    /\ \/ /\ retired
          /\ Succeeds(p)
          /\ UNCHANGED bucketVars
       \/ /\ Capture
          /\ Goes(p, [Set(p, "lock") EXCEPT !.token = Captured])
          /\ UNCHANGED outboxVars
    /\ UNCHANGED <<dbVars, lockVars, faultVars>>

AdvanceWatermark(p) ==
    /\ At(p, "watermark")
    /\ SetWatermark(job[p].last)
    /\ Goes(p, Set(p, "cleanup"))
    /\ UNCHANGED <<bucketVars, dbVars, lockVars, faultVars>>

CleanupConsumed(p) ==
    /\ At(p, "cleanup")
    /\ \E upto \in 0..job[p].last: DeleteConsumed(upto)
    /\ Goes(p, Idle)
    /\ UNCHANGED <<bucketVars, dbVars, lockVars, faultVars>>

-----------------------------------------------------------------------------
(* rebuildFullSnapshot *)

StartFull(f) ==
    /\ At(f, "idle")
    /\ Goes(f, [Idle EXCEPT !.pc = "groups", !.flag = registered])
    /\ UNCHANGED <<bucketVars, outboxVars, dbVars, lockVars, faultVars>>

\* An inactive group is looked at again only if its bucket was registered.
ListGroups(f) ==
    /\ At(f, "groups")
    /\ Goes(f, IF groupActive THEN Set(f, "capture")
               ELSE IF job[f].flag THEN Set(f, "lease") ELSE Idle)
    /\ UNCHANGED <<bucketVars, outboxVars, dbVars, lockVars, faultVars>>

\* Leaving a retired bucket to the events.
CaptureFullOnly(f) ==
    /\ At(f, "capture")
    /\ \/ /\ retired
          /\ Goes(f, Idle)
          /\ UNCHANGED bucketVars
       \/ /\ Capture
          /\ Goes(f, [Set(f, "lock") EXCEPT !.token = Captured])
    /\ UNCHANGED <<outboxVars, dbVars, lockVars, faultVars>>

CaptureFull(f) ==
    /\ At(f, "capture")
    /\ \/ /\ retired
          /\ Goes(f, Set(f, "lease"))
          /\ UNCHANGED bucketVars
       \/ /\ Capture
          /\ Goes(f, [Set(f, "lock") EXCEPT !.token = Captured])
    /\ UNCHANGED <<outboxVars, dbVars, lockVars, faultVars>>

-----------------------------------------------------------------------------
(* prepareGroupLifecycle *)

WantsLease(w) ==
    \/ At(w, "lease")
    \/ At(w, "next") /\ Kind(w) = "group" /\ "group" \notin job[w].seen

AcquireLease(w) ==
    /\ WantsLease(w) /\ lease = Nobody
    /\ lease' = w
    /\ Goes(w, Set(w, "decide"))
    /\ UNCHANGED <<bucketVars, outboxVars, dbVars, lock, faultVars>>

LeaseBusy(w) ==
    /\ WantsLease(w) /\ lease # Nobody
    /\ Fails(w)
    /\ UNCHANGED <<bucketVars, dbVars, lockVars, faultVars>>

ReadGroup(w) ==
    /\ At(w, "decide")
    /\ Goes(w, [Set(w, "apply") EXCEPT !.flag = groupActive])
    /\ UNCHANGED <<bucketVars, outboxVars, dbVars, lockVars, faultVars>>

Release(w) == lease' = IF lease = w THEN Nobody ELSE lease

Reopen(w) ==
    /\ At(w, "apply") /\ job[w].flag
    /\ ReopenBucket
    /\ Goes(w, [Set(w, "lock") EXCEPT !.strict = TRUE, !.token = Captured])
    /\ Release(w)
    /\ UNCHANGED <<outboxVars, dbVars, lock, faultVars>>

Retire(w) ==
    /\ At(w, "apply") /\ ~job[w].flag
    /\ RetireBucket
    /\ Succeeds(w)
    /\ Release(w)
    /\ UNCHANGED <<dbVars, lock, faultVars>>

-----------------------------------------------------------------------------
(* rebuildBucketWithTokenPolicyAndQueryCache, and the request that missed. *)

TakeLock(w) ==
    /\ At(w, "lock") /\ ~lock
    /\ lock' = TRUE
    /\ Goes(w, [Set(w, "load") EXCEPT !.held = TRUE])
    /\ UNCHANGED <<bucketVars, outboxVars, dbVars, lease, faultVars>>

LockBusy(w) ==
    /\ At(w, "lock") /\ lock
    /\ Yields(w)
    /\ UNCHANGED <<bucketVars, dbVars, lockVars, faultVars>>

\* ListSchedulableAccounts after a miss or a failed read of the cache.  A request
\* that gets no token reads the database too, and publishes nothing.
CaptureMiss(r) ==
    /\ At(r, "idle")
    /\ Capture
    /\ Goes(r, [Idle EXCEPT !.pc = "load", !.token = Captured])
    /\ UNCHANGED <<outboxVars, dbVars, lockVars, faultVars>>

LoadAccounts(w) ==
    /\ At(w, "load")
    /\ Goes(w, [Set(w, "allocate") EXCEPT !.data = accounts, !.life = life])
    /\ UNCHANGED <<bucketVars, outboxVars, dbVars, lockVars, faultVars>>

\* The deferred UnlockBucket, whoever holds the lock by now; requests take none.
Unlock(w) == lock' = (lock /\ ~job[w].held)

\* The fence rejects the writer before or after its version is written.
Fenced(w) ==
    /\ At(w, "allocate") \/ At(w, "activate")
    /\ ~Accepts(job[w].token)
    /\ Yields(w)
    /\ Forget(w) /\ Unlock(w)
    /\ UNCHANGED <<dbVars, lease, faultVars>>

Allocate(w) ==
    /\ At(w, "allocate") /\ Accepts(job[w].token)
    /\ AllocateVersion(w)
    /\ Goes(w, Set(w, "activate"))
    /\ UNCHANGED <<outboxVars, dbVars, lockVars, faultVars>>

Publish(w) ==
    /\ At(w, "activate") /\ Accepts(job[w].token)
    /\ Activate(w, [data |-> job[w].data, life |-> job[w].life])
    /\ Succeeds(w) /\ Unlock(w)
    /\ UNCHANGED <<dbVars, lease, faultVars>>

Rebuild(w) ==
    \/ TakeLock(w) \/ LockBusy(w) \/ LoadAccounts(w)
    \/ Allocate(w) \/ Publish(w) \/ Fenced(w)

Lifecycle(w) ==
    AcquireLease(w) \/ LeaseBusy(w) \/ ReadGroup(w) \/ Reopen(w) \/ Retire(w)

Poll(p) ==
    \/ StartPoll(p) \/ ListEvents(p) \/ SkipSeen(p) \/ CaptureAccount(p)
    \/ AdvanceWatermark(p) \/ CleanupConsumed(p)
    \/ Lifecycle(p) \/ Rebuild(p)

Full(f) ==
    StartFull(f) \/ ListGroups(f) \/ CaptureFull(f) \/ Lifecycle(f) \/ Rebuild(f)

-----------------------------------------------------------------------------
(* Faults and expiries. *)

Fault == faults < MaxFaults /\ faults' = faults + 1

InLease(w) == job[w].pc \in {"decide", "apply"}

\* The instance dies, or its context ends before the deferred release is sent.
Crash(w) ==
    /\ Fault /\ ~At(w, "idle")
    /\ Fails(w) /\ Forget(w)
    /\ UNCHANGED <<dbVars, lockVars, lost>>

\* A statement or command is answered with an error; what is deferred is done.
StepFails(w) ==
    /\ Fault /\ ~At(w, "idle")
    /\ Fails(w) /\ Forget(w) /\ Release(w) /\ Unlock(w)
    /\ UNCHANGED <<dbVars, lost>>

\* Queueing after the commit is best effort.
EnqueueFails(k) ==
    /\ Fault /\ owed[k] > 0
    /\ owed' = [owed EXCEPT ![k] = @ - 1]
    /\ lost' = (lost \/ k = "group")
    /\ UNCHANGED <<accounts, groupActive, flips, tx, bucketVars, outboxVars, lockVars, job>>

LockExpires ==
    /\ lock /\ \A w \in Workers: ~job[w].held
    /\ lock' = FALSE
    /\ UNCHANGED <<bucketVars, outboxVars, dbVars, lease, job, faultVars>>

\* The rebuild and the lock have 30 seconds each, the lock's begin first.
LockExpiresEarly ==
    /\ Fault /\ lock /\ \E w \in Workers: job[w].held
    /\ lock' = FALSE
    /\ UNCHANGED <<bucketVars, outboxVars, dbVars, lease, job, lost>>

\* A lease shorter than the work under it.
LeaseExpiresEarly ==
    /\ lease # Nobody
    /\ lease' = Nobody
    /\ UNCHANGED <<bucketVars, outboxVars, dbVars, lock, job, faultVars>>

\* The lifecycle's context ends after 30 seconds, the lease after 60.
LeaseExpires ==
    /\ lease # Nobody /\ ~InLease(lease)
    /\ lease' = Nobody
    /\ UNCHANGED <<bucketVars, outboxVars, dbVars, lock, job, faultVars>>

Environment ==
    \/ LockExpires \/ LockExpiresEarly \/ LeaseExpires
    \/ \E w \in Workers: Crash(w) \/ StepFails(w)
    \/ \E k \in Kinds: EnqueueFails(k)

Next ==
    \/ Database
    \/ \E p \in Pollers: Poll(p)
    \/ \E f \in Rebuilders: Full(f)
    \/ \E r \in Readers: CaptureMiss(r) \/ Rebuild(r)
    \/ Environment

Spec == Init /\ [][Next]_vars

\* The tickers go on, contexts and keys expire, transactions end.
Fairness ==
    /\ WF_vars(CommitTx) /\ WF_vars(LockExpires) /\ WF_vars(LeaseExpires)
    /\ \A k \in Kinds: WF_vars(Enqueue(k))
    /\ \A p \in Pollers: WF_vars(Poll(p))
    /\ \A f \in Rebuilders: WF_vars(Full(f)) /\ SF_vars(StartFull(f))
    /\ \A r \in Readers: WF_vars(Rebuild(r))

FairSpec == Spec /\ Fairness

-----------------------------------------------------------------------------
(* Properties. *)

Jobs(ids) ==
    [pc: Steps, todo: SUBSET ids, last: {0} \cup ids, seen: SUBSET Kinds, flag: BOOLEAN,
     held: BOOLEAN, strict: BOOLEAN, token: Nat, data: Nat, life: Nat]

\* Types of the state; watermark, batches and the open transaction's row stay within
\* the outbox.
TypeOK ==
    /\ BucketTypeOK /\ OutboxTypeOK /\ ahead \in Seq(Workers)
    /\ accounts \in Nat /\ groupActive \in BOOLEAN /\ flips \in Nat
    /\ owed \in [Kinds -> Nat] /\ tx \in [open: BOOLEAN, row: {0} \cup Ids]
    /\ lock \in BOOLEAN /\ lease \in Workers \cup {Nobody}
    /\ job \in [Workers -> Jobs(Ids)]
    /\ faults \in 0..MaxFaults /\ lost \in BOOLEAN

\* The snapshot of a bucket was read from the database after the bucket was last
\* retired, and a retired bucket has none: a writer that began before a retirement
\* publishes nothing, even when the bucket has been reopened since.
PublishedIsFenced ==
    published # NoSnapshot => ~retired /\ published.life = life

\* Every event of the group has been handled; a lifecycle may still be under way.
GroupQuiet ==
    /\ owed["group"] = 0 /\ ~lost
    /\ \A i \in Ids: outbox[i].kind = "group" => outbox[i].handled

\* Once the group's events are handled, the bucket of an inactive group is retired and
\* that of an active one is open and has a snapshot, whatever order the lifecycles of
\* pollers and full rebuilds ran in (prepareGroupLifecycle, and the strict rebuild of
\* reconcileGroupLifecycle).
LifecycleSettled ==
    GroupQuiet /\ flips > 0 =>
        IF groupActive THEN ~retired /\ published # NoSnapshot ELSE retired

\* No poller moves the watermark past an event that nobody has handled, whoever else
\* moves it, unless the event's transaction committed after a later event was polled.
PassedIsHandled ==
    \A i \in Ids:
        i <= watermark /\ outbox[i].status # "open" /\ ~outbox[i].late => outbox[i].handled

\* The cache agrees with the database.
Fresh ==
    IF groupActive THEN ~retired /\ published # NoSnapshot /\ published.data = accounts
    ELSE published = NoSnapshot

\* Once the database rests, the cache comes to agree with it and goes on agreeing,
\* whatever was lost, overtaken, skipped or published late: full rebuilds see to it.
EventuallyFresh == <>[]Fresh
=============================================================================
