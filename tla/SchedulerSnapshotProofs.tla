----------------------- MODULE SchedulerSnapshotProofs -----------------------
(***************************************************************************)
(* Proofs about SchedulerSnapshot, for every number of pollers, rebuilders *)
(* and readers and for every bound: the types, the fence around a retired  *)
(* bucket (PublishedIsFenced), the watermark (PassedIsHandled) and the     *)
(* group lifecycle (LifecycleSettled).                                     *)
(***************************************************************************)
EXTENDS SchedulerSnapshot, SequenceTheorems, WellFoundedInduction, TLAPS

-----------------------------------------------------------------------------
(* The outbox: what each operation does to its rows. *)

\* Rows replaced one for one make an outbox of the same length.
LEMMA Replaced ==
    ASSUME outbox \in Seq(Rows), NEW f \in [Ids -> Rows]
    PROVE  f \in Seq(Rows) /\ DOMAIN f = Ids
<1>1. Len(outbox) \in Nat /\ Ids = 1..Len(outbox) BY LenProperties DEF Ids
<1> QED BY <1>1, SeqDef

LEMMA InsertRows ==
    ASSUME OutboxTypeOK, NEW k \in Kinds, NEW s \in {"open", "committed"}, Insert(k, s)
    PROVE  /\ OutboxTypeOK' /\ Ids \subseteq Ids'
           /\ \A i \in Ids: outbox'[i] = outbox[i]
           /\ \A i \in Ids' \ Ids: outbox'[i] = Row(k, s) /\ \A j \in Ids: j < i
           /\ Inserts(k) => Len(outbox') \in Ids' \ Ids
<1>1. CASE ~Inserts(k) BY <1>1 DEF Insert, OutboxTypeOK, Ids
<1>2. CASE Inserts(k)
  <2>1. outbox' = Append(outbox, Row(k, s)) /\ watermark' = watermark BY <1>2 DEF Insert
  <2>2. Row(k, s) \in Rows BY DEF Row, Rows
  <2>3. /\ outbox \in Seq(Rows) /\ Len(outbox) \in Nat /\ Ids = 1..Len(outbox)
        /\ watermark \in {0} \cup Ids
    BY LenProperties DEF OutboxTypeOK, Ids
  <2>4. /\ outbox' \in Seq(Rows) /\ Len(outbox') = Len(outbox) + 1
        /\ \A i \in 1..Len(outbox): outbox'[i] = outbox[i]
        /\ outbox'[Len(outbox) + 1] = Row(k, s)
    BY <2>1, <2>2, <2>3
  <2>5. Ids' = 1..(Len(outbox) + 1) BY <2>4, LenProperties DEF Ids
  <2> QED BY <2>1, <2>3, <2>4, <2>5 DEF OutboxTypeOK
<1> QED BY <1>1, <1>2

LEMMA ClaimRows ==
    ASSUME OutboxTypeOK, NEW ids, Claim(ids)
    PROVE  /\ OutboxTypeOK' /\ Ids' = Ids
           /\ \A i \in Ids: outbox'[i] = IF i \in ids THEN [outbox[i] EXCEPT !.claimed = TRUE]
                                          ELSE outbox[i]
<1> DEFINE f == [i \in Ids |-> IF i \in ids THEN [outbox[i] EXCEPT !.claimed = TRUE] ELSE outbox[i]]
<1>1. outbox \in Seq(Rows) /\ \A i \in Ids: outbox[i] \in Rows
  BY ElementOfSeq, LenProperties DEF OutboxTypeOK, Ids
<1>2. f \in [Ids -> Rows] BY <1>1 DEF Rows
<1>3. outbox' = f /\ watermark' = watermark BY DEF Claim
<1>4. f \in Seq(Rows) /\ DOMAIN f = Ids BY <1>1, <1>2, Replaced
<1> QED BY <1>3, <1>4 DEF OutboxTypeOK, Ids

LEMMA DeleteRows ==
    ASSUME OutboxTypeOK, NEW n, DeleteConsumed(n)
    PROVE  /\ OutboxTypeOK' /\ Ids' = Ids
           /\ \A i \in Ids: outbox'[i] = IF i <= n /\ outbox[i].status = "committed"
                                          THEN [outbox[i] EXCEPT !.status = "deleted"] ELSE outbox[i]
<1> DEFINE f == [i \in Ids |-> IF i <= n /\ outbox[i].status = "committed"
                              THEN [outbox[i] EXCEPT !.status = "deleted"] ELSE outbox[i]]
<1>1. outbox \in Seq(Rows) /\ \A i \in Ids: outbox[i] \in Rows
  BY ElementOfSeq, LenProperties DEF OutboxTypeOK, Ids
<1>2. f \in [Ids -> Rows] BY <1>1 DEF Rows
<1>3. outbox' = f /\ watermark' = watermark BY DEF DeleteConsumed
<1>4. f \in Seq(Rows) /\ DOMAIN f = Ids BY <1>1, <1>2, Replaced
<1> QED BY <1>3, <1>4 DEF OutboxTypeOK, Ids

LEMMA HandledRows ==
    ASSUME OutboxTypeOK, NEW e, Handled(e)
    PROVE  /\ OutboxTypeOK' /\ Ids' = Ids
           /\ \A i \in Ids: outbox'[i] = IF i = e THEN [outbox[i] EXCEPT !.handled = TRUE]
                                          ELSE outbox[i]
<1> DEFINE f == [outbox EXCEPT ![e].handled = TRUE]
<1>1. outbox \in Seq(Rows) /\ \A i \in Ids: outbox[i] \in Rows
  BY ElementOfSeq, LenProperties DEF OutboxTypeOK, Ids
<1>2. outbox \in [Ids -> Rows] BY <1>1, LenProperties DEF Ids
<1>3. f \in [Ids -> Rows] BY <1>1, <1>2 DEF Rows
<1>4. outbox' = f /\ watermark' = watermark BY DEF Handled
<1>5. f \in Seq(Rows) /\ DOMAIN f = Ids BY <1>1, <1>3, Replaced
<1> QED BY <1>2, <1>4, <1>5 DEF OutboxTypeOK, Ids

LEMMA CommitRows ==
    ASSUME OutboxTypeOK, NEW e, Commit(e)
    PROVE  /\ OutboxTypeOK' /\ Ids' = Ids
           /\ \A i \in Ids: i # e => outbox'[i] = outbox[i]
           /\ e \in Ids => /\ outbox'[e].status = "committed" /\ outbox'[e].kind = outbox[e].kind
                           /\ outbox'[e].handled = outbox[e].handled
                           /\ outbox'[e].claimed = outbox[e].claimed
                           /\ (\E j \in Ids: j > e /\ outbox[j].claimed) => outbox'[e].late
<1> DEFINE after == \E j \in Ids: j > e /\ outbox[j].claimed
           f == [outbox EXCEPT ![e].status = "committed", ![e].late = after]
<1>1. outbox \in Seq(Rows) /\ \A i \in Ids: outbox[i] \in Rows
  BY ElementOfSeq, LenProperties DEF OutboxTypeOK, Ids
<1>2. outbox \in [Ids -> Rows] BY <1>1, LenProperties DEF Ids
<1>3. outbox' = f /\ watermark' = watermark BY DEF Commit
<1>4. after \in BOOLEAN OBVIOUS
<1>a. (\E j \in Ids: j > e /\ outbox[j].claimed) => after = TRUE OBVIOUS
<1> HIDE DEF after
<1>5. /\ \A i \in Ids: i # e => f[i] = outbox[i]
      /\ e \in Ids => /\ f[e].status = "committed" /\ f[e].late = after
                      /\ f[e].claimed = outbox[e].claimed /\ f[e].kind = outbox[e].kind
                      /\ f[e].handled = outbox[e].handled
  BY <1>1, <1>2 DEF Rows
<1>6. f \in [Ids -> Rows] BY <1>1, <1>2, <1>4 DEF Rows
<1>7. f \in Seq(Rows) /\ DOMAIN f = Ids BY <1>1, <1>6, Replaced
<1> HIDE DEF f
<1>8. OutboxTypeOK' /\ Ids' = Ids BY <1>3, <1>7 DEF OutboxTypeOK, Ids
<1> QED BY <1>3, <1>5, <1>8, <1>a

-----------------------------------------------------------------------------
(* Types. *)

LEMMA ForgetTyped ==
    ASSUME ahead \in Seq(Workers), NEW w, Forget(w)
    PROVE  ahead' \in Seq(Workers) /\ UNCHANGED <<keyVars, life>>
<1>1. CASE UNCHANGED ahead BY <1>1 DEF Forget
<1>2. ASSUME NEW i \in DOMAIN ahead, ahead' = RemoveAt(ahead, i) PROVE ahead' \in Seq(Workers)
  <2>1. DOMAIN ahead = 1..Len(ahead) /\ Len(ahead) \in Nat /\ i \in Int BY LenProperties
  <2>2. \A k \in 1..Len(ahead): ahead[k] \in Workers BY ElementOfSeq
  <2>3. SubSeq(ahead, 1, i - 1) \in Seq(Workers) /\ SubSeq(ahead, i + 1, Len(ahead)) \in Seq(Workers)
    BY <2>1, <2>2, SubSeqProperties
  <2> QED BY <1>2, <2>3, ConcatProperties DEF RemoveAt
<1> QED BY <1>1, <1>2 DEF Forget

LEMMA ActivateTyped ==
    ASSUME BucketTypeOK, ahead \in Seq(Workers), NEW w,
           NEW s \in Snapshots, Activate(w, s)
    PROVE  /\ BucketTypeOK' /\ ahead' \in Seq(Workers) /\ UNCHANGED <<epoch, retired, life>>
           /\ published' = s \/ UNCHANGED bucketVars
<1>1. CASE UNCHANGED bucketVars BY <1>1 DEF bucketVars, keyVars, BucketTypeOK
<1>2. CASE UNCHANGED ahead /\ published' = s /\ registered' = TRUE /\ UNCHANGED <<epoch, retired, life>>
  BY <1>2 DEF BucketTypeOK
<1>3. ASSUME NEW i \in DOMAIN ahead, ahead' = SubSeq(ahead, i + 1, Len(ahead)),
             published' = s, registered' = TRUE, UNCHANGED <<epoch, retired, life>>
      PROVE  BucketTypeOK' /\ ahead' \in Seq(Workers)
  <2>1. DOMAIN ahead = 1..Len(ahead) /\ Len(ahead) \in Nat /\ i \in Int BY LenProperties
  <2>2. \A k \in 1..Len(ahead): ahead[k] \in Workers BY ElementOfSeq
  <2>3. SubSeq(ahead, i + 1, Len(ahead)) \in Seq(Workers) BY <2>1, <2>2, SubSeqProperties
  <2> QED BY <1>3, <2>3 DEF BucketTypeOK
<1> QED BY <1>1, <1>2, <1>3 DEF Activate

LEMMA GoesTyped ==
    ASSUME TypeOK, Ids \subseteq Ids', NEW w \in Workers, NEW j \in Jobs(Ids'), Goes(w, j)
    PROVE  job' \in [Workers -> Jobs(Ids')]
BY DEF TypeOK, Goes, Jobs

LEMMA StepTyped ==
    ASSUME TypeOK, NEW w \in Workers
    PROVE  /\ Idle \in Jobs(Ids) /\ job[w] \in Jobs(Ids)
           /\ \A s \in Steps: Set(w, s) \in Jobs(Ids)
<1>1. job[w] \in Jobs(Ids) BY DEF TypeOK
<1> QED BY <1>1 DEF Jobs, Idle, Steps, Set

\* The job of a poll that has read its batch.
LEMMA BatchTyped ==
    ASSUME NEW s \in Steps, NEW todo \in SUBSET Ids, NEW last \in {0} \cup Ids
    PROVE  LET n == [Idle EXCEPT !.pc = s, !.todo = todo, !.last = last] IN
           /\ n \in Jobs(Ids) /\ n.pc = s /\ n.todo = todo /\ n.last = last
           /\ ~n.held /\ n.token = 0
<1> DEFINE r1 == [Idle EXCEPT !.pc = s]
           r2 == [r1 EXCEPT !.todo = todo]
           r3 == [r2 EXCEPT !.last = last]
<1>1. Idle \in Jobs(Ids) /\ Idle.token = 0 /\ ~Idle.held BY DEF Idle, Jobs, Steps
<1>2. r1 \in Jobs(Ids) /\ r1.token = 0 /\ ~r1.held /\ r1.pc = s BY <1>1 DEF Jobs
<1> HIDE DEF r1
<1>3. r2 \in Jobs(Ids) /\ r2.token = 0 /\ ~r2.held /\ r2.pc = s /\ r2.todo = todo
  BY <1>2 DEF Jobs
<1> HIDE DEF r2
<1>4. /\ r3 \in Jobs(Ids) /\ r3.token = 0 /\ ~r3.held /\ r3.pc = s /\ r3.todo = todo
      /\ r3.last = last
  BY <1>3 DEF Jobs
<1>5. [Idle EXCEPT !.pc = s, !.todo = todo, !.last = last] = r3 BY DEF r1, r2
<1> HIDE DEF r3
<1> QED BY <1>4, <1>5

LEMMA NextEventTyped ==
    ASSUME TypeOK, NEW w \in Workers, NEW seen \in SUBSET Kinds
    PROVE  LET rest == job[w].todo \ {Event(w)}
               n == NextEvent(w, seen) IN
           /\ n \in Jobs(Ids)
           /\ n.pc = (IF rest = {} THEN "watermark" ELSE "next")
           /\ n.todo = rest /\ n.last = job[w].last /\ n.seen = job[w].seen \cup seen
           /\ ~n.held /\ n.token = 0
<1> DEFINE rest == job[w].todo \ {Event(w)}
           r1 == [Idle EXCEPT !.pc = IF rest = {} THEN "watermark" ELSE "next"]
           r2 == [r1 EXCEPT !.todo = rest]
           r3 == [r2 EXCEPT !.last = job[w].last]
           r4 == [r3 EXCEPT !.seen = job[w].seen \cup seen]
<1>1. Idle \in Jobs(Ids) /\ job[w] \in Jobs(Ids) BY StepTyped
<1>2. /\ rest \in SUBSET Ids /\ job[w].last \in {0} \cup Ids
      /\ job[w].seen \cup seen \in SUBSET Kinds
  BY <1>1 DEF Jobs
<1>3. Idle.token = 0 /\ ~Idle.held BY DEF Idle
<1> HIDE DEF rest
<1>4. /\ r1 \in Jobs(Ids) /\ r1.token = 0 /\ ~r1.held
      /\ r1.pc = IF rest = {} THEN "watermark" ELSE "next"
  BY <1>1, <1>3 DEF Jobs, Steps
<1> HIDE DEF r1
<1>5. r2 \in Jobs(Ids) /\ r2.token = 0 /\ ~r2.held /\ r2.pc = r1.pc /\ r2.todo = rest
  BY <1>2, <1>4 DEF Jobs
<1> HIDE DEF r2
<1>6. /\ r3 \in Jobs(Ids) /\ r3.token = 0 /\ ~r3.held /\ r3.pc = r1.pc /\ r3.todo = rest
      /\ r3.last = job[w].last
  BY <1>2, <1>5 DEF Jobs
<1> HIDE DEF r3
<1>7. /\ r4 \in Jobs(Ids) /\ r4.token = 0 /\ ~r4.held /\ r4.pc = r1.pc /\ r4.todo = rest
      /\ r4.last = job[w].last /\ r4.seen = job[w].seen \cup seen
  BY <1>2, <1>6 DEF Jobs
<1>8. NextEvent(w, seen) = r4 BY DEF NextEvent, r1, r2, r3, rest
<1> HIDE DEF r4
<1> QED BY <1>4, <1>7, <1>8 DEF rest

LEMMA SucceedsTyped ==
    ASSUME TypeOK, NEW w \in Workers, Succeeds(w)
    PROVE  OutboxTypeOK' /\ Ids' = Ids /\ job' \in [Workers -> Jobs(Ids')]
<1>1. OutboxTypeOK BY DEF TypeOK
<1>2. CASE job[w].todo # {}
  <2>1. Handled(Event(w)) /\ Goes(w, NextEvent(w, Rebuilt(w))) BY <1>2 DEF Succeeds
  <2>2. OutboxTypeOK' /\ Ids' = Ids BY <1>1, <2>1, HandledRows
  <2>3. Rebuilt(w) \subseteq Kinds BY KindsAssumption DEF Rebuilt
  <2>4. NextEvent(w, Rebuilt(w)) \in Jobs(Ids) BY <2>3, NextEventTyped
  <2> QED BY <2>1, <2>2, <2>4, GoesTyped
<1>3. CASE job[w].todo = {}
  <2>1. UNCHANGED outboxVars /\ Goes(w, Idle) BY <1>3 DEF Succeeds
  <2>2. OutboxTypeOK' /\ Ids' = Ids BY <1>1, <2>1 DEF outboxVars, OutboxTypeOK, Ids
  <2> QED BY <2>1, <2>2, StepTyped, GoesTyped
<1> QED BY <1>2, <1>3

LEMMA FailsTyped ==
    ASSUME TypeOK, NEW w \in Workers, Fails(w)
    PROVE  OutboxTypeOK' /\ Ids' = Ids /\ job' \in [Workers -> Jobs(Ids')]
<1>1. UNCHANGED outboxVars /\ Goes(w, Idle) BY DEF Fails
<1>2. OutboxTypeOK' /\ Ids' = Ids BY <1>1 DEF TypeOK, outboxVars, OutboxTypeOK, Ids
<1> QED BY <1>1, <1>2, StepTyped, GoesTyped

LEMMA YieldsTyped ==
    ASSUME TypeOK, NEW w \in Workers, Yields(w)
    PROVE  OutboxTypeOK' /\ Ids' = Ids /\ job' \in [Workers -> Jobs(Ids')]
BY SucceedsTyped, FailsTyped DEF Yields

\* A step that leaves the outbox alone and changes one job.
LEMMA JobTyped ==
    ASSUME TypeOK, NEW w \in Workers, NEW j \in Jobs(Ids), Goes(w, j), UNCHANGED outboxVars
    PROVE  OutboxTypeOK' /\ Ids' = Ids /\ job' \in [Workers -> Jobs(Ids')]
<1>1. OutboxTypeOK' /\ Ids' = Ids BY DEF TypeOK, outboxVars, OutboxTypeOK, Ids
<1> QED BY <1>1, GoesTyped

THEOREM InitTyped == Init => TypeOK
<1> SUFFICES ASSUME Init PROVE TypeOK
    OBVIOUS
<1>1. BucketTypeOK /\ ahead \in Seq(Workers)
  BY EmptySeq DEF Init, BucketInit, BucketTypeOK
<1>2. OutboxTypeOK BY EmptySeq DEF Init, OutboxInit, OutboxTypeOK
<1>3. Idle \in Jobs(Ids) BY DEF Idle, Jobs, Steps
<1>4. job \in [Workers -> Jobs(Ids)] BY <1>3 DEF Init
<1>5. tx \in [open: BOOLEAN, row: {0} \cup Ids] BY DEF Init, NoTx
<1>6. owed \in [Kinds -> Nat] /\ faults \in 0..MaxFaults BY BoundsAssumption DEF Init
<1> QED BY <1>1, <1>2, <1>4, <1>5, <1>6 DEF Init, TypeOK

\* What a step of a goroutine leaves alone keeps its type.
LEMMA FrameTyped ==
    ASSUME TypeOK, UNCHANGED <<dbVars, faultVars>>, lock' \in BOOLEAN,
           lease' \in Workers \cup {Nobody}, BucketTypeOK', ahead' \in Seq(Workers),
           OutboxTypeOK', Ids' = Ids, job' \in [Workers -> Jobs(Ids')]
    PROVE  TypeOK'
BY DEF TypeOK, dbVars, faultVars

LEMMA BucketFrame ==
    ASSUME TypeOK, UNCHANGED bucketVars
    PROVE  BucketTypeOK' /\ ahead' \in Seq(Workers)
BY DEF TypeOK, bucketVars, keyVars, BucketTypeOK

LEMMA DatabaseTyped == TypeOK /\ Database => TypeOK'
<1> SUFFICES ASSUME TypeOK, Database PROVE TypeOK'
    OBVIOUS
<1>k. "account" \in Kinds /\ "group" \in Kinds BY KindsAssumption
<1>j. ASSUME UNCHANGED job, Ids \subseteq Ids' PROVE job' \in [Workers -> Jobs(Ids')]
  BY <1>j DEF TypeOK, Jobs
<1>o. UNCHANGED outboxVars => OutboxTypeOK' /\ Ids' = Ids
  BY DEF TypeOK, outboxVars, OutboxTypeOK, Ids
<1>1. CASE ChangeAccounts
  BY <1>1, <1>j, <1>k, <1>o, BucketFrame DEF ChangeAccounts, TypeOK, lockVars, faultVars
<1>2. CASE SwitchGroup
  BY <1>2, <1>j, <1>k, <1>o, BucketFrame DEF SwitchGroup, TypeOK, lockVars, faultVars
<1>3. CASE InsertInTx
  <2>1. Insert("account", "open") BY <1>3 DEF InsertInTx
  <2>2. OutboxTypeOK' /\ Ids \subseteq Ids' /\ (Inserts("account") => Len(outbox') \in Ids')
    BY <1>k, <2>1, InsertRows DEF TypeOK
  <2>3. tx' \in [open: BOOLEAN, row: {0} \cup Ids'] BY <1>3, <2>2 DEF InsertInTx
  <2> QED BY <1>3, <1>j, <2>2, <2>3, BucketFrame DEF InsertInTx, TypeOK, lockVars, faultVars
<1>4. CASE CommitTx
  <2>1. OutboxTypeOK' /\ Ids' = Ids BY <1>4, <1>o, CommitRows DEF CommitTx, TypeOK
  <2> QED BY <1>4, <1>j, <2>1, BucketFrame DEF CommitTx, TypeOK, NoTx, lockVars, faultVars
<1>5. ASSUME NEW k \in Kinds, Enqueue(k) PROVE TypeOK'
  <2>1. OutboxTypeOK' /\ Ids \subseteq Ids' BY <1>5, InsertRows DEF Enqueue, TypeOK
  <2>2. owed' \in [Kinds -> Nat] BY <1>5 DEF Enqueue, TypeOK
  <2>3. tx' \in [open: BOOLEAN, row: {0} \cup Ids'] BY <1>5, <2>1 DEF Enqueue, TypeOK
  <2> QED BY <1>5, <1>j, <2>1, <2>2, <2>3, BucketFrame DEF Enqueue, TypeOK, lockVars, faultVars
<1> QED BY <1>1, <1>2, <1>3, <1>4, <1>5 DEF Database

LEMMA PollTyped ==
    ASSUME TypeOK, NEW p \in Workers,
           \/ StartPoll(p) \/ ListEvents(p) \/ SkipSeen(p) \/ CaptureAccount(p)
           \/ AdvanceWatermark(p) \/ CleanupConsumed(p)
    PROVE  TypeOK'
<1>t. TypeOK OBVIOUS
<1>s. /\ Idle \in Jobs(Ids) /\ job[p] \in Jobs(Ids) /\ \A s \in Steps: Set(p, s) \in Jobs(Ids)
      /\ lock \in BOOLEAN /\ lease \in Workers \cup {Nobody} /\ OutboxTypeOK
      /\ \A s \in Steps: [Idle EXCEPT !.pc = s] \in Jobs(Ids)
  BY StepTyped DEF TypeOK, Jobs
<1>n. job[p].last \in {0} \cup Ids BY <1>s DEF Jobs
<1>1. CASE StartPoll(p)
  <2>1. [Idle EXCEPT !.pc = "list", !.last = watermark] \in Jobs(Ids)
    <3> DEFINE r == [Idle EXCEPT !.pc = "list"]
    <3>1. r \in Jobs(Ids) /\ watermark \in {0} \cup Ids BY <1>s DEF Steps, OutboxTypeOK
    <3>2. [Idle EXCEPT !.pc = "list", !.last = watermark] = [r EXCEPT !.last = watermark]
      OBVIOUS
    <3> HIDE DEF r
    <3>3. [r EXCEPT !.last = watermark] \in Jobs(Ids) BY <3>1 DEF Jobs
    <3> QED BY <3>2, <3>3
  <2> QED BY <1>1, <1>s, <2>1, JobTyped, BucketFrame, FrameTyped DEF StartPoll, lockVars
<1>2. CASE ListEvents(p)
  <2> DEFINE batch == After(job[p].last)
  <2>1. CASE batch = {} /\ Fails(p)
    BY <1>2, <1>s, <2>1, FailsTyped, BucketFrame, FrameTyped DEF ListEvents, lockVars
  <2>2. ASSUME Claim(batch), NEW last \in batch,
               Goes(p, [Idle EXCEPT !.pc = "next", !.todo = batch, !.last = last])
        PROVE  TypeOK'
    <3>1. OutboxTypeOK' /\ Ids' = Ids BY <1>s, <2>2, ClaimRows
    <3>2. batch \in SUBSET Ids BY DEF After
    <3>3. [Idle EXCEPT !.pc = "next", !.todo = batch, !.last = last] \in Jobs(Ids)
      <4> HIDE DEF batch
      <4>1. last \in {0} \cup Ids BY <2>2, <3>2
      <4>2. "next" \in Steps BY DEF Steps
      <4> QED BY <3>2, <4>1, <4>2, BatchTyped
    <3>4. job' \in [Workers -> Jobs(Ids')] BY <2>2, <3>1, <3>3, GoesTyped
    <3> QED BY <1>2, <1>s, <3>1, <3>4, BucketFrame, FrameTyped DEF ListEvents, lockVars
  <2> QED BY <1>2, <2>1, <2>2 DEF ListEvents
<1>3. CASE SkipSeen(p)
  BY <1>3, <1>s, SucceedsTyped, BucketFrame, FrameTyped DEF SkipSeen, lockVars
<1>4. CASE CaptureAccount(p)
  <2>1. CASE Succeeds(p) /\ UNCHANGED bucketVars
    BY <1>4, <1>s, <2>1, SucceedsTyped, BucketFrame, FrameTyped DEF CaptureAccount, lockVars
  <2>2. CASE Capture /\ Goes(p, [Set(p, "lock") EXCEPT !.token = Captured]) /\ UNCHANGED outboxVars
    <3>1. Captured \in Nat BY DEF Captured, TypeOK, BucketTypeOK
    <3>2. Set(p, "lock") \in Jobs(Ids) BY <1>s DEF Steps
    <3>3. [Set(p, "lock") EXCEPT !.token = Captured] \in Jobs(Ids) BY <3>1, <3>2 DEF Jobs
    <3>4. BucketTypeOK' /\ ahead' \in Seq(Workers)
      BY <2>2, <3>1 DEF Capture, TypeOK, BucketTypeOK
    <3> QED BY <1>4, <1>s, <2>2, <3>3, <3>4, JobTyped, FrameTyped DEF CaptureAccount, lockVars
  <2> QED BY <1>4, <2>1, <2>2 DEF CaptureAccount
<1>5. CASE AdvanceWatermark(p)
  <2>1. OutboxTypeOK' /\ Ids' = Ids BY <1>5, <1>s, <1>n DEF AdvanceWatermark, SetWatermark, OutboxTypeOK, Ids
  <2>2. Set(p, "cleanup") \in Jobs(Ids) BY <1>s DEF Steps
  <2>3. job' \in [Workers -> Jobs(Ids')] BY <1>5, <2>1, <2>2, GoesTyped DEF AdvanceWatermark
  <2> QED BY <1>5, <1>s, <2>1, <2>3, BucketFrame, FrameTyped DEF AdvanceWatermark, lockVars
<1>6. CASE CleanupConsumed(p)
  <2>1. OutboxTypeOK' /\ Ids' = Ids BY <1>6, <1>s, DeleteRows DEF CleanupConsumed
  <2>2. job' \in [Workers -> Jobs(Ids')] BY <1>6, <1>s, <2>1, GoesTyped DEF CleanupConsumed
  <2> QED BY <1>6, <1>s, <2>1, <2>2, BucketFrame, FrameTyped DEF CleanupConsumed, lockVars
<1> QED BY <1>1, <1>2, <1>3, <1>4, <1>5, <1>6

\* What every case of a goroutine's step starts from.
LEMMA StepFacts ==
    ASSUME TypeOK, NEW w \in Workers
    PROVE  /\ Idle \in Jobs(Ids) /\ job[w] \in Jobs(Ids) /\ \A s \in Steps: Set(w, s) \in Jobs(Ids)
           /\ lock \in BOOLEAN /\ lease \in Workers \cup {Nobody}
           /\ OutboxTypeOK /\ BucketTypeOK /\ ahead \in Seq(Workers)
           /\ Captured \in Nat /\ epoch \in Nat /\ life \in Nat
           /\ groupActive \in BOOLEAN /\ accounts \in Nat /\ registered \in BOOLEAN
BY StepTyped DEF TypeOK, BucketTypeOK, Captured

LEMMA SetFields ==
    ASSUME TypeOK, NEW w \in Workers, NEW s \in Steps
    PROVE  LET n == Set(w, s) IN
           /\ n.pc = s /\ n.token = job[w].token /\ n.life = job[w].life
           /\ n.todo = job[w].todo /\ n.last = job[w].last
<1>1. job[w] \in Jobs(Ids) BY DEF TypeOK
<1> QED BY <1>1 DEF Set, Jobs

\* A worker keeps all but the token it has captured.
LEMMA TokenField ==
    ASSUME NEW ids, NEW j \in Jobs(ids), NEW t \in Nat
    PROVE  /\ [j EXCEPT !.token = t] \in Jobs(ids)
           /\ [j EXCEPT !.token = t].pc = j.pc /\ [j EXCEPT !.token = t].token = t
BY DEF Jobs

LEMMA CaptureTyped ==
    ASSUME TypeOK, NEW w \in Workers, Capture,
           \/ Goes(w, [Set(w, "lock") EXCEPT !.token = Captured])
           \/ Goes(w, [Idle EXCEPT !.pc = "load", !.token = Captured]),
           UNCHANGED <<outboxVars, dbVars, lockVars, faultVars>>
    PROVE  TypeOK'
<1> DEFINE r == [Idle EXCEPT !.pc = "load"]
<1>1. Set(w, "lock") \in Jobs(Ids) /\ r \in Jobs(Ids) BY StepFacts DEF Steps, Jobs
<1>2. [Idle EXCEPT !.pc = "load", !.token = Captured] = [r EXCEPT !.token = Captured] OBVIOUS
<1> HIDE DEF r
<1>3. /\ [Set(w, "lock") EXCEPT !.token = Captured] \in Jobs(Ids)
      /\ [r EXCEPT !.token = Captured] \in Jobs(Ids)
  BY <1>1, StepFacts, TokenField
<1>4. BucketTypeOK' /\ ahead' \in Seq(Workers) BY StepFacts DEF Capture, BucketTypeOK
<1>5. OutboxTypeOK' /\ Ids' = Ids /\ job' \in [Workers -> Jobs(Ids')]
  BY <1>2, <1>3, JobTyped
<1> QED BY <1>4, <1>5, StepFacts, FrameTyped DEF lockVars

LEMMA FullTyped ==
    ASSUME TypeOK, NEW f \in Workers, StartFull(f) \/ ListGroups(f) \/ CaptureFull(f)
    PROVE  TypeOK'
<1>1. CASE StartFull(f)
  <2> DEFINE r == [Idle EXCEPT !.pc = "groups"]
  <2>1. r \in Jobs(Ids) BY StepFacts DEF Steps, Jobs
  <2>2. [Idle EXCEPT !.pc = "groups", !.flag = registered] = [r EXCEPT !.flag = registered] OBVIOUS
  <2> HIDE DEF r
  <2>3. [r EXCEPT !.flag = registered] \in Jobs(Ids) BY <2>1, StepFacts DEF Jobs
  <2> QED BY <1>1, <2>2, <2>3, StepFacts, JobTyped, BucketFrame, FrameTyped DEF StartFull, lockVars
<1>2. CASE ListGroups(f)
  <2>1. {Set(f, "capture"), Set(f, "lease"), Idle} \subseteq Jobs(Ids) BY StepFacts DEF Steps
  <2> QED BY <1>2, <2>1, StepFacts, JobTyped, BucketFrame, FrameTyped DEF ListGroups, lockVars
<1>3. CASE CaptureFull(f)
  <2>1. CASE Goes(f, Set(f, "lease")) /\ UNCHANGED bucketVars
    <3>1. Set(f, "lease") \in Jobs(Ids) BY StepFacts DEF Steps
    <3> QED BY <1>3, <2>1, <3>1, StepFacts, JobTyped, BucketFrame, FrameTyped DEF CaptureFull, lockVars
  <2> QED BY <1>3, <2>1, CaptureTyped DEF CaptureFull
<1> QED BY <1>1, <1>2, <1>3

LEMMA LifecycleTyped ==
    ASSUME TypeOK, NEW w \in Workers, Lifecycle(w)
    PROVE  TypeOK'
<1>r. (lease' = IF lease = w THEN Nobody ELSE lease) => lease' \in Workers \cup {Nobody}
  BY StepFacts
<1>1. CASE AcquireLease(w)
  <2>1. Set(w, "decide") \in Jobs(Ids) BY StepFacts DEF Steps
  <2> QED BY <1>1, <2>1, StepFacts, JobTyped, BucketFrame, FrameTyped DEF AcquireLease
<1>2. CASE LeaseBusy(w)
  BY <1>2, StepFacts, FailsTyped, BucketFrame, FrameTyped DEF LeaseBusy, lockVars
<1>3. CASE ReadGroup(w)
  <2>1. Set(w, "apply") \in Jobs(Ids) BY StepFacts DEF Steps
  <2>2. [Set(w, "apply") EXCEPT !.flag = groupActive] \in Jobs(Ids) BY <2>1, StepFacts DEF Jobs
  <2> QED BY <1>3, <2>2, StepFacts, JobTyped, BucketFrame, FrameTyped DEF ReadGroup, lockVars
<1>4. CASE Reopen(w)
  <2> DEFINE r == [Set(w, "lock") EXCEPT !.strict = TRUE]
  <2>1. Set(w, "lock") \in Jobs(Ids) BY StepFacts DEF Steps
  <2>2. r \in Jobs(Ids) BY <2>1 DEF Jobs
  <2>3. [Set(w, "lock") EXCEPT !.strict = TRUE, !.token = Captured] = [r EXCEPT !.token = Captured]
    OBVIOUS
  <2> HIDE DEF r
  <2>4. [r EXCEPT !.token = Captured] \in Jobs(Ids) BY <2>2, StepFacts DEF Jobs
  <2>5. BucketTypeOK' /\ ahead' \in Seq(Workers)
    BY <1>4, StepFacts DEF Reopen, ReopenBucket, BucketTypeOK
  <2> QED BY <1>4, <1>r, <2>3, <2>4, <2>5, StepFacts, JobTyped, FrameTyped DEF Reopen, Release
<1>5. CASE Retire(w)
  <2>1. BucketTypeOK' /\ ahead' \in Seq(Workers)
    <3>1. epoch' \in Nat /\ life' \in Nat BY <1>5, StepFacts DEF Retire, RetireBucket
    <3>2. {retired', registered'} \subseteq BOOLEAN /\ published' = NoSnapshot /\ UNCHANGED ahead
      BY <1>5 DEF Retire, RetireBucket
    <3> QED BY <3>1, <3>2, StepFacts DEF BucketTypeOK
  <2> QED BY <1>5, <1>r, <2>1, StepFacts, SucceedsTyped, FrameTyped DEF Retire, Release
<1> QED BY <1>1, <1>2, <1>3, <1>4, <1>5 DEF Lifecycle

LEMMA RebuildTyped ==
    ASSUME TypeOK, NEW w \in Workers, Rebuild(w)
    PROVE  TypeOK'
<1>u. (lock' = (lock /\ ~job[w].held)) => lock' \in BOOLEAN
  OBVIOUS
<1>1. CASE TakeLock(w)
  <2>1. Set(w, "load") \in Jobs(Ids) BY StepFacts DEF Steps
  <2>2. [Set(w, "load") EXCEPT !.held = TRUE] \in Jobs(Ids) BY <2>1 DEF Jobs
  <2> QED BY <1>1, <2>2, StepFacts, JobTyped, BucketFrame, FrameTyped DEF TakeLock
<1>2. CASE LockBusy(w)
  BY <1>2, StepFacts, YieldsTyped, BucketFrame, FrameTyped DEF LockBusy, lockVars
<1>3. CASE LoadAccounts(w)
  <2> DEFINE r == [Set(w, "allocate") EXCEPT !.data = accounts]
  <2>1. Set(w, "allocate") \in Jobs(Ids) BY StepFacts DEF Steps
  <2>2. r \in Jobs(Ids) BY <2>1, StepFacts DEF Jobs
  <2>3. [Set(w, "allocate") EXCEPT !.data = accounts, !.life = life] = [r EXCEPT !.life = life]
    OBVIOUS
  <2> HIDE DEF r
  <2>4. [r EXCEPT !.life = life] \in Jobs(Ids) BY <2>2, StepFacts DEF Jobs
  <2> QED BY <1>3, <2>3, <2>4, StepFacts, JobTyped, BucketFrame, FrameTyped DEF LoadAccounts, lockVars
<1>4. CASE Allocate(w)
  <2>1. Set(w, "activate") \in Jobs(Ids) BY StepFacts DEF Steps
  <2>2. BucketTypeOK' /\ ahead' \in Seq(Workers)
    <3>1. ahead' = Append(ahead, w) /\ UNCHANGED <<epoch, retired, registered, published, life>>
      BY <1>4 DEF Allocate, AllocateVersion, keyVars
    <3>2. BucketTypeOK' BY <3>1, StepFacts DEF BucketTypeOK
    <3>3. ahead' \in Seq(Workers) BY <3>1, StepFacts, AppendProperties
    <3> QED BY <3>2, <3>3
  <2> QED BY <1>4, <2>1, <2>2, StepFacts, JobTyped, FrameTyped DEF Allocate, lockVars
<1>5. CASE Publish(w)
  <2>1. [data |-> job[w].data, life |-> job[w].life] \in Snapshots
    BY StepFacts DEF Jobs, Snapshots
  <2>2. BucketTypeOK' /\ ahead' \in Seq(Workers) BY <1>5, <2>1, StepFacts, ActivateTyped DEF Publish
  <2> QED BY <1>5, <1>u, <2>2, StepFacts, SucceedsTyped, FrameTyped DEF Publish, Unlock
<1>6. CASE Fenced(w)
  <2>1. BucketTypeOK' /\ ahead' \in Seq(Workers)
    BY <1>6, StepFacts, ForgetTyped DEF Fenced, keyVars, BucketTypeOK
  <2> QED BY <1>6, <1>u, <2>1, StepFacts, YieldsTyped, FrameTyped DEF Fenced, Unlock
<1> QED BY <1>1, <1>2, <1>3, <1>4, <1>5, <1>6 DEF Rebuild

LEMMA EnvironmentTyped == TypeOK /\ Environment => TypeOK'
<1> SUFFICES ASSUME TypeOK, Environment PROVE TypeOK'
    OBVIOUS
<1>b. BucketTypeOK /\ MaxFaults \in Nat BY BoundsAssumption DEF TypeOK
<1>o. UNCHANGED <<outboxVars, job>> => OutboxTypeOK' /\ Ids' = Ids /\ job' \in [Workers -> Jobs(Ids')]
  BY DEF TypeOK, outboxVars, OutboxTypeOK, Ids, Jobs
<1>f. Fault => faults' \in 0..MaxFaults BY <1>b DEF Fault, TypeOK
<1>1. CASE LockExpires
  BY <1>1, <1>o, BucketFrame DEF LockExpires, TypeOK, dbVars, faultVars
<1>2. CASE LockExpiresEarly
  BY <1>2, <1>o, <1>f, BucketFrame DEF LockExpiresEarly, TypeOK, dbVars
<1>3. CASE LeaseExpires
  BY <1>3, <1>o, BucketFrame DEF LeaseExpires, TypeOK, dbVars, faultVars
<1>4. ASSUME NEW w \in Workers, Crash(w) PROVE TypeOK'
  <2>1. BucketTypeOK' /\ ahead' \in Seq(Workers)
    BY <1>4, StepFacts, ForgetTyped DEF Crash, keyVars, BucketTypeOK
  <2> QED BY <1>4, <1>f, <2>1, FailsTyped DEF Crash, TypeOK, dbVars, lockVars
<1>5. ASSUME NEW w \in Workers, StepFails(w) PROVE TypeOK'
  <2>1. BucketTypeOK' /\ ahead' \in Seq(Workers)
    BY <1>5, StepFacts, ForgetTyped DEF StepFails, keyVars, BucketTypeOK
  <2>2. lock' \in BOOLEAN /\ lease' \in Workers \cup {Nobody}
    BY <1>5, StepFacts DEF StepFails, Release, Unlock
  <2> QED BY <1>5, <1>f, <2>1, <2>2, FailsTyped DEF StepFails, TypeOK, dbVars
<1>6. ASSUME NEW k \in Kinds, EnqueueFails(k) PROVE TypeOK'
  <2>1. owed' \in [Kinds -> Nat] BY <1>6 DEF EnqueueFails, TypeOK
  <2>2. lost' \in BOOLEAN BY <1>6 DEF EnqueueFails, TypeOK
  <2> QED BY <1>6, <1>f, <1>o, <2>1, <2>2, BucketFrame DEF EnqueueFails, TypeOK, lockVars
<1> QED BY <1>1, <1>2, <1>3, <1>4, <1>5, <1>6 DEF Environment

LEMMA NextTyped == TypeOK /\ [Next]_vars => TypeOK'
<1> SUFFICES ASSUME TypeOK, [Next]_vars PROVE TypeOK'
    OBVIOUS
<1>w. Pollers \subseteq Workers /\ Rebuilders \subseteq Workers /\ Readers \subseteq Workers
  BY DEF Workers
<1>1. CASE Database BY <1>1, DatabaseTyped
<1>2. ASSUME NEW p \in Pollers, Poll(p) PROVE TypeOK'
  BY <1>2, <1>w, PollTyped, LifecycleTyped, RebuildTyped DEF Poll
<1>3. ASSUME NEW f \in Rebuilders, Full(f) PROVE TypeOK'
  BY <1>3, <1>w, FullTyped, LifecycleTyped, RebuildTyped DEF Full
<1>4. ASSUME NEW r \in Readers, CaptureMiss(r) \/ Rebuild(r) PROVE TypeOK'
  BY <1>4, <1>w, CaptureTyped, RebuildTyped DEF CaptureMiss
<1>5. CASE Environment BY <1>5, EnvironmentTyped
<1>6. CASE UNCHANGED vars
  BY <1>6 DEF vars, TypeOK, bucketVars, keyVars, BucketTypeOK, outboxVars, OutboxTypeOK, Ids,
     dbVars, lockVars, faultVars, Jobs
<1> QED BY <1>1, <1>2, <1>3, <1>4, <1>5, <1>6 DEF Next

\* The state keeps its types; in particular the watermark, a batch's last id and the row
\* of the open transaction name rows of the outbox.
THEOREM TypeCorrect == Spec => []TypeOK
<1> QED BY InitTyped, NextTyped, PTL DEF Spec

-----------------------------------------------------------------------------
(* The fence. *)

Writing == {"lock", "load", "allocate", "activate"}

\* A writer's token is of an epoch there was, not of the present one while the bucket is
\* retired; with the present one, what it has loaded is of the present life.
TokenFenced(j) ==
    /\ j.pc \in Writing => j.token \in 1..epoch /\ (retired => j.token < epoch)
    /\ j.pc \in {"allocate", "activate"} /\ j.token = epoch => j.life = life

FenceInv ==
    /\ retired => epoch >= 1
    /\ PublishedIsFenced
    /\ \A w \in Workers: TokenFenced(job[w])

LEMMA InitFence == Init => FenceInv
BY DEF Init, BucketInit, FenceInv, PublishedIsFenced, TokenFenced, Writing, Idle

\* A step that changes one job and neither the epoch nor the life of the bucket.
LEMMA FenceJob ==
    ASSUME TypeOK, FenceInv, UNCHANGED <<epoch, retired, life>>, PublishedIsFenced',
           NEW w \in Workers, NEW j, TokenFenced(j), Goes(w, j)
    PROVE  FenceInv'
<1>1. job' = [job EXCEPT ![w] = j] /\ job \in [Workers -> Jobs(Ids)] BY DEF Goes, TypeOK
<1>2. ASSUME NEW v \in Workers PROVE TokenFenced(job[v])'
  BY <1>1 DEF FenceInv, TokenFenced
<1> QED BY <1>2 DEF FenceInv

\* The work has ended, or the poll goes on with the next event: no token is held.
LEMMA EndJob ==
    ASSUME TypeOK, NEW w \in Workers, Succeeds(w) \/ Fails(w) \/ Yields(w)
    PROVE  \E j: TokenFenced(j) /\ TokenFenced(j)' /\ Goes(w, j)
<1>1. \A j: j.pc \notin Writing => TokenFenced(j) /\ TokenFenced(j)' BY DEF TokenFenced, Writing
<1>2. Idle.pc \notin Writing BY DEF Idle, Writing
<1>3. NextEvent(w, Rebuilt(w)).pc \notin Writing
  BY KindsAssumption, NextEventTyped DEF Rebuilt, Writing
<1> QED BY <1>1, <1>2, <1>3 DEF Succeeds, Fails, Yields

LEMMA FenceEnd ==
    ASSUME TypeOK, FenceInv, UNCHANGED <<epoch, retired, life>>, PublishedIsFenced',
           NEW w \in Workers, Succeeds(w) \/ Fails(w) \/ Yields(w)
    PROVE  FenceInv'
BY EndJob, FenceJob

LEMMA FenceKeys ==
    ASSUME TypeOK, FenceInv, UNCHANGED <<epoch, retired, life, published>>
    PROVE  PublishedIsFenced'
BY DEF FenceInv, PublishedIsFenced

\* Other jobs are unchanged, and so are the keys.
LEMMA FenceStill ==
    ASSUME TypeOK, FenceInv, UNCHANGED <<epoch, retired, life, published, job>>
    PROVE  FenceInv'
BY DEF FenceInv, PublishedIsFenced, TokenFenced

LEMMA FenceCapture ==
    ASSUME TypeOK, FenceInv, NEW w \in Workers, Capture,
           \/ Goes(w, [Set(w, "lock") EXCEPT !.token = Captured])
           \/ Goes(w, [Idle EXCEPT !.pc = "load", !.token = Captured])
    PROVE  FenceInv'
<1> DEFINE a == [Set(w, "lock") EXCEPT !.token = Captured]
           b == [Idle EXCEPT !.pc = "load", !.token = Captured]
           r == [Idle EXCEPT !.pc = "load"]
<1>1. Set(w, "lock") \in Jobs(Ids) /\ Set(w, "lock").pc = "lock" BY StepFacts, SetFields DEF Steps
<1>2. a.pc = "lock" /\ a.token = Captured BY <1>1, StepFacts, TokenField
<1>3. r \in Jobs(Ids) /\ r.pc = "load" BY StepFacts DEF Steps, Jobs
<1>4. b = [r EXCEPT !.token = Captured] OBVIOUS
<1> HIDE DEF r
<1>5. b.pc = "load" /\ b.token = Captured BY <1>3, <1>4, StepFacts, TokenField
<1>6. /\ ~retired /\ ~retired' /\ epoch' = Captured /\ UNCHANGED <<life, published>>
      /\ epoch \in Nat /\ epoch' \in Nat /\ epoch' >= 1 /\ (epoch >= 1 => epoch' = epoch)
  BY StepFacts DEF Capture, Captured
<1>7. job \in [Workers -> Jobs(Ids)] BY DEF TypeOK
<1>8. PublishedIsFenced' BY <1>6 DEF FenceInv, PublishedIsFenced
<1> HIDE DEF a, b
<1>9. job' = [job EXCEPT ![w] = a] \/ job' = [job EXCEPT ![w] = b] BY DEF Goes, a, b
<1>10. TokenFenced(job[w])'
  <2>1. job'[w].pc \notin {"allocate", "activate"} /\ job'[w].token = epoch'
    BY <1>2, <1>5, <1>6, <1>7, <1>9
  <2> QED BY <1>6, <2>1 DEF TokenFenced
<1>11. ASSUME NEW v \in Workers, v # w PROVE TokenFenced(job[v])'
  <2>1. job'[v] = job[v] BY <1>7, <1>9, <1>11
  <2>2. TokenFenced(job[v]) BY DEF FenceInv
  <2>3. CASE job[v].pc \in Writing
    <3>1. epoch' = epoch BY <1>6, <2>2, <2>3 DEF TokenFenced
    <3> QED BY <1>6, <2>1, <2>2, <3>1 DEF TokenFenced
  <2>4. CASE job[v].pc \notin Writing BY <2>1, <2>4 DEF TokenFenced, Writing
  <2> QED BY <2>3, <2>4
<1> QED BY <1>6, <1>8, <1>10, <1>11 DEF FenceInv

\* A job that writes nothing.
LEMMA FenceQuiet ==
    ASSUME TypeOK, FenceInv, UNCHANGED <<epoch, retired, life, published>>,
           NEW w \in Workers, NEW j, j.pc \notin Writing, Goes(w, j)
    PROVE  FenceInv'
<1>1. TokenFenced(j) BY DEF TokenFenced, Writing
<1> QED BY <1>1, FenceKeys, FenceJob

LEMMA FencePoll ==
    ASSUME TypeOK, FenceInv, NEW p \in Workers,
           \/ StartPoll(p) \/ ListEvents(p) \/ SkipSeen(p) \/ CaptureAccount(p)
           \/ AdvanceWatermark(p) \/ CleanupConsumed(p)
    PROVE  FenceInv'
<1>b. UNCHANGED bucketVars => UNCHANGED <<epoch, retired, life, published>> BY DEF bucketVars, keyVars
<1>1. CASE StartPoll(p)
  <2>1. [Idle EXCEPT !.pc = "list", !.last = watermark].pc \notin Writing BY DEF Idle, Writing
  <2> QED BY <1>1, <1>b, <2>1, FenceQuiet DEF StartPoll
<1>2. CASE ListEvents(p)
  <2>1. CASE Fails(p) BY <1>2, <1>b, <2>1, FenceEnd, FenceKeys DEF ListEvents
  <2>2. ASSUME NEW b, NEW last,
               Goes(p, [Idle EXCEPT !.pc = "next", !.todo = b, !.last = last])
        PROVE  FenceInv'
    <3>1. [Idle EXCEPT !.pc = "next", !.todo = b, !.last = last].pc \notin Writing
      BY DEF Idle, Writing
    <3> QED BY <1>2, <1>b, <2>2, <3>1, FenceQuiet DEF ListEvents
  <2> QED BY <1>2, <2>1, <2>2 DEF ListEvents
<1>3. CASE SkipSeen(p) BY <1>3, <1>b, FenceEnd, FenceKeys DEF SkipSeen
<1>4. CASE CaptureAccount(p)
  <2>1. CASE Succeeds(p) /\ UNCHANGED bucketVars BY <1>b, <2>1, FenceEnd, FenceKeys
  <2>2. CASE Capture /\ Goes(p, [Set(p, "lock") EXCEPT !.token = Captured])
    BY <2>2, FenceCapture
  <2> QED BY <1>4, <2>1, <2>2 DEF CaptureAccount
<1>5. CASE AdvanceWatermark(p)
  <2>1. Set(p, "cleanup").pc \notin Writing BY StepFacts DEF Set, Jobs, Writing
  <2> QED BY <1>5, <1>b, <2>1, FenceQuiet DEF AdvanceWatermark
<1>6. CASE CleanupConsumed(p)
  <2>1. Idle.pc \notin Writing BY DEF Idle, Writing
  <2> QED BY <1>6, <1>b, <2>1, FenceQuiet DEF CleanupConsumed
<1> QED BY <1>1, <1>2, <1>3, <1>4, <1>5, <1>6

LEMMA FenceFull ==
    ASSUME TypeOK, FenceInv, NEW f \in Workers, StartFull(f) \/ ListGroups(f) \/ CaptureFull(f)
    PROVE  FenceInv'
<1>b. UNCHANGED bucketVars => UNCHANGED <<epoch, retired, life, published>> BY DEF bucketVars, keyVars
<1>q. /\ Idle.pc \notin Writing /\ Set(f, "capture").pc \notin Writing /\ Set(f, "lease").pc \notin Writing
      /\ [Idle EXCEPT !.pc = "groups", !.flag = registered].pc \notin Writing
  BY SetFields DEF Steps, Idle, Writing
<1>1. CASE StartFull(f) BY <1>1, <1>b, <1>q, FenceQuiet DEF StartFull
<1>2. CASE ListGroups(f) BY <1>2, <1>b, <1>q, FenceQuiet DEF ListGroups
<1>3. CASE CaptureFull(f) BY <1>3, <1>b, <1>q, FenceQuiet, FenceCapture DEF CaptureFull
<1> QED BY <1>1, <1>2, <1>3

LEMMA FenceLifecycle ==
    ASSUME TypeOK, FenceInv, NEW w \in Workers, Lifecycle(w)
    PROVE  FenceInv'
<1>b. UNCHANGED bucketVars => UNCHANGED <<epoch, retired, life, published>> BY DEF bucketVars, keyVars
<1>1. CASE AcquireLease(w)
  <2>1. Set(w, "decide").pc \notin Writing BY SetFields DEF Steps, Writing
  <2> QED BY <1>1, <1>b, <2>1, FenceQuiet DEF AcquireLease
<1>2. CASE LeaseBusy(w) BY <1>2, <1>b, FenceEnd, FenceKeys DEF LeaseBusy
<1>3. CASE ReadGroup(w)
  <2>1. Set(w, "apply") \in Jobs(Ids) /\ Set(w, "apply").pc = "apply" BY StepFacts, SetFields DEF Steps
  <2>2. [Set(w, "apply") EXCEPT !.flag = groupActive].pc \notin Writing BY <2>1 DEF Jobs, Writing
  <2> QED BY <1>3, <1>b, <2>2, FenceQuiet DEF ReadGroup
<1>4. CASE Reopen(w)
  <2> DEFINE r == [Set(w, "lock") EXCEPT !.strict = TRUE]
             a == [Set(w, "lock") EXCEPT !.strict = TRUE, !.token = Captured]
  <2>1. Set(w, "lock") \in Jobs(Ids) /\ Set(w, "lock").pc = "lock" BY StepFacts, SetFields DEF Steps
  <2>2. r \in Jobs(Ids) /\ r.pc = "lock" BY <2>1 DEF Jobs
  <2>3. a = [r EXCEPT !.token = Captured] OBVIOUS
  <2> HIDE DEF r
  <2>4. a.pc = "lock" /\ a.token = Captured BY <2>2, <2>3, StepFacts DEF Jobs
  <2> HIDE DEF a
  <2>5. Goes(w, a) BY <1>4 DEF Reopen, a
  <2>6. job' = [job EXCEPT ![w] = a] /\ job \in [Workers -> Jobs(Ids)] BY <2>5 DEF Goes, TypeOK
  <2>7. /\ ~retired' /\ epoch' = Captured /\ life' = life
        /\ published' = IF retired THEN NoSnapshot ELSE published
        /\ epoch \in Nat /\ epoch' \in Nat /\ epoch' >= 1 /\ (epoch >= 1 => epoch' = epoch)
    BY <1>4, StepFacts DEF Reopen, ReopenBucket, Captured
  <2>8. PublishedIsFenced' BY <2>7 DEF FenceInv, PublishedIsFenced
  <2>9. TokenFenced(job[w])' BY <2>4, <2>6, <2>7 DEF TokenFenced
  <2>10. ASSUME NEW v \in Workers, v # w PROVE TokenFenced(job[v])'
    <3>1. job'[v] = job[v] /\ TokenFenced(job[v]) BY <2>6, <2>10 DEF FenceInv
    <3>2. CASE job[v].pc \in Writing
      <4>1. epoch' = epoch BY <2>7, <3>1, <3>2 DEF TokenFenced
      <4> QED BY <2>7, <3>1, <4>1 DEF TokenFenced
    <3>3. CASE job[v].pc \notin Writing BY <3>1, <3>3 DEF TokenFenced, Writing
    <3> QED BY <3>2, <3>3
  <2> QED BY <2>7, <2>8, <2>9, <2>10 DEF FenceInv
<1>5. CASE Retire(w)
  <2>1. /\ retired' /\ published' = NoSnapshot /\ epoch \in Nat /\ epoch' \in Nat
        /\ (~retired => epoch' = epoch + 1)
        /\ (retired => epoch' = epoch /\ life' = life)
    BY <1>5, StepFacts DEF Retire, RetireBucket, Captured, FenceInv
  <2>2. epoch' >= 1 BY <2>1 DEF FenceInv
  <2>3. PublishedIsFenced' BY <2>1 DEF PublishedIsFenced
  <2>4. PICK j: TokenFenced(j)' /\ Goes(w, j) BY <1>5, EndJob DEF Retire
  <2>5. job' = [job EXCEPT ![w] = j] /\ job \in [Workers -> Jobs(Ids)] BY <2>4 DEF Goes, TypeOK
  <2>6. TokenFenced(job[w])' BY <2>4, <2>5 DEF TokenFenced
  <2>7. ASSUME NEW v \in Workers, v # w PROVE TokenFenced(job[v])'
    <3>1. job'[v] = job[v] /\ TokenFenced(job[v]) BY <2>5, <2>7 DEF FenceInv
    <3>2. CASE job[v].pc \in Writing
      <4>1. job[v].token \in 1..epoch /\ (retired => job[v].token < epoch)
        BY <3>1, <3>2 DEF TokenFenced
      <4>2. job[v].token \in 1..epoch' /\ job[v].token < epoch' BY <2>1, <4>1
      <4> QED BY <3>1, <4>2 DEF TokenFenced
    <3>3. CASE job[v].pc \notin Writing BY <3>1, <3>3 DEF TokenFenced, Writing
    <3> QED BY <3>2, <3>3
  <2> QED BY <2>2, <2>3, <2>6, <2>7 DEF FenceInv
<1> QED BY <1>1, <1>2, <1>3, <1>4, <1>5 DEF Lifecycle

LEMMA FenceRebuild ==
    ASSUME TypeOK, FenceInv, NEW w \in Workers, Rebuild(w)
    PROVE  FenceInv'
<1>b. UNCHANGED bucketVars => UNCHANGED <<epoch, retired, life, published>> BY DEF bucketVars, keyVars
<1>t. TokenFenced(job[w]) BY DEF FenceInv
<1>1. CASE TakeLock(w)
  <2>1. Set(w, "load") \in Jobs(Ids) /\ Set(w, "load").pc = "load" /\ Set(w, "load").token = job[w].token
    BY StepFacts, SetFields DEF Steps
  <2> DEFINE j == [Set(w, "load") EXCEPT !.held = TRUE]
  <2>2. j.pc = "load" /\ j.token = job[w].token BY <2>1 DEF Jobs
  <2> HIDE DEF j
  <2>3. TokenFenced(j) BY <1>1, <1>t, <2>2 DEF TakeLock, At, TokenFenced, Writing
  <2> QED BY <1>1, <1>b, <2>3, FenceJob, FenceKeys DEF TakeLock, j
<1>2. CASE LockBusy(w) BY <1>2, <1>b, FenceEnd, FenceKeys DEF LockBusy
<1>3. CASE LoadAccounts(w)
  <2> DEFINE r == [Set(w, "allocate") EXCEPT !.data = accounts]
             j == [Set(w, "allocate") EXCEPT !.data = accounts, !.life = life]
  <2>1. /\ Set(w, "allocate") \in Jobs(Ids) /\ Set(w, "allocate").pc = "allocate"
        /\ Set(w, "allocate").token = job[w].token
    BY StepFacts, SetFields DEF Steps
  <2>2. r \in Jobs(Ids) /\ r.pc = "allocate" /\ r.token = job[w].token BY <2>1, StepFacts DEF Jobs
  <2>3. j = [r EXCEPT !.life = life] OBVIOUS
  <2> HIDE DEF r
  <2>4. j.pc = "allocate" /\ j.token = job[w].token /\ j.life = life
    BY <2>2, <2>3, StepFacts DEF Jobs
  <2> HIDE DEF j
  <2>5. TokenFenced(j) BY <1>3, <1>t, <2>4 DEF LoadAccounts, At, TokenFenced, Writing
  <2> QED BY <1>3, <1>b, <2>5, FenceJob, FenceKeys DEF LoadAccounts, j
<1>4. CASE Allocate(w)
  <2>1. /\ Set(w, "activate").pc = "activate" /\ Set(w, "activate").token = job[w].token
        /\ Set(w, "activate").life = job[w].life
    BY SetFields DEF Steps
  <2>2. TokenFenced(Set(w, "activate"))
    BY <1>4, <1>t, <2>1 DEF Allocate, At, TokenFenced, Writing
  <2>3. UNCHANGED <<epoch, retired, life, published>> BY <1>4 DEF Allocate, AllocateVersion, keyVars
  <2> QED BY <1>4, <2>2, <2>3, FenceJob, FenceKeys DEF Allocate
<1>5. CASE Publish(w)
  <2> DEFINE s == [data |-> job[w].data, life |-> job[w].life]
  <2>1. s \in Snapshots /\ s.life = job[w].life BY StepFacts DEF Jobs, Snapshots
  <2>2. /\ UNCHANGED <<epoch, retired, life>>
        /\ published' = s \/ UNCHANGED bucketVars
    <3> HIDE DEF s
    <3>1. Activate(w, s) BY <1>5 DEF Publish, s
    <3> QED BY <2>1, <3>1, StepFacts, ActivateTyped
  <2>3. ~retired /\ job[w].life = life BY <1>5, <1>t DEF Publish, Accepts, At, TokenFenced
  <2>4. PublishedIsFenced'
    <3>1. CASE published' = s BY <2>1, <2>2, <2>3, <3>1 DEF PublishedIsFenced
    <3>2. CASE UNCHANGED bucketVars BY <1>b, <3>2, FenceKeys
    <3> QED BY <2>2, <3>1, <3>2
  <2> QED BY <1>5, <2>2, <2>4, FenceEnd DEF Publish
<1>6. CASE Fenced(w)
  <2>1. UNCHANGED <<epoch, retired, life, published>> BY <1>6 DEF Fenced, Forget, keyVars
  <2> QED BY <1>6, <2>1, FenceEnd, FenceKeys DEF Fenced
<1> QED BY <1>1, <1>2, <1>3, <1>4, <1>5, <1>6 DEF Rebuild

LEMMA FenceEnvironment == TypeOK /\ FenceInv /\ Environment => FenceInv'
<1> SUFFICES ASSUME TypeOK, FenceInv, Environment PROVE FenceInv'
    OBVIOUS
<1>b. UNCHANGED bucketVars => UNCHANGED <<epoch, retired, life, published>> BY DEF bucketVars, keyVars
<1>1. ASSUME LockExpires \/ LockExpiresEarly \/ LeaseExpires PROVE FenceInv'
  BY <1>1, <1>b, FenceStill DEF LockExpires, LockExpiresEarly, LeaseExpires
<1>2. ASSUME NEW w \in Workers, Crash(w) \/ StepFails(w) PROVE FenceInv'
  <2>1. UNCHANGED <<epoch, retired, life, published>> BY <1>2 DEF Crash, StepFails, Forget, keyVars
  <2> QED BY <1>2, <2>1, FenceEnd, FenceKeys DEF Crash, StepFails
<1>3. ASSUME NEW k \in Kinds, EnqueueFails(k) PROVE FenceInv'
  BY <1>3, <1>b, FenceStill DEF EnqueueFails
<1> QED BY <1>1, <1>2, <1>3 DEF Environment

LEMMA NextFence == TypeOK /\ FenceInv /\ [Next]_vars => FenceInv'
<1> SUFFICES ASSUME TypeOK, FenceInv, [Next]_vars PROVE FenceInv'
    OBVIOUS
<1>w. Pollers \subseteq Workers /\ Rebuilders \subseteq Workers /\ Readers \subseteq Workers
  BY DEF Workers
<1>b. UNCHANGED bucketVars => UNCHANGED <<epoch, retired, life, published>> BY DEF bucketVars, keyVars
<1>1. CASE Database
  BY <1>1, <1>b, FenceStill DEF Database, ChangeAccounts, SwitchGroup, InsertInTx, CommitTx, Enqueue
<1>2. ASSUME NEW p \in Pollers, Poll(p) PROVE FenceInv'
  BY <1>2, <1>w, FencePoll, FenceLifecycle, FenceRebuild DEF Poll
<1>3. ASSUME NEW f \in Rebuilders, Full(f) PROVE FenceInv'
  BY <1>3, <1>w, FenceFull, FenceLifecycle, FenceRebuild DEF Full
<1>4. ASSUME NEW r \in Readers, CaptureMiss(r) \/ Rebuild(r) PROVE FenceInv'
  BY <1>4, <1>w, FenceCapture, FenceRebuild DEF CaptureMiss
<1>5. CASE Environment BY <1>5, FenceEnvironment
<1>6. CASE UNCHANGED vars BY <1>6, <1>b, FenceStill DEF vars
<1> QED BY <1>1, <1>2, <1>3, <1>4, <1>5, <1>6 DEF Next

\* A retired bucket has no snapshot and one that is open has none read before its last
\* retirement, whichever writers were under way at the retirement and at the reopening
\* (activateSnapshotScript, retireBucketScript, reopenBucketScript).
THEOREM RetiredStaysEmpty == Spec => []PublishedIsFenced
<1>1. FenceInv => PublishedIsFenced BY DEF FenceInv
<1> QED BY <1>1, InitFence, NextFence, TypeCorrect, PTL DEF Spec

-----------------------------------------------------------------------------
(* The watermark. *)

\* An event a poll up to id has to have handled.
Ripe(i) == outbox[i].status # "open" /\ ~outbox[i].late

RowsInv ==
    /\ \A i \in Ids: outbox[i].claimed => outbox[i].status # "open"
    /\ \A i \in Ids: outbox[i].status = "deleted" /\ ~outbox[i].late => outbox[i].handled
    /\ PassedIsHandled
    /\ watermark # 0 => outbox[watermark].claimed
    /\ tx.row # 0 => outbox[tx.row].status = "open"

\* A batch: what lies before its last id is handled or still to be handled.
BatchOf(j) ==
    /\ j.last # 0 => outbox[j.last].claimed
    /\ \A i \in Ids: i <= j.last /\ Ripe(i) => outbox[i].handled \/ i \in j.todo
    /\ j.pc \in {"list", "watermark", "cleanup"} => j.todo = {}

BatchInv == RowsInv /\ \A w \in Workers: BatchOf(job[w])

LEMMA IdsFacts ==
    ASSUME TypeOK
    PROVE  /\ Ids \subseteq Nat \ {0} /\ watermark \in {0} \cup Ids /\ tx.row \in {0} \cup Ids
           /\ \A i \in Ids: outbox[i] \in Rows
           /\ \A w \in Workers: job[w].last \in {0} \cup Ids /\ job[w].todo \subseteq Ids
<1>1. outbox \in Seq(Rows) /\ Ids = 1..Len(outbox) /\ Len(outbox) \in Nat
  BY LenProperties DEF TypeOK, OutboxTypeOK, Ids
<1>2. \A i \in Ids: outbox[i] \in Rows BY <1>1, ElementOfSeq
<1>3. \A w \in Workers: job[w] \in Jobs(Ids) BY DEF TypeOK
<1>4. \A w \in Workers: job[w].last \in {0} \cup Ids /\ job[w].todo \subseteq Ids
  BY <1>3 DEF Jobs
<1>5. watermark \in {0} \cup Ids /\ tx.row \in {0} \cup Ids BY DEF TypeOK, OutboxTypeOK
<1> QED BY <1>1, <1>2, <1>4, <1>5

LEMMA IdleBatch ==
    ASSUME TypeOK
    PROVE  BatchOf(Idle)
BY IdsFacts DEF BatchOf, Idle

LEMMA InitBatch == Init => BatchInv
BY DEF Init, OutboxInit, BatchInv, RowsInv, BatchOf, PassedIsHandled, Idle, NoTx, Ids

\* The outbox grows and rows advance, but none that was open commits.
Keeps ==
    /\ Ids' = Ids /\ UNCHANGED <<watermark, tx>>
    /\ \A i \in Ids:
          /\ outbox'[i].late = outbox[i].late
          /\ outbox'[i].status = "open" <=> outbox[i].status = "open"
          /\ outbox[i].claimed => outbox'[i].claimed
          /\ outbox[i].handled => outbox'[i].handled

LEMMA KeepsBatch ==
    ASSUME TypeOK, Keeps, NEW j, j.last \in {0} \cup Ids, BatchOf(j)
    PROVE  BatchOf(j)'
BY DEF Keeps, BatchOf, Ripe

LEMMA KeepsRows ==
    ASSUME TypeOK, RowsInv, Keeps,
           \A i \in Ids: outbox'[i].claimed => outbox[i].claimed \/ outbox[i].status # "open",
           \A i \in Ids: outbox'[i].status = "deleted" /\ ~outbox[i].late =>
                           outbox[i].status = "deleted" \/ outbox[i].handled
    PROVE  RowsInv'
BY IdsFacts DEF Keeps, RowsInv, PassedIsHandled

LEMMA SameRows ==
    ASSUME TypeOK, UNCHANGED <<outboxVars, tx>>
    PROVE  Keeps /\ (RowsInv => RowsInv')
BY DEF Keeps, outboxVars, RowsInv, PassedIsHandled, Ids

\* One job changes, the others keep their batches.
LEMMA OneBatch ==
    ASSUME TypeOK, BatchInv, RowsInv', Keeps, NEW w \in Workers, NEW j, BatchOf(j)', Goes(w, j)
    PROVE  BatchInv'
<1>1. job' = [job EXCEPT ![w] = j] /\ job \in [Workers -> Jobs(Ids)] BY DEF Goes, TypeOK
<1>2. ASSUME NEW v \in Workers PROVE BatchOf(job[v])'
  <2>1. BatchOf(job[v])' \/ v = w
    <3>1. CASE v # w
      <4>1. job'[v] = job[v] BY <1>1, <3>1
      <4>2. BatchOf(job[v]) /\ job[v].last \in {0} \cup Ids BY IdsFacts DEF BatchInv
      <4> DEFINE k == job[v]
      <4>3. \A x: x = k => (x.last \in {0} \cup Ids /\ BatchOf(x)) BY <4>2
      <4> HIDE DEF k
      <4>4. \A x: x = k => BatchOf(x)' BY <4>3, KeepsBatch
      <4>5. job'[v] = k BY <4>1 DEF k
      <4> QED BY <4>4, <4>5 DEF BatchOf
    <3> QED BY <3>1
  <2>2. v = w => BatchOf(job[v])' BY <1>1 DEF BatchOf
  <2> QED BY <2>1, <2>2
<1> QED BY <1>2 DEF BatchInv

\* A step of a goroutine that leaves the outbox alone.
LEMMA JobBatch ==
    ASSUME TypeOK, BatchInv, UNCHANGED <<outboxVars, tx>>, NEW w \in Workers, NEW j,
           BatchOf(j), Goes(w, j)
    PROVE  BatchInv'
<1>1. Keeps /\ RowsInv' BY SameRows DEF BatchInv
<1>2. BatchOf(j)' BY DEF BatchOf, Ripe, outboxVars, Ids
<1> QED BY <1>1, <1>2, OneBatch

LEMMA GoesOn ==
    ASSUME TypeOK, BatchInv, UNCHANGED <<outboxVars, tx>>, NEW w \in Workers, NEW j,
           j.todo = job[w].todo, j.last = job[w].last,
           j.pc \notin {"list", "watermark", "cleanup"} \/ j.todo = {}, Goes(w, j)
    PROVE  BatchInv'
<1>1. BatchOf(j) BY DEF BatchInv, BatchOf
<1> QED BY <1>1, JobBatch

LEMMA FailsBatch ==
    ASSUME TypeOK, BatchInv, UNCHANGED tx, NEW w \in Workers, Fails(w)
    PROVE  BatchInv'
BY IdleBatch, JobBatch DEF Fails

LEMMA SucceedsBatch ==
    ASSUME TypeOK, BatchInv, UNCHANGED tx, NEW w \in Workers, Succeeds(w)
    PROVE  BatchInv'
<1>1. CASE job[w].todo = {} BY <1>1, IdleBatch, JobBatch DEF Succeeds
<1>2. CASE job[w].todo # {}
  <2> PICK e: e = Event(w) OBVIOUS
  <2> PICK n: n = NextEvent(w, Rebuilt(w)) OBVIOUS
  <2>1. Handled(e) /\ Goes(w, n) BY <1>2 DEF Succeeds
  <2>2. /\ OutboxTypeOK' /\ Ids' = Ids
        /\ \A i \in Ids: outbox'[i] = IF i = e THEN [outbox[i] EXCEPT !.handled = TRUE] ELSE outbox[i]
    BY <2>1, HandledRows DEF TypeOK
  <2>3. \A i \in Ids: /\ outbox'[i].status = outbox[i].status /\ outbox'[i].late = outbox[i].late
                      /\ outbox'[i].claimed = outbox[i].claimed
                      /\ outbox'[i].handled = (outbox[i].handled \/ i = e)
    BY <2>2, IdsFacts DEF Rows
  <2>4. UNCHANGED watermark BY <2>1 DEF Handled
  <2>5. Keeps BY <2>2, <2>3, <2>4 DEF Keeps
  <2>6. RowsInv' BY <2>3, <2>5, KeepsRows DEF BatchInv
  <2>7. /\ n.pc = (IF job[w].todo \ {e} = {} THEN "watermark" ELSE "next")
        /\ n.todo = job[w].todo \ {e} /\ n.last = job[w].last
    BY KindsAssumption, NextEventTyped DEF Rebuilt
  <2>8. BatchOf(job[w]) /\ job[w].last \in {0} \cup Ids BY IdsFacts DEF BatchInv
  <2>9. n.last # 0 => outbox'[n.last].claimed BY <2>3, <2>7, <2>8 DEF BatchOf
  <2>10. ASSUME NEW i \in Ids, i <= n.last, outbox'[i].status # "open", ~outbox'[i].late
         PROVE  outbox'[i].handled \/ i \in n.todo
    <3>1. outbox[i].handled \/ i \in job[w].todo BY <2>3, <2>7, <2>8, <2>10 DEF BatchOf, Ripe
    <3> QED BY <2>3, <2>7, <3>1
  <2>11. BatchOf(n)' BY <2>2, <2>7, <2>9, <2>10 DEF BatchOf, Ripe
  <2> QED BY <2>1, <2>5, <2>6, <2>11, OneBatch
<1> QED BY <1>1, <1>2

LEMMA YieldsBatch ==
    ASSUME TypeOK, BatchInv, UNCHANGED tx, NEW w \in Workers, Yields(w)
    PROVE  BatchInv'
BY FailsBatch, SucceedsBatch DEF Yields

\* The jobs of the steps that leave the batch as it is.
Carries(r, w, s) == r.pc = s /\ r.todo = job[w].todo /\ r.last = job[w].last

LEMMA SameBatch ==
    ASSUME TypeOK, NEW w \in Workers, NEW s \in Steps
    PROVE  /\ Carries(Set(w, s), w, s)
           /\ \A x: Carries([Set(w, s) EXCEPT !.token = x], w, s)
           /\ \A x: Carries([Set(w, s) EXCEPT !.flag = x], w, s)
           /\ \A x: Carries([Set(w, s) EXCEPT !.held = x], w, s)
           /\ \A x, y: Carries([Set(w, s) EXCEPT !.strict = x, !.token = y], w, s)
           /\ \A x, y: Carries([Set(w, s) EXCEPT !.data = x, !.life = y], w, s)
<1>1. Set(w, s) \in Jobs(Ids) /\ Carries(Set(w, s), w, s) BY StepFacts, SetFields DEF Carries
<1> PICK q: q = Set(w, s) OBVIOUS
<1>2. DOMAIN q = {"pc", "todo", "last", "seen", "flag", "held", "strict", "token", "data", "life"}
  BY <1>1 DEF Jobs
<1>3. \A x: Carries([q EXCEPT !.token = x], w, s) BY <1>1, <1>2 DEF Carries
<1>4. \A x: Carries([q EXCEPT !.flag = x], w, s) BY <1>1, <1>2 DEF Carries
<1>5. \A x: Carries([q EXCEPT !.held = x], w, s) BY <1>1, <1>2 DEF Carries
<1>6. \A x, y: Carries([q EXCEPT !.strict = x, !.token = y], w, s) BY <1>1, <1>2 DEF Carries
<1>7. \A x, y: Carries([q EXCEPT !.data = x, !.life = y], w, s) BY <1>1, <1>2 DEF Carries
<1> QED BY <1>1, <1>3, <1>4, <1>5, <1>6, <1>7

LEMMA InsertBatch ==
    ASSUME TypeOK, BatchInv, NEW k \in Kinds, NEW s \in {"open", "committed"}, Insert(k, s),
           \/ UNCHANGED tx
           \/ s = "open" /\ tx'.row = IF Inserts(k) THEN Len(outbox') ELSE 0,
           UNCHANGED job
    PROVE  BatchInv'
<1>1. /\ OutboxTypeOK' /\ Ids \subseteq Ids' /\ UNCHANGED watermark
      /\ \A i \in Ids: outbox'[i] = outbox[i]
      /\ \A i \in Ids' \ Ids: outbox'[i] = Row(k, s) /\ \A j \in Ids: j < i
      /\ Inserts(k) => Len(outbox') \in Ids' \ Ids
  BY InsertRows DEF TypeOK, Insert
<1>2. /\ Row(k, s).status = s /\ ~Row(k, s).claimed /\ ~Row(k, s).late BY DEF Row
<1>3. Ids \subseteq Nat \ {0} /\ Ids' \subseteq Nat \ {0}
  <2>1. outbox' \in Seq(Rows) BY <1>1 DEF OutboxTypeOK
  <2>2. Ids' = 1..Len(outbox') /\ Len(outbox') \in Nat BY <2>1, LenProperties DEF Ids
  <2> QED BY <2>2, IdsFacts
<1>b. ASSUME NEW n \in {0} \cup Ids, NEW i \in Ids', i <= n PROVE i \in Ids
  <2>1. CASE n = 0 BY <1>3, <1>b, <2>1
  <2>2. CASE n \in Ids /\ i \notin Ids
    <3>1. n < i BY <1>1, <2>2
    <3> QED BY <1>3, <1>b, <2>2, <3>1
  <2> QED BY <2>1, <2>2
<1>4. \A i \in Ids': i <= watermark => i \in Ids
  BY <1>b, IdsFacts
<1>5. RowsInv'
  <2>1. \A i \in Ids': outbox'[i].claimed => outbox'[i].status # "open"
    BY <1>1, <1>2 DEF BatchInv, RowsInv
  <2>2. \A i \in Ids': outbox'[i].status = "deleted" /\ ~outbox'[i].late => outbox'[i].handled
    BY <1>1, <1>2 DEF BatchInv, RowsInv
  <2>3. PassedIsHandled' BY <1>1, <1>4 DEF BatchInv, RowsInv, PassedIsHandled
  <2>4. watermark' # 0 => outbox'[watermark'].claimed BY <1>1, IdsFacts DEF BatchInv, RowsInv
  <2>5. tx'.row # 0 => outbox'[tx'.row].status = "open"
    <3>1. CASE UNCHANGED tx BY <1>1, <3>1, IdsFacts DEF BatchInv, RowsInv
    <3>2. CASE s = "open" /\ tx'.row = IF Inserts(k) THEN Len(outbox') ELSE 0
      BY <1>1, <1>2, <3>2
    <3> QED BY <3>1, <3>2
  <2> QED BY <2>1, <2>2, <2>3, <2>4, <2>5 DEF RowsInv
<1>6. ASSUME NEW v \in Workers PROVE BatchOf(job[v])'
  <2>1. job[v].last \in {0} \cup Ids /\ BatchOf(job[v]) BY IdsFacts DEF BatchInv
  <2>2. \A i \in Ids': i <= job[v].last => i \in Ids BY <1>b, <2>1
  <2> QED BY <1>1, <2>1, <2>2 DEF BatchOf, Ripe
<1> QED BY <1>5, <1>6 DEF BatchInv

\* A row that commits is late or lies after every batch and the watermark.
LEMMA CommitBatch ==
    ASSUME TypeOK, BatchInv, tx.row # 0, Commit(tx.row), tx'.row = 0, UNCHANGED job
    PROVE  BatchInv'
<1> PICK e: e = tx.row OBVIOUS
<1>1. e \in Ids /\ outbox[e].status = "open" BY IdsFacts DEF BatchInv, RowsInv
<1>2. OutboxTypeOK' /\ Ids' = Ids /\ UNCHANGED watermark BY CommitRows DEF TypeOK, Commit
<1>3. \A i \in Ids \ {e}: outbox'[i] = outbox[i] BY CommitRows DEF TypeOK
<1>4. /\ outbox'[e].status = "committed" /\ outbox'[e].claimed = outbox[e].claimed
      /\ (\E j \in Ids: j > e /\ outbox[j].claimed) => outbox'[e].late
  BY <1>1, CommitRows DEF TypeOK
<1>5. ASSUME NEW n \in {0} \cup Ids, n # 0 => outbox[n].claimed, e <= n PROVE outbox'[e].late
  <2>1. n # 0 /\ n # e BY <1>1, <1>5, IdsFacts DEF BatchInv, RowsInv
  <2>2. n \in Ids /\ n > e /\ outbox[n].claimed BY <1>1, <1>5, <2>1, IdsFacts
  <2> QED BY <1>4, <2>2
<1>6. RowsInv'
  <2>1. \A i \in Ids': outbox'[i].claimed => outbox'[i].status # "open"
    BY <1>2, <1>3, <1>4 DEF BatchInv, RowsInv
  <2>2. \A i \in Ids': outbox'[i].status = "deleted" /\ ~outbox'[i].late => outbox'[i].handled
    BY <1>2, <1>3, <1>4 DEF BatchInv, RowsInv
  <2>3. PassedIsHandled'
    BY <1>1, <1>2, <1>3, <1>5, IdsFacts DEF BatchInv, RowsInv, PassedIsHandled
  <2>4. watermark' # 0 => outbox'[watermark'].claimed
    BY <1>2, <1>3, <1>4, IdsFacts DEF BatchInv, RowsInv
  <2> QED BY <2>1, <2>2, <2>3, <2>4 DEF RowsInv
<1>7. ASSUME NEW v \in Workers PROVE BatchOf(job[v])'
  <2>1. job[v].last \in {0} \cup Ids /\ BatchOf(job[v]) BY IdsFacts DEF BatchInv
  <2>2. job[v].last # 0 => outbox'[job[v].last].claimed BY <1>3, <1>4, <2>1 DEF BatchOf
  <2>3. ASSUME NEW i \in Ids, i <= job[v].last, outbox'[i].status # "open", ~outbox'[i].late
        PROVE  outbox'[i].handled \/ i \in job[v].todo
    BY <1>3, <1>5, <2>1, <2>3 DEF BatchOf, Ripe
  <2> QED BY <1>2, <2>1, <2>2, <2>3 DEF BatchOf, Ripe
<1> QED BY <1>6, <1>7 DEF BatchInv

\* A step whose job carries the batch on.
LEMMA CarriesOn ==
    ASSUME TypeOK, BatchInv, UNCHANGED <<outboxVars, tx>>, NEW w \in Workers,
           NEW s \in Steps \ {"list", "watermark", "cleanup"}, NEW j, Carries(j, w, s), Goes(w, j)
    PROVE  BatchInv'
BY GoesOn DEF Carries

\* A step that ends all work, or begins work that polls nothing.
LEMMA NoBatch ==
    ASSUME TypeOK, BatchInv, UNCHANGED <<outboxVars, tx>>, NEW w \in Workers, NEW j,
           j.todo = {}, j.last = 0, Goes(w, j)
    PROVE  BatchInv'
<1>1. BatchOf(j) BY IdsFacts DEF BatchOf
<1> QED BY <1>1, JobBatch

LEMMA BatchStart ==
    ASSUME TypeOK, BatchInv, NEW p \in Workers, StartPoll(p)
    PROVE  BatchInv'
<1> DEFINE j == [Idle EXCEPT !.pc = "list", !.last = watermark]
<1>1. j.pc = "list" /\ j.todo = {} /\ j.last = watermark BY DEF Idle
<1> HIDE DEF j
<1>2. BatchOf(j) BY <1>1 DEF BatchOf, BatchInv, RowsInv, PassedIsHandled, Ripe
<1> QED BY <1>2, JobBatch DEF StartPoll, dbVars, j

LEMMA BatchList ==
    ASSUME TypeOK, BatchInv, NEW p \in Workers, ListEvents(p)
    PROVE  BatchInv'
<1> PICK batch: batch = After(job[p].last) OBVIOUS
<1>x. UNCHANGED tx BY DEF ListEvents, dbVars
<1>1. CASE Fails(p) BY <1>1, <1>x, FailsBatch
<1>2. ASSUME Claim(batch), NEW last \in batch, \A i \in batch: i <= last,
             Goes(p, [Idle EXCEPT !.pc = "next", !.todo = batch, !.last = last])
      PROVE  BatchInv'
  <2>0. /\ batch \subseteq Ids /\ \A i \in batch: outbox[i].status = "committed"
        /\ \A i \in Ids: outbox[i].status = "committed" /\ i > job[p].last => i \in batch
    BY DEF After
  <2> PICK n: n = [Idle EXCEPT !.pc = "next", !.todo = batch, !.last = last] OBVIOUS
  <2>1. n.pc = "next" /\ n.todo = batch /\ n.last = last BY DEF Idle
  <2>2. /\ OutboxTypeOK' /\ Ids' = Ids /\ UNCHANGED watermark
        /\ \A i \in Ids: outbox'[i] = IF i \in batch THEN [outbox[i] EXCEPT !.claimed = TRUE] ELSE outbox[i]
    BY <1>2, ClaimRows DEF TypeOK, Claim
  <2>3. \A i \in Ids: /\ outbox'[i].status = outbox[i].status /\ outbox'[i].late = outbox[i].late
                      /\ outbox'[i].handled = outbox[i].handled
                      /\ (outbox[i].claimed => outbox'[i].claimed)
                      /\ (i \in batch => outbox'[i].claimed)
                      /\ (i \notin batch => outbox'[i].claimed = outbox[i].claimed)
    <3>1. \A i \in Ids: outbox[i] \in Rows BY IdsFacts
    <3>2. ASSUME NEW i \in Ids
          PROVE  /\ outbox'[i] = IF i \in batch THEN [outbox[i] EXCEPT !.claimed = TRUE] ELSE outbox[i]
                 /\ outbox[i] \in Rows
      BY <2>2, <3>1
    <3>3. ASSUME NEW i \in Ids, i \in batch
          PROVE  /\ outbox'[i].status = outbox[i].status /\ outbox'[i].late = outbox[i].late
                 /\ outbox'[i].handled = outbox[i].handled /\ outbox'[i].claimed
      BY <3>2, <3>3 DEF Rows
    <3>4. ASSUME NEW i \in Ids, i \notin batch PROVE outbox'[i] = outbox[i]
      BY <3>2, <3>4
    <3> QED BY <3>3, <3>4
  <2>4. Keeps BY <1>x, <2>2, <2>3 DEF Keeps
  <2>5. RowsInv'
    <3>1. \A i \in Ids: outbox'[i].claimed => outbox[i].claimed \/ outbox[i].status # "open"
      BY <2>0, <2>3
    <3>2. \A i \in Ids: outbox'[i].status = "deleted" /\ ~outbox[i].late =>
                          outbox[i].status = "deleted" \/ outbox[i].handled
      BY <2>3
    <3> QED BY <2>4, <3>1, <3>2, KeepsRows DEF BatchInv
  <2>6. BatchOf(job[p]) /\ job[p].todo = {} BY DEF BatchInv, BatchOf, ListEvents, At
  <2>7. ASSUME NEW i \in Ids, i <= last, outbox'[i].status # "open", ~outbox'[i].late
        PROVE  outbox'[i].handled \/ i \in batch
    <3>1. outbox[i].status \in {"committed", "deleted"} /\ ~outbox[i].late
      BY <2>3, <2>7, IdsFacts DEF Rows
    <3>2. CASE outbox[i].status = "deleted" BY <2>3, <3>1, <3>2 DEF BatchInv, RowsInv
    <3>3. CASE outbox[i].status = "committed" /\ i <= job[p].last
      BY <2>3, <2>6, <3>1, <3>3 DEF BatchOf, Ripe
    <3>4. CASE outbox[i].status = "committed" /\ ~(i <= job[p].last)
      <4>1. i > job[p].last BY <3>4, IdsFacts
      <4> QED BY <2>0, <3>4, <4>1
    <3> QED BY <3>1, <3>2, <3>3, <3>4
  <2>8. BatchOf(n)' BY <1>2, <2>0, <2>1, <2>2, <2>3, <2>7 DEF BatchOf, Ripe
  <2> QED BY <1>2, <2>4, <2>5, <2>8, OneBatch
<1> QED BY <1>1, <1>2 DEF ListEvents

LEMMA BatchWatermark ==
    ASSUME TypeOK, BatchInv, NEW p \in Workers, AdvanceWatermark(p)
    PROVE  BatchInv'
<1> PICK n: n = Set(p, "cleanup") OBVIOUS
<1>1. /\ n.pc = "cleanup" /\ n.todo = job[p].todo /\ n.last = job[p].last
  BY SetFields DEF Steps
<1>2. watermark' = job[p].last /\ UNCHANGED <<outbox, tx>> /\ Goes(p, n)
  BY DEF AdvanceWatermark, SetWatermark, dbVars
<1>3. BatchOf(job[p]) /\ job[p].todo = {} BY DEF BatchInv, BatchOf, AdvanceWatermark, At
<1>4. RowsInv'
  BY <1>2, <1>3 DEF BatchInv, RowsInv, BatchOf, Ripe, PassedIsHandled, Ids
<1>5. job' = [job EXCEPT ![p] = n] /\ job \in [Workers -> Jobs(Ids)] BY <1>2 DEF Goes, TypeOK
<1>6. ASSUME NEW v \in Workers PROVE BatchOf(job[v])'
  <2>1. CASE v = p BY <1>1, <1>2, <1>3, <1>5, <2>1 DEF BatchOf, Ripe, Ids
  <2>2. CASE v # p
    <3>1. job'[v] = job[v] /\ BatchOf(job[v]) BY <1>5, <2>2 DEF BatchInv
    <3> QED BY <1>2, <3>1 DEF BatchOf, Ripe, Ids
  <2> QED BY <2>1, <2>2
<1> QED BY <1>4, <1>6 DEF BatchInv

LEMMA BatchCleanup ==
    ASSUME TypeOK, BatchInv, NEW p \in Workers, CleanupConsumed(p)
    PROVE  BatchInv'
<1>1. PICK upto \in 0..job[p].last: DeleteConsumed(upto) BY DEF CleanupConsumed
<1>2. UNCHANGED <<watermark, tx>> /\ Goes(p, Idle) BY <1>1 DEF CleanupConsumed, DeleteConsumed, dbVars
<1>3. /\ OutboxTypeOK' /\ Ids' = Ids
      /\ \A i \in Ids: outbox'[i] = IF i <= upto /\ outbox[i].status = "committed"
                                     THEN [outbox[i] EXCEPT !.status = "deleted"] ELSE outbox[i]
  BY <1>1, DeleteRows DEF TypeOK
<1>4. \A i \in Ids: /\ outbox'[i].late = outbox[i].late /\ outbox'[i].handled = outbox[i].handled
                    /\ outbox'[i].claimed = outbox[i].claimed
                    /\ \/ outbox'[i].status = outbox[i].status
                       \/ /\ i <= upto /\ outbox[i].status = "committed"
                          /\ outbox'[i].status = "deleted"
  BY <1>3, IdsFacts DEF Rows
<1>5. Keeps BY <1>2, <1>3, <1>4 DEF Keeps
<1>6. BatchOf(job[p]) /\ job[p].todo = {} BY DEF BatchInv, BatchOf, CleanupConsumed, At
<1>7. ASSUME NEW i \in Ids, outbox'[i].status = "deleted", ~outbox[i].late
      PROVE  outbox[i].status = "deleted" \/ outbox[i].handled
  <2>1. CASE i <= upto /\ outbox[i].status = "committed"
    <3>1. i <= job[p].last BY <2>1, IdsFacts
    <3> QED BY <1>6, <1>7, <2>1, <3>1 DEF BatchOf, Ripe
  <2> QED BY <1>4, <1>7, <2>1
<1>8. \A i \in Ids: outbox'[i].claimed => outbox[i].claimed BY <1>4
<1>9. RowsInv' BY <1>5, <1>7, <1>8, KeepsRows DEF BatchInv
<1>10. Idle.last \in {0} \cup Ids BY DEF Idle
<1>11. BatchOf(Idle)' BY <1>5, <1>10, IdleBatch, KeepsBatch
<1> QED BY <1>2, <1>5, <1>9, <1>11, OneBatch

LEMMA BatchCapture ==
    ASSUME TypeOK, BatchInv, NEW w \in Workers, UNCHANGED <<outboxVars, tx>>,
           \/ Goes(w, [Set(w, "lock") EXCEPT !.token = Captured])
           \/ Goes(w, [Idle EXCEPT !.pc = "load", !.token = Captured])
    PROVE  BatchInv'
<1>1. CASE Goes(w, [Set(w, "lock") EXCEPT !.token = Captured])
  <2>1. "lock" \in Steps \ {"list", "watermark", "cleanup"} BY DEF Steps
  <2> QED BY <1>1, <2>1, SameBatch, CarriesOn
<1>2. CASE Goes(w, [Idle EXCEPT !.pc = "load", !.token = Captured])
  <2>1. LET a == [Idle EXCEPT !.pc = "load", !.token = Captured] IN a.todo = {} /\ a.last = 0
    BY DEF Idle
  <2> QED BY <1>2, <2>1, NoBatch
<1> QED BY <1>1, <1>2

LEMMA BatchPoll ==
    ASSUME TypeOK, BatchInv, NEW p \in Workers,
           \/ StartPoll(p) \/ ListEvents(p) \/ SkipSeen(p) \/ CaptureAccount(p)
           \/ AdvanceWatermark(p) \/ CleanupConsumed(p)
    PROVE  BatchInv'
<1>1. CASE SkipSeen(p) BY <1>1, SucceedsBatch DEF SkipSeen, dbVars
<1>2. CASE CaptureAccount(p) BY <1>2, SucceedsBatch, BatchCapture DEF CaptureAccount, dbVars
<1> QED BY <1>1, <1>2, BatchStart, BatchList, BatchWatermark, BatchCleanup

LEMMA BatchFull ==
    ASSUME TypeOK, BatchInv, NEW f \in Workers, StartFull(f) \/ ListGroups(f) \/ CaptureFull(f)
    PROVE  BatchInv'
<1>1. CASE StartFull(f)
  <2>1. LET a == [Idle EXCEPT !.pc = "groups", !.flag = registered] IN a.todo = {} /\ a.last = 0
    BY DEF Idle
  <2> QED BY <1>1, <2>1, NoBatch DEF StartFull, dbVars
<1>s. {"capture", "lease"} \subseteq Steps \ {"list", "watermark", "cleanup"} BY DEF Steps
<1>i. Idle.todo = {} /\ Idle.last = 0 BY DEF Idle
<1>2. CASE ListGroups(f) BY <1>2, <1>s, <1>i, SameBatch, CarriesOn, NoBatch DEF ListGroups, dbVars
<1>3. CASE CaptureFull(f)
  BY <1>3, <1>s, SameBatch, CarriesOn, BatchCapture DEF CaptureFull, dbVars
<1> QED BY <1>1, <1>2, <1>3

LEMMA BatchLifecycle ==
    ASSUME TypeOK, BatchInv, NEW w \in Workers, Lifecycle(w)
    PROVE  BatchInv'
<1>s. {"decide", "apply", "lock"} \subseteq Steps \ {"list", "watermark", "cleanup"} BY DEF Steps
<1>1. CASE AcquireLease(w) BY <1>1, <1>s, SameBatch, CarriesOn DEF AcquireLease, dbVars
<1>2. CASE LeaseBusy(w) BY <1>2, FailsBatch DEF LeaseBusy, dbVars
<1>3. CASE ReadGroup(w) BY <1>3, <1>s, SameBatch, CarriesOn DEF ReadGroup, dbVars
<1>4. CASE Reopen(w) BY <1>4, <1>s, SameBatch, CarriesOn DEF Reopen, dbVars
<1>5. CASE Retire(w) BY <1>5, SucceedsBatch DEF Retire, dbVars
<1> QED BY <1>1, <1>2, <1>3, <1>4, <1>5 DEF Lifecycle

LEMMA BatchRebuild ==
    ASSUME TypeOK, BatchInv, NEW w \in Workers, Rebuild(w)
    PROVE  BatchInv'
<1>s. {"load", "allocate", "activate"} \subseteq Steps \ {"list", "watermark", "cleanup"} BY DEF Steps
<1>1. CASE TakeLock(w) BY <1>1, <1>s, SameBatch, CarriesOn DEF TakeLock, dbVars
<1>2. CASE LockBusy(w) BY <1>2, YieldsBatch DEF LockBusy, dbVars
<1>3. CASE LoadAccounts(w) BY <1>3, <1>s, SameBatch, CarriesOn DEF LoadAccounts, dbVars
<1>4. CASE Allocate(w) BY <1>4, <1>s, SameBatch, CarriesOn DEF Allocate, dbVars
<1>5. CASE Publish(w) BY <1>5, SucceedsBatch DEF Publish, dbVars
<1>6. CASE Fenced(w) BY <1>6, YieldsBatch DEF Fenced, dbVars
<1> QED BY <1>1, <1>2, <1>3, <1>4, <1>5, <1>6 DEF Rebuild

\* Neither rows, jobs, watermark nor the transaction change.
LEMMA BatchStill ==
    ASSUME TypeOK, BatchInv, UNCHANGED <<outboxVars, tx, job>>
    PROVE  BatchInv'
<1>1. RowsInv' BY SameRows DEF BatchInv
<1>2. ASSUME NEW v \in Workers PROVE BatchOf(job[v])'
  BY DEF BatchInv, BatchOf, Ripe, outboxVars, Ids
<1> QED BY <1>1, <1>2 DEF BatchInv

LEMMA BatchDatabase == TypeOK /\ BatchInv /\ Database => BatchInv'
<1> SUFFICES ASSUME TypeOK, BatchInv, Database PROVE BatchInv'
    OBVIOUS
<1>1. CASE ChangeAccounts BY <1>1, BatchStill DEF ChangeAccounts
<1>2. CASE SwitchGroup BY <1>2, BatchStill DEF SwitchGroup
<1>3. CASE InsertInTx
  <2>1. Insert("account", "open") /\ UNCHANGED job /\ "account" \in Kinds
    BY <1>3, KindsAssumption DEF InsertInTx
  <2>2. tx'.row = IF Inserts("account") THEN Len(outbox') ELSE 0 BY <1>3 DEF InsertInTx
  <2> QED BY <2>1, <2>2, InsertBatch
<1>4. CASE CommitTx
  <2>0. tx'.row = 0 BY <1>4 DEF CommitTx, NoTx
  <2>1. CASE tx.row # 0 BY <1>4, <2>0, <2>1, CommitBatch DEF CommitTx
  <2>2. CASE tx.row = 0
    <3>1. RowsInv' BY <1>4, <2>0, <2>2 DEF CommitTx, outboxVars, BatchInv, RowsInv, PassedIsHandled, Ids
    <3>2. ASSUME NEW v \in Workers PROVE BatchOf(job[v])'
      BY <1>4, <2>2 DEF CommitTx, BatchInv, BatchOf, Ripe, outboxVars, Ids
    <3> QED BY <3>1, <3>2 DEF BatchInv
  <2> QED BY <2>1, <2>2
<1>5. ASSUME NEW k \in Kinds, Enqueue(k) PROVE BatchInv' BY <1>5, InsertBatch DEF Enqueue
<1> QED BY <1>1, <1>2, <1>3, <1>4, <1>5 DEF Database

LEMMA BatchEnvironment == TypeOK /\ BatchInv /\ Environment => BatchInv'
<1> SUFFICES ASSUME TypeOK, BatchInv, Environment PROVE BatchInv'
    OBVIOUS
<1>1. ASSUME LockExpires \/ LockExpiresEarly \/ LeaseExpires PROVE BatchInv'
  BY <1>1, BatchStill DEF LockExpires, LockExpiresEarly, LeaseExpires, dbVars
<1>2. ASSUME NEW w \in Workers, Crash(w) \/ StepFails(w) PROVE BatchInv'
  BY <1>2, FailsBatch DEF Crash, StepFails, dbVars
<1>3. ASSUME NEW k \in Kinds, EnqueueFails(k) PROVE BatchInv' BY <1>3, BatchStill DEF EnqueueFails
<1> QED BY <1>1, <1>2, <1>3 DEF Environment

LEMMA NextBatch == TypeOK /\ BatchInv /\ [Next]_vars => BatchInv'
<1> SUFFICES ASSUME TypeOK, BatchInv, [Next]_vars PROVE BatchInv'
    OBVIOUS
<1>w. Pollers \subseteq Workers /\ Rebuilders \subseteq Workers /\ Readers \subseteq Workers
  BY DEF Workers
<1>1. CASE Database BY <1>1, BatchDatabase
<1>2. ASSUME NEW p \in Pollers, Poll(p) PROVE BatchInv'
  BY <1>2, <1>w, BatchPoll, BatchLifecycle, BatchRebuild DEF Poll
<1>3. ASSUME NEW f \in Rebuilders, Full(f) PROVE BatchInv'
  BY <1>3, <1>w, BatchFull, BatchLifecycle, BatchRebuild DEF Full
<1>4. ASSUME NEW r \in Readers, CaptureMiss(r) \/ Rebuild(r) PROVE BatchInv'
  BY <1>4, <1>w, BatchCapture, BatchRebuild DEF CaptureMiss, dbVars
<1>5. CASE Environment BY <1>5, BatchEnvironment
<1>6. CASE UNCHANGED vars BY <1>6, BatchStill DEF vars, dbVars
<1> QED BY <1>1, <1>2, <1>3, <1>4, <1>5, <1>6 DEF Next

\* No event below the watermark has been left unhandled, however many instances poll and
\* move the watermark and whichever of their steps fail, but for those that committed
\* after a later event was polled (pollOutbox, SetOutboxWatermark, DeleteConsumedUpTo).
THEOREM PassedEventsHandled == Spec => []PassedIsHandled
<1>1. BatchInv => PassedIsHandled BY DEF BatchInv, RowsInv
<1> QED BY <1>1, InitBatch, NextBatch, TypeCorrect, PTL DEF Spec

-----------------------------------------------------------------------------
(* The lifecycle. *)

First(ids) == CHOOSE i \in ids: \A j \in ids: i <= j

\* A set of ids has a smallest one.
LEMMA FirstIn ==
    ASSUME NEW ids \in SUBSET Nat, ids # {}
    PROVE  First(ids) \in ids /\ \A j \in ids: First(ids) <= j
<1>1. PICK i \in ids: \A j \in ids: <<j, i>> \notin OpToRel(<, Nat)
  BY NatLessThanWellFounded, WFMin
<1>2. \A j \in ids: ~(j < i) BY <1>1 DEF OpToRel
<1>3. \A j \in ids: i <= j BY <1>2
<1> QED BY <1>3 DEF First

LEMMA EventIsFirst ==
    ASSUME NEW w
    PROVE  Event(w) = First(job[w].todo)
BY DEF Event, First

\* A job that has read the group's status for an event of the group, and what it is going
\* to make of the bucket is what that status asks for.
Decided == {"apply"} \cup Writing
Bound(j) == j.todo # {} /\ outbox[First(j.todo)].kind = "group" /\ j.pc \in Decided
Right(j) == IF j.pc = "apply" THEN j.flag = groupActive ELSE groupActive /\ ~retired

\* The job will skip i; it handles i, now or by skipping it, with the status it has read.
Skips(j, i) == i \in j.todo /\ "group" \in j.seen
Decides(j, i) == i \in j.todo /\ Bound(j)

\* An event of the group that nobody skips; one for which the status is read again; one
\* for which nobody goes by a status that has changed since.
Call(i) ==
    /\ outbox[i].kind = "group" /\ ~outbox[i].handled
    /\ \A w \in Workers: ~Skips(job[w], i)
WillRead(i) == Call(i) /\ \A w \in Workers: ~Decides(job[w], i)
Promised(i) == Call(i) /\ \A w \in Workers: Decides(job[w], i) => Right(job[w])

Unsettled == owed["group"] > 0 \/ lost
Applied == IF groupActive THEN ~retired /\ published # NoSnapshot ELSE retired

\* What a goroutine does for an event: the lifecycle only for one of the group that it
\* has not seen in the batch, and a rebuild for such an event is strict.
Works(j) ==
    /\ j.pc \in {"decide", "apply"} /\ j.todo # {} =>
          outbox[First(j.todo)].kind = "group" /\ "group" \notin j.seen
    /\ Bound(j) => "group" \notin j.seen /\ (j.pc \in Writing => j.strict)
    /\ j.pc \in {"groups", "capture", "lease"} => j.todo = {}
    /\ \A i \in j.todo: outbox[i].claimed

LeaseHeld == \A w \in Workers: InLease(w) => lease = w
StatusRead == \A w \in Workers: At(w, "apply") => job[w].flag = groupActive

LifeInv ==
    /\ LeaseHeld
    /\ \A w \in Workers: Works(job[w])
    /\ \A i \in Ids: outbox[i].handled => outbox[i].claimed
    /\ Unsettled \/ (\E i \in Ids: WillRead(i)) \/ StatusRead
    /\ flips = 0 \/ Unsettled \/ Applied \/ \E i \in Ids: Promised(i)

LEMMA InitLife == Init => LifeInv
<1> SUFFICES ASSUME Init PROVE LifeInv
    OBVIOUS
<1>1. \A w \in Workers: job[w].pc = "idle" /\ job[w].todo = {} BY DEF Init, Idle
<1>2. Ids = {} /\ flips = 0 BY DEF Init, OutboxInit, Ids
<1>3. LeaseHeld /\ StatusRead BY <1>1 DEF LeaseHeld, InLease, StatusRead, At
<1>4. \A w \in Workers: Works(job[w]) BY <1>1 DEF Works, Bound
<1> QED BY <1>2, <1>3, <1>4 DEF LifeInv

\* Rows keep what a job's duties depend on.
RowsStay ==
    \A i \in Ids: /\ i \in Ids' /\ outbox'[i].kind = outbox[i].kind
                  /\ outbox[i].claimed => outbox'[i].claimed

LEMMA WorksStay ==
    ASSUME TypeOK, RowsStay, NEW j, j.todo \subseteq Ids
    PROVE  /\ Bound(j)' <=> Bound(j)
           /\ \A i: Decides(j, i)' <=> Decides(j, i)
           /\ Works(j) => Works(j)'
<1>1. j.todo # {} => First(j.todo) \in Ids
  <2>1. j.todo \in SUBSET Nat BY IdsFacts
  <2> QED BY <2>1, FirstIn
<1>2. Bound(j)' <=> Bound(j) BY <1>1 DEF Bound, RowsStay
<1>3. \A i: Decides(j, i)' <=> Decides(j, i) BY <1>2 DEF Decides
<1>4. Works(j) => Works(j)' BY <1>1, <1>2 DEF Works, RowsStay
<1> QED BY <1>2, <1>3, <1>4

\* The same of the jobs of the goroutines that did not move.
LEMMA OthersStay ==
    ASSUME TypeOK, LifeInv, RowsStay, NEW v \in Workers, job'[v] = job[v]
    PROVE  Works(job[v])' /\ \A i: Decides(job[v], i)' <=> Decides(job[v], i)
<1> PICK k: k = job[v] OBVIOUS
<1>1. k.todo \subseteq Ids /\ Works(k) BY IdsFacts DEF LifeInv
<1>2. Works(k)' /\ \A i: Decides(k, i)' <=> Decides(k, i) BY <1>1, WorksStay
<1>3. job'[v] = k OBVIOUS
<1>4. Works(job[v])' BY <1>2, <1>3 DEF Works, Bound
<1>5. \A i: Decides(job[v], i)' <=> Decides(k, i)' BY <1>3 DEF Decides, Bound
<1> QED BY <1>2, <1>4, <1>5

-----------------------------------------------------------------------------
(* Steps that change nothing of this but one goroutine's progress. *)

\* The job n takes nothing upon it that the job of w has not.
Eases(w, n) ==
    /\ \A i \in Ids: Skips(n, i) => Skips(job[w], i)
    /\ \A i \in Ids: Decides(n, i) => Decides(job[w], i)
    /\ Bound(n) /\ Right(job[w]) => Right(n)
    /\ n.pc = "apply" => job[w].pc = "apply" /\ n.flag = job[w].flag

LEMMA StepEases ==
    ASSUME TypeOK, LifeInv, RowsStay, Ids' = Ids, LeaseHeld',
           UNCHANGED <<owed, lost, flips, groupActive, retired>>, Applied => Applied',
           NEW w \in Workers, NEW n, Goes(w, n), n.todo \subseteq Ids, Eases(w, n), Works(n)',
           \A i \in Ids: outbox'[i].handled =>
                /\ outbox'[i].claimed
                /\ outbox[i].handled \/ outbox[i].kind # "group" \/ Skips(job[w], i)
    PROVE  LifeInv'
<1>1. job' = [job EXCEPT ![w] = n] /\ job \in [Workers -> Jobs(Ids)] BY DEF Goes, TypeOK
<1>2. ASSUME NEW v \in Workers
      PROVE  /\ Works(job[v])'
             /\ \A i \in Ids: Skips(job[v], i)' => Skips(job[v], i)
             /\ \A i \in Ids: Decides(job[v], i)' =>
                    Decides(job[v], i) /\ (Right(job[v]) => Right(job[v])')
             /\ At(v, "apply")' => At(v, "apply") /\ job'[v].flag = job[v].flag
  <2>1. CASE v = w
    <3>1. job'[v] = n BY <1>1, <2>1
    <3>2. \A i: Decides(job[v], i)' <=> Decides(n, i)'
      BY <3>1 DEF Decides, Bound
    <3>3. \A i: Decides(n, i)' <=> Decides(n, i) BY WorksStay
    <3>4. Works(job[v])' BY <3>1 DEF Works, Bound
    <3>5. \A i \in Ids: Skips(job[v], i)' => Skips(job[v], i) BY <2>1, <3>1 DEF Skips, Eases
    <3>6. Right(n) => Right(job[v])' BY <3>1 DEF Right
    <3>7. \A i: Decides(n, i) => Bound(n) BY DEF Decides
    <3>8. At(v, "apply")' => At(v, "apply") /\ job'[v].flag = job[v].flag
      BY <2>1, <3>1 DEF At, Eases
    <3> QED BY <2>1, <3>2, <3>3, <3>4, <3>5, <3>6, <3>7, <3>8 DEF Eases
  <2>2. CASE v # w
    <3>1. job'[v] = job[v] BY <1>1, <2>2
    <3>2. Works(job[v])' /\ \A i: Decides(job[v], i)' <=> Decides(job[v], i) BY <3>1, OthersStay
    <3>3. Right(job[v]) => Right(job[v])' BY <3>1 DEF Right
    <3> QED BY <3>1, <3>2, <3>3 DEF Skips, At
  <2> QED BY <2>1, <2>2
<1>3. ASSUME NEW i \in Ids, Call(i) PROVE Call(i)'
  BY <1>2, <1>3 DEF Call, RowsStay
<1>4. \A i \in Ids: WillRead(i) => WillRead(i)' BY <1>2, <1>3 DEF WillRead
<1>5. \A i \in Ids: Promised(i) => Promised(i)' BY <1>2, <1>3 DEF Promised
<1>6. StatusRead => StatusRead' BY <1>2 DEF StatusRead
<1>7. Unsettled' <=> Unsettled BY DEF Unsettled
<1> QED BY <1>2, <1>4, <1>5, <1>6, <1>7 DEF LifeInv

\* No goroutine begins or ends a decision.
LEMMA LeaseStays ==
    ASSUME TypeOK, LeaseHeld, NEW w \in Workers, NEW n, Goes(w, n),
           n.pc \in {"decide", "apply"} => InLease(w),
           lease' = lease \/ (n.pc \notin {"decide", "apply"} /\ lease' = IF lease = w THEN Nobody ELSE lease)
    PROVE  LeaseHeld'
<1>1. job' = [job EXCEPT ![w] = n] /\ job \in [Workers -> Jobs(Ids)] BY DEF Goes, TypeOK
<1> QED BY <1>1 DEF LeaseHeld, InLease

\* The outbox, its debts and the bucket stay as they are.
Apart == UNCHANGED <<owed, lost, flips, groupActive, retired, published>>

LEMMA ApartApplied == Apart => UNCHANGED <<owed, lost, flips, groupActive, retired>> /\ (Applied => Applied')
BY DEF Apart, Applied

LEMMA SameOutbox ==
    ASSUME TypeOK, LifeInv, UNCHANGED outboxVars
    PROVE  /\ RowsStay /\ Ids' = Ids
           /\ \A i \in Ids: outbox'[i].handled => outbox'[i].claimed /\ outbox[i].handled
BY DEF RowsStay, outboxVars, LifeInv, Ids

LEMMA IdleWorks ==
    ASSUME NEW w \in Workers
    PROVE  Idle.todo = {} /\ Eases(w, Idle) /\ Works(Idle)' /\ Idle.pc = "idle"
BY DEF Idle, Eases, Works, Bound, Skips, Decides

LEMMA FailsLife ==
    ASSUME TypeOK, LifeInv, Apart, NEW w \in Workers, Fails(w),
           lease' = lease \/ lease' = IF lease = w THEN Nobody ELSE lease
    PROVE  LifeInv'
<1>1. Goes(w, Idle) /\ UNCHANGED outboxVars BY DEF Fails
<1>2. LeaseHeld' BY <1>1, IdleWorks, LeaseStays DEF LifeInv
<1> QED BY <1>1, <1>2, ApartApplied, SameOutbox, IdleWorks, StepEases

\* The end of work for an event that is not the group's or that is skipped.
LEMMA SucceedsLife ==
    ASSUME TypeOK, LifeInv, NEW w \in Workers, Succeeds(w), LeaseHeld',
           UNCHANGED <<owed, lost, flips, groupActive, retired>>, Applied => Applied',
           job[w].todo # {} => Kind(w) # "group" \/ "group" \in job[w].seen
    PROVE  LifeInv'
<1>1. CASE job[w].todo = {}
  <2>1. Goes(w, Idle) /\ UNCHANGED outboxVars BY <1>1 DEF Succeeds
  <2> QED BY <2>1, SameOutbox, IdleWorks, StepEases
<1>2. CASE job[w].todo # {}
  <2> PICK e: e = Event(w) OBVIOUS
  <2> PICK n: n = NextEvent(w, Rebuilt(w)) OBVIOUS
  <2>1. Handled(e) /\ Goes(w, n) BY <1>2 DEF Succeeds
  <2>2. /\ OutboxTypeOK' /\ Ids' = Ids
        /\ \A i \in Ids: outbox'[i] = IF i = e THEN [outbox[i] EXCEPT !.handled = TRUE] ELSE outbox[i]
    BY <2>1, HandledRows DEF TypeOK
  <2>3. \A i \in Ids: /\ outbox'[i].kind = outbox[i].kind /\ outbox'[i].claimed = outbox[i].claimed
                      /\ outbox'[i].handled = (outbox[i].handled \/ i = e)
    BY <2>2, IdsFacts DEF Rows
  <2>4. /\ n.pc \in {"watermark", "next"}
        /\ n.todo = job[w].todo \ {e} /\ n.seen = job[w].seen \cup Rebuilt(w)
    BY KindsAssumption, NextEventTyped DEF Rebuilt
  <2>5. e \in job[w].todo
    <3>1. job[w].todo \in SUBSET Nat BY IdsFacts
    <3> QED BY <1>2, <3>1, EventIsFirst, FirstIn
  <2>6. job[w].todo \subseteq Ids /\ Works(job[w]) BY IdsFacts DEF LifeInv
  <2>7. RowsStay BY <2>2, <2>3 DEF RowsStay
  <2>8. Kind(w) # "group" \/ Skips(job[w], e) BY <1>2, <2>5 DEF Skips
  <2>9. ASSUME NEW i \in Ids, outbox'[i].handled
        PROVE  /\ outbox'[i].claimed
               /\ outbox[i].handled \/ outbox[i].kind # "group" \/ Skips(job[w], i)
    BY <2>3, <2>5, <2>6, <2>8, <2>9 DEF Works, LifeInv, Kind
  <2>10. ~Bound(n) BY <2>4 DEF Bound, Decided, Writing
  <2>11. "group" \in n.seen => "group" \in job[w].seen BY <1>2, <2>4 DEF Rebuilt
  <2>12. Eases(w, n) BY <2>4, <2>10, <2>11 DEF Eases, Skips, Decides
  <2>13. ~Bound(n)' BY <2>4 DEF Bound, Decided, Writing
  <2>14. Works(n)' BY <2>3, <2>4, <2>6, <2>13 DEF Works
  <2>15. n.todo \subseteq Ids BY <2>4, <2>6
  <2> QED BY <2>1, <2>2, <2>7, <2>9, <2>12, <2>14, <2>15, StepEases
<1> QED BY <1>1, <1>2

\* The jobs of the steps that stay with the event.
Follows(r, w, s) == r.pc = s /\ r.todo = job[w].todo /\ r.seen = job[w].seen
Strictly(r, strict) == r.strict = strict

LEMMA SameWork ==
    ASSUME TypeOK, NEW w \in Workers, NEW s \in Steps
    PROVE  /\ Follows(Set(w, s), w, s) /\ Strictly(Set(w, s), job[w].strict)
           /\ \A x: Follows([Set(w, s) EXCEPT !.token = x], w, s)
           /\ \A x: Strictly([Set(w, s) EXCEPT !.token = x], job[w].strict)
           /\ \A x: Follows([Set(w, s) EXCEPT !.held = x], w, s)
           /\ \A x: Strictly([Set(w, s) EXCEPT !.held = x], job[w].strict)
           /\ \A x, y: Follows([Set(w, s) EXCEPT !.data = x, !.life = y], w, s)
           /\ \A x, y: Strictly([Set(w, s) EXCEPT !.data = x, !.life = y], job[w].strict)
           /\ \A x: Follows([Set(w, s) EXCEPT !.flag = x], w, s)
           /\ \A x: [Set(w, s) EXCEPT !.flag = x].flag = x
           /\ \A x: Follows([Set(w, s) EXCEPT !.strict = TRUE, !.token = x], w, s)
           /\ \A x: Strictly([Set(w, s) EXCEPT !.strict = TRUE, !.token = x], TRUE)
<1>1. Set(w, s) \in Jobs(Ids) /\ job[w] \in Jobs(Ids) BY StepFacts
<1>2. Follows(Set(w, s), w, s) /\ Strictly(Set(w, s), job[w].strict)
  BY <1>1 DEF Follows, Strictly, Set, Jobs
<1> PICK q: q = Set(w, s) OBVIOUS
<1>3. DOMAIN q = {"pc", "todo", "last", "seen", "flag", "held", "strict", "token", "data", "life"}
  BY <1>1 DEF Jobs
<1>4. /\ \A x: Follows([q EXCEPT !.token = x], w, s)
      /\ \A x: Strictly([q EXCEPT !.token = x], job[w].strict)
      /\ \A x: Follows([q EXCEPT !.held = x], w, s)
      /\ \A x: Strictly([q EXCEPT !.held = x], job[w].strict)
  BY <1>2, <1>3 DEF Follows, Strictly
<1>5. /\ \A x, y: Follows([q EXCEPT !.data = x, !.life = y], w, s)
      /\ \A x, y: Strictly([q EXCEPT !.data = x, !.life = y], job[w].strict)
  BY <1>2, <1>3 DEF Follows, Strictly
<1>6. /\ \A x: Follows([q EXCEPT !.flag = x], w, s)
      /\ \A x: [q EXCEPT !.flag = x].flag = x
  BY <1>2, <1>3 DEF Follows
<1>7. /\ \A x: Follows([q EXCEPT !.strict = TRUE, !.token = x], w, s)
      /\ \A x: Strictly([q EXCEPT !.strict = TRUE, !.token = x], TRUE)
  BY <1>2, <1>3 DEF Follows, Strictly
<1> QED BY <1>2, <1>4, <1>5, <1>6, <1>7

\* A step that stays with the event and does not read the group's status: it rebuilds on,
\* rebuilds for no event of the group, or begins the lifecycle.
LEMMA FollowsLife ==
    ASSUME TypeOK, LifeInv, Apart, UNCHANGED outboxVars, LeaseHeld',
           NEW w \in Workers, NEW s \in Steps \ {"apply"}, NEW n, Follows(n, w, s), Goes(w, n),
           s \in Writing =>
               \/ job[w].pc \in Writing /\ Strictly(n, job[w].strict)
               \/ job[w].todo = {} \/ Kind(w) # "group",
           s = "decide" /\ job[w].todo # {} => Kind(w) = "group" /\ "group" \notin job[w].seen,
           s \in {"groups", "capture", "lease"} => job[w].todo = {}
    PROVE  LifeInv'
<1>1. job[w].todo \subseteq Ids /\ Works(job[w]) BY IdsFacts DEF LifeInv
<1>2. Kind(w) = outbox[First(job[w].todo)].kind BY EventIsFirst DEF Kind
<1>3. ASSUME Bound(n)
      PROVE  /\ Bound(job[w]) /\ job[w].pc \in Writing
             /\ n.strict = job[w].strict /\ n.pc # "apply" /\ job[w].pc # "apply"
  BY <1>2, <1>3 DEF Bound, Follows, Strictly, Decided, Writing
<1>4. Eases(w, n) BY <1>3 DEF Eases, Follows, Skips, Decides, Right
<1>5. Works(n) BY <1>1, <1>2, <1>3 DEF Works, Follows
<1>6. RowsStay /\ Ids' = Ids /\ n.todo \subseteq Ids BY <1>1, SameOutbox DEF Follows
<1>7. Works(n)' BY <1>5, <1>6, WorksStay
<1> QED BY <1>4, <1>6, <1>7, ApartApplied, SameOutbox, StepEases

\* A job that is neither deciding nor busy with an event of the group.
LEMMA FreshLife ==
    ASSUME TypeOK, LifeInv, Apart, UNCHANGED <<outboxVars, lease>>,
           NEW w \in Workers, NEW n, n.todo = {}, n.pc \notin {"decide", "apply"}, Goes(w, n)
    PROVE  LifeInv'
<1>1. Eases(w, n) /\ Works(n)' BY DEF Eases, Works, Bound, Skips, Decides
<1>2. LeaseHeld' BY LeaseStays DEF LifeInv
<1> QED BY <1>1, <1>2, ApartApplied, SameOutbox, StepEases

LEMMA SameLease ==
    ASSUME TypeOK, LifeInv, UNCHANGED lease, NEW w \in Workers, NEW s \in Steps, NEW n,
           n.pc = s, Goes(w, n), s \in {"decide", "apply"} => InLease(w)
    PROVE  LeaseHeld'
BY LeaseStays DEF LifeInv

LEMMA EndLease ==
    ASSUME TypeOK, LifeInv, NEW w \in Workers, Succeeds(w),
           lease' = lease \/ lease' = IF lease = w THEN Nobody ELSE lease
    PROVE  LeaseHeld'
<1>1. Goes(w, Idle) \/ Goes(w, NextEvent(w, Rebuilt(w))) BY DEF Succeeds
<1>2. Idle.pc \notin {"decide", "apply"} BY DEF Idle
<1>3. NextEvent(w, Rebuilt(w)).pc \notin {"decide", "apply"}
  BY KindsAssumption, NextEventTyped DEF Rebuilt
<1> QED BY <1>1, <1>2, <1>3, LeaseStays DEF LifeInv

LEMMA BucketApart ==
    UNCHANGED bucketVars /\ UNCHANGED dbVars /\ UNCHANGED faultVars => Apart
BY DEF bucketVars, keyVars, dbVars, faultVars, Apart

LEMMA CaptureLife ==
    ASSUME TypeOK, LifeInv, NEW w \in Workers, Capture,
           \/ /\ Goes(w, [Set(w, "lock") EXCEPT !.token = Captured])
              /\ job[w].todo = {} \/ Kind(w) # "group"
           \/ Goes(w, [Idle EXCEPT !.pc = "load", !.token = Captured]),
           UNCHANGED <<outboxVars, dbVars, lockVars, faultVars>>
    PROVE  LifeInv'
<1>1. Apart /\ UNCHANGED lease BY DEF Apart, Capture, dbVars, faultVars, lockVars
<1>2. CASE Goes(w, [Set(w, "lock") EXCEPT !.token = Captured]) /\ (job[w].todo = {} \/ Kind(w) # "group")
  <2> PICK n: n = [Set(w, "lock") EXCEPT !.token = Captured] OBVIOUS
  <2>1. "lock" \in Steps \ {"apply"} /\ "lock" \notin {"decide", "apply", "groups", "capture", "lease"} BY DEF Steps
  <2>2. Follows(n, w, "lock") BY <2>1, SameWork
  <2>3. LeaseHeld' BY <1>1, <1>2, <2>1, <2>2, SameLease DEF Follows
  <2> QED BY <1>1, <1>2, <2>1, <2>2, <2>3, FollowsLife
<1>3. CASE Goes(w, [Idle EXCEPT !.pc = "load", !.token = Captured])
  <2> PICK n: n = [Idle EXCEPT !.pc = "load", !.token = Captured] OBVIOUS
  <2>1. n.todo = {} /\ n.pc = "load" BY DEF Idle
  <2> QED BY <1>1, <1>3, <2>1, FreshLife
<1> QED BY <1>2, <1>3

LEMMA PollLife ==
    ASSUME TypeOK, LifeInv, NEW p \in Workers,
           \/ StartPoll(p) \/ ListEvents(p) \/ SkipSeen(p) \/ CaptureAccount(p)
           \/ AdvanceWatermark(p) \/ CleanupConsumed(p)
    PROVE  LifeInv'
<1>a. Apart \/ CaptureAccount(p)
  BY BucketApart DEF StartPoll, ListEvents, SkipSeen, AdvanceWatermark, CleanupConsumed
<1>1. CASE StartPoll(p)
  <2> PICK n: n = [Idle EXCEPT !.pc = "list", !.last = watermark] OBVIOUS
  <2>1. n.todo = {} /\ n.pc = "list" BY DEF Idle
  <2> QED BY <1>1, <2>1, FreshLife, BucketApart DEF StartPoll, lockVars
<1>2. CASE ListEvents(p)
  <2> PICK batch: batch = After(job[p].last) OBVIOUS
  <2>1. CASE Fails(p) BY <1>2, <2>1, BucketApart, FailsLife DEF ListEvents, lockVars
  <2>2. ASSUME Claim(batch), NEW last \in batch,
               Goes(p, [Idle EXCEPT !.pc = "next", !.todo = batch, !.last = last])
        PROVE  LifeInv'
    <3> PICK n: n = [Idle EXCEPT !.pc = "next", !.todo = batch, !.last = last] OBVIOUS
    <3>0. batch \subseteq Ids BY DEF After
    <3>1. n.pc = "next" /\ n.todo = batch /\ n.seen = {} BY DEF Idle
    <3>2. /\ Ids' = Ids
          /\ \A i \in Ids: outbox'[i] = IF i \in batch THEN [outbox[i] EXCEPT !.claimed = TRUE] ELSE outbox[i]
      <4>1. OutboxTypeOK BY DEF TypeOK
      <4> QED BY <2>2, <4>1, ClaimRows
    <3>3. \A i \in Ids: /\ outbox'[i].kind = outbox[i].kind
                        /\ outbox'[i].handled = outbox[i].handled
                        /\ outbox[i].claimed => outbox'[i].claimed
                        /\ i \in batch => outbox'[i].claimed
      BY <3>2, IdsFacts DEF Rows
    <3>4. RowsStay BY <3>2, <3>3 DEF RowsStay
    <3>5. Eases(p, n) BY <3>1 DEF Eases, Skips, Decides, Bound, Decided, Writing
    <3>6. Works(n)' BY <3>0, <3>1, <3>3 DEF Works, Bound, Decided, Writing
    <3>7. LeaseHeld' BY <1>2, <2>2, <3>1, LeaseStays DEF LifeInv, ListEvents, lockVars
    <3>8. Apart BY <1>2, BucketApart DEF ListEvents
    <3> QED BY <2>2, <3>0, <3>1, <3>2, <3>3, <3>4, <3>5, <3>6, <3>7, <3>8, ApartApplied, StepEases DEF LifeInv
  <2> QED BY <1>2, <2>1, <2>2 DEF ListEvents
<1>3. CASE SkipSeen(p)
  <2>1. Apart /\ UNCHANGED lease BY <1>3, BucketApart DEF SkipSeen, lockVars
  <2>2. Succeeds(p) /\ (Kind(p) = "group" => "group" \in job[p].seen) BY <1>3 DEF SkipSeen
  <2> QED BY <2>1, <2>2, EndLease, ApartApplied, SucceedsLife
<1>4. CASE CaptureAccount(p)
  <2>1. Kind(p) # "group" BY <1>4 DEF CaptureAccount
  <2>2. CASE Succeeds(p) /\ UNCHANGED bucketVars
    <3>1. Apart /\ UNCHANGED lease BY <1>4, <2>2, BucketApart DEF CaptureAccount, lockVars
    <3> QED BY <2>1, <2>2, <3>1, EndLease, ApartApplied, SucceedsLife
  <2>3. CASE Capture /\ Goes(p, [Set(p, "lock") EXCEPT !.token = Captured]) /\ UNCHANGED outboxVars
    BY <1>4, <2>1, <2>3, CaptureLife DEF CaptureAccount
  <2> QED BY <1>4, <2>2, <2>3 DEF CaptureAccount
<1>5. CASE AdvanceWatermark(p)
  <2> PICK n: n = Set(p, "cleanup") OBVIOUS
  <2>1. "cleanup" \in Steps BY DEF Steps
  <2>2. Follows(n, p, "cleanup") BY <2>1, SameWork
  <2>3. Goes(p, n) /\ Apart /\ UNCHANGED <<lease, outbox>>
    BY <1>5, BucketApart DEF AdvanceWatermark, SetWatermark, lockVars
  <2>4. RowsStay /\ Ids' = Ids BY <2>3 DEF RowsStay, Ids
  <2>5. job[p].todo \subseteq Ids /\ Works(job[p]) BY IdsFacts DEF LifeInv
  <2>6. Eases(p, n) BY <2>2 DEF Follows, Eases, Skips, Decides, Bound, Decided, Writing
  <2>7. Works(n) BY <2>2, <2>5 DEF Follows, Works, Bound, Decided, Writing
  <2>8. n.todo \subseteq Ids /\ Works(n)' BY <2>2, <2>4, <2>5, <2>7, WorksStay DEF Follows
  <2>9. LeaseHeld' BY <2>1, <2>2, <2>3, SameLease DEF Follows
  <2> QED BY <2>3, <2>4, <2>6, <2>8, <2>9, ApartApplied, StepEases DEF LifeInv
<1>6. CASE CleanupConsumed(p)
  <2>1. PICK upto \in 0..job[p].last: DeleteConsumed(upto) BY <1>6 DEF CleanupConsumed
  <2>2. Goes(p, Idle) /\ Apart /\ UNCHANGED lease BY <1>6, BucketApart DEF CleanupConsumed, lockVars
  <2>3. /\ Ids' = Ids
        /\ \A i \in Ids: outbox'[i] = IF i <= upto /\ outbox[i].status = "committed"
                                       THEN [outbox[i] EXCEPT !.status = "deleted"] ELSE outbox[i]
    BY <2>1, DeleteRows DEF TypeOK
  <2>4. \A i \in Ids: /\ outbox'[i].kind = outbox[i].kind /\ outbox'[i].claimed = outbox[i].claimed
                      /\ outbox'[i].handled = outbox[i].handled
    BY <2>3, IdsFacts DEF Rows
  <2>5. RowsStay BY <2>3, <2>4 DEF RowsStay
  <2>6. LeaseHeld' BY <2>2, IdleWorks, LeaseStays DEF LifeInv
  <2> QED BY <2>2, <2>3, <2>4, <2>5, <2>6, IdleWorks, ApartApplied, StepEases DEF LifeInv
<1> QED BY <1>1, <1>2, <1>3, <1>4, <1>5, <1>6

LEMMA FullLife ==
    ASSUME TypeOK, LifeInv, NEW f \in Workers, StartFull(f) \/ ListGroups(f) \/ CaptureFull(f)
    PROVE  LifeInv'
<1>0. Works(job[f]) BY DEF LifeInv
<1>i. Idle.todo = {} /\ Idle.pc = "idle" BY DEF Idle
<1>s. /\ {"capture", "lease"} \subseteq Steps \ {"apply"}
      /\ {"capture", "lease"} \cap ({"decide", "apply"} \cup Writing) = {}
  BY DEF Steps, Writing
<1>1. CASE StartFull(f)
  <2> PICK n: n = [Idle EXCEPT !.pc = "groups", !.flag = registered] OBVIOUS
  <2>1. n.todo = {} /\ n.pc = "groups" BY DEF Idle
  <2> QED BY <1>1, <2>1, FreshLife, BucketApart DEF StartFull, lockVars
<1>2. ASSUME NEW s \in {"capture", "lease"}, Goes(f, Set(f, s)), job[f].pc \in {"groups", "capture"},
             UNCHANGED <<bucketVars, outboxVars, dbVars, lockVars, faultVars>>
      PROVE  LifeInv'
  <2>1. job[f].todo = {} BY <1>0, <1>2 DEF Works
  <2>2. Follows(Set(f, s), f, s) BY <1>s, <1>2, SameWork
  <2>3. Set(f, s).todo = {} /\ Set(f, s).pc \notin {"decide", "apply"}
    BY <1>s, <2>1, <2>2 DEF Follows
  <2> QED BY <1>2, <2>3, BucketApart, FreshLife DEF lockVars
<1>3. CASE ListGroups(f)
  BY <1>2, <1>3, <1>i, BucketApart, FreshLife DEF ListGroups, At, lockVars
<1>4. CASE CaptureFull(f)
  <2>1. job[f].todo = {} BY <1>0, <1>4 DEF CaptureFull, At, Works
  <2> QED BY <1>2, <1>4, <2>1, CaptureLife DEF CaptureFull, At
<1> QED BY <1>1, <1>3, <1>4

-----------------------------------------------------------------------------
(* Steps of the lifecycle and of a rebuild. *)

\* The job of w becomes n, and the others stay as they are, in what they do and decide.
Alone(w, n) == job'[w] = n /\ \A v \in Workers: v # w => job'[v] = job[v]
WorksAlone(n) == Works(n)' => \A v \in Workers: Works(job[v])'
DecidesAlone(w, n) ==
    /\ \A v \in Workers: \A i: v # w => (Decides(job[v], i)' <=> Decides(job[v], i))
    /\ \A i: Decides(job[w], i)' <=> Decides(n, i)
SkipsAlone(w, n) ==
    n.todo = job[w].todo /\ n.seen = job[w].seen =>
        \A v \in Workers: \A i: Skips(job[v], i)' <=> Skips(job[v], i)
AppliesNot(n) == n.pc # "apply" /\ UNCHANGED groupActive /\ StatusRead => StatusRead'

LEMMA OthersLife ==
    ASSUME TypeOK, LifeInv, RowsStay, NEW w \in Workers, NEW n, n.todo \subseteq Ids, Goes(w, n)
    PROVE  Alone(w, n) /\ WorksAlone(n) /\ DecidesAlone(w, n) /\ SkipsAlone(w, n) /\ AppliesNot(n)
<1>1. job' = [job EXCEPT ![w] = n] /\ job \in [Workers -> Jobs(Ids)] BY DEF Goes, TypeOK
<1>2. job'[w] = n /\ \A v \in Workers: v # w => job'[v] = job[v] BY <1>1
<1>3. ASSUME NEW v \in Workers, v # w
      PROVE  Works(job[v])' /\ \A i: Decides(job[v], i)' <=> Decides(job[v], i)
  BY <1>2, <1>3, OthersStay
<1>4. \A i: Decides(n, i)' <=> Decides(n, i) BY WorksStay
<1>5. \A i: Decides(job[w], i)' <=> Decides(n, i)' BY <1>2 DEF Decides, Bound
<1>6. ASSUME Works(n)', NEW v \in Workers PROVE Works(job[v])'
  <2>1. Works(job[w])' BY <1>2, <1>6 DEF Works, Bound
  <2> QED BY <1>3, <2>1
<1>7. ASSUME n.todo = job[w].todo, n.seen = job[w].seen, NEW v \in Workers, NEW i
      PROVE  Skips(job[v], i)' <=> Skips(job[v], i)
  <2>1. job'[v].todo = job[v].todo /\ job'[v].seen = job[v].seen BY <1>2, <1>7
  <2> QED BY <2>1 DEF Skips
<1>8. n.pc # "apply" /\ UNCHANGED groupActive /\ StatusRead => StatusRead'
  BY <1>2 DEF StatusRead, At
<1>9. Alone(w, n) BY <1>2 DEF Alone
<1>10. WorksAlone(n) BY <1>6 DEF WorksAlone
<1>11. DecidesAlone(w, n) BY <1>3, <1>4, <1>5 DEF DecidesAlone
<1>12. SkipsAlone(w, n) BY <1>7 DEF SkipsAlone
<1>13. AppliesNot(n) BY <1>8 DEF AppliesNot
<1> QED BY <1>9, <1>10, <1>11, <1>12, <1>13

\* The status is read: whatever the group has been through, no event has to be read again.
LEMMA ReadLife ==
    ASSUME TypeOK, LifeInv, NEW w \in Workers, ReadGroup(w)
    PROVE  LifeInv'
<1> PICK n: n = [Set(w, "apply") EXCEPT !.flag = groupActive] OBVIOUS
<1>1. "apply" \in Steps BY DEF Steps
<1>2. Follows(n, w, "apply") /\ n.flag = groupActive BY <1>1, SameWork
<1>3. /\ Goes(w, n) /\ Apart /\ UNCHANGED <<outboxVars, lease>> /\ job[w].pc = "decide" /\ InLease(w)
  BY BucketApart DEF ReadGroup, lockVars, At, InLease
<1>4. RowsStay /\ Ids' = Ids BY <1>3, SameOutbox
<1>5. job[w].todo \subseteq Ids /\ Works(job[w]) BY IdsFacts DEF LifeInv
<1>6. n.todo \subseteq Ids BY <1>2, <1>5 DEF Follows
<1>7. LeaseHeld' BY <1>1, <1>2, <1>3, SameLease DEF Follows
<1>8. Works(n) BY <1>2, <1>3, <1>5 DEF Works, Follows, Bound, Writing
<1>9. Works(n)' BY <1>4, <1>6, <1>8, WorksStay
<1>a. Alone(w, n) /\ WorksAlone(n) /\ DecidesAlone(w, n) /\ SkipsAlone(w, n) /\ AppliesNot(n)
  BY <1>3, <1>4, <1>6, OthersLife
<1>b. UNCHANGED groupActive BY <1>3 DEF Apart
<1>10. \A v \in Workers: Works(job[v])' BY <1>9, <1>a DEF WorksAlone
<1>11. StatusRead'
  <2>1. ASSUME NEW v \in Workers, v # w PROVE job'[v].pc # "apply"
    <3>1. job'[v] = job[v] BY <1>a, <2>1 DEF Alone
    <3>2. ~InLease(v) BY <1>3, <2>1 DEF LifeInv, LeaseHeld
    <3> QED BY <3>1, <3>2 DEF InLease
  <2>2. job'[w].flag = groupActive' BY <1>2, <1>a, <1>b DEF Alone
  <2> QED BY <2>1, <2>2 DEF StatusRead, At
<1>12. ASSUME NEW i \in Ids, Promised(i) PROVE Promised(i)'
  <2>1. \A v \in Workers: Skips(job[v], i)' <=> Skips(job[v], i)
    BY <1>2, <1>a DEF Follows, SkipsAlone
  <2>2. Call(i)' BY <1>3, <1>12, <2>1 DEF Promised, Call, outboxVars
  <2>3. Right(job[w])'
    <3>1. job'[w].pc = "apply" /\ job'[w].flag = groupActive' BY <1>2, <1>a, <1>b DEF Alone, Follows
    <3> QED BY <3>1 DEF Right
  <2>4. ASSUME NEW v \in Workers, v # w, Decides(job[v], i)' PROVE Right(job[v])'
    <3>1. job'[v] = job[v] /\ Decides(job[v], i) BY <1>a, <2>4 DEF Alone, DecidesAlone
    <3>2. Right(job[v]) BY <1>12, <3>1 DEF Promised
    <3>3. UNCHANGED <<groupActive, retired>> BY <1>3 DEF Apart
    <3> QED BY <3>1, <3>2, <3>3 DEF Right
  <2> QED BY <2>2, <2>3, <2>4 DEF Promised
<1>13. Unsettled' = Unsettled /\ Applied' = Applied /\ flips' = flips
  BY <1>3 DEF Unsettled, Applied, Apart
<1>14. \A i \in Ids': outbox'[i].handled => outbox'[i].claimed BY <1>3, <1>4, SameOutbox
<1> QED BY <1>4, <1>7, <1>10, <1>11, <1>12, <1>13, <1>14 DEF LifeInv

LEMMA AcquireLife ==
    ASSUME TypeOK, LifeInv, NEW w \in Workers, AcquireLease(w)
    PROVE  LifeInv'
<1> PICK n: n = Set(w, "decide") OBVIOUS
<1>1. "decide" \in Steps \ {"apply"} BY DEF Steps
<1>2. Follows(n, w, "decide") BY <1>1, SameWork
<1>3. Goes(w, n) /\ Apart /\ UNCHANGED outboxVars /\ lease = Nobody /\ lease' = w /\ WantsLease(w)
  BY BucketApart DEF AcquireLease
<1>4. \A v \in Workers: ~InLease(v) BY <1>3, NobodyAssumption DEF LifeInv, LeaseHeld
<1>5. LeaseHeld'
  <2>1. job' = [job EXCEPT ![w] = n] /\ job \in [Workers -> Jobs(Ids)] BY <1>3 DEF Goes, TypeOK
  <2> QED BY <1>3, <1>4, <2>1 DEF LeaseHeld, InLease
<1>6. job[w].todo # {} => Kind(w) = "group" /\ "group" \notin job[w].seen
  BY <1>3 DEF WantsLease, At, LifeInv, Works
<1> QED BY <1>1, <1>2, <1>3, <1>5, <1>6, FollowsLife DEF Writing

\* A bucket is reopened: for the group's present status, or the status will be read again.
LEMMA ReopenLife ==
    ASSUME TypeOK, LifeInv, NEW w \in Workers, Reopen(w)
    PROVE  LifeInv'
<1> PICK n: n = [Set(w, "lock") EXCEPT !.strict = TRUE, !.token = Captured] OBVIOUS
<1>1. "lock" \in Steps BY DEF Steps
<1>2. Follows(n, w, "lock") /\ n.strict BY <1>1, SameWork DEF Strictly
<1>3. /\ Goes(w, n) /\ UNCHANGED <<outboxVars, dbVars, faultVars>>
      /\ job[w].pc = "apply" /\ job[w].flag
      /\ lease' = IF lease = w THEN Nobody ELSE lease
      /\ ~retired' /\ published' = IF retired THEN NoSnapshot ELSE published
  BY DEF Reopen, ReopenBucket, Release, At
<1>a. Goes(w, n) BY <1>3
<1>b. UNCHANGED groupActive BY <1>3 DEF dbVars
<1>c. n.pc # "apply" /\ n.todo = job[w].todo /\ n.seen = job[w].seen BY <1>2 DEF Follows
<1>4. RowsStay /\ Ids' = Ids BY <1>3, SameOutbox
<1>5. job[w].todo \subseteq Ids /\ Works(job[w]) BY IdsFacts DEF LifeInv
<1>6. n.todo \subseteq Ids BY <1>2, <1>5 DEF Follows
<1>7. LeaseHeld' BY <1>2, <1>3, LeaseStays DEF Follows, LifeInv
<1>8. Works(n) BY <1>2, <1>3, <1>5 DEF Works, Follows, Bound
<1>9. Works(n)' BY <1>4, <1>6, <1>8, WorksStay
<1>d. Alone(w, n) /\ WorksAlone(n) /\ DecidesAlone(w, n) /\ SkipsAlone(w, n) /\ AppliesNot(n)
  BY <1>a, <1>4, <1>6, OthersLife
<1>10. \A v \in Workers: Works(job[v])' BY <1>9, <1>d DEF WorksAlone
<1>11. StatusRead => StatusRead' BY <1>b, <1>c, <1>d DEF AppliesNot
<1>12. \A i: Decides(n, i) => Decides(job[w], i)
  BY <1>2, <1>3 DEF Decides, Bound, Follows, Decided
<1>13. ASSUME NEW i \in Ids, Call(i) PROVE Call(i)'
  <2>1. \A v \in Workers: Skips(job[v], i)' <=> Skips(job[v], i)
    BY <1>c, <1>d DEF SkipsAlone
  <2> QED BY <1>3, <1>13, <2>1 DEF Call, outboxVars
<1>14. \A i \in Ids: WillRead(i) => WillRead(i)'
  <2>1. \A v \in Workers: \A i: Decides(job[v], i)' => Decides(job[v], i)
    BY <1>d, <1>12 DEF DecidesAlone
  <2> QED BY <1>13, <2>1 DEF WillRead
<1>15. ASSUME groupActive, NEW i \in Ids, Promised(i) PROVE Promised(i)'
  <2>1. Right(job[w])'
    <3>1. job'[w].pc # "apply" BY <1>c, <1>d DEF Alone
    <3> QED BY <1>b, <1>3, <1>15, <3>1 DEF Right
  <2>2. ASSUME NEW v \in Workers, v # w, Decides(job[v], i)' PROVE Right(job[v])'
    <3>1. job'[v] = job[v] /\ Decides(job[v], i) BY <1>d, <2>2 DEF Alone, DecidesAlone
    <3>2. Right(job[v]) BY <1>15, <3>1 DEF Promised
    <3> QED BY <1>b, <1>3, <1>15, <3>1, <3>2 DEF Right
  <2> QED BY <1>13, <1>15, <2>1, <2>2 DEF Promised
<1>16. StatusRead => groupActive BY <1>3 DEF StatusRead, At
<1>17. groupActive /\ Applied => Applied' BY <1>3 DEF Applied, dbVars
<1>18. Unsettled' = Unsettled /\ flips' = flips BY <1>3 DEF Unsettled, dbVars, faultVars
<1>19. \A i \in Ids: WillRead(i)' => Promised(i)' BY DEF WillRead, Promised
<1>20. \A i \in Ids': outbox'[i].handled => outbox'[i].claimed BY <1>3, <1>4, SameOutbox
<1> QED BY <1>4, <1>7, <1>10, <1>11, <1>14, <1>15, <1>16, <1>17, <1>18, <1>19, <1>20 DEF LifeInv

\* The work for an event of the group ends: the status it went by is the present one, or
\* the status will be read again.
LEMMA HandledLife ==
    ASSUME TypeOK, LifeInv, NEW w \in Workers, Succeeds(w), LeaseHeld',
           UNCHANGED <<dbVars, faultVars>>, Bound(job[w]),
           StatusRead => \A i \in Ids: Promised(i) /\ i \in job[w].todo => Applied',
           StatusRead /\ Applied => Applied',
           StatusRead => \A v \in Workers:
              Right(job[v]) /\ job'[v] = job[v] => Right(job[v])' \/ Applied'
    PROVE  LifeInv'
<1> PICK e: e = Event(w) OBVIOUS
<1> PICK n: n = NextEvent(w, Rebuilt(w)) OBVIOUS
<1>1. Handled(e) /\ Goes(w, n) BY DEF Succeeds, Bound
<1>2. /\ OutboxTypeOK' /\ Ids' = Ids
      /\ \A i \in Ids: outbox'[i] = IF i = e THEN [outbox[i] EXCEPT !.handled = TRUE] ELSE outbox[i]
  BY <1>1, HandledRows DEF TypeOK
<1>3. \A i \in Ids: /\ outbox'[i].kind = outbox[i].kind /\ outbox'[i].claimed = outbox[i].claimed
                    /\ outbox'[i].handled = (outbox[i].handled \/ i = e)
  BY <1>2, IdsFacts DEF Rows
<1>4. /\ n.pc \in {"watermark", "next"} /\ n.todo = job[w].todo \ {e}
  BY KindsAssumption, NextEventTyped DEF Rebuilt
<1>5. job[w].todo \subseteq Ids /\ Works(job[w]) BY IdsFacts DEF LifeInv
<1>6. e \in job[w].todo
  <2>1. job[w].todo \in SUBSET Nat /\ job[w].todo # {} BY IdsFacts DEF Bound
  <2> QED BY <2>1, EventIsFirst, FirstIn
<1>7. RowsStay BY <1>2, <1>3 DEF RowsStay
<1>8. n.todo \subseteq Ids BY <1>4, <1>5
<1>9. \A i \in Ids': outbox'[i].handled => outbox'[i].claimed
  BY <1>2, <1>3, <1>5, <1>6 DEF Works, LifeInv
<1>10. ~Bound(n) /\ ~Bound(n)' BY <1>4 DEF Bound, Decided, Writing
<1>11. Works(n)' BY <1>3, <1>4, <1>5, <1>10 DEF Works
<1>a. Alone(w, n) /\ WorksAlone(n) /\ DecidesAlone(w, n) /\ SkipsAlone(w, n) /\ AppliesNot(n)
  BY <1>1, <1>7, <1>8, OthersLife
<1>12. \A v \in Workers: Works(job[v])' BY <1>11, <1>a DEF WorksAlone
<1>13. StatusRead => StatusRead' BY <1>4, <1>a DEF AppliesNot, dbVars
<1>14. ASSUME NEW i \in Ids, Call(i), i \notin job[w].todo PROVE Call(i)'
  <2>1. \A v \in Workers: Skips(job[v], i)' => Skips(job[v], i)
    BY <1>4, <1>14, <1>a DEF Skips, Alone
  <2> QED BY <1>3, <1>6, <1>14, <2>1 DEF Call
<1>15. \A i: ~Decides(job[w], i)' BY <1>10, <1>a DEF DecidesAlone, Decides
<1>16. \A i \in Ids: WillRead(i) => WillRead(i)'
  <2>1. \A i \in Ids: WillRead(i) => i \notin job[w].todo BY DEF WillRead, Decides
  <2>2. \A v \in Workers: \A i: Decides(job[v], i)' => Decides(job[v], i)
    BY <1>15, <1>a DEF DecidesAlone
  <2> QED BY <1>14, <2>1, <2>2 DEF WillRead
<1>17. ASSUME NEW i \in Ids, Promised(i), i \notin job[w].todo, StatusRead
       PROVE  Promised(i)' \/ Applied'
  <2>1. ASSUME ~Applied', NEW v \in Workers, v # w, Decides(job[v], i)' PROVE Right(job[v])'
    <3>1. job'[v] = job[v] /\ Decides(job[v], i) BY <1>a, <2>1 DEF Alone, DecidesAlone
    <3> QED BY <1>17, <2>1, <3>1 DEF Promised
  <2> QED BY <1>14, <1>15, <1>17, <2>1 DEF Promised
<1>18. Unsettled' = Unsettled /\ flips' = flips BY DEF Unsettled, dbVars, faultVars
<1>19. \A i \in Ids: WillRead(i)' => Promised(i)' BY DEF WillRead, Promised
<1>20. CASE StatusRead
  <2>1. \A i \in Ids: Promised(i) => Promised(i)' \/ Applied' BY <1>17, <1>20
  <2>2. flips' = 0 \/ Unsettled' \/ Applied' \/ \E i \in Ids': Promised(i)'
    BY <1>2, <1>18, <1>20, <2>1 DEF LifeInv
  <2> QED BY <1>9, <1>12, <1>13, <1>20, <2>2 DEF LifeInv
<1>21. CASE ~StatusRead
  <2>1. Unsettled' \/ \E i \in Ids': WillRead(i)' BY <1>2, <1>16, <1>18, <1>21 DEF LifeInv
  <2> QED BY <1>2, <1>9, <1>12, <1>19, <2>1 DEF LifeInv
<1> QED BY <1>20, <1>21

LEMMA RetireLife ==
    ASSUME TypeOK, LifeInv, NEW w \in Workers, Retire(w)
    PROVE  LifeInv'
<1>1. /\ Succeeds(w) /\ UNCHANGED <<dbVars, faultVars>> /\ ~job[w].flag /\ job[w].pc = "apply"
      /\ lease' = IF lease = w THEN Nobody ELSE lease
      /\ retired' /\ published' = NoSnapshot
  BY DEF Retire, RetireBucket, Release, At
<1>2. LeaseHeld' BY <1>1, EndLease
<1>3. job[w].flag \in BOOLEAN /\ groupActive \in BOOLEAN BY StepFacts DEF Jobs
<1>4. StatusRead => ~groupActive /\ Applied'
  BY <1>1, <1>3 DEF StatusRead, At, Applied, dbVars
<1>5. CASE job[w].todo # {}
  <2>1. Bound(job[w]) BY <1>1, <1>5 DEF LifeInv, Works, Bound, Decided
  <2> QED BY <1>1, <1>2, <1>4, <2>1, HandledLife
<1>6. CASE job[w].todo = {}
  <2>1. Goes(w, Idle) /\ UNCHANGED outboxVars BY <1>1, <1>6 DEF Succeeds
  <2>2. RowsStay /\ Ids' = Ids BY <2>1, SameOutbox
  <2>3. Idle.todo = {} /\ Works(Idle)' /\ Idle.pc = "idle" BY IdleWorks
  <2>a. /\ Alone(w, Idle) /\ WorksAlone(Idle) /\ DecidesAlone(w, Idle) /\ SkipsAlone(w, Idle)
        /\ AppliesNot(Idle)
    BY <2>1, <2>2, <2>3, OthersLife
  <2>4. \A v \in Workers: Works(job[v])' BY <2>3, <2>a DEF WorksAlone
  <2>5. \A i: ~Decides(job[w], i)' BY <2>3, <2>a DEF DecidesAlone, Decides
  <2>6. \A i \in Ids: Call(i) => Call(i)'
    BY <2>1, <2>3, <2>a DEF Call, Skips, Alone, outboxVars
  <2>7. \A i \in Ids: WillRead(i) => WillRead(i)'
    <3>1. \A v \in Workers: \A i: Decides(job[v], i)' => Decides(job[v], i)
      BY <2>5, <2>a DEF DecidesAlone
    <3> QED BY <2>6, <3>1 DEF WillRead
  <2>8. StatusRead => StatusRead' BY <1>1, <2>3, <2>a DEF AppliesNot, dbVars
  <2>9. Unsettled' = Unsettled /\ flips' = flips BY <1>1 DEF Unsettled, dbVars, faultVars
  <2>10. \A i \in Ids: WillRead(i)' => Promised(i)' BY DEF WillRead, Promised
  <2>11. \A i \in Ids': outbox'[i].handled => outbox'[i].claimed BY <2>1, <2>2, SameOutbox
  <2> QED BY <1>2, <1>4, <2>2, <2>4, <2>7, <2>8, <2>9, <2>10, <2>11 DEF LifeInv
<1> QED BY <1>5, <1>6

\* A version becomes the snapshot of an open bucket, or one above it has.
LEMMA PublishLife ==
    ASSUME TypeOK, LifeInv, NEW w \in Workers, Publish(w)
    PROVE  LifeInv'
<1> PICK s: s = [data |-> job[w].data, life |-> job[w].life] OBVIOUS
<1>1. s \in Snapshots BY StepFacts DEF Jobs, Snapshots
<1>2. /\ Activate(w, s) /\ Succeeds(w) /\ UNCHANGED <<dbVars, lease, faultVars>>
      /\ ~retired /\ job[w].pc = "activate"
  BY DEF Publish, Accepts, At
<1>3. published' # NoSnapshot /\ UNCHANGED retired
  BY <1>1, <1>2, SnapshotAssumption DEF Activate, bucketVars, keyVars
<1>4. groupActive /\ ~retired => Applied' BY <1>2, <1>3 DEF Applied, dbVars
<1>5. Applied => Applied' BY <1>2, <1>3 DEF Applied, dbVars
<1>6. LeaseHeld' BY <1>2, EndLease
<1>7. CASE Bound(job[w])
  <2>1. ASSUME NEW i \in Ids, Promised(i), i \in job[w].todo PROVE Applied'
    <3>1. Right(job[w]) BY <1>7, <2>1 DEF Promised, Decides
    <3> QED BY <1>2, <1>4, <3>1 DEF Right
  <2>2. \A v \in Workers: Right(job[v]) /\ job'[v] = job[v] => Right(job[v])'
    BY <1>2, <1>3 DEF Right, dbVars
  <2> QED BY <1>2, <1>5, <1>6, <1>7, <2>1, <2>2, HandledLife
<1>8. CASE ~Bound(job[w])
  <2>1. job[w].todo # {} => Kind(w) # "group"
    BY <1>2, <1>8, EventIsFirst DEF Bound, Decided, Writing, Kind
  <2> QED BY <1>2, <1>3, <1>5, <1>6, <2>1, SucceedsLife DEF dbVars, faultVars
<1> QED BY <1>7, <1>8

LEMMA LifecycleLife ==
    ASSUME TypeOK, LifeInv, NEW w \in Workers, Lifecycle(w)
    PROVE  LifeInv'
<1>1. CASE LeaseBusy(w) BY <1>1, BucketApart, FailsLife DEF LeaseBusy, lockVars
<1> QED BY <1>1, AcquireLife, ReadLife, ReopenLife, RetireLife DEF Lifecycle

\* Work given up for a busy lock or a fence: for an event of the group it is strict.
LEMMA YieldsLife ==
    ASSUME TypeOK, LifeInv, Apart, UNCHANGED lease, NEW w \in Workers, Yields(w),
           job[w].pc \in Writing
    PROVE  LifeInv'
<1>1. CASE job[w].strict BY <1>1, FailsLife DEF Yields
<1>2. CASE ~job[w].strict
  <2>1. Succeeds(w) BY <1>2 DEF Yields
  <2>2. ~Bound(job[w]) BY <1>2 DEF LifeInv, Works
  <2>3. job[w].todo # {} => Kind(w) # "group" BY <2>2, EventIsFirst DEF Bound, Decided, Kind
  <2> QED BY <2>1, <2>3, EndLease, ApartApplied, SucceedsLife
<1> QED BY <1>1, <1>2

LEMMA RebuildLife ==
    ASSUME TypeOK, LifeInv, NEW w \in Workers, Rebuild(w)
    PROVE  LifeInv'
<1>s. /\ {"load", "allocate", "activate"} \subseteq Steps \ {"apply"}
      /\ {"load", "allocate", "activate"} \cap {"decide", "apply", "groups", "capture", "lease"} = {}
  BY DEF Steps
<1>1. ASSUME Apart, UNCHANGED <<outboxVars, lease>>, job[w].pc \in Writing,
             NEW s \in {"load", "allocate", "activate"}, NEW n, Goes(w, n),
             Follows(n, w, s), Strictly(n, job[w].strict)
      PROVE  LifeInv'
  <2>1. LeaseHeld' BY <1>s, <1>1, SameLease DEF Follows
  <2> QED BY <1>s, <1>1, <2>1, FollowsLife
<1>2. CASE TakeLock(w)
  BY <1>1, <1>2, <1>s, BucketApart, SameWork DEF TakeLock, At, Writing
<1>3. CASE LockBusy(w)
  BY <1>3, BucketApart, YieldsLife DEF LockBusy, At, Writing, lockVars
<1>4. CASE LoadAccounts(w)
  BY <1>1, <1>4, <1>s, BucketApart, SameWork DEF LoadAccounts, At, Writing, lockVars
<1>5. CASE Allocate(w)
  <2>1. Apart BY <1>5 DEF Allocate, AllocateVersion, keyVars, dbVars, faultVars, Apart
  <2> QED BY <1>1, <1>5, <1>s, <2>1, SameWork DEF Allocate, At, Writing, lockVars
<1>6. CASE Fenced(w)
  <2>1. Apart BY <1>6 DEF Fenced, Forget, keyVars, dbVars, faultVars, Apart
  <2> QED BY <1>6, <2>1, YieldsLife DEF Fenced, At, Writing
<1> QED BY <1>2, <1>3, <1>4, <1>5, <1>6, PublishLife DEF Rebuild

-----------------------------------------------------------------------------
(* Steps of the database and of the environment. *)

\* No goroutine moves and the rows keep what has been done for them.
LEMMA StillLife ==
    ASSUME TypeOK, LifeInv, UNCHANGED <<job, groupActive, retired, published, flips>>,
           LeaseHeld', Ids \subseteq Ids',
           \A i \in Ids: /\ outbox'[i].kind = outbox[i].kind
                         /\ outbox'[i].handled = outbox[i].handled
                         /\ outbox'[i].claimed = outbox[i].claimed,
           \A i \in Ids' \ Ids: ~outbox'[i].handled,
           (Unsettled => Unsettled') \/ \E i \in Ids': WillRead(i)'
    PROVE  LifeInv'
<1>1. RowsStay BY DEF RowsStay
<1>2. \A w \in Workers: Works(job[w])' /\ \A i: Decides(job[w], i)' <=> Decides(job[w], i)
  BY <1>1, OthersStay
<1>3. \A i \in Ids: Call(i) => Call(i)' BY DEF Call, Skips
<1>4. \A i \in Ids: WillRead(i) => WillRead(i)' BY <1>2, <1>3 DEF WillRead
<1>5. \A w \in Workers: Right(job[w])' = Right(job[w]) BY DEF Right
<1>6. \A i \in Ids: Promised(i) => Promised(i)' BY <1>2, <1>3, <1>5 DEF Promised
<1>7. StatusRead' = StatusRead /\ Applied' = Applied BY DEF StatusRead, At, Applied
<1>8. \A i: WillRead(i)' => Promised(i)' BY DEF WillRead, Promised
<1>9. \A i \in Ids': outbox'[i].handled => outbox'[i].claimed BY DEF LifeInv
<1>10. Unsettled' \/ (\E i \in Ids': WillRead(i)') \/ StatusRead' BY <1>4, <1>7 DEF LifeInv
<1>11. flips' = 0 \/ Unsettled' \/ Applied' \/ \E i \in Ids': Promised(i)'
  BY <1>6, <1>7, <1>8 DEF LifeInv
<1> QED BY <1>2, <1>9, <1>10, <1>11 DEF LifeInv

\* An event that is queued, or that waits unclaimed, is nobody's yet.
LEMMA QueuedEvent ==
    ASSUME TypeOK, LifeInv, Insert("group", "committed"), UNCHANGED job
    PROVE  \E i \in Ids': WillRead(i)'
<1>0. "group" \in Kinds /\ OutboxTypeOK BY KindsAssumption DEF TypeOK
<1>1. \A w \in Workers: job[w].todo \subseteq Ids /\ Works(job[w]) BY IdsFacts DEF LifeInv
<1>2. ASSUME NEW i \in Ids', outbox'[i].kind = "group", ~outbox'[i].handled,
             \A w \in Workers: i \notin job[w].todo
      PROVE  WillRead(i)'
  BY <1>2 DEF WillRead, Call, Skips, Decides
<1>3. CASE Inserts("group")
  <2> PICK i: i = Len(outbox') OBVIOUS
  <2>1. i \in Ids' /\ i \notin Ids /\ outbox'[i] = Row("group", "committed")
    BY <1>0, <1>3, InsertRows
  <2>2. outbox'[i].kind = "group" /\ ~outbox'[i].handled BY <2>1 DEF Row
  <2> QED BY <1>1, <1>2, <2>1, <2>2
<1>4. CASE ~Inserts("group")
  <2>1. outbox' = outbox /\ Ids' = Ids BY <1>4 DEF Insert, Ids
  <2>2. PICK i \in Ids: outbox[i].kind = "group" /\ ~outbox[i].claimed
    BY <1>4 DEF Inserts, Holds
  <2>3. ~outbox[i].handled BY <2>2 DEF LifeInv
  <2>4. \A w \in Workers: i \notin job[w].todo BY <1>1, <2>2 DEF Works
  <2> QED BY <1>2, <2>1, <2>2, <2>3, <2>4
<1> QED BY <1>3, <1>4

LEMMA SameHeld == LeaseHeld /\ UNCHANGED <<lease, job>> => LeaseHeld'
BY DEF LeaseHeld, InLease

LEMMA DatabaseLife == TypeOK /\ LifeInv /\ Database => LifeInv'
<1> SUFFICES ASSUME TypeOK, LifeInv, Database PROVE LifeInv'
    OBVIOUS
<1>0. {"account", "group"} \subseteq Kinds /\ owed \in [Kinds -> Nat] /\ OutboxTypeOK
  BY KindsAssumption DEF TypeOK
<1>1. CASE ChangeAccounts
  <2>1. owed'["group"] = owed["group"] BY <1>0, <1>1 DEF ChangeAccounts
  <2>2. /\ UNCHANGED <<job, groupActive, retired, published, flips, lost, outbox>> /\ LeaseHeld'
        /\ Ids' = Ids
    BY <1>1, SameHeld DEF ChangeAccounts, LifeInv, bucketVars, keyVars, outboxVars, lockVars, faultVars, Ids
  <2>3. Unsettled => Unsettled' BY <2>1, <2>2 DEF Unsettled
  <2> QED BY <2>2, <2>3, StillLife
<1>2. CASE SwitchGroup
  <2>1. owed'["group"] > 0 BY <1>0, <1>2 DEF SwitchGroup
  <2>2. Unsettled' BY <2>1 DEF Unsettled
  <2>3. UNCHANGED <<job, outboxVars>> /\ LeaseHeld'
    BY <1>2, SameHeld DEF SwitchGroup, LifeInv, lockVars
  <2>4. RowsStay /\ Ids' = Ids /\ \A i \in Ids: outbox'[i].handled => outbox'[i].claimed
    BY <2>3, SameOutbox
  <2>5. \A w \in Workers: Works(job[w])' BY <2>3, <2>4, OthersStay
  <2> QED BY <2>2, <2>3, <2>4, <2>5 DEF LifeInv
<1>3. ASSUME NEW k \in Kinds, NEW s \in {"open", "committed"}, Insert(k, s),
             UNCHANGED <<job, groupActive, flips, lost>>, UNCHANGED bucketVars, UNCHANGED lockVars,
             (Unsettled => Unsettled') \/ \E i \in Ids': WillRead(i)'
      PROVE  LifeInv'
  <2>1. /\ Ids \subseteq Ids' /\ \A i \in Ids: outbox'[i] = outbox[i]
        /\ \A i \in Ids' \ Ids: outbox'[i] = Row(k, s)
    BY <1>0, <1>3, InsertRows
  <2>2. \A i \in Ids' \ Ids: ~outbox'[i].handled BY <2>1 DEF Row
  <2>3. UNCHANGED <<retired, published>> /\ LeaseHeld'
    BY <1>3, SameHeld DEF LifeInv, bucketVars, keyVars, lockVars
  <2> QED BY <1>3, <2>1, <2>2, <2>3, StillLife
<1>4. CASE InsertInTx
  <2>1. Unsettled => Unsettled' BY <1>4 DEF InsertInTx, Unsettled, faultVars
  <2> QED BY <1>0, <1>3, <1>4, <2>1 DEF InsertInTx, faultVars
<1>5. CASE CommitTx
  <2>1. /\ UNCHANGED <<job, groupActive, retired, published, flips>> /\ LeaseHeld'
        /\ (Unsettled => Unsettled')
    BY <1>5, SameHeld DEF CommitTx, LifeInv, bucketVars, keyVars, lockVars, faultVars, Unsettled
  <2>2. CASE UNCHANGED outboxVars
    <3>1. Ids' = Ids /\ UNCHANGED outbox BY <2>2 DEF outboxVars, Ids
    <3> QED BY <2>1, <3>1, StillLife
  <2>3. CASE Commit(tx.row)
    <3>1. /\ Ids' = Ids
          /\ \A i \in Ids: /\ outbox'[i].kind = outbox[i].kind
                           /\ outbox'[i].handled = outbox[i].handled
                           /\ outbox'[i].claimed = outbox[i].claimed
      BY <1>0, <2>3, CommitRows
    <3> QED BY <2>1, <3>1, StillLife
  <2> QED BY <1>5, <2>2, <2>3 DEF CommitTx
<1>6. ASSUME NEW k \in Kinds, Enqueue(k) PROVE LifeInv'
  <2>1. /\ Insert(k, "committed") /\ UNCHANGED <<job, groupActive, flips, lost>>
        /\ UNCHANGED bucketVars /\ UNCHANGED lockVars /\ owed' = [owed EXCEPT ![k] = @ - 1]
    BY <1>6 DEF Enqueue, faultVars
  <2>2. CASE k = "group" BY <1>3, <2>1, <2>2, QueuedEvent
  <2>3. CASE k = "account"
    <3>1. owed'["group"] = owed["group"] BY <1>0, <2>1, <2>3
    <3>2. Unsettled => Unsettled' BY <2>1, <3>1 DEF Unsettled
    <3> QED BY <1>3, <2>1, <3>2
  <2> QED BY <2>2, <2>3, KindsAssumption
<1> QED BY <1>1, <1>2, <1>4, <1>5, <1>6 DEF Database

LEMMA EnvironmentLife == TypeOK /\ LifeInv /\ Environment => LifeInv'
<1> SUFFICES ASSUME TypeOK, LifeInv, Environment PROVE LifeInv'
    OBVIOUS
<1>0. {"account", "group"} \subseteq Kinds /\ owed \in [Kinds -> Nat] BY KindsAssumption DEF TypeOK
<1>1. ASSUME UNCHANGED <<job, groupActive, retired, published, flips, outbox>>,
             LeaseHeld', Unsettled => Unsettled'
      PROVE  LifeInv'
  <2>1. Ids' = Ids BY <1>1 DEF Ids
  <2> QED BY <1>1, <2>1, StillLife
<1>2. ASSUME LockExpires \/ LockExpiresEarly PROVE LifeInv'
  <2>1. UNCHANGED <<job, groupActive, retired, published, flips, outbox, owed, lost>> /\ UNCHANGED lease
    BY <1>2 DEF LockExpires, LockExpiresEarly, bucketVars, keyVars, outboxVars, dbVars, faultVars
  <2> QED BY <1>1, <2>1, SameHeld DEF LifeInv, Unsettled
<1>3. CASE LeaseExpires
  <2>1. UNCHANGED <<job, groupActive, retired, published, flips, outbox, owed, lost>>
    BY <1>3 DEF LeaseExpires, bucketVars, keyVars, outboxVars, dbVars, faultVars
  <2>2. \A w \in Workers: InLease(w)' = InLease(w) BY <2>1 DEF InLease
  <2>3. \A w \in Workers: ~InLease(w) BY <1>3 DEF LeaseExpires, LifeInv, LeaseHeld
  <2>4. LeaseHeld' BY <2>2, <2>3 DEF LeaseHeld
  <2> QED BY <1>1, <2>1, <2>4 DEF Unsettled
<1>4. ASSUME NEW w \in Workers, Crash(w) \/ StepFails(w) PROVE LifeInv'
  <2>1. Apart BY <1>4 DEF Crash, StepFails, Forget, keyVars, dbVars, Apart
  <2> QED BY <1>4, <2>1, FailsLife DEF Crash, StepFails, Release, lockVars
<1>5. ASSUME NEW k \in Kinds, EnqueueFails(k) PROVE LifeInv'
  <2>1. UNCHANGED <<job, groupActive, retired, published, flips, outbox>> /\ LeaseHeld'
    BY <1>5, SameHeld DEF EnqueueFails, LifeInv, bucketVars, keyVars, outboxVars, lockVars
  <2>2. owed' = [owed EXCEPT ![k] = @ - 1] /\ lost' = (lost \/ k = "group")
    BY <1>5 DEF EnqueueFails
  <2>3. CASE k = "group" BY <1>1, <2>1, <2>2, <2>3 DEF Unsettled
  <2>4. CASE k = "account" BY <1>0, <1>1, <2>1, <2>2, <2>4 DEF Unsettled
  <2> QED BY <2>3, <2>4, KindsAssumption
<1> QED BY <1>2, <1>3, <1>4, <1>5 DEF Environment

LEMMA NextLife == TypeOK /\ LifeInv /\ [Next]_vars => LifeInv'
<1> SUFFICES ASSUME TypeOK, LifeInv, [Next]_vars PROVE LifeInv'
    OBVIOUS
<1>w. Pollers \subseteq Workers /\ Rebuilders \subseteq Workers /\ Readers \subseteq Workers
  BY DEF Workers
<1>1. CASE Database BY <1>1, DatabaseLife
<1>2. ASSUME NEW p \in Pollers, Poll(p) PROVE LifeInv'
  BY <1>2, <1>w, PollLife, LifecycleLife, RebuildLife DEF Poll
<1>3. ASSUME NEW f \in Rebuilders, Full(f) PROVE LifeInv'
  BY <1>3, <1>w, FullLife, LifecycleLife, RebuildLife DEF Full
<1>4. ASSUME NEW r \in Readers, CaptureMiss(r) \/ Rebuild(r) PROVE LifeInv'
  BY <1>4, <1>w, CaptureLife, RebuildLife DEF CaptureMiss
<1>5. CASE Environment BY <1>5, EnvironmentLife
<1>6. CASE UNCHANGED vars
  <2>1. UNCHANGED <<job, groupActive, retired, published, flips, outbox, owed, lost, lease>>
    BY <1>6 DEF vars, dbVars, lockVars, bucketVars, keyVars, outboxVars, faultVars
  <2>2. Ids' = Ids BY <2>1 DEF Ids
  <2> QED BY <2>1, <2>2, SameHeld, StillLife DEF LifeInv, Unsettled
<1> QED BY <1>1, <1>2, <1>3, <1>4, <1>5, <1>6 DEF Next

\* Once no event of the group is owed, lost or unhandled, the bucket is what the group's
\* status asks for: retired, or open with a snapshot.  Any number of pollers and full
\* rebuilds may have decided on the group before, in any order, and have failed, been
\* fenced or crashed on the way (prepareGroupLifecycle, reconcileGroupLifecycle).
THEOREM LifecyclesSettle == Spec => []LifecycleSettled
<1>1. LifeInv => LifecycleSettled
  <2>1. GroupQuiet => ~Unsettled /\ \A i \in Ids: ~Promised(i)
    BY DEF GroupQuiet, Unsettled, Promised, Call
  <2> QED BY <2>1 DEF LifeInv, LifecycleSettled, Applied
<1> QED BY <1>1, InitLife, NextLife, TypeCorrect, PTL DEF Spec
=============================================================================
