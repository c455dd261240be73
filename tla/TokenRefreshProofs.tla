------------------------- MODULE TokenRefreshProofs -------------------------
(***************************************************************************)
(* Proofs about TokenRefresh, for every number of workers and every bound:  *)
(* types, the exclusion by the refresh lock, that a dead token stays dead,  *)
(* from these TokenNotLost and QuarantineIsJust, and that the cache follows *)
(* the stored document (CacheFollows).                                      *)
(***************************************************************************)
EXTENDS TokenRefresh, TLAPS

-----------------------------------------------------------------------------
(* The inductive invariant, in parts. *)

\* Which task is at which step, and which acts of administrators it needs.
Shape(j, k) ==
    /\ j.pc \in {"mutex", "lock", "reread", "recover", "persist", "purge", "release"}
         => IsApi(j)
    /\ j.pc = "provider" => IsApi(j) \/ j.task = "manual"
    /\ j.pc \in {"seterror", "cooldown"} => j.task = "background"
    /\ j.pc \in {"check", "set", "await"} => j.task = "request"
    /\ j.pc = "load" => j.task \in {"manual", "reauth"}
    /\ j.pc = "write" => j.task \in {"manual", "edit", "reauth"}
    /\ j.pc = "clear" => j.task = "reauth"
    /\ j.task \in {"manual", "edit", "reauth"} => j.task \in k

Typed == TypeOK /\ \A w \in Workers : /\ Shape(job[w], kinds)
                                      /\ job[w].tried.version <= stamp
                                      /\ job[w].fresh.version <= stamp

\* The provider has given out d: n and c are its last grant and its turns.
IssuedAt(d, n, c) == d.grant <= n /\ (c[d.grant] = Revoked \/ d.turn <= c[d.grant])
LiveAt(d, c) == c[d.grant] = d.turn
Issued(d) == IssuedAt(d, newest, current)

AllIssued == /\ Issued(cred)
             /\ \A w \in Workers : /\ Issued(job[w].acct) /\ Issued(job[w].tried)
                                   /\ Issued(job[w].fresh)

\* A worker that has had its token rejected works on a dead one.
Rejects(j) == \/ j.pc = "recover"
              \/ j.pc = "release" /\ j.outcome = "invalid"
DeadIn(j, c) == /\ j.pc = "purge" => j.outcome = "refreshed"
                /\ Rejects(j) => ~LiveAt(j.tried, c)
                /\ j.pc = "seterror" => ~LiveAt(j.acct, c)
DeadStay == \A w \in Workers : DeadIn(job[w], current)

\* The steps under the refresh lock.
UnderLock(j) == /\ IsApi(j)
                /\ j.pc \in {"reread", "provider", "recover", "persist", "purge", "release"}
Exclusive == faults = 0 => \A w \in Workers : UnderLock(job[w]) => lock = w /\ job[w].held

\* While nothing disorderly has happened.
Writing(w) == job[w].pc \in {"load", "write"}
InTime == \A w \in Workers :
    /\ job[w].pc \in {"provider", "persist"}
         => job[w].tried = cred \/ job[w].tried.grant < cred.grant
    /\ At(w, "persist")
         => /\ job[w].fresh.grant = job[w].tried.grant
            /\ job[w].tried = cred /\ cred.grant = newest => Live(job[w].fresh)
OneWriter == \A w \in Workers : Writing(w) =>
    /\ cred.grant < newest /\ job[w].fresh.grant = newest /\ Live(job[w].fresh)
    /\ \A q \in Workers : Writing(q) => q = w
GrantKept ==
    /\ newest = acts
    /\ cred.grant < newest => Reauthorising
    /\ cred.grant = newest => Live(cred) \/ \E w \in Workers : HoldsSuccessor(w)
InOrder == Orderly => InTime /\ OneWriter /\ GrantKept
NoneRejected == faults = 0 /\ acts = 0 =>
    \A w \in Workers : ~Rejects(job[w]) /\ ~At(w, "seterror")

TInv == /\ Typed /\ AllIssued /\ DeadStay /\ Exclusive /\ InOrder /\ NoneRejected
        /\ acts = 0 => kinds = {}
-----------------------------------------------------------------------------
(* Types. *)

\* A worker moves: the others keep their jobs.
LEMMA Moves ==
    ASSUME Typed, NEW w \in Workers, NEW r \in JobType, Become(w, r),
           stamp' \in Nat, stamp <= stamp', kinds \subseteq kinds',
           Shape(r, kinds'), r.tried.version <= stamp', r.fresh.version <= stamp'
    PROVE  /\ job' \in [Workers -> JobType]
           /\ \A q \in Workers : /\ Shape(job'[q], kinds')
                                 /\ job'[q].tried.version <= stamp'
                                 /\ job'[q].fresh.version <= stamp'
<1>1. job \in [Workers -> JobType] /\ stamp \in Nat BY DEF Typed, TypeOK
<1>2. job'[w] = r /\ \A q \in Workers \ {w} : job'[q] = job[q] BY <1>1 DEF Become
<1>3. Shape(job'[w], kinds') BY <1>2
<1>4. \A q \in Workers \ {w} : Shape(job'[q], kinds') BY <1>2 DEF Typed, Shape, IsApi
<1>5. \A q \in Workers : job[q].tried.version \in Nat /\ job[q].fresh.version \in Nat
  BY <1>1 DEF JobType, Document
<1> QED BY <1>1, <1>2, <1>3, <1>4, <1>5 DEF Typed, Become

LEMMA IdleTyped == Idle \in JobType /\ Idle.tried.version = 0 /\ Idle.fresh.version = 0
BY ProviderAssumption DEF Idle, JobType, First, Document, Grants, Tasks, Steps, Outcomes

\* What w becomes satisfies the invariant.
Fits(r) == /\ r \in JobType /\ Shape(r, kinds')
           /\ r.tried.version <= stamp' /\ r.fresh.version <= stamp'
Moved(w) == \E r : Become(w, r) /\ Fits(r)

LEMMA Now ==
    ASSUME Typed, NEW w \in Workers
    PROVE  /\ job[w] \in JobType /\ Shape(job[w], kinds)
           /\ job[w].tried.version <= stamp /\ job[w].fresh.version <= stamp
           /\ stamp \in Nat /\ cred \in Document /\ cred.version <= stamp
           /\ job[w].acct \in Document /\ job[w].tried \in Document
           /\ job[w].fresh \in Document
           /\ status \in {"active", "error"}
BY DEF Typed, TypeOK, JobType

\* A worker that keeps its documents, or forgets them.
LEMMA GoesOn ==
    ASSUME Typed, NEW w \in Workers, NEW p \in Steps, NEW o \in Outcomes, NEW h \in BOOLEAN,
           Shape([job[w] EXCEPT !.pc = p], kinds'), stamp' = stamp
    PROVE  /\ Fits([job[w] EXCEPT !.pc = p])
           /\ Fits([job[w] EXCEPT !.pc = p, !.held = h])
           /\ Fits([job[w] EXCEPT !.pc = p, !.outcome = o, !.fresh = First])
<1>1. First \in Document /\ First.version = 0 BY ProviderAssumption DEF First, Document, Grants
<1> DEFINE j == job[w]
<1>2. j \in JobType /\ j.tried.version <= stamp' /\ j.fresh.version <= stamp' /\ stamp' \in Nat
  BY Now
<1>3. Shape([j EXCEPT !.pc = p], kinds') OBVIOUS
<1> HIDE DEF j
<1>4. /\ [j EXCEPT !.pc = p] \in JobType
      /\ [j EXCEPT !.pc = p, !.held = h] \in JobType
      /\ [j EXCEPT !.pc = p, !.outcome = o, !.fresh = First] \in JobType
  BY <1>1, <1>2 DEF JobType
<1>5. /\ Shape([j EXCEPT !.pc = p, !.held = h], kinds')
      /\ Shape([j EXCEPT !.pc = p, !.outcome = o, !.fresh = First], kinds')
  BY <1>2, <1>3 DEF Shape, IsApi, JobType
<1>6. /\ Fits([j EXCEPT !.pc = p])
      /\ Fits([j EXCEPT !.pc = p, !.held = h])
      /\ Fits([j EXCEPT !.pc = p, !.outcome = o, !.fresh = First])
  BY <1>1, <1>2, <1>3, <1>4, <1>5 DEF Fits, JobType
<1> QED BY <1>6 DEF j

LEMMA StartsOver ==
    ASSUME Typed, stamp' = stamp,
           NEW t \in Tasks, NEW p \in Steps, NEW a \in Document, NEW o \in Outcomes,
           Shape([Idle EXCEPT !.task = t, !.pc = p], kinds')
    PROVE  /\ Fits([Idle EXCEPT !.task = t, !.pc = p])
           /\ Fits([Idle EXCEPT !.task = t, !.pc = p, !.acct = a])
           /\ Fits([Idle EXCEPT !.task = t, !.acct = a, !.pc = p])
           /\ Fits([Idle EXCEPT !.task = t, !.pc = p, !.acct = a, !.outcome = o])
<1>1. stamp \in Nat BY DEF Typed, TypeOK
<1>2. Idle \in JobType /\ Idle.tried.version = 0 /\ Idle.fresh.version = 0 BY IdleTyped
<1> DEFINE i == Idle
<1>3. Shape([i EXCEPT !.task = t, !.pc = p], kinds') OBVIOUS
<1>4. i \in JobType /\ i.tried.version <= stamp' /\ i.fresh.version <= stamp' BY <1>1, <1>2
<1> HIDE DEF i
<1>5. /\ [i EXCEPT !.task = t, !.pc = p] \in JobType
      /\ [i EXCEPT !.task = t, !.pc = p, !.acct = a] \in JobType
      /\ [i EXCEPT !.task = t, !.acct = a, !.pc = p] \in JobType
      /\ [i EXCEPT !.task = t, !.pc = p, !.acct = a, !.outcome = o] \in JobType
  BY <1>4 DEF JobType
<1>6. /\ Shape([i EXCEPT !.task = t, !.pc = p, !.acct = a], kinds')
      /\ Shape([i EXCEPT !.task = t, !.acct = a, !.pc = p], kinds')
      /\ Shape([i EXCEPT !.task = t, !.pc = p, !.acct = a, !.outcome = o], kinds')
  BY <1>3, <1>4 DEF Shape, IsApi, JobType
<1>7. /\ Fits([i EXCEPT !.task = t, !.pc = p])
      /\ Fits([i EXCEPT !.task = t, !.pc = p, !.acct = a])
      /\ Fits([i EXCEPT !.task = t, !.acct = a, !.pc = p])
      /\ Fits([i EXCEPT !.task = t, !.pc = p, !.acct = a, !.outcome = o])
  BY <1>3, <1>4, <1>5, <1>6 DEF Fits, JobType
<1> QED BY <1>7 DEF i

LEMMA Ended == ASSUME Typed, stamp' = stamp PROVE Fits(Idle)
<1>1. stamp \in Nat BY DEF Typed, TypeOK
<1>2. Idle \in JobType /\ Idle.tried.version = 0 /\ Idle.fresh.version = 0 BY IdleTyped
<1>3. Idle.task = "none" /\ Idle.pc = "idle" BY DEF Idle
<1> QED BY <1>1, <1>2, <1>3 DEF Fits, Shape, IsApi

LEMMA GotoMoves ==
    ASSUME Typed, NEW w \in Workers, NEW p \in Steps, Goto(w, p), stamp' = stamp,
           kinds' = kinds, Shape([job[w] EXCEPT !.pc = p], kinds)
    PROVE  Moved(w)
BY GoesOn DEF Goto, Moved, Outcomes

LEMMA EndsMoves ==
    ASSUME Typed, NEW w \in Workers, NEW o \in Outcomes, Ends(w, o), stamp' = stamp,
           kinds' = kinds, IsApi(job[w])
    PROVE  Moved(w)
<1>1. Shape([job[w] EXCEPT !.pc = "release"], kinds)
  BY Now DEF Shape, IsApi, JobType
<1> QED BY <1>1, GoesOn DEF Ends, Moved, Steps

LEMMA FinishMoves ==
    ASSUME Typed, NEW w \in Workers, Finish(w), stamp' = stamp
    PROVE  Moved(w)
BY Ended DEF Finish, Moved

LEMMA ProceedMoves ==
    ASSUME Typed, NEW w \in Workers, NEW p \in Steps, Proceed(w, p), stamp' = stamp,
           kinds' = kinds, Shape([job[w] EXCEPT !.pc = p], kinds)
    PROVE  Moved(w)
<1>1. job[w].task \in Tasks BY Now DEF JobType
<1> DEFINE i == Idle
<1>2. i \in JobType /\ First \in Document
  BY IdleTyped, ProviderAssumption DEF First, Document, Grants
<1> HIDE DEF i
<1>3. Shape([i EXCEPT !.task = job[w].task, !.pc = p], kinds)
  BY <1>1, <1>2, Now DEF Shape, IsApi, JobType
<1>4. Shape([Idle EXCEPT !.task = job[w].task, !.pc = p], kinds) BY <1>3 DEF i
<1>5. "none" \in Outcomes BY DEF Outcomes
<1>6. Fits([Idle EXCEPT !.task = job[w].task, !.pc = p])
  BY <1>1, <1>2, <1>4, <1>5, StartsOver
<1> QED BY <1>6 DEF Proceed, Moved

\* Steps of RefreshIfNeeded that only move on.
LEMMA ApiMoves ==
    ASSUME Typed, NEW w \in Workers,
           \/ TakeMutex(w) \/ TakeLock(w) \/ LockFails(w) \/ LockHeld(w) \/ Reread(w)
           \/ AttemptFails(w) \/ RecoverFails(w) \/ MutexTimesOut(w) \/ LoseAnswer(w)
           \/ Rejected(w)
    PROVE  Moved(w)
<1> DEFINE j == job[w]
<1>a. j \in JobType /\ Shape(j, kinds) BY Now
<1>1. CASE TakeMutex(w)
  <2>1. Shape([j EXCEPT !.pc = "lock"], kinds) /\ stamp' = stamp /\ kinds' = kinds
    BY <1>1, <1>a DEF TakeMutex, At, Shape, IsApi, JobType, historyVars
  <2> QED BY <1>1, <2>1, GotoMoves DEF TakeMutex, Steps
<1>2. CASE TakeLock(w)
  <2>1. Shape([j EXCEPT !.pc = "reread"], kinds) /\ stamp' = stamp /\ kinds' = kinds
    BY <1>2, <1>a DEF TakeLock, At, Shape, IsApi, JobType, historyVars
  <2>2. Fits([j EXCEPT !.pc = "reread", !.held = TRUE])
    BY <2>1, GoesOn DEF Steps, Outcomes
  <2> QED BY <1>2, <2>2 DEF TakeLock, Moved
<1>3. CASE LockFails(w)
  <2>1. Shape([j EXCEPT !.pc = "reread"], kinds) /\ stamp' = stamp /\ kinds' = kinds
    BY <1>3, <1>a DEF LockFails, At, Shape, IsApi, JobType, historyVars
  <2> QED BY <1>3, <2>1, GotoMoves DEF LockFails, Steps
<1>4. CASE LockHeld(w)
  <2>1. stamp' = stamp /\ kinds' = kinds /\ IsApi(j)
    BY <1>4, <1>a DEF LockHeld, historyVars, At, Shape
  <2>2. ASSUME NEW p \in {"await", "check"}, Goto(w, p), j.task = "request"
        PROVE  Moved(w)
    <3>1. Shape([j EXCEPT !.pc = p], kinds) BY <2>2, <1>a DEF Shape, IsApi, JobType
    <3> QED BY <2>1, <2>2, <3>1, GotoMoves DEF Steps
  <2> QED BY <1>4, <2>1, <2>2, FinishMoves DEF LockHeld, IsApi
<1>5. CASE Reread(w)
  <2> DEFINE r == [j EXCEPT !.tried = cred, !.pc = IF Refreshable THEN "provider" ELSE "release",
                         !.outcome = IF RefusedToRequest(w) THEN "failed" ELSE "skipped"]
  <2>1. stamp' = stamp /\ kinds' = kinds /\ IsApi(j) /\ Become(w, r)
    BY <1>5, <1>a DEF Reread, historyVars, At, Shape
  <2>2. r \in JobType /\ r.tried = cred /\ r.fresh = j.fresh /\ r.task = j.task
        /\ r.pc \in {"provider", "release"}
    BY <1>a, Now DEF JobType, Steps, Outcomes
  <2> HIDE DEF r
  <2>3. Fits(r) BY <2>1, <2>2, Now DEF Fits, Shape, IsApi
  <2> QED BY <2>1, <2>3 DEF Moved
<1>6. CASE AttemptFails(w)
  <2>1. stamp' = stamp /\ kinds' = kinds /\ IsApi(j) BY <1>6 DEF AttemptFails, historyVars
  <2> QED BY <1>6, <2>1, EndsMoves DEF AttemptFails, Outcomes
<1>7. CASE RecoverFails(w)
  <2>1. stamp' = stamp /\ kinds' = kinds /\ IsApi(j)
    BY <1>7, <1>a DEF RecoverFails, historyVars, At, Shape
  <2> QED BY <1>7, <2>1, EndsMoves DEF RecoverFails, Outcomes
<1>8. CASE MutexTimesOut(w)
  <2>1. stamp' = stamp /\ kinds' = kinds /\ IsApi(j)
    BY <1>8, <1>a DEF MutexTimesOut, historyVars, At, Shape
  <2>2. CASE Goto(w, "cooldown") /\ j.task = "background"
    <3>1. Shape([j EXCEPT !.pc = "cooldown"], kinds) BY <2>2, <1>a DEF Shape, IsApi, JobType
    <3> QED BY <2>1, <2>2, <3>1, GotoMoves DEF Steps
  <2>3. CASE Goto(w, "check") /\ j.task = "request"
    <3>1. Shape([j EXCEPT !.pc = "check"], kinds) BY <2>3, <1>a DEF Shape, IsApi, JobType
    <3> QED BY <2>1, <2>3, <3>1, GotoMoves DEF Steps
  <2> QED BY <1>8, <2>1, <2>2, <2>3, FinishMoves DEF MutexTimesOut, IsApi
<1>9. CASE LoseAnswer(w)
  <2>1. stamp' = stamp /\ kinds' = kinds BY <1>9 DEF LoseAnswer, historyVars
  <2> QED BY <1>9, <2>1, EndsMoves, FinishMoves DEF LoseAnswer, Outcomes
<1>10. CASE Rejected(w)
  <2>1. stamp' = stamp /\ kinds' = kinds BY <1>10 DEF Rejected, historyVars
  <2>2. IsApi(j) => Shape([j EXCEPT !.pc = "recover"], kinds)
    BY <1>a DEF Shape, IsApi, JobType
  <2> QED BY <1>10, <2>1, <2>2, EndsMoves, FinishMoves, GotoMoves DEF Rejected, Outcomes, Steps
<1> QED BY <1>1, <1>2, <1>3, <1>4, <1>5, <1>6, <1>7, <1>8, <1>9, <1>10

\* Steps of RefreshIfNeeded that bring a document.
LEMMA DocumentMoves ==
    ASSUME Typed, NEW w \in Workers,
           \/ Present(w) \/ Recover(w) \/ Persist(w) \/ PersistFails(w) \/ Purge(w)
           \/ PurgeFails(w)
    PROVE  Moved(w)
<1> DEFINE j == job[w]
<1>a. j \in JobType /\ Shape(j, kinds) BY Now
<1>b. First \in Document /\ First.version = 0
  BY ProviderAssumption DEF First, Document, Grants
<1>1. CASE Present(w)
  <2> DEFINE d == Successor(j.tried, stamp')
             e == Successor(j.tried, j.tried.version)
             r == [j EXCEPT !.pc = "persist", !.fresh = d]
             q == [Idle EXCEPT !.task = j.task, !.pc = "load", !.fresh = e]
  <2>1. /\ kinds' = kinds /\ stamp' \in Nat /\ stamp <= stamp'
        /\ IF IsApi(j) THEN Become(w, r) ELSE j.task = "manual" /\ Become(w, q)
    BY <1>1, <1>a, Now DEF Present, historyVars, At, Shape
  <2>2. j.tried.grant \in Grants /\ j.tried.turn + 1 \in 0 .. MaxTurns
    <3>1. /\ j.tried.grant \in Grants /\ j.tried.turn \in 0 .. MaxTurns
          /\ j.tried.turn < MaxTurns /\ MaxTurns \in Nat
      BY <1>1, Now, ProviderAssumption DEF Present, Rotate, Document
    <3> QED BY <3>1
  <2>a. j.tried.version \in Nat /\ j.tried.version <= stamp /\ stamp \in Nat
    BY Now DEF Document
  <2>b. d \in Document /\ e \in Document BY <2>1, <2>2, <2>a DEF Document, Successor
  <2>3. /\ d \in Document /\ e \in Document /\ d.version = stamp' /\ e.version <= stamp'
        /\ j.tried.version <= stamp' /\ d.version <= stamp'
    BY <2>1, <2>a, <2>b DEF Successor
  <2> HIDE DEF d, e
  <2>4. CASE IsApi(j)
    <3>1. r \in JobType BY <1>a, <2>3 DEF JobType, Steps
    <3>2. r.tried = j.tried /\ r.fresh = d /\ r.pc = "persist" /\ r.task = j.task
      BY <1>a DEF JobType
    <3> HIDE DEF r
    <3>3. Fits(r) BY <2>3, <2>4, <3>1, <3>2 DEF Fits, Shape, IsApi
    <3> QED BY <2>1, <2>4, <3>3 DEF Moved, r
  <2>5. CASE ~IsApi(j)
    <3> DEFINE i == Idle
    <3>1. i \in JobType /\ i.tried.version = 0 BY IdleTyped
    <3> HIDE DEF i
    <3> DEFINE u == [i EXCEPT !.task = j.task, !.pc = "load", !.fresh = e]
    <3>2. u \in JobType BY <1>a, <2>3, <3>1 DEF JobType, Steps
    <3>3. Fits(u) BY <1>a, <2>1, <2>3, <2>5, <3>1, <3>2, Now DEF Fits, Shape, IsApi, JobType
    <3>4. Fits(q) BY <3>3 DEF i
    <3> QED BY <2>1, <2>5, <3>4 DEF Moved
  <2> QED BY <2>4, <2>5
<1>2. CASE Recover(w)
  <2> DEFINE r == [j EXCEPT !.tried = cred, !.pc = "release", !.outcome = "skipped"]
  <2>1. stamp' = stamp /\ kinds' = kinds /\ IsApi(j)
    BY <1>2, <1>a DEF Recover, historyVars, At, Shape
  <2>2. r \in JobType BY <1>a, Now DEF JobType, Steps, Outcomes
  <2>3. Fits(r) BY <1>a, <2>1, <2>2, Now DEF Fits, Shape, IsApi, JobType
  <2> QED BY <1>2, <2>1, <2>3, EndsMoves DEF Recover, Moved, Outcomes
<1>3. CASE Persist(w)
  <2>1. stamp' = stamp /\ kinds' = kinds /\ IsApi(j)
    BY <1>3, <1>a DEF Persist, historyVars, At, Shape
  <2>2. PICK d \in {j.fresh, cred}, o \in {"refreshed", "skipped"}, p \in {"purge", "release"} :
           Become(w, [j EXCEPT !.tried = d, !.outcome = o, !.fresh = First, !.pc = p])
    BY <1>3 DEF Persist
  <2> DEFINE r == [j EXCEPT !.tried = d, !.outcome = o, !.fresh = First, !.pc = p]
  <2>3. r \in JobType BY <1>a, <1>b, Now DEF JobType, Steps, Outcomes
  <2>4. Fits(r) BY <1>a, <1>b, <2>1, <2>3, Now DEF Fits, Shape, IsApi, JobType
  <2> QED BY <2>2, <2>4 DEF Moved
<1>4. CASE PersistFails(w)
  <2>1. stamp' = stamp /\ kinds' = kinds /\ IsApi(j)
    BY <1>4, <1>a DEF PersistFails, historyVars, At, Shape
  <2> QED BY <1>4, <2>1, EndsMoves DEF PersistFails, Outcomes
<1>5. CASE Purge(w) \/ PurgeFails(w)
  <2> DEFINE r == [j EXCEPT !.tried = cred, !.pc = "release"]
  <2>1. stamp' = stamp /\ kinds' = kinds /\ IsApi(j)
    BY <1>5, <1>a DEF Purge, PurgeFails, historyVars, At, Shape
  <2>2. r \in JobType BY <1>a, Now DEF JobType, Steps
  <2>3. Fits(r) BY <1>a, <2>1, <2>2, Now DEF Fits, Shape, IsApi, JobType
  <2>4. CASE Become(w, r) BY <2>3, <2>4 DEF Moved
  <2>5. CASE Ends(w, "contained") BY <2>1, <2>5, EndsMoves DEF Outcomes
  <2> QED BY <1>5, <2>4, <2>5 DEF Purge, PurgeFails
<1> QED BY <1>1, <1>2, <1>3, <1>4, <1>5

\* What Return makes of the job.
LEMMA Returns ==
    ASSUME Typed, NEW w \in Workers, At(w, "release"), Return(w)
    PROVE  \/ Finish(w)
           \/ \E p \in {"check", "mutex", "cooldown", "seterror", "invalidate"},
                 a \in {job[w].tried, job[w].acct}, o \in Outcomes :
                /\ Become(w, [Idle EXCEPT !.task = job[w].task, !.pc = p, !.acct = a,
                                          !.outcome = o])
                /\ o \in {"refreshed", "none"} /\ (o = "refreshed" => job[w].outcome = o)
                /\ p = "check" => /\ job[w].task = "request"
                                  /\ job[w].outcome = "refreshed"
                                       => a = job[w].tried /\ o = "refreshed"
                /\ p # "check" => job[w].task = "background" /\ a = job[w].tried
                /\ p = "seterror" => job[w].outcome = "invalid"
                /\ p = "invalidate" => job[w].outcome = "refreshed" /\ o = "refreshed"
                /\ job[w].outcome = "refreshed" => p \in {"check", "invalidate"}
<1> DEFINE j == job[w]
           b == IF j.task = "background" \/ Usable(j) THEN j.tried ELSE j.acct
           u == IF j.outcome = "refreshed" THEN j.outcome ELSE "none"
<1>1. IsApi(j) BY Now DEF At, Shape
<1>2. PICK p \in (IF j.task = "request" THEN AfterRequest(j) ELSE AfterBackground(j)) :
         Become(w, IF p = "idle" THEN Idle
                   ELSE [Idle EXCEPT !.task = j.task, !.pc = p, !.acct = b, !.outcome = u])
  BY DEF Return
<1>3. /\ p \in {"idle", "check", "mutex", "cooldown", "seterror", "invalidate"}
      /\ p = "check" => j.task = "request"
      /\ p \notin {"idle", "check"} => j.task = "background"
      /\ p = "seterror" => j.outcome = "invalid"
      /\ p = "invalidate" => j.outcome = "refreshed"
      /\ j.outcome = "refreshed" => p \in {"idle", "check", "invalidate"}
  BY <1>1, <1>2 DEF AfterRequest, AfterBackground, IsApi
<1>4. /\ b \in {j.tried, j.acct} /\ u \in Outcomes /\ u \in {"refreshed", "none"}
      /\ u = "refreshed" => j.outcome = u
      /\ j.outcome = "refreshed" => u = "refreshed"
      /\ j.task = "background" => b = j.tried
      /\ j.outcome = "refreshed" => b = j.tried
  BY DEF Usable, Outcomes
<1>5. CASE p = "idle" BY <1>2, <1>5 DEF Finish
<1>6. CASE p # "idle"
  <2>1. Become(w, [Idle EXCEPT !.task = j.task, !.pc = p, !.acct = b, !.outcome = u])
    BY <1>2, <1>6
  <2> HIDE DEF b, u
  <2> QED BY <1>3, <1>4, <1>6, <2>1
<1> QED BY <1>5, <1>6

LEMMA ReturnMoves ==
    ASSUME Typed, NEW w \in Workers, At(w, "release"), Return(w), stamp' = stamp,
           kinds' = kinds
    PROVE  Moved(w)
<1> DEFINE j == job[w]
<1>1. j \in JobType /\ j.task \in Tasks /\ j.tried \in Document /\ j.acct \in Document
  BY Now DEF JobType
<1>2. ASSUME NEW p \in {"check", "mutex", "cooldown", "seterror", "invalidate"},
             NEW a \in {j.tried, j.acct}, NEW o \in Outcomes,
             Become(w, [Idle EXCEPT !.task = j.task, !.pc = p, !.acct = a, !.outcome = o]),
             p = "check" => j.task = "request", p # "check" => j.task = "background"
      PROVE  Moved(w)
  <2> DEFINE i == Idle
  <2>1. i \in JobType BY IdleTyped
  <2> HIDE DEF i
  <2>2. Shape([i EXCEPT !.task = j.task, !.pc = p], kinds)
    BY <1>1, <1>2, <2>1 DEF Shape, IsApi, JobType
  <2>3. Shape([Idle EXCEPT !.task = j.task, !.pc = p], kinds) BY <2>2 DEF i
  <2>4. p \in Steps /\ a \in Document BY <1>1 DEF Steps
  <2>5. Fits([Idle EXCEPT !.task = j.task, !.pc = p, !.acct = a, !.outcome = o])
    BY <1>1, <2>3, <2>4, StartsOver
  <2> QED BY <1>2, <2>5 DEF Moved
<1> HIDE DEF j
<1>3. CASE Finish(w) BY <1>3, FinishMoves
<1> QED BY <1>2, <1>3, Returns DEF j

\* Steps of the callers.
LEMMA CallerMoves ==
    ASSUME Typed, NEW w \in Workers,
           \/ StartRequest(w) \/ StartBackground(w) \/ Release(w) \/ ReleaseFails(w)
           \/ SetError(w) \/ CoolDown(w) \/ Invalidate(w)
           \/ CheckTokenVersion(w) \/ CheckFails(w) \/ SetAccessToken(w) \/ Await(w)
    PROVE  Moved(w)
<1> DEFINE j == job[w]
<1>a. j \in JobType /\ Shape(j, kinds) BY Now
<1>1. ASSUME NEW t \in {"request", "background"}, NEW p \in {"mutex", "check"},
             p = "check" => t = "request",
             Become(w, [Idle EXCEPT !.task = t, !.acct = cred, !.pc = p]),
             stamp' = stamp, kinds' = kinds
      PROVE  Moved(w)
  <2> DEFINE i == Idle
  <2>1. i \in JobType BY IdleTyped
  <2> HIDE DEF i
  <2>2. Shape([i EXCEPT !.task = t, !.pc = p], kinds) BY <1>1, <2>1 DEF Shape, IsApi, JobType
  <2>3. Shape([Idle EXCEPT !.task = t, !.pc = p], kinds) BY <2>2 DEF i
  <2>4. t \in Tasks /\ p \in Steps /\ cred \in Document /\ "none" \in Outcomes
    BY Now DEF Tasks, Steps, Outcomes
  <2>5. Fits([Idle EXCEPT !.task = t, !.acct = cred, !.pc = p])
    BY <1>1, <2>3, <2>4, StartsOver
  <2> QED BY <1>1, <2>5 DEF Moved
<1>2. CASE StartRequest(w)
  BY <1>1, <1>2 DEF StartRequest, historyVars
<1>3. CASE StartBackground(w)
  BY <1>1, <1>3 DEF StartBackground, historyVars
<1>4. CASE Release(w) BY <1>4, ReturnMoves DEF Release, historyVars
<1>5. CASE ReleaseFails(w) BY <1>5, ReturnMoves DEF ReleaseFails, historyVars
<1>6. CASE SetError(w)
  <2>1. stamp' = stamp /\ kinds' = kinds /\ j.task = "background"
    BY <1>6, <1>a DEF SetError, historyVars, At, Shape
  <2>2. Shape([j EXCEPT !.pc = "invalidate"], kinds) BY <1>a DEF Shape, IsApi, JobType
  <2> QED BY <1>6, <2>1, <2>2, FinishMoves, ProceedMoves DEF SetError, Steps
<1>7. CASE CoolDown(w) BY <1>7, FinishMoves DEF CoolDown, historyVars
<1>8. CASE Invalidate(w) BY <1>8, FinishMoves DEF Invalidate, historyVars
<1>9. CASE CheckTokenVersion(w)
  <2> DEFINE r == [j EXCEPT !.tried = cred, !.pc = "set"]
  <2>1. stamp' = stamp /\ kinds' = kinds /\ j.task = "request"
    BY <1>9, <1>a DEF CheckTokenVersion, historyVars, At, Shape
  <2>2. r \in JobType BY <1>a, Now DEF JobType, Steps
  <2>3. Fits(r) BY <1>a, <2>1, <2>2, Now DEF Fits, Shape, IsApi, JobType
  <2> QED BY <1>9, <2>1, <2>3, FinishMoves DEF CheckTokenVersion, Moved
<1>10. CASE CheckFails(w)
  <2>1. stamp' = stamp /\ kinds' = kinds /\ Shape([j EXCEPT !.pc = "set"], kinds)
    BY <1>10, <1>a DEF CheckFails, historyVars, At, Shape, IsApi, JobType
  <2> QED BY <1>10, <2>1, GotoMoves DEF CheckFails, Steps
<1>11. CASE SetAccessToken(w) BY <1>11, FinishMoves DEF SetAccessToken, historyVars
<1>12. CASE Await(w)
  <2> DEFINE r == [j EXCEPT !.acct = cred, !.tried = cred, !.pc = "set"]
  <2>1. stamp' = stamp /\ kinds' = kinds /\ j.task = "request"
    BY <1>12, <1>a DEF Await, historyVars, At, Shape
  <2>2. r \in JobType BY <1>a, Now DEF JobType, Steps
  <2>3. Fits(r) BY <1>a, <2>1, <2>2, Now DEF Fits, Shape, IsApi, JobType
  <2> QED BY <1>12, <2>1, <2>3, FinishMoves DEF Await, Moved
<1> QED BY <1>2, <1>3, <1>4, <1>5, <1>6, <1>7, <1>8, <1>9, <1>10, <1>11, <1>12

\* Steps of administrators, and steps that have no effect.
LEMMA AdminMoves ==
    ASSUME Typed, NEW w \in Workers,
           \/ StartManual(w) \/ StartEdit(w) \/ StartReauth(w) \/ Load(w)
           \/ UpdateAccount(w) \/ ClearAccountError(w) \/ StepFails(w)
    PROVE  Moved(w)
<1> DEFINE j == job[w]
           i == Idle
<1>a. j \in JobType /\ Shape(j, kinds) BY Now
<1>b. i \in JobType /\ i.tried.version <= stamp /\ i.fresh.version <= stamp
      /\ i.tried = First
  BY IdleTyped, Now DEF Idle
<1> HIDE DEF i
<1>1. CASE StartManual(w)
  <2> DEFINE r == [i EXCEPT !.task = "manual", !.tried = cred, !.pc = "provider"]
  <2>1. stamp' = stamp /\ "manual" \in kinds' BY <1>1 DEF StartManual, Act
  <2>2. r \in JobType BY <1>b, Now DEF JobType, Steps, Tasks
  <2>3. Fits(r) BY <1>b, <2>1, <2>2, Now DEF Fits, Shape, IsApi, JobType
  <2> QED BY <1>1, <2>3 DEF StartManual, Moved, i
<1>2. CASE StartEdit(w)
  <2> DEFINE r == [i EXCEPT !.task = "edit", !.fresh = cred, !.seen = status, !.pc = "write"]
  <2>1. stamp' = stamp /\ "edit" \in kinds' BY <1>2 DEF StartEdit, Act
  <2>2. r \in JobType BY <1>b, Now DEF JobType, Steps, Tasks
  <2>3. Fits(r) BY <1>b, <2>1, <2>2, Now DEF Fits, Shape, IsApi, JobType
  <2> QED BY <1>2, <2>3 DEF StartEdit, Moved, i
<1>3. CASE StartReauth(w)
  <2> DEFINE d == [grant |-> newest', turn |-> 0, version |-> cred.version]
             r == [i EXCEPT !.task = "reauth", !.pc = "load", !.fresh = d]
  <2>1. stamp' = stamp /\ "reauth" \in kinds' /\ newest' = newest + 1 /\ newest < MaxGrants
        /\ Become(w, [Idle EXCEPT !.task = "reauth", !.pc = "load", !.fresh = d])
    BY <1>3 DEF StartReauth, Act, Authorise
  <2>2. newest' \in Grants /\ 0 \in 0 .. MaxTurns /\ cred.version \in Nat
        /\ cred.version <= stamp
    BY <2>1, ProviderAssumption DEF Typed, TypeOK, Grants, Document
  <2>3. d \in Document /\ d.version = cred.version BY <2>2 DEF Document
  <2> HIDE DEF d
  <2>4. r \in JobType BY <1>b, <2>3 DEF JobType, Steps, Tasks
  <2>5. Fits(r) BY <1>b, <2>1, <2>2, <2>3, <2>4 DEF Fits, Shape, IsApi, JobType
  <2>6. r = [Idle EXCEPT !.task = "reauth", !.pc = "load", !.fresh = d] BY DEF i
  <2> QED BY <2>1, <2>5, <2>6 DEF Moved
<1>4. CASE Load(w)
  <2> DEFINE r == [j EXCEPT !.seen = status, !.pc = "write"]
  <2>1. stamp' = stamp /\ kinds' = kinds BY <1>4 DEF Load, historyVars
  <2>2. r \in JobType BY <1>a, Now DEF JobType, Steps
  <2>3. Fits(r) BY <1>a, <1>4, <2>1, <2>2, Now DEF Load, At, Fits, Shape, IsApi, JobType
  <2> QED BY <1>4, <2>3 DEF Load, Moved
<1>5. CASE UpdateAccount(w)
  <2>1. stamp' = stamp /\ kinds' = kinds BY <1>5 DEF UpdateAccount, historyVars
  <2>2. j.task \in {"manual", "edit", "reauth"} BY <1>5, <1>a DEF UpdateAccount, At, Shape
  <2>3. /\ AfterWrite(w) = "invalidate" => Shape([j EXCEPT !.pc = "invalidate"], kinds)
        /\ AfterWrite(w) = "clear" => Shape([j EXCEPT !.pc = "clear"], kinds)
        /\ AfterWrite(w) \in {"idle", "invalidate", "clear"}
    BY <1>a, <2>2 DEF AfterWrite, Shape, IsApi, JobType
  <2> QED BY <1>5, <2>1, <2>3, FinishMoves, ProceedMoves DEF UpdateAccount, Steps
<1>6. CASE ClearAccountError(w)
  <2>1. stamp' = stamp /\ kinds' = kinds BY <1>6 DEF ClearAccountError, historyVars
  <2>2. Shape([j EXCEPT !.pc = "invalidate"], kinds) BY <1>a DEF Shape, IsApi, JobType
  <2> QED BY <1>6, <2>1, <2>2, ProceedMoves DEF ClearAccountError, Steps
<1>7. CASE StepFails(w)
  <2>1. stamp' = stamp /\ kinds' = kinds BY <1>7 DEF StepFails, historyVars
  <2>2. Shape([j EXCEPT !.pc = "invalidate"], kinds) BY <1>a DEF Shape, IsApi, JobType
  <2>4. CASE At(w, "clear") /\ Goto(w, "invalidate") BY <2>1, <2>2, <2>4, GotoMoves DEF Steps
  <2>5. CASE Finish(w) BY <2>1, <2>5, FinishMoves
  <2>6. CASE Proceed(w, "invalidate") BY <2>1, <2>2, <2>6, ProceedMoves DEF Steps
  <2> QED BY <1>7, <2>4, <2>5, <2>6 DEF StepFails
<1> QED BY <1>1, <1>2, <1>3, <1>4, <1>5, <1>6, <1>7

LEMMA AllMove ==
    ASSUME Typed, NEW w \in Workers, Start(w) \/ Advance(w) \/ GoWrong(w)
    PROVE  Moved(w)
BY ApiMoves, DocumentMoves, CallerMoves, AdminMoves DEF Start, Advance, GoWrong

LEMMA MovedTyped ==
    ASSUME Typed, NEW w \in Workers, Moved(w), stamp' \in Nat, stamp <= stamp',
           kinds \subseteq kinds'
    PROVE  /\ job' \in [Workers -> JobType]
           /\ \A q \in Workers : /\ Shape(job'[q], kinds')
                                 /\ job'[q].tried.version <= stamp'
                                 /\ job'[q].fresh.version <= stamp'
BY Moves DEF Moved, Fits

-----------------------------------------------------------------------------
(* The rest of the type invariant. *)

RestOK ==
    /\ cas \in BOOLEAN /\ home \in [Workers -> Instances]
    /\ cred \in Document /\ status \in {"active", "error"} /\ cooling \in BOOLEAN
    /\ due \subseteq Document /\ cache \in Document \cup {NoToken}
    /\ lock \in Workers \cup {Nobody} /\ stamp \in Nat
    /\ acts \in 0 .. MaxActs /\ kinds \subseteq {"manual", "edit", "reauth", "revoke"}
    /\ late \in BOOLEAN /\ faults \in 0 .. MaxFaults
    /\ cred.version <= stamp
    /\ newest \in Grants /\ current \in [Grants -> {Revoked} \cup 0 .. MaxTurns]

LEMMA FaultTyped == ASSUME Typed, Fault PROVE faults' \in 0 .. MaxFaults
BY BoundsAssumption DEF Typed, TypeOK, Fault

LEMMA ActTyped ==
    ASSUME Typed, NEW k \in {"manual", "edit", "reauth", "revoke"}, Act(k)
    PROVE  /\ acts' \in 0 .. MaxActs /\ kinds \subseteq kinds'
           /\ kinds' \subseteq {"manual", "edit", "reauth", "revoke"}
<1>1. acts \in 0 .. MaxActs /\ kinds \subseteq {"manual", "edit", "reauth", "revoke"}
  BY DEF Typed, TypeOK
<1>2. acts < MaxActs /\ acts' = acts + 1 /\ kinds' = kinds \cup {k}
  BY DEF Act
<1> QED BY ONLY BoundsAssumption, <1>1, <1>2, k \in {"manual", "edit", "reauth", "revoke"}

\* Only the turn of one grant changes.
LEMMA RotateTyped ==
    ASSUME Typed, NEW d \in Document, Rotate(d)
    PROVE  newest' \in Grants /\ current' \in [Grants -> {Revoked} \cup 0 .. MaxTurns]
<1>1. /\ current \in [Grants -> {Revoked} \cup 0 .. MaxTurns] /\ newest \in Grants
      /\ d.grant \in Grants /\ MaxTurns \in Nat
  BY ProviderAssumption DEF Typed, TypeOK, Document
<1>2. current[d.grant] + 1 \in 0 .. MaxTurns BY <1>1 DEF Rotate, Live, Document
<1> QED BY <1>1, <1>2 DEF Rotate

LEMMA StepRest ==
    ASSUME Typed, NEW w \in Workers, Start(w) \/ Advance(w) \/ GoWrong(w)
    PROVE  RestOK' /\ stamp <= stamp' /\ kinds \subseteq kinds'
<1>0. RestOK BY DEF Typed, TypeOK, RestOK
<1>a. job[w] \in JobType BY Now
<1>1. CASE StartRequest(w)
  BY <1>1, <1>0, Now DEF RestOK, StartRequest, rowVars, cacheVars, historyVars, providerVars, NoFault
<1>2. CASE StartBackground(w)
  BY <1>2, <1>0, Now DEF RestOK, StartBackground, rowVars, cacheVars, historyVars, providerVars, NoFault
<1>3. CASE TakeMutex(w)
  BY <1>3, <1>0, Now DEF RestOK, TakeMutex, rowVars, cacheVars, historyVars, providerVars, NoFault
<1>4. CASE TakeLock(w)
  BY <1>4, <1>0, Now DEF RestOK, TakeLock, rowVars, cacheVars, historyVars, providerVars, NoFault
<1>5. CASE LockHeld(w)
  BY <1>5, <1>0, Now DEF RestOK, LockHeld, rowVars, cacheVars, historyVars, providerVars, NoFault
<1>6. CASE Reread(w)
  BY <1>6, <1>0, Now DEF RestOK, Reread, rowVars, cacheVars, historyVars, providerVars, NoFault
<1>7. CASE Rejected(w)
  BY <1>7, <1>0, Now DEF RestOK, Rejected, rowVars, cacheVars, historyVars, providerVars, NoFault
<1>8. CASE Recover(w)
  BY <1>8, <1>0, Now DEF RestOK, Recover, rowVars, cacheVars, historyVars, providerVars, NoFault
<1>9. CASE Purge(w)
  <2>1. cache' = NoToken /\ late' = FALSE /\ faults' = faults
        /\ UNCHANGED <<cas, home, rowVars, due, lock, stamp, historyVars, providerVars>>
    BY <1>9 DEF Purge, Uncache, NoFault
  <2>2. late' \in BOOLEAN BY <2>1
  <2> QED BY <1>0, <2>1, <2>2, Now DEF RestOK, rowVars, historyVars, providerVars
<1>10. CASE Release(w)
  BY <1>10, <1>0, Now DEF RestOK, Release, rowVars, cacheVars, historyVars, providerVars, NoFault
<1>11. CASE SetError(w)
  BY <1>11, <1>0, Now DEF RestOK, SetError, rowVars, cacheVars, historyVars, providerVars, NoFault
<1>12. CASE CoolDown(w)
  BY <1>12, <1>0, Now DEF RestOK, CoolDown, rowVars, cacheVars, historyVars, providerVars, NoFault
<1>13. CASE Invalidate(w)
  <2>1. cache' = NoToken /\ faults' = faults
        /\ UNCHANGED <<cas, home, cred, status, due, lock, stamp, historyVars, providerVars>>
    BY <1>13 DEF Invalidate, Uncache, NoFault
  <2>2. late' = FALSE /\ (cooling' = cooling \/ cooling' = FALSE)
    BY <1>13 DEF Invalidate, Uncache
  <2>3. cooling \in BOOLEAN BY <1>0 DEF RestOK
  <2>4. late' \in BOOLEAN BY <2>2
  <2>5. cooling' \in BOOLEAN BY <2>2, <2>3, Zenon
  <2> QED BY <1>0, <2>1, <2>4, <2>5, Now DEF RestOK, historyVars, providerVars
<1>14. CASE CheckTokenVersion(w)
  BY <1>14, <1>0, Now DEF RestOK, CheckTokenVersion, rowVars, cacheVars, historyVars, providerVars, NoFault
<1>15. CASE SetAccessToken(w)
  BY <1>15, <1>0, Now DEF RestOK, SetAccessToken, rowVars, cacheVars, historyVars, providerVars, NoFault
<1>16. CASE Await(w)
  BY <1>16, <1>0, Now DEF RestOK, Await, rowVars, cacheVars, historyVars, providerVars, NoFault
<1>17. CASE Load(w)
  BY <1>17, <1>0, Now DEF RestOK, Load, rowVars, cacheVars, historyVars, providerVars, NoFault
<1>18. CASE ClearAccountError(w)
  <2>1. status' = "active" /\ cooling' = FALSE /\ faults' = faults
        /\ UNCHANGED <<cas, home, cred, due, cacheVars, lock, stamp, historyVars, providerVars>>
    BY <1>18 DEF ClearAccountError, NoFault
  <2>2. cooling' \in BOOLEAN BY <2>1
  <2> QED BY <1>0, <2>1, <2>2, Now DEF RestOK, cacheVars, historyVars, providerVars
<1>19. CASE StartManual(w)
  BY <1>19, <1>0, ActTyped, Now DEF RestOK, StartManual, rowVars, cacheVars, historyVars, providerVars, NoFault
<1>20. CASE StartEdit(w)
  BY <1>20, <1>0, ActTyped, Now DEF RestOK, StartEdit, rowVars, cacheVars, historyVars, providerVars, NoFault
<1>21. CASE StartReauth(w)
  <2>1. newest' \in Grants /\ current' \in [Grants -> {Revoked} \cup 0 .. MaxTurns]
    BY <1>21, <1>0, ProviderAssumption DEF RestOK, StartReauth, Authorise, Grants
  <2> QED BY <1>21, <1>0, <2>1, ActTyped, Now DEF RestOK, StartReauth, rowVars, cacheVars, historyVars, providerVars, NoFault
<1>22. CASE Present(w)
  <2>1. newest' \in Grants /\ current' \in [Grants -> {Revoked} \cup 0 .. MaxTurns]
    BY <1>22, RotateTyped, Now DEF Present
  <2>2. stamp' = stamp \/ stamp' = stamp + 1 BY <1>22 DEF Present
  <2>3. stamp' \in Nat /\ stamp <= stamp' /\ cred.version <= stamp'
    BY <2>2, Now DEF Document
  <2>4. UNCHANGED <<cas, home, rowVars, due, cacheVars, lock, historyVars, faults>>
    BY <1>22 DEF Present, NoFault
  <2> QED BY <1>0, <2>1, <2>3, <2>4 DEF RestOK, rowVars, cacheVars, historyVars
<1>23. CASE LoseAnswer(w)
  <2>1. newest' \in Grants /\ current' \in [Grants -> {Revoked} \cup 0 .. MaxTurns]
    BY <1>23, RotateTyped, Now DEF LoseAnswer
  <2> QED BY <1>23, <1>0, <2>1, FaultTyped, Now DEF RestOK, LoseAnswer, rowVars, cacheVars, historyVars, providerVars, NoFault
<1>24. CASE Persist(w)
  BY <1>24, <1>0, Now DEF RestOK, Persist, rowVars, cacheVars, historyVars, providerVars, NoFault
<1>25. CASE PersistFails(w)
  BY <1>25, <1>0, FaultTyped, Now DEF RestOK, PersistFails, rowVars, cacheVars, historyVars, providerVars, NoFault
<1>26. CASE UpdateAccount(w)
  BY <1>26, <1>0, <1>a, Now DEF RestOK, UpdateAccount, JobType, rowVars, cacheVars, historyVars, providerVars, NoFault
<1>27. CASE LockFails(w)
  BY <1>27, <1>0, FaultTyped, Now DEF RestOK, LockFails, rowVars, cacheVars, historyVars, providerVars, NoFault
<1>28. CASE ReleaseFails(w)
  BY <1>28, <1>0, FaultTyped, Now DEF RestOK, ReleaseFails, rowVars, cacheVars, historyVars, providerVars, NoFault
<1>29. CASE CheckFails(w)
  BY <1>29, <1>0, FaultTyped, Now DEF RestOK, CheckFails, rowVars, cacheVars, historyVars, providerVars, NoFault
<1>30. CASE AttemptFails(w)
  BY <1>30, <1>0, FaultTyped, Now DEF RestOK, AttemptFails, rowVars, cacheVars, historyVars, providerVars, NoFault
<1>31. CASE RecoverFails(w)
  BY <1>31, <1>0, FaultTyped, Now DEF RestOK, RecoverFails, rowVars, cacheVars, historyVars, providerVars, NoFault
<1>32. CASE MutexTimesOut(w)
  BY <1>32, <1>0, FaultTyped, Now DEF RestOK, MutexTimesOut, rowVars, cacheVars, historyVars, providerVars, NoFault
<1>33. CASE StepFails(w)
  BY <1>33, <1>0, FaultTyped, Now DEF RestOK, StepFails, rowVars, cacheVars, historyVars, providerVars, NoFault
<1>34. CASE PurgeFails(w)
  <2>1. /\ UNCHANGED <<cas, home, rowVars, due, lock, stamp, historyVars, providerVars>>
        /\ UNCHANGED cacheVars \/ Uncache
    BY <1>34 DEF PurgeFails
  <2>2. faults' \in 0 .. MaxFaults BY <1>34, FaultTyped DEF PurgeFails
  <2>3. CASE UNCHANGED cacheVars
    BY <1>0, <2>1, <2>2, <2>3, Now DEF RestOK, rowVars, cacheVars, historyVars, providerVars
  <2>4. CASE Uncache
    <3>1. cache' = NoToken /\ late' = FALSE BY <2>4 DEF Uncache
    <3>2. late' \in BOOLEAN BY <3>1
    <3> QED BY <1>0, <2>1, <2>2, <3>1, <3>2, Now DEF RestOK, rowVars, historyVars, providerVars
  <2> QED BY <2>1, <2>3, <2>4
<1> QED
  BY <1>1, <1>2, <1>3, <1>4, <1>5, <1>6, <1>7, <1>8, <1>9, <1>10, <1>11, <1>12, <1>13, <1>14, <1>15, <1>16, <1>17, <1>18, <1>19, <1>20, <1>21, <1>22, <1>23, <1>24, <1>25, <1>26, <1>27, <1>28, <1>29, <1>30, <1>31, <1>32, <1>33, <1>34
     DEF Start, Advance, GoWrong

LEMMA JobsKept ==
    ASSUME Typed, UNCHANGED <<job, stamp>>, kinds \subseteq kinds'
    PROVE  /\ job' \in [Workers -> JobType]
           /\ \A q \in Workers : /\ Shape(job'[q], kinds')
                                 /\ job'[q].tried.version <= stamp'
                                 /\ job'[q].fresh.version <= stamp'
BY DEF Typed, TypeOK, Shape, IsApi

LEMMA EnvironmentTyped == ASSUME Typed, Environment PROVE Typed'
<1>0. RestOK /\ job \in [Workers -> JobType] BY DEF Typed, TypeOK, RestOK
<1>a. ASSUME RestOK', UNCHANGED <<job, stamp>>, kinds \subseteq kinds' PROVE Typed'
  BY <1>a, JobsKept DEF Typed, TypeOK, RestOK
<1>1. CASE Revoke
  <2>1. current' \in [Grants -> {Revoked} \cup 0 .. MaxTurns] /\ newest' \in Grants
    BY <1>0, <1>1 DEF RestOK, Revoke, EndGrant
  <2>2. acts' \in 0 .. MaxActs /\ kinds \subseteq kinds'
        /\ kinds' \subseteq {"manual", "edit", "reauth", "revoke"}
    BY <1>1, ActTyped DEF Revoke
  <2> QED BY <1>0, <1>1, <1>a, <2>1, <2>2 DEF RestOK, Revoke, rowVars, cacheVars, NoFault
<1>2. CASE Age BY <1>0, <1>2, <1>a DEF RestOK, Age, rowVars, cacheVars, historyVars, providerVars, NoFault
<1>3. CASE CooldownEnds
  <2>1. cooling' \in BOOLEAN BY <1>3 DEF CooldownEnds
  <2>2. /\ faults' = faults
        /\ UNCHANGED <<cas, home, cred, status, due, cacheVars, lock, stamp, job, historyVars,
                       providerVars>>
    BY <1>3 DEF CooldownEnds, NoFault
  <2> QED BY <1>0, <1>a, <2>1, <2>2 DEF RestOK, cacheVars, historyVars, providerVars
<1>4. CASE CacheExpires
  <2>1. late' \in BOOLEAN BY <1>4 DEF CacheExpires, Uncache
  <2>2. /\ cache' = NoToken /\ faults' = faults
        /\ UNCHANGED <<cas, home, rowVars, due, lock, stamp, job, historyVars, providerVars>>
    BY <1>4 DEF CacheExpires, Uncache, NoFault
  <2> QED BY <1>0, <1>a, <2>1, <2>2 DEF RestOK, rowVars, historyVars, providerVars
<1>5. CASE LockLapses BY <1>0, <1>5, <1>a DEF RestOK, LockLapses, rowVars, cacheVars, historyVars, providerVars, NoFault
<1>6. CASE Stall BY <1>0, <1>6, <1>a, FaultTyped DEF RestOK, Stall, rowVars, cacheVars, historyVars, providerVars, NoFault
<1>7. ASSUME NEW i \in Instances, Crash(i) PROVE Typed'
  <2>1. RestOK' /\ stamp' = stamp /\ kinds' = kinds
    BY <1>0, <1>7, FaultTyped DEF RestOK, Crash, rowVars, cacheVars, historyVars, providerVars, NoFault
  <2>2. job' \in [Workers -> JobType] BY <1>0, <1>7, IdleTyped DEF Crash
  <2>3. \A q \in Workers : job'[q] = Idle \/ job'[q] = job[q] BY <1>7 DEF Crash
  <2>4. Fits(Idle) BY <2>1, Ended
  <2>5. \A q \in Workers : /\ Shape(job'[q], kinds')
                           /\ job'[q].tried.version <= stamp'
                           /\ job'[q].fresh.version <= stamp'
    BY <2>1, <2>3, <2>4 DEF Fits, Typed
  <2> QED BY <2>1, <2>2, <2>5 DEF Typed, TypeOK, RestOK
<1> QED BY <1>1, <1>2, <1>3, <1>4, <1>5, <1>6, <1>7 DEF Environment

LEMMA StepTyped == Typed /\ [Next]_vars => Typed'
<1> SUFFICES ASSUME Typed, [Next]_vars PROVE Typed' OBVIOUS
<1>1. ASSUME NEW w \in Workers, Start(w) \/ Advance(w) \/ GoWrong(w) PROVE Typed'
  <2>1. RestOK' /\ stamp <= stamp' /\ kinds \subseteq kinds' BY <1>1, StepRest
  <2>2. Moved(w) BY <1>1, AllMove
  <2>3. stamp' \in Nat BY <2>1 DEF RestOK
  <2> QED BY <2>1, <2>2, <2>3, MovedTyped DEF Typed, TypeOK, RestOK
<1>2. CASE UNCHANGED vars
  BY <1>2 DEF vars, rowVars, cacheVars, historyVars, providerVars, Typed, TypeOK, Shape, IsApi
<1> QED BY <1>1, <1>2, EnvironmentTyped DEF Next

LEMMA InitTyped == Init => Typed
<1> SUFFICES ASSUME Init PROVE Typed OBVIOUS
<1>1. First \in Document /\ First.version = 0 /\ 0 \in Grants /\ 0 \in 0 .. MaxTurns
  BY ProviderAssumption DEF First, Document, Grants
<1>2. newest \in Grants /\ current \in [Grants -> {Revoked} \cup 0 .. MaxTurns]
  BY <1>1 DEF Init, ProviderInit
<1>3. job \in [Workers -> JobType] /\ \A w \in Workers : job[w] = Idle
  BY IdleTyped DEF Init
<1>4. home \in [Workers -> Instances] BY HomesAssumption DEF Init
<1>5. 0 \in 0 .. MaxActs /\ 0 \in 0 .. MaxFaults BY BoundsAssumption
<1>6. TypeOK
  <2>1. cas \in BOOLEAN /\ cooling \in BOOLEAN /\ late \in BOOLEAN BY DEF Init
  <2>2. /\ cred = First /\ status = "active" /\ due = {} /\ cache = NoToken
        /\ lock = Nobody /\ stamp = 0 /\ acts = 0 /\ kinds = {} /\ faults = 0
    BY DEF Init
  <2> QED BY <1>1, <1>2, <1>3, <1>4, <1>5, <2>1, <2>2 DEF TypeOK
<1>7. Idle.pc = "idle" /\ Idle.task = "none" BY DEF Idle
<1>8. \A w \in Workers : Shape(job[w], kinds) BY <1>3, <1>7 DEF Shape, IsApi
<1> QED BY <1>3, <1>6, <1>8, IdleTyped DEF Typed, Init

\* Types, and no document has a version that was not given: the order in which the
\* version check compares documents.
THEOREM TypeCorrect == Spec => []TypeOK
<1>1. Spec => []Typed BY InitTyped, StepTyped, PTL DEF Spec
<1>2. Typed => TypeOK BY DEF Typed
<1> QED BY <1>1, <1>2, PTL

-----------------------------------------------------------------------------
(* What a step does, as the other invariants need it. *)

LEMMA NewJob ==
    ASSUME Typed, NEW w \in Workers, NEW r, Become(w, r)
    PROVE  job'[w] = r /\ \A q \in Workers \ {w} : job'[q] = job[q]
BY DEF Become, Typed, TypeOK

Others(w) == \A q \in Workers \ {w} : job'[q] = job[q]
Known(j) == {First, cred, j.acct, j.tried, j.fresh}
Holds(j, S) == j.acct \in S /\ j.tried \in S /\ j.fresh \in S

\* A step that concerns neither the lock nor the provider nor the stored document.
CalmSteps == {"idle", "mutex", "lock", "await", "cooldown", "invalidate", "check", "set", "clear"}
Calm(w) == /\ Others(w) /\ job'[w].pc \in CalmSteps /\ Holds(job'[w], Known(job[w]))
           /\ job'[w].task \in {job[w].task, "none", "request", "background"}
           /\ UNCHANGED <<cas, cred, lock, acts, kinds, newest, current>>

LEMMA FinishCalm ==
    ASSUME Typed, NEW w \in Workers, Finish(w),
           UNCHANGED <<cas, cred, lock, acts, kinds, newest, current>>
    PROVE  Calm(w)
<1>1. job'[w] = Idle /\ Others(w) BY NewJob DEF Finish, Others
<1> QED BY <1>1 DEF Calm, CalmSteps, Idle, Holds, Known

LEMMA ProceedCalm ==
    ASSUME Typed, NEW w \in Workers, NEW p \in CalmSteps, Proceed(w, p),
           UNCHANGED <<cas, cred, lock, acts, kinds, newest, current>>
    PROVE  Calm(w)
<1>1. job'[w] = [Idle EXCEPT !.task = job[w].task, !.pc = p] /\ Others(w)
  BY NewJob DEF Proceed, Others
<1> QED BY <1>1 DEF Calm, Idle, Holds, Known

LEMMA GotoCalm ==
    ASSUME Typed, NEW w \in Workers, NEW p \in CalmSteps, Goto(w, p),
           UNCHANGED <<cas, cred, lock, acts, kinds, newest, current>>
    PROVE  Calm(w)
<1>1. job'[w] = [job[w] EXCEPT !.pc = p] /\ Others(w) BY NewJob DEF Goto, Others
<1> QED BY <1>1, Now DEF Calm, Holds, Known, JobType

CalmStep(w) ==
    \/ StartRequest(w) \/ StartBackground(w) \/ TakeMutex(w) \/ LockHeld(w)
    \/ SetError(w) \/ CoolDown(w) \/ Invalidate(w) \/ CheckTokenVersion(w)
    \/ CheckFails(w) \/ SetAccessToken(w) \/ Await(w) \/ ClearAccountError(w)
    \/ MutexTimesOut(w) \/ StepFails(w)

LEMMA CalmIsCalm ==
    ASSUME Typed, NEW w \in Workers, CalmStep(w)
    PROVE  Calm(w)
<1> USE FinishCalm, ProceedCalm, GotoCalm DEF rowVars, providerVars, historyVars, CalmSteps
<1>a. job[w] \in JobType BY Now
<1>1. ASSUME NEW t \in {"request", "background"}, NEW q \in {"mutex", "check"},
             Become(w, [Idle EXCEPT !.task = t, !.acct = cred, !.pc = q]),
             UNCHANGED <<cas, cred, lock, acts, kinds, newest, current>>
      PROVE  Calm(w)
  <2>1. job'[w] = [Idle EXCEPT !.task = t, !.acct = cred, !.pc = q] /\ Others(w)
    BY <1>1, NewJob DEF Others
  <2> QED BY <1>1, <2>1 DEF Calm, Idle, Holds, Known
<1>2. CASE StartRequest(w) BY <1>1, <1>2 DEF StartRequest
<1>3. CASE StartBackground(w) BY <1>1, <1>3 DEF StartBackground
<1>4. CASE TakeMutex(w) BY <1>4 DEF TakeMutex
<1>5. CASE LockHeld(w)
  <2>1. IsApi(job[w]) BY <1>5, Now DEF LockHeld, At, Shape
  <2> QED BY <1>5, <2>1 DEF LockHeld, IsApi
<1>6. CASE SetError(w) BY <1>6 DEF SetError
<1>7. CASE CoolDown(w) BY <1>7 DEF CoolDown
<1>8. CASE Invalidate(w) BY <1>8 DEF Invalidate
<1>9. ASSUME NEW a \in {job[w].acct, cred},
             Become(w, [job[w] EXCEPT !.acct = a, !.tried = cred, !.pc = "set"]),
             UNCHANGED <<cas, cred, lock, acts, kinds, newest, current>>
      PROVE  Calm(w)
  <2>1. job'[w] = [job[w] EXCEPT !.acct = a, !.tried = cred, !.pc = "set"] /\ Others(w)
    BY <1>9, NewJob DEF Others
  <2>2. /\ job'[w].acct = a /\ job'[w].tried = cred /\ job'[w].fresh = job[w].fresh
        /\ job'[w].pc = "set" /\ job'[w].task = job[w].task
    BY <1>a, <2>1 DEF JobType
  <2>3. Holds(job'[w], Known(job[w])) BY <1>9, <2>2 DEF Holds, Known
  <2> HIDE FinishCalm, ProceedCalm, GotoCalm
  <2> QED BY <1>9, <2>1, <2>2, <2>3 DEF Calm
<1>10. CASE CheckTokenVersion(w)
  <2>1. [job[w] EXCEPT !.tried = cred, !.pc = "set"]
          = [job[w] EXCEPT !.acct = job[w].acct, !.tried = cred, !.pc = "set"]
    BY <1>a DEF JobType
  <2> QED BY <1>9, <1>10, <2>1 DEF CheckTokenVersion
<1>11. CASE CheckFails(w) BY <1>11 DEF CheckFails
<1>12. CASE SetAccessToken(w) BY <1>12 DEF SetAccessToken
<1>13. CASE Await(w) BY <1>9, <1>13 DEF Await
<1>14. CASE ClearAccountError(w) BY <1>14 DEF ClearAccountError
<1>15. CASE MutexTimesOut(w)
  <2>1. IsApi(job[w]) BY <1>15, Now DEF MutexTimesOut, At, Shape
  <2> QED BY <1>15, <2>1 DEF MutexTimesOut, IsApi
<1>16. CASE StepFails(w) BY <1>16 DEF StepFails
<1> QED BY <1>2, <1>3, <1>4, <1>5, <1>6, <1>7, <1>8, <1>10, <1>11, <1>12, <1>13,
           <1>14, <1>15, <1>16 DEF CalmStep

\* The other steps, as functions from a job j to a job k.
Same(j, k) == k.acct = j.acct /\ k.tried = j.tried /\ k.held = j.held /\ k.task = j.task
EndsWith(j, k, o) == Same(j, k) /\ k.pc = "release" /\ k.outcome = o /\ k.fresh = First
Bystanders == UNCHANGED <<cas, acts, kinds>>
ProviderSame == UNCHANGED <<newest, current>>

LEMMA EndsDoes ==
    ASSUME Typed, NEW w \in Workers, NEW o, Ends(w, o)
    PROVE  Others(w) /\ EndsWith(job[w], job'[w], o)
<1>1. job'[w] = [job[w] EXCEPT !.pc = "release", !.outcome = o, !.fresh = First] /\ Others(w)
  BY NewJob DEF Ends, Others
<1> QED BY <1>1, Now DEF EndsWith, Same, JobType

\* Under the lock.
LEMMA TakeLockDoes ==
    ASSUME Typed, NEW w \in Workers, TakeLock(w)
    PROVE  /\ Others(w) /\ Bystanders /\ ProviderSame /\ cred' = cred /\ faults' = faults
           /\ job[w].pc = "lock" /\ lock = Nobody /\ lock' = w
           /\ job'[w].pc = "reread" /\ job'[w].held /\ job'[w].fresh = job[w].fresh
           /\ job'[w].acct = job[w].acct /\ job'[w].tried = job[w].tried
           /\ job'[w].task = job[w].task
<1>1. job'[w] = [job[w] EXCEPT !.pc = "reread", !.held = TRUE] /\ Others(w)
  BY NewJob DEF TakeLock, Others
<1> QED BY <1>1, Now DEF TakeLock, At, JobType, Bystanders, ProviderSame, rowVars, historyVars,
                        providerVars, NoFault

LEMMA LockFailsDoes ==
    ASSUME Typed, NEW w \in Workers, LockFails(w)
    PROVE  /\ Others(w) /\ Bystanders /\ ProviderSame /\ cred' = cred /\ Fault
           /\ job'[w].pc = "reread" /\ job'[w].fresh = job[w].fresh /\ Same(job[w], job'[w])
<1>1. job'[w] = [job[w] EXCEPT !.pc = "reread"] /\ Others(w)
  BY NewJob DEF LockFails, Goto, Others
<1> QED BY <1>1, Now DEF LockFails, Same, JobType, Bystanders, ProviderSame, rowVars, historyVars,
                        providerVars

LEMMA RereadDoes ==
    ASSUME Typed, NEW w \in Workers, Reread(w)
    PROVE  /\ Others(w) /\ Bystanders /\ ProviderSame /\ cred' = cred /\ faults' = faults
           /\ lock' = lock /\ job[w].pc = "reread" /\ IsApi(job[w])
           /\ job'[w].pc \in {"provider", "release"}
           /\ job'[w].outcome \in {"failed", "skipped"}
           /\ job'[w].acct = job[w].acct /\ job'[w].tried = cred
           /\ job'[w].fresh = job[w].fresh /\ job'[w].held = job[w].held
           /\ job'[w].task = job[w].task
<1>1. job'[w] = [job[w] EXCEPT
         !.tried = cred,
         !.pc = IF Refreshable THEN "provider" ELSE "release",
         !.outcome = IF RefusedToRequest(w) THEN "failed" ELSE "skipped"] /\ Others(w)
  BY NewJob DEF Reread, Others
<1> QED BY <1>1, Now DEF Reread, At, Shape, JobType, Bystanders, ProviderSame, rowVars, historyVars,
                        providerVars, NoFault

LEMMA PresentDoes ==
    ASSUME Typed, NEW w \in Workers, Present(w)
    PROVE  /\ Others(w) /\ Bystanders /\ cred' = cred /\ faults' = faults /\ lock' = lock
           /\ job[w].pc = "provider" /\ Rotate(job[w].tried)
           /\ job'[w].task = job[w].task
           /\ job'[w].fresh.grant = job[w].tried.grant
           /\ job'[w].fresh.turn = job[w].tried.turn + 1
           /\ \/ /\ IsApi(job[w]) /\ Same(job[w], job'[w]) /\ job'[w].pc = "persist"
                 /\ stamp' = stamp + 1 /\ job'[w].fresh.version = stamp'
              \/ /\ job[w].task = "manual" /\ job'[w].pc = "load"
                 /\ job'[w].acct = First /\ job'[w].tried = First
<1>1. /\ Bystanders /\ cred' = cred /\ faults' = faults /\ lock' = lock
      /\ job[w].pc = "provider" /\ Rotate(job[w].tried)
  BY DEF Present, At, Bystanders, rowVars, historyVars, NoFault
<1>2. IsApi(job[w]) \/ job[w].task = "manual" BY <1>1, Now DEF Shape
<1> DEFINE d == Successor(job[w].tried, stamp')
           e == Successor(job[w].tried, job[w].tried.version)
<1>3. /\ d.grant = job[w].tried.grant /\ d.turn = job[w].tried.turn + 1 /\ d.version = stamp'
      /\ e.grant = job[w].tried.grant /\ e.turn = job[w].tried.turn + 1
  BY DEF Successor
<1>4. CASE IsApi(job[w])
  <2>1. Become(w, [job[w] EXCEPT !.pc = "persist", !.fresh = d]) /\ stamp' = stamp + 1
    BY <1>4 DEF Present
  <2> HIDE DEF d, e
  <2>2. job'[w] = [job[w] EXCEPT !.pc = "persist", !.fresh = d] /\ Others(w)
    BY <2>1, NewJob DEF Others
  <2> QED BY <1>1, <1>3, <1>4, <2>1, <2>2, Now DEF Same, JobType
<1>5. CASE ~IsApi(job[w])
  <2>1. Become(w, [Idle EXCEPT !.task = job[w].task, !.pc = "load", !.fresh = e])
    BY <1>5 DEF Present
  <2> HIDE DEF d, e
  <2>2. job'[w] = [Idle EXCEPT !.task = job[w].task, !.pc = "load", !.fresh = e] /\ Others(w)
    BY <2>1, NewJob DEF Others
  <2> QED BY <1>1, <1>2, <1>3, <1>5, <2>2 DEF Idle
<1> QED BY <1>4, <1>5

LEMMA RejectedDoes ==
    ASSUME Typed, NEW w \in Workers, Rejected(w)
    PROVE  /\ Others(w) /\ Bystanders /\ ProviderSame /\ cred' = cred /\ faults' = faults
           /\ lock' = lock /\ job[w].pc = "provider" /\ ~Live(job[w].tried)
           /\ \/ /\ IsApi(job[w]) /\ Same(job[w], job'[w]) /\ job'[w].pc = "recover"
                 /\ job'[w].fresh = job[w].fresh
              \/ IsApi(job[w]) /\ EndsWith(job[w], job'[w], "invalid")
              \/ job[w].task = "manual" /\ job'[w] = Idle
<1>1. /\ Bystanders /\ ProviderSame /\ cred' = cred /\ faults' = faults /\ lock' = lock
      /\ job[w].pc = "provider" /\ ~Live(job[w].tried)
  BY DEF Rejected, At, Bystanders, ProviderSame, rowVars, historyVars, providerVars, NoFault
<1>2. IsApi(job[w]) \/ job[w].task = "manual" BY <1>1, Now DEF Shape
<1>3. CASE IsApi(job[w]) /\ Goto(w, "recover")
  <2>1. job'[w] = [job[w] EXCEPT !.pc = "recover"] /\ Others(w)
    BY <1>3, NewJob DEF Goto, Others
  <2> QED BY <1>1, <1>3, <2>1, Now DEF Same, JobType
<1>4. CASE IsApi(job[w]) /\ Ends(w, "invalid") BY <1>1, <1>4, EndsDoes
<1>5. CASE Finish(w) /\ ~IsApi(job[w])
  <2>1. job'[w] = Idle /\ Others(w) BY <1>5, NewJob DEF Finish, Others
  <2> QED BY <1>1, <1>2, <1>5, <2>1
<1> QED BY <1>3, <1>4, <1>5 DEF Rejected

LEMMA LoseAnswerDoes ==
    ASSUME Typed, NEW w \in Workers, LoseAnswer(w)
    PROVE  /\ Others(w) /\ Bystanders /\ cred' = cred /\ Fault
           /\ Rotate(job[w].tried)
           /\ EndsWith(job[w], job'[w], "failed") \/ job'[w] = Idle
<1>1. /\ Bystanders /\ cred' = cred /\ Fault /\ Rotate(job[w].tried)
  BY DEF LoseAnswer, Bystanders, rowVars, historyVars
<1>2. CASE Ends(w, "failed") BY <1>1, <1>2, EndsDoes
<1>3. CASE Finish(w)
  <2>1. job'[w] = Idle /\ Others(w) BY <1>3, NewJob DEF Finish, Others
  <2> QED BY <1>1, <2>1
<1> QED BY <1>2, <1>3 DEF LoseAnswer

LEMMA RecoverDoes ==
    ASSUME Typed, NEW w \in Workers, Recover(w)
    PROVE  /\ Others(w) /\ Bystanders /\ ProviderSame /\ cred' = cred /\ faults' = faults
           /\ lock' = lock /\ job[w].pc = "recover" /\ IsApi(job[w])
           /\ \/ EndsWith(job[w], job'[w], "invalid")
              \/ /\ job'[w].pc = "release" /\ job'[w].outcome = "skipped"
                 /\ job'[w].acct = job[w].acct /\ job'[w].tried = cred
                 /\ job'[w].fresh = job[w].fresh /\ job'[w].held = job[w].held
                 /\ job'[w].task = job[w].task
<1>1. /\ Bystanders /\ ProviderSame /\ cred' = cred /\ faults' = faults /\ lock' = lock
      /\ job[w].pc = "recover" /\ IsApi(job[w])
  BY Now DEF Recover, At, Shape, Bystanders, ProviderSame, rowVars, historyVars, providerVars, NoFault
<1>2. CASE Ends(w, "invalid") BY <1>1, <1>2, EndsDoes
<1>3. CASE Become(w, [job[w] EXCEPT !.tried = cred, !.pc = "release", !.outcome = "skipped"])
  <2>1. /\ job'[w] = [job[w] EXCEPT !.tried = cred, !.pc = "release", !.outcome = "skipped"]
        /\ Others(w)
    BY <1>3, NewJob DEF Others
  <2> QED BY <1>1, <2>1, Now DEF JobType
<1> QED BY <1>2, <1>3 DEF Recover

LEMMA PersistDoes ==
    ASSUME Typed, NEW w \in Workers, Persist(w)
    PROVE  /\ Others(w) /\ Bystanders /\ ProviderSame /\ faults' = faults
           /\ lock' = lock /\ job[w].pc = "persist" /\ IsApi(job[w])
           /\ job'[w].acct = job[w].acct /\ job'[w].held = job[w].held
           /\ job'[w].fresh = First /\ job'[w].task = job[w].task
           /\ job'[w].pc \in {"purge", "release"}
           /\ \/ /\ Persists(w) /\ cred' = job[w].fresh /\ job'[w].tried = job[w].fresh
                 /\ job'[w].outcome = "refreshed"
              \/ /\ ~Persists(w) /\ cred' = cred /\ job'[w].tried = cred
                 /\ job'[w].outcome = "skipped" /\ job'[w].pc = "release"
<1>1. /\ Bystanders /\ ProviderSame /\ faults' = faults /\ lock' = lock
      /\ job[w].pc = "persist" /\ IsApi(job[w])
  BY Now DEF Persist, At, Shape, Bystanders, ProviderSame, historyVars, providerVars, NoFault
<1>2. CASE Persists(w)
  <2>1. PICK q \in {"purge", "release"} :
           Become(w, [job[w] EXCEPT !.tried = job[w].fresh, !.outcome = "refreshed",
                                    !.fresh = First, !.pc = q])
    BY <1>2 DEF Persist
  <2>2. job'[w] = [job[w] EXCEPT !.tried = job[w].fresh, !.outcome = "refreshed",
                                 !.fresh = First, !.pc = q] /\ Others(w)
    BY <2>1, NewJob DEF Others
  <2>3. cred' = job[w].fresh BY <1>2 DEF Persist
  <2> QED BY <1>1, <1>2, <2>2, <2>3, Now DEF JobType
<1>3. CASE ~Persists(w)
  <2>1. /\ Become(w, [job[w] EXCEPT !.tried = cred, !.outcome = "skipped", !.fresh = First,
                                    !.pc = "release"])
        /\ cred' = cred
    BY <1>3 DEF Persist
  <2>2. job'[w] = [job[w] EXCEPT !.tried = cred, !.outcome = "skipped", !.fresh = First,
                                 !.pc = "release"] /\ Others(w)
    BY <2>1, NewJob DEF Others
  <2> QED BY <1>1, <1>3, <2>1, <2>2, Now DEF JobType
<1> QED BY <1>2, <1>3

LEMMA PersistFailsDoes ==
    ASSUME Typed, NEW w \in Workers, PersistFails(w)
    PROVE  /\ Others(w) /\ Bystanders /\ ProviderSame /\ Fault
           /\ cred' \in {cred, job[w].fresh}
           /\ \E o \in {"contained", "failed"} : EndsWith(job[w], job'[w], o)
<1>1. Bystanders /\ ProviderSame /\ Fault /\ cred' \in {cred, job[w].fresh}
  BY DEF PersistFails, Bystanders, ProviderSame, historyVars, providerVars
<1>2. PICK o \in {"contained", "failed"} : Ends(w, o) BY DEF PersistFails
<1> QED BY <1>1, <1>2, EndsDoes

LEMMA PurgeDoes ==
    ASSUME Typed, NEW w \in Workers, Purge(w)
    PROVE  /\ Others(w) /\ Bystanders /\ ProviderSame /\ cred' = cred /\ lock' = lock
           /\ faults' = faults
           /\ job[w].pc = "purge" /\ job'[w].pc = "release" /\ IsApi(job[w])
           /\ job'[w].outcome = job[w].outcome /\ job'[w].task = job[w].task
           /\ job'[w].acct = job[w].acct /\ job'[w].tried = cred
           /\ job'[w].fresh = job[w].fresh /\ job'[w].held = job[w].held
<1>1. job'[w] = [job[w] EXCEPT !.tried = cred, !.pc = "release"] /\ Others(w)
  BY NewJob DEF Purge, Others
<1> QED BY <1>1, Now DEF Purge, At, Shape, JobType, Bystanders, ProviderSame, rowVars,
                        historyVars, providerVars, NoFault

LEMMA PurgeFailsDoes ==
    ASSUME Typed, NEW w \in Workers, PurgeFails(w)
    PROVE  /\ Others(w) /\ Bystanders /\ ProviderSame /\ cred' = cred /\ Fault
           /\ job[w].pc = "purge" /\ job'[w].pc = "release"
           /\ job'[w].outcome \in {job[w].outcome, "contained"}
           /\ job'[w].acct = job[w].acct /\ job'[w].tried \in {cred, job[w].tried}
           /\ job'[w].fresh \in {job[w].fresh, First}
<1>1. /\ Bystanders /\ ProviderSame /\ cred' = cred /\ Fault /\ job[w].pc = "purge"
  BY DEF PurgeFails, At, Bystanders, ProviderSame, rowVars, historyVars, providerVars
<1>2. CASE Become(w, [job[w] EXCEPT !.tried = cred, !.pc = "release"])
  <2>1. job'[w] = [job[w] EXCEPT !.tried = cred, !.pc = "release"] /\ Others(w)
    BY <1>2, NewJob DEF Others
  <2> QED BY <1>1, <2>1, Now DEF JobType
<1>3. CASE Ends(w, "contained") BY <1>1, <1>3, EndsDoes DEF EndsWith, Same
<1> QED BY <1>2, <1>3 DEF PurgeFails

LEMMA FailDoes ==
    ASSUME Typed, NEW w \in Workers, AttemptFails(w) \/ RecoverFails(w)
    PROVE  /\ Others(w) /\ Bystanders /\ ProviderSame /\ cred' = cred /\ Fault /\ lock' = lock
           /\ \/ EndsWith(job[w], job'[w], "contained") \/ EndsWith(job[w], job'[w], "failed")
              \/ job[w].pc = "recover" /\ EndsWith(job[w], job'[w], "invalid")
<1>1. /\ Bystanders /\ ProviderSame /\ cred' = cred /\ Fault /\ lock' = lock
  BY DEF AttemptFails, RecoverFails, Bystanders, ProviderSame, rowVars, historyVars, providerVars
<1>2. CASE AttemptFails(w)
  <2>1. Ends(w, "contained") \/ Ends(w, "failed") BY <1>2 DEF AttemptFails
  <2> QED BY <1>1, <2>1, EndsDoes
<1>3. CASE RecoverFails(w) BY <1>1, <1>3, EndsDoes DEF RecoverFails, At
<1> QED BY <1>2, <1>3

\* Releasing: the job goes on calmly or to its error.
LEMMA ReleaseDoes ==
    ASSUME Typed, NEW w \in Workers, Release(w) \/ ReleaseFails(w)
    PROVE  /\ Others(w) /\ Bystanders /\ ProviderSame /\ cred' = cred
           /\ job[w].pc = "release" /\ IsApi(job[w])
           /\ Release(w) => /\ lock' = IF job[w].held THEN Nobody ELSE lock
                            /\ faults' = faults
           /\ ReleaseFails(w) => Fault
           /\ job'[w].pc \in CalmSteps \cup {"seterror"}
           /\ job'[w].acct \in {First, job[w].tried, job[w].acct}
           /\ job'[w].tried = First /\ job'[w].fresh = First
           /\ job'[w].task \in {"none", "request", "background"}
           /\ job'[w].pc = "seterror" => job[w].outcome = "invalid" /\ job'[w].acct = job[w].tried
           /\ job'[w].pc # "set"
           /\ job[w].outcome = "refreshed"
                => \/ job'[w] = Idle
                   \/ /\ job'[w].outcome = "refreshed" /\ job'[w].pc \in {"check", "invalidate"}
                      /\ job'[w].acct = job[w].tried
<1>1. /\ Bystanders /\ ProviderSame /\ cred' = cred /\ job[w].pc = "release" /\ IsApi(job[w])
      /\ Release(w) => lock' = (IF job[w].held THEN Nobody ELSE lock) /\ faults' = faults
      /\ ReleaseFails(w) => Fault
      /\ At(w, "release") /\ Return(w)
  BY Now DEF Release, ReleaseFails, At, Shape, Bystanders, ProviderSame, rowVars, historyVars,
             providerVars, NoFault
<1>2. CASE Finish(w)
  <2>1. job'[w] = Idle /\ Others(w) BY <1>2, NewJob DEF Finish, Others
  <2> QED BY <1>1, <2>1 DEF Idle, CalmSteps
<1>3. ASSUME NEW q \in {"check", "mutex", "cooldown", "seterror", "invalidate"},
             NEW a \in {job[w].tried, job[w].acct}, NEW o \in Outcomes,
             Become(w, [Idle EXCEPT !.task = job[w].task, !.pc = q, !.acct = a, !.outcome = o]),
             q = "seterror" => job[w].outcome = "invalid",
             q # "check" => a = job[w].tried,
             job[w].outcome = "refreshed"
               => q \in {"check", "invalidate"} /\ a = job[w].tried /\ o = "refreshed"
      PROVE  /\ Others(w) /\ job'[w].pc = q /\ job'[w].acct = a /\ job'[w].outcome = o
             /\ job'[w].tried = First /\ job'[w].fresh = First /\ job'[w].task = job[w].task
  <2>1. /\ job'[w] = [Idle EXCEPT !.task = job[w].task, !.pc = q, !.acct = a, !.outcome = o]
        /\ Others(w)
    BY <1>3, NewJob DEF Others
  <2> QED BY <2>1 DEF Idle
<1>4. CASE ~Finish(w)
  <2>1. PICK q \in {"check", "mutex", "cooldown", "seterror", "invalidate"},
             a \in {job[w].tried, job[w].acct}, o \in Outcomes :
           /\ Become(w, [Idle EXCEPT !.task = job[w].task, !.pc = q, !.acct = a, !.outcome = o])
           /\ o \in {"refreshed", "none"} /\ (o = "refreshed" => job[w].outcome = o)
           /\ q = "check" => /\ job[w].task = "request"
                             /\ job[w].outcome = "refreshed"
                                  => a = job[w].tried /\ o = "refreshed"
           /\ q # "check" => job[w].task = "background" /\ a = job[w].tried
           /\ q = "seterror" => job[w].outcome = "invalid"
           /\ q = "invalidate" => job[w].outcome = "refreshed" /\ o = "refreshed"
           /\ job[w].outcome = "refreshed" => q \in {"check", "invalidate"}
    BY <1>1, <1>4, Returns, Zenon
  <2>2. /\ Others(w) /\ job'[w].pc = q /\ job'[w].acct = a /\ job'[w].outcome = o
        /\ job'[w].tried = First /\ job'[w].fresh = First /\ job'[w].task = job[w].task
    <3>1. /\ q = "check" => (job[w].outcome = "refreshed" => a = job[w].tried /\ o = "refreshed")
          /\ q # "check" => a = job[w].tried
          /\ q = "seterror" => job[w].outcome = "invalid"
          /\ q = "invalidate" => o = "refreshed"
          /\ job[w].outcome = "refreshed" => q \in {"check", "invalidate"}
      BY <2>1
    <3>2. job[w].outcome = "refreshed"
            => q \in {"check", "invalidate"} /\ a = job[w].tried /\ o = "refreshed"
      BY <3>1
    <3>3. Become(w, [Idle EXCEPT !.task = job[w].task, !.pc = q, !.acct = a, !.outcome = o])
      BY <2>1
    <3> QED BY <1>3, <3>1, <3>2, <3>3
  <2> QED BY <1>1, <2>1, <2>2 DEF CalmSteps, IsApi
<1> QED BY <1>2, <1>4

\* Administrators.
LEMMA StartDoes ==
    ASSUME Typed, NEW w \in Workers, StartManual(w) \/ StartEdit(w)
    PROVE  /\ Others(w) /\ ProviderSame /\ UNCHANGED <<cas, cred, lock, faults>>
           /\ Act(job'[w].task) /\ job'[w].task \in {"manual", "edit"}
           /\ job'[w].pc = IF job'[w].task = "manual" THEN "provider" ELSE "write"
           /\ job'[w].acct = First /\ job'[w].tried \in {First, cred}
           /\ job'[w].fresh \in {First, cred}
<1>1. CASE StartManual(w)
  <2>1. job'[w] = [Idle EXCEPT !.task = "manual", !.tried = cred, !.pc = "provider"] /\ Others(w)
    BY <1>1, NewJob DEF StartManual, Others
  <2> QED BY <1>1, <2>1 DEF StartManual, Idle, ProviderSame, rowVars, providerVars, NoFault
<1>2. CASE StartEdit(w)
  <2>1. job'[w] = [Idle EXCEPT !.task = "edit", !.fresh = cred, !.seen = status, !.pc = "write"]
        /\ Others(w)
    BY <1>2, NewJob DEF StartEdit, Others
  <2> QED BY <1>2, <2>1 DEF StartEdit, Idle, ProviderSame, rowVars, providerVars, NoFault
<1> QED BY <1>1, <1>2

LEMMA ReauthDoes ==
    ASSUME Typed, NEW w \in Workers, StartReauth(w)
    PROVE  /\ Others(w) /\ Authorise /\ UNCHANGED <<cas, cred, lock, faults>> /\ Act("reauth")
           /\ job'[w].task = "reauth" /\ job'[w].pc = "load"
           /\ job'[w].acct = First /\ job'[w].tried = First
           /\ job'[w].fresh.grant = newest' /\ job'[w].fresh.turn = 0
<1> DEFINE d == [grant |-> newest', turn |-> 0, version |-> cred.version]
<1>1. Become(w, [Idle EXCEPT !.task = "reauth", !.pc = "load", !.fresh = d])
  BY DEF StartReauth
<1>2. d.grant = newest' /\ d.turn = 0 OBVIOUS
<1> HIDE DEF d
<1>3. job'[w] = [Idle EXCEPT !.task = "reauth", !.pc = "load", !.fresh = d] /\ Others(w)
  BY <1>1, NewJob DEF Others
<1>4. job'[w].fresh = d /\ job'[w].task = "reauth" /\ job'[w].pc = "load"
      /\ job'[w].acct = First /\ job'[w].tried = First
  BY <1>3 DEF Idle
<1>5. UNCHANGED <<cas, cred, lock, faults>> BY DEF StartReauth, rowVars, NoFault
<1>6. Act("reauth") /\ Authorise BY DEF StartReauth
<1> QED BY <1>2, <1>3, <1>4, <1>5, <1>6

LEMMA LoadDoes ==
    ASSUME Typed, NEW w \in Workers, Load(w)
    PROVE  /\ Others(w) /\ Bystanders /\ ProviderSame /\ UNCHANGED <<cred, lock, faults>>
           /\ Same(job[w], job'[w]) /\ job'[w].fresh = job[w].fresh
           /\ job[w].pc = "load" /\ job'[w].pc = "write"
<1>1. job'[w] = [job[w] EXCEPT !.seen = status, !.pc = "write"] /\ Others(w)
  BY NewJob DEF Load, Others
<1> QED BY <1>1, Now DEF Load, At, Same, JobType, Bystanders, ProviderSame, rowVars, historyVars,
                        providerVars, NoFault

LEMMA UpdateDoes ==
    ASSUME Typed, NEW w \in Workers, UpdateAccount(w)
    PROVE  /\ Others(w) /\ Bystanders /\ ProviderSame /\ UNCHANGED <<lock, faults>>
           /\ cred' = job[w].fresh /\ job[w].pc = "write"
           /\ job'[w].pc \in {"idle", "invalidate", "clear"}
           /\ job'[w].task \in {"none", job[w].task}
           /\ job'[w].acct = First /\ job'[w].tried = First /\ job'[w].fresh = First
<1>1. /\ Bystanders /\ ProviderSame /\ UNCHANGED <<lock, faults>>
      /\ cred' = job[w].fresh /\ job[w].pc = "write"
  BY DEF UpdateAccount, At, Bystanders, ProviderSame, historyVars, providerVars, NoFault
<1>2. CASE Finish(w)
  <2>1. job'[w] = Idle /\ Others(w) BY <1>2, NewJob DEF Finish, Others
  <2> QED BY <1>1, <2>1 DEF Idle
<1>3. ASSUME NEW q \in {"invalidate", "clear"}, Proceed(w, q)
      PROVE  /\ Others(w) /\ job'[w].pc = q /\ job'[w].task = job[w].task
             /\ job'[w].acct = First /\ job'[w].tried = First /\ job'[w].fresh = First
  <2>1. job'[w] = [Idle EXCEPT !.task = job[w].task, !.pc = q] /\ Others(w)
    BY <1>3, NewJob DEF Proceed, Others
  <2> QED BY <2>1 DEF Idle
<1>4. AfterWrite(w) \in {"idle", "invalidate", "clear"} BY DEF AfterWrite
<1> QED BY <1>1, <1>2, <1>3, <1>4 DEF UpdateAccount

\* All steps of a worker.
LEMMA StepIs ==
    ASSUME NEW w \in Workers, Start(w) \/ Advance(w) \/ GoWrong(w)
    PROVE  \/ CalmStep(w) \/ TakeLock(w) \/ LockFails(w) \/ Reread(w) \/ Present(w)
           \/ Rejected(w) \/ LoseAnswer(w) \/ Recover(w) \/ Persist(w) \/ PersistFails(w)
           \/ Purge(w) \/ PurgeFails(w)
           \/ (AttemptFails(w) \/ RecoverFails(w)) \/ (Release(w) \/ ReleaseFails(w))
           \/ (StartManual(w) \/ StartEdit(w)) \/ StartReauth(w) \/ Load(w) \/ UpdateAccount(w)
<1>1. CASE Start(w) BY <1>1 DEF Start, CalmStep
<1>2. CASE \/ TakeMutex(w) \/ LockHeld(w) \/ SetError(w) \/ CoolDown(w) \/ Invalidate(w)
           \/ CheckTokenVersion(w) \/ SetAccessToken(w) \/ Await(w) \/ ClearAccountError(w)
           \/ CheckFails(w) \/ MutexTimesOut(w) \/ StepFails(w)
  <2>1. CalmStep(w) BY <1>2 DEF CalmStep
  <2> QED BY <2>1
<1>3. CASE \/ TakeLock(w) \/ Reread(w) \/ Present(w) \/ Rejected(w) \/ Recover(w)
           \/ Persist(w) \/ Purge(w) \/ Release(w) \/ Load(w) \/ UpdateAccount(w)
           \/ LockFails(w) \/ LoseAnswer(w) \/ PersistFails(w) \/ ReleaseFails(w)
           \/ AttemptFails(w) \/ RecoverFails(w) \/ PurgeFails(w)
  BY <1>3
<1> QED BY <1>1, <1>2, <1>3 DEF Advance, GoWrong

-----------------------------------------------------------------------------
(* Documents the provider has given out; dead tokens stay dead. *)

ProviderStep == \/ \E e \in Document : Issued(e) /\ Rotate(e)
                \/ Authorise \/ \E g \in Grants : EndGrant(g)
                \/ ProviderSame

LEMMA ProviderKeeps ==
    ASSUME Typed, ProviderStep, NEW d \in Document, Issued(d)
    PROVE  /\ IssuedAt(d, newest', current')
           /\ ~LiveAt(d, current) => ~LiveAt(d, current')
<1>0. /\ current \in [Grants -> {Revoked} \cup 0 .. MaxTurns] /\ newest \in Grants
      /\ d.grant \in Grants /\ d.turn \in 0 .. MaxTurns /\ MaxTurns \in Nat /\ MaxGrants \in Nat
      /\ Revoked = -1 /\ Grants = 0 .. MaxGrants
  BY ProviderAssumption DEF Typed, TypeOK, Document, Revoked, Grants
<1>1. ASSUME NEW e \in Document, Rotate(e)
      PROVE  /\ IssuedAt(d, newest', current')
             /\ ~LiveAt(d, current) => ~LiveAt(d, current')
  <2>1. /\ e.grant \in Grants /\ current[e.grant] = e.turn /\ e.turn \in 0 .. MaxTurns
        /\ newest' = newest /\ current' = [current EXCEPT ![e.grant] = @ + 1]
    BY <1>1 DEF Rotate, Live, Document
  <2>2. current'[d.grant] = IF d.grant = e.grant THEN current[d.grant] + 1 ELSE current[d.grant]
    BY <1>0, <2>1
  <2> QED BY <1>0, <2>1, <2>2 DEF Issued, IssuedAt, LiveAt
<1>2. CASE Authorise
  <2>1. newest' = newest + 1 /\ d.grant # newest' /\ d.grant <= newest'
    BY <1>0, <1>2 DEF Authorise, Issued, IssuedAt
  <2>2. current'[d.grant] \in {Revoked, current[d.grant]}
    BY <1>0, <1>2, <2>1 DEF Authorise
  <2> QED BY <1>0, <2>1, <2>2 DEF Issued, IssuedAt, LiveAt
<1>3. ASSUME NEW g \in Grants, EndGrant(g)
      PROVE  /\ IssuedAt(d, newest', current')
             /\ ~LiveAt(d, current) => ~LiveAt(d, current')
  <2>1. newest' = newest /\ current'[d.grant] \in {Revoked, current[d.grant]}
    BY <1>0, <1>3 DEF EndGrant
  <2> QED BY <1>0, <2>1 DEF Issued, IssuedAt, LiveAt
<1>4. CASE ProviderSame BY <1>4 DEF ProviderSame, Issued, IssuedAt, LiveAt
<1> QED BY <1>1, <1>2, <1>3, <1>4 DEF ProviderStep

LEMMA FirstIssued == ASSUME Typed PROVE First \in Document /\ Issued(First)
<1>1. First \in Document /\ First.grant = 0 /\ First.turn = 0 /\ 0 \in Grants
  BY ProviderAssumption DEF First, Document, Grants
<1>2. newest \in Nat /\ current[0] \in {Revoked} \cup 0 .. MaxTurns
  BY <1>1 DEF Typed, TypeOK, Grants
<1> QED BY <1>1, <1>2, ProviderAssumption DEF Issued, IssuedAt

\* What a worker may find in its job, in the row and in the new job.
LEMMA StillIssued ==
    ASSUME Typed, AllIssued, ProviderStep, NEW w \in Workers, NEW d \in Known(job[w])
    PROVE  IssuedAt(d, newest', current')
<1>1. d \in Document /\ Issued(d) BY FirstIssued, Now DEF Known, AllIssued
<1> QED BY <1>1, ProviderKeeps

LEMMA IssuedAfter ==
    ASSUME Typed, AllIssued, ProviderStep, NEW w \in Workers, Others(w),
           \A d \in {cred', job'[w].acct, job'[w].tried, job'[w].fresh} :
               d \in Known(job[w]) \/ IssuedAt(d, newest', current')
    PROVE  AllIssued'
<1>1. \A d \in {cred', job'[w].acct, job'[w].tried, job'[w].fresh} :
         IssuedAt(d, newest', current')
  BY StillIssued
<1>2. ASSUME NEW q \in Workers \ {w}
      PROVE  /\ IssuedAt(job'[q].acct, newest', current')
             /\ IssuedAt(job'[q].tried, newest', current')
             /\ IssuedAt(job'[q].fresh, newest', current')
  <2>1. job'[q] = job[q] BY DEF Others
  <2>2. \A d \in Known(job[q]) : IssuedAt(d, newest', current') BY StillIssued
  <2> QED BY <2>1, <2>2 DEF Known
<1> QED BY <1>1, <1>2 DEF AllIssued, Issued

LEMMA DeadAfter ==
    ASSUME Typed, AllIssued, DeadStay, ProviderStep, NEW w \in Workers, Others(w),
           DeadIn(job'[w], current')
    PROVE  DeadStay'
<1>1. ASSUME NEW q \in Workers \ {w} PROVE DeadIn(job'[q], current')
  <2>1. job'[q] = job[q] /\ DeadIn(job[q], current) BY DEF Others, DeadStay
  <2>2. \A d \in {job[q].acct, job[q].tried} : ~LiveAt(d, current) => ~LiveAt(d, current')
    BY ProviderKeeps, Now DEF AllIssued
  <2> QED BY <2>1, <2>2 DEF DeadIn
<1> QED BY <1>1 DEF DeadStay

\* The document a worker gets from the provider, or for a user who authorised again.
LEMMA GivenOut ==
    ASSUME Typed, NEW d \in Document, Issued(d), Rotate(d), NEW e,
           e.grant = d.grant, e.turn = d.turn + 1
    PROVE  IssuedAt(e, newest', current') /\ LiveAt(e, current')
<1>1. /\ current \in [Grants -> {Revoked} \cup 0 .. MaxTurns] /\ d.grant \in Grants
      /\ d.turn \in 0 .. MaxTurns /\ MaxTurns \in Nat
      /\ current' = [current EXCEPT ![d.grant] = @ + 1] /\ newest' = newest
      /\ current[d.grant] = d.turn
  BY ProviderAssumption DEF Typed, TypeOK, Document, Rotate, Live
<1>2. current'[d.grant] = d.turn + 1 BY <1>1
<1> QED BY <1>1, <1>2 DEF Issued, IssuedAt, LiveAt

LEMMA StepDead ==
    ASSUME Typed, AllIssued, DeadStay, NEW w \in Workers,
           Start(w) \/ Advance(w) \/ GoWrong(w)
    PROVE  ProviderStep /\ AllIssued' /\ DeadStay'
<1> DEFINE Told == /\ ProviderStep /\ Others(w) /\ DeadIn(job'[w], current')
                   /\ \A d \in {cred', job'[w].acct, job'[w].tried, job'[w].fresh} :
                         d \in Known(job[w]) \/ IssuedAt(d, newest', current')
<1>0. SUFFICES Told BY IssuedAfter, DeadAfter
<1>a. ProviderSame => ProviderStep BY DEF ProviderStep
<1>b. Idle.acct = First /\ Idle.tried = First /\ Idle.fresh = First /\ Idle.pc = "idle"
  BY DEF Idle
<1>c. DeadIn(job[w], current) BY DEF DeadStay
<1> USE DEF DeadIn, Rejects, Known
<1>1. CASE CalmStep(w)
  <2>1. Calm(w) BY <1>1, CalmIsCalm
  <2> QED BY <1>a, <2>1 DEF Calm, CalmSteps, Holds, ProviderSame
<1>2. CASE TakeLock(w) BY <1>a, <1>2, TakeLockDoes
<1>3. CASE LockFails(w) BY <1>a, <1>3, LockFailsDoes DEF Same
<1>4. CASE Reread(w) BY <1>a, <1>4, RereadDoes
<1>5. CASE Present(w)
  <2>1. /\ Others(w) /\ cred' = cred /\ Rotate(job[w].tried)
        /\ job'[w].pc \in {"persist", "load"}
        /\ job'[w].acct \in Known(job[w]) /\ job'[w].tried \in Known(job[w])
        /\ job'[w].fresh.grant = job[w].tried.grant
        /\ job'[w].fresh.turn = job[w].tried.turn + 1
    BY <1>5, PresentDoes DEF Same
  <2>2. ProviderStep BY <2>1, Now DEF ProviderStep, AllIssued
  <2>3. IssuedAt(job'[w].fresh, newest', current')
    BY <2>1, GivenOut, Now DEF AllIssued
  <2> QED BY <2>1, <2>2, <2>3
<1>6. CASE Rejected(w)
  BY <1>a, <1>b, <1>6, RejectedDoes DEF Same, EndsWith, Live, LiveAt, ProviderSame
<1>7. CASE LoseAnswer(w)
  <2>1. /\ Others(w) /\ cred' = cred /\ Rotate(job[w].tried)
        /\ EndsWith(job[w], job'[w], "failed") \/ job'[w] = Idle
    BY <1>7, LoseAnswerDoes
  <2>2. ProviderStep BY <2>1, Now DEF ProviderStep, AllIssued
  <2> QED BY <1>b, <2>1, <2>2 DEF EndsWith, Same
<1>8. CASE Recover(w) BY <1>a, <1>c, <1>8, RecoverDoes DEF Same, EndsWith, ProviderSame
<1>9. CASE Persist(w) BY <1>a, <1>9, PersistDoes
<1>10. CASE PersistFails(w) BY <1>a, <1>10, PersistFailsDoes DEF Same, EndsWith
<1>11. CASE Purge(w) \/ PurgeFails(w)
  BY <1>a, <1>c, <1>11, PurgeDoes, PurgeFailsDoes
<1>12. CASE AttemptFails(w) \/ RecoverFails(w)
  BY <1>a, <1>c, <1>12, FailDoes DEF Same, EndsWith, ProviderSame
<1>13. CASE Release(w) \/ ReleaseFails(w)
  BY <1>a, <1>c, <1>13, ReleaseDoes DEF CalmSteps, ProviderSame
<1>14. CASE StartManual(w) \/ StartEdit(w) BY <1>a, <1>14, StartDoes
<1>15. CASE StartReauth(w)
  <2>1. /\ Others(w) /\ cred' = cred /\ Authorise
        /\ job'[w].pc = "load" /\ job'[w].acct = First /\ job'[w].tried = First
        /\ job'[w].fresh.grant = newest' /\ job'[w].fresh.turn = 0
    BY <1>15, ReauthDoes
  <2>2. newest' \in Grants /\ current'[newest'] = 0
    <3>1. newest' \in Grants BY <2>1, ProviderAssumption DEF Authorise, Typed, TypeOK, Grants
    <3> QED BY <2>1, <3>1 DEF Authorise
  <2>3. IssuedAt(job'[w].fresh, newest', current')
    BY <2>1, <2>2 DEF IssuedAt, Grants
  <2> QED BY <2>1, <2>3 DEF ProviderStep
<1>16. CASE Load(w) BY <1>a, <1>16, LoadDoes DEF Same
<1>17. CASE UpdateAccount(w) BY <1>a, <1>17, UpdateDoes
<1> QED BY <1>1, <1>2, <1>3, <1>4, <1>5, <1>6, <1>7, <1>8, <1>9, <1>10, <1>11, <1>12,
           <1>13, <1>14, <1>15, <1>16, <1>17, StepIs

LEMMA EnvironmentDead ==
    ASSUME Typed, AllIssued, DeadStay, Environment
    PROVE  AllIssued' /\ DeadStay'
<1>1. /\ ProviderStep /\ cred' = cred
      /\ \A w \in Workers : job'[w] \in {job[w], Idle}
  <2> USE DEF rowVars, providerVars, ProviderStep, ProviderSame
  <2>1. CASE Revoke BY <2>1 DEF Revoke
  <2>2. CASE Age BY <2>2 DEF Age
  <2>3. CASE CooldownEnds BY <2>3 DEF CooldownEnds
  <2>4. CASE CacheExpires BY <2>4 DEF CacheExpires
  <2>5. CASE LockLapses BY <2>5 DEF LockLapses
  <2>6. CASE Stall BY <2>6 DEF Stall
  <2>7. ASSUME NEW i \in Instances, Crash(i)
        PROVE  /\ ProviderSame /\ cred' = cred
               /\ \A w \in Workers : job'[w] \in {job[w], Idle}
    BY <2>7 DEF Crash
  <2> QED BY <2>1, <2>2, <2>3, <2>4, <2>5, <2>6, <2>7 DEF Environment
<1>2. ASSUME NEW w \in Workers
      PROVE  /\ IssuedAt(job'[w].acct, newest', current')
             /\ IssuedAt(job'[w].tried, newest', current')
             /\ IssuedAt(job'[w].fresh, newest', current')
             /\ IssuedAt(cred, newest', current')
             /\ DeadIn(job'[w], current')
  <2>1. /\ \A d \in Known(job[w]) : IssuedAt(d, newest', current')
    BY <1>1, StillIssued
  <2>2. Idle.acct = First /\ Idle.tried = First /\ Idle.fresh = First /\ Idle.pc = "idle"
    BY DEF Idle
  <2>3. DeadIn(job[w], current')
    <3>1. \A d \in {job[w].acct, job[w].tried} : ~LiveAt(d, current) => ~LiveAt(d, current')
      BY <1>1, ProviderKeeps, Now DEF AllIssued
    <3> QED BY <3>1 DEF DeadStay, DeadIn
  <2> QED BY <1>1, <2>1, <2>2, <2>3 DEF Known, DeadIn, Rejects
<1>3. Issued(cred)' BY <1>1, ProviderKeeps, Now DEF AllIssued, Issued, Typed, TypeOK
<1> QED BY <1>1, <1>2, <1>3 DEF AllIssued, Issued, DeadStay

-----------------------------------------------------------------------------
(* One worker under the lock, while nothing goes wrong. *)

LEMMA Counters ==
    ASSUME Typed PROVE faults \in Nat /\ acts \in Nat /\ (Fault => faults' # 0 /\ faults' # faults)
BY BoundsAssumption DEF Typed, TypeOK, Fault

LEMMA CalmBegins ==
    ASSUME Typed, NEW w \in Workers, CalmStep(w)
    PROVE  Fault \/ (faults' = faults /\ job[w].pc \in CalmSteps \cup {"seterror"})
<1>1. ASSUME NEW q \in CalmSteps \cup {"seterror"}, At(w, q), NoFault
      PROVE  faults' = faults /\ job[w].pc \in CalmSteps \cup {"seterror"}
  BY <1>1 DEF At, NoFault
<1> USE <1>1 DEF CalmSteps
<1>2. CASE StartRequest(w) \/ StartBackground(w) BY <1>2 DEF StartRequest, StartBackground
<1>3. CASE TakeMutex(w) \/ LockHeld(w) BY <1>3 DEF TakeMutex, LockHeld
<1>4. CASE SetError(w) \/ CoolDown(w) BY <1>4 DEF SetError, CoolDown
<1>5. CASE Invalidate(w) \/ CheckTokenVersion(w) BY <1>5 DEF Invalidate, CheckTokenVersion
<1>6. CASE SetAccessToken(w) \/ Await(w) BY <1>6 DEF SetAccessToken, Await
<1>7. CASE ClearAccountError(w) BY <1>7 DEF ClearAccountError
<1>8. CASE CheckFails(w) \/ MutexTimesOut(w) \/ StepFails(w)
  BY <1>8 DEF CheckFails, MutexTimesOut, StepFails
<1> QED BY <1>2, <1>3, <1>4, <1>5, <1>6, <1>7, <1>8 DEF CalmStep

\* A step of w that keeps the lock, gives it up, or needs none.
LEMMA ExclusiveAfter ==
    ASSUME Exclusive, NEW w \in Workers, Others(w), faults' = faults, faults' = 0,
           \/ ~UnderLock(job'[w]) /\ (lock' = lock \/ (UnderLock(job[w]) /\ job[w].held))
           \/ /\ UnderLock(job'[w]) /\ UnderLock(job[w])
              /\ lock' = lock /\ job'[w].held = job[w].held
    PROVE  Exclusive'
BY DEF Exclusive, Others

LEMMA StepExclusive ==
    ASSUME Typed, Exclusive, NEW w \in Workers, Start(w) \/ Advance(w) \/ GoWrong(w)
    PROVE  Exclusive'
<1> SUFFICES ASSUME faults' = 0 PROVE Exclusive' BY DEF Exclusive
<1>0. ~Fault /\ (Fault \/ faults' = faults => faults' = faults) BY Counters
<1> USE DEF UnderLock, IsApi
<1>1. CASE CalmStep(w)
  <2>1. Calm(w) /\ (Fault \/ faults' = faults) BY <1>1, CalmIsCalm, CalmBegins
  <2> QED BY <1>0, <2>1, ExclusiveAfter DEF Calm, CalmSteps
<1>2. CASE TakeLock(w)
  <2>1. \A q \in Workers : ~UnderLock(job[q])
    BY <1>0, <1>2, TakeLockDoes, NobodyAssumption DEF Exclusive
  <2> QED BY <1>2, <2>1, TakeLockDoes DEF Exclusive, Others
<1>3. CASE Reread(w) BY <1>3, RereadDoes, ExclusiveAfter
<1>4. CASE Present(w) BY <1>4, PresentDoes, ExclusiveAfter DEF Same
<1>5. CASE Rejected(w)
  <2>1. ~UnderLock(Idle) BY DEF Idle
  <2> QED BY <1>5, <2>1, RejectedDoes, ExclusiveAfter DEF Same, EndsWith
<1>6. CASE Recover(w) BY <1>6, RecoverDoes, ExclusiveAfter DEF Same, EndsWith
<1>7. CASE Persist(w) BY <1>7, PersistDoes, ExclusiveAfter
<1>8. CASE Purge(w)
  BY <1>0, <1>8, PurgeDoes, ExclusiveAfter
<1>9. CASE Release(w) \/ ReleaseFails(w)
  BY <1>0, <1>9, ReleaseDoes, ExclusiveAfter DEF CalmSteps
<1>10. CASE StartManual(w) \/ StartEdit(w) BY <1>10, StartDoes, ExclusiveAfter
<1>11. CASE StartReauth(w) BY <1>11, ReauthDoes, ExclusiveAfter
<1>12. CASE Load(w) BY <1>12, LoadDoes, ExclusiveAfter
<1>13. CASE UpdateAccount(w) BY <1>13, UpdateDoes, ExclusiveAfter
<1>14. CASE \/ LockFails(w) \/ LoseAnswer(w) \/ PersistFails(w) \/ AttemptFails(w)
            \/ RecoverFails(w) \/ PurgeFails(w)
  BY <1>0, <1>14 DEF LockFails, LoseAnswer, PersistFails, AttemptFails, RecoverFails,
                  PurgeFails
<1> QED BY <1>1, <1>2, <1>3, <1>4, <1>5, <1>6, <1>7, <1>8, <1>9, <1>10, <1>11, <1>12,
           <1>13, <1>14, StepIs

\* What the rest of the system does, while nothing goes wrong.
LEMMA EnvironmentDoes ==
    ASSUME Typed, Environment, faults' = 0
    PROVE  /\ UNCHANGED <<cas, cred, job, faults, status>>
           /\ \/ Act("revoke")
              \/ UNCHANGED <<acts, kinds, newest, current>>
           /\ lock' = lock \/ (lock # Nobody /\ ~job[lock].held)
<1> USE DEF rowVars, historyVars, providerVars, NoFault
<1>0. ~Fault BY Counters
<1>1. CASE Revoke BY <1>1 DEF Revoke
<1>2. CASE Age BY <1>2 DEF Age
<1>3. CASE CooldownEnds BY <1>3 DEF CooldownEnds
<1>4. CASE CacheExpires BY <1>4 DEF CacheExpires
<1>5. CASE LockLapses BY <1>5 DEF LockLapses, LockMayLapse
<1>6. CASE Stall BY <1>0, <1>6 DEF Stall
<1>7. ASSUME NEW i \in Instances, Crash(i) PROVE FALSE BY <1>0, <1>7 DEF Crash
<1> QED BY <1>1, <1>2, <1>3, <1>4, <1>5, <1>6, <1>7 DEF Environment

LEMMA EnvironmentExclusive == ASSUME Typed, Exclusive, Environment PROVE Exclusive'
<1> SUFFICES ASSUME faults' = 0 PROVE Exclusive' BY DEF Exclusive
<1> QED BY EnvironmentDoes DEF Exclusive

-----------------------------------------------------------------------------
(* The grant is kept. *)

Ordered == InTime /\ OneWriter /\ GrantKept

LEMMA Grown ==
    ASSUME Typed, TInv
    PROVE  /\ newest \in Nat /\ cred.grant \in Nat /\ cred.grant <= newest
           /\ \A w \in Workers : job[w].tried.grant \in Nat /\ job[w].fresh.grant \in Nat
BY Now DEF TInv, AllIssued, Issued, IssuedAt, Typed, TypeOK, Document, Grants

\* A step that stores nothing, learns nothing from the provider and writes nothing.
LEMMA OrderedAfter ==
    ASSUME Typed, TInv, Ordered, NEW w \in Workers, Others(w),
           UNCHANGED <<cred, newest, current, acts>>,
           ~HoldsSuccessor(w), ~Writing(w),
           job'[w].pc \notin {"persist", "load", "write"},
           job'[w].pc = "provider" => job'[w].tried = cred
    PROVE  Ordered'
<1>1. InTime' BY DEF Ordered, InTime, Others, At, Live
<1>2. OneWriter' BY DEF Ordered, OneWriter, Writing, Others, Live
<1>3. GrantKept'
  <2>1. Reauthorising => Reauthorising'
    BY DEF Reauthorising, Writing, Others
  <2>2. ASSUME NEW q \in Workers, HoldsSuccessor(q) PROVE HoldsSuccessor(q)'
    BY <2>2 DEF HoldsSuccessor, Others, At, Live
  <2> QED BY <2>1, <2>2 DEF Ordered, GrantKept, Live
<1> QED BY <1>1, <1>2, <1>3 DEF Ordered

\* The only writer, if any, has new credentials.
LEMMA Writer ==
    ASSUME Typed, Orderly, NEW w \in Workers, ~IsApi(job[w])
    PROVE  /\ job[w].pc # "provider" /\ job[w].pc # "persist"
           /\ Writing(w) => job[w].task = "reauth"
BY Now DEF Shape, Orderly, Writing

LEMMA StepOrdered ==
    ASSUME Typed, TInv, Orderly, Orderly', NEW w \in Workers,
           Start(w) \/ Advance(w) \/ GoWrong(w)
    PROVE  Ordered'
<1>0. ~Fault BY Counters DEF Orderly
<1>1. Ordered BY DEF TInv, InOrder, Ordered
<1>2. faults = 0 /\ \A q \in Workers : UnderLock(job[q]) => lock = q
  BY DEF Orderly, TInv, Exclusive
<1>3. Idle.pc = "idle" BY DEF Idle
<1> USE DEF Bystanders, ProviderSame
<1>4. CASE CalmStep(w)
  <2>1. Calm(w) /\ job[w].pc \in CalmSteps \cup {"seterror"}
    BY <1>0, <1>4, CalmIsCalm, CalmBegins
  <2> QED BY <1>1, <2>1, OrderedAfter DEF Calm, CalmSteps, HoldsSuccessor, Writing, At
<1>5. CASE TakeLock(w)
  BY <1>1, <1>5, TakeLockDoes, OrderedAfter DEF HoldsSuccessor, Writing, At
<1>6. CASE Reread(w)
  BY <1>1, <1>6, RereadDoes, OrderedAfter DEF HoldsSuccessor, Writing, At
<1>7. CASE Rejected(w)
  <2>1. job'[w].pc \in {"recover", "release", "idle"}
    BY <1>3, <1>7, RejectedDoes DEF EndsWith
  <2> QED BY <1>1, <1>7, <2>1, RejectedDoes, OrderedAfter DEF HoldsSuccessor, Writing, At
<1>8. CASE Recover(w)
  BY <1>1, <1>8, RecoverDoes, OrderedAfter DEF HoldsSuccessor, Writing, At, EndsWith
<1>9. CASE Purge(w)
  BY <1>1, <1>9, PurgeDoes, OrderedAfter DEF HoldsSuccessor, Writing, At
<1>10. CASE Release(w) \/ ReleaseFails(w)
  BY <1>1, <1>10, ReleaseDoes, OrderedAfter DEF HoldsSuccessor, Writing, At, CalmSteps
<1>11. CASE StartManual(w) \/ StartEdit(w)
  BY <1>11, StartDoes DEF Act, Orderly
<1>12. CASE \/ LockFails(w) \/ LoseAnswer(w) \/ PersistFails(w) \/ AttemptFails(w)
            \/ RecoverFails(w) \/ PurgeFails(w)
  BY <1>0, <1>12 DEF LockFails, LoseAnswer, PersistFails, AttemptFails, RecoverFails,
                  PurgeFails
<1>13. CASE Present(w)
  <2>1. /\ Others(w) /\ cred' = cred /\ acts' = acts /\ Rotate(job[w].tried)
        /\ IsApi(job[w]) /\ job[w].pc = "provider"
        /\ job'[w].pc = "persist" /\ job'[w].tried = job[w].tried /\ IsApi(job'[w])
        /\ job'[w].fresh.grant = job[w].tried.grant
        /\ job'[w].fresh.turn = job[w].tried.turn + 1
    BY <1>13, PresentDoes, Writer DEF Same, IsApi
  <2> DEFINE t == job[w].tried
  <2>2. newest' = newest /\ \A g \in Grants \ {t.grant} : current'[g] = current[g]
    BY <2>1, Now DEF Rotate, Typed, TypeOK
  <2>3. LiveAt(job'[w].fresh, current')
    BY <2>1, GivenOut, Now DEF TInv, AllIssued
  <2>4. t = cred \/ t.grant < cred.grant BY <1>1, <2>1 DEF Ordered, InTime
  <2>5. \A q \in Workers \ {w} : job[q].pc \notin {"provider", "persist"}
    BY <1>2, <2>1, Writer DEF UnderLock
  <2>6. /\ cred.grant \in Grants /\ newest \in Grants /\ t.grant \in Nat
        /\ cred.grant <= newest /\ cred.grant \in Nat /\ newest \in Nat
    BY Grown, Now DEF Typed, TypeOK, Document
  <2>7. InTime' BY <2>1, <2>3, <2>4, <2>5 DEF InTime, Others, At, Live, LiveAt
  <2>8. ASSUME NEW q \in Workers, Writing(q)
        PROVE  /\ q # w /\ job'[q] = job[q] /\ Live(job[q].fresh)'
    <3>1. cred.grant < newest /\ job[q].fresh.grant = newest /\ Live(job[q].fresh)
      BY <1>1, <2>8 DEF Ordered, OneWriter
    <3>2. t.grant # newest BY <2>4, <2>6, <3>1
    <3>3. q # w BY <2>1, <2>8 DEF Writing
    <3>4. job'[q] = job[q] BY <2>1, <3>3 DEF Others
    <3> QED BY <2>2, <2>6, <3>1, <3>2, <3>3, <3>4 DEF Live
  <2>9. OneWriter'
    BY <1>1, <2>1, <2>2, <2>8 DEF Ordered, OneWriter, Writing, Others
  <2>10. Reauthorising => Reauthorising'
    BY <2>1, <2>8 DEF Reauthorising, Writing
  <2>11. Live(cred)' \/ HoldsSuccessor(w)' \/ cred.grant # newest
    <3>1. CASE t = cred BY <2>1, <2>3, <3>1 DEF HoldsSuccessor, At, Live, LiveAt
    <3>2. CASE t.grant < cred.grant /\ cred.grant = newest
      <4>1. Live(cred) BY <1>1, <2>1, <2>5, <3>2 DEF Ordered, GrantKept, HoldsSuccessor, At
      <4> QED BY <2>1, <2>2, <2>6, <3>2, <4>1 DEF Live
    <3> QED BY <2>4, <3>1, <3>2
  <2>12. GrantKept' BY <1>1, <2>1, <2>2, <2>10, <2>11 DEF Ordered, GrantKept
  <2> QED BY <2>7, <2>9, <2>12 DEF Ordered
<1>14. CASE Persist(w)
  <2>1. /\ Others(w) /\ UNCHANGED <<newest, current, acts>> /\ job[w].pc = "persist"
        /\ IsApi(job[w]) /\ job'[w].pc \in {"purge", "release"}
        /\ IF Persists(w) THEN cred' = job[w].fresh ELSE cred' = cred
    BY <1>14, PersistDoes
  <2>2. CASE ~Persists(w)
    BY <1>1, <2>1, <2>2, OrderedAfter DEF HoldsSuccessor, Writing, At, Persists
  <2>3. CASE Persists(w)
    <3>1. job[w].tried = cred
      <4>1. job[w].tried = cred \/ job[w].tried.grant < cred.grant
        BY <1>1, <2>1 DEF Ordered, InTime
      <4>2. ~cas => newest = 0 BY <1>1, Counters DEF Orderly, Ordered, GrantKept
      <4> QED BY <2>3, <4>1, <4>2, Grown DEF Persists
    <3>2. /\ cred' = job[w].fresh /\ cred'.grant = cred.grant
          /\ cred.grant = newest => Live(cred)'
      BY <1>1, <2>1, <2>3, <3>1 DEF Ordered, InTime, At, Live
    <3>3. \A q \in Workers \ {w} : job[q].pc \notin {"provider", "persist"}
      BY <1>2, <2>1, Writer DEF UnderLock
    <3>4. InTime' BY <2>1, <3>3 DEF InTime, Others, At
    <3>5. OneWriter'
      BY <1>1, <2>1, <3>2 DEF Ordered, OneWriter, Writing, Others, Live
    <3>6. Reauthorising => Reauthorising' BY <2>1 DEF Reauthorising, Others
    <3>7. GrantKept' BY <1>1, <2>1, <3>2, <3>6 DEF Ordered, GrantKept
    <3> QED BY <3>4, <3>5, <3>7 DEF Ordered
  <2> QED BY <2>2, <2>3
<1>15. CASE StartReauth(w)
  <2>1. /\ Others(w) /\ Authorise /\ cred' = cred /\ acts' = acts + 1
        /\ job'[w].task = "reauth" /\ job'[w].pc = "load"
        /\ job'[w].fresh.grant = newest' /\ job'[w].fresh.turn = 0
    BY <1>15, ReauthDoes DEF Act
  <2>2. acts = 0 /\ newest = 0 /\ newest' = 1 /\ cred.grant = 0
    <3>1. acts' <= 0 \/ acts' <= 1 BY DEF Orderly
    <3>2. acts = 0 BY <2>1, <3>1, Counters
    <3>3. newest = 0 BY <1>1, <3>2 DEF Ordered, GrantKept
    <3> QED BY <2>1, <3>2, <3>3, Grown DEF Authorise
  <2>3. 1 \in Grants /\ current'[1] = 0
    <3>1. 1 \in Grants BY <2>1, <2>2, ProviderAssumption DEF Authorise, Grants
    <3> QED BY <2>1, <2>2, <3>1 DEF Authorise
  <2>4. \A q \in Workers : ~Writing(q) BY <1>1, <2>2 DEF Ordered, OneWriter
  <2>5. InTime' BY <1>1, <2>1, <2>2 DEF Ordered, InTime, Others, At
  <2>6. OneWriter' BY <2>1, <2>2, <2>3, <2>4 DEF OneWriter, Others, Writing, Live
  <2>7. GrantKept' BY <2>1, <2>2 DEF GrantKept, Reauthorising
  <2> QED BY <2>5, <2>6, <2>7 DEF Ordered
<1>16. CASE Load(w)
  <2>1. /\ Others(w) /\ UNCHANGED <<cred, newest, current, acts>>
        /\ job[w].pc = "load" /\ job'[w].pc = "write"
        /\ job'[w].task = job[w].task /\ job'[w].fresh = job[w].fresh
    BY <1>16, LoadDoes DEF Same
  <2>2. InTime' BY <1>1, <2>1 DEF Ordered, InTime, Others, At, Live
  <2>3. OneWriter' BY <1>1, <2>1 DEF Ordered, OneWriter, Writing, Others, Live
  <2>4. Reauthorising => Reauthorising' BY <2>1 DEF Reauthorising, Others
  <2>5. ASSUME NEW q \in Workers, HoldsSuccessor(q) PROVE HoldsSuccessor(q)'
    BY <2>1, <2>5 DEF HoldsSuccessor, Others, At, Live
  <2>6. GrantKept' BY <1>1, <2>1, <2>4, <2>5 DEF Ordered, GrantKept, Live
  <2> QED BY <2>2, <2>3, <2>6 DEF Ordered
<1>17. CASE UpdateAccount(w)
  <2>1. /\ Others(w) /\ UNCHANGED <<newest, current, acts>>
        /\ cred' = job[w].fresh /\ Writing(w)
        /\ job'[w].pc \in {"idle", "invalidate", "clear"}
    BY <1>17, UpdateDoes DEF Writing
  <2>2. /\ cred.grant < newest /\ cred'.grant = newest /\ Live(cred)'
        /\ \A q \in Workers : Writing(q) => q = w
    BY <1>1, <2>1 DEF Ordered, OneWriter, Live
  <2>3. InTime'
    <3>1. ASSUME NEW q \in Workers, job'[q].pc \in {"provider", "persist"}
          PROVE  /\ job'[q] = job[q] /\ job[q].tried.grant < cred'.grant
                 /\ job[q].tried # cred'
      <4>1. job'[q] = job[q] BY <2>1, <3>1 DEF Others
      <4>2. job[q].tried = cred \/ job[q].tried.grant < cred.grant
        BY <1>1, <3>1, <4>1 DEF Ordered, InTime
      <4> QED BY <2>2, <4>1, <4>2, Grown
    <3> QED BY <1>1, <3>1 DEF Ordered, InTime, At
  <2>4. OneWriter' BY <2>1, <2>2 DEF OneWriter, Writing, Others
  <2>5. GrantKept' BY <1>1, <2>1, <2>2, Grown DEF Ordered, GrantKept
  <2> QED BY <2>3, <2>4, <2>5 DEF Ordered
<1> QED BY <1>4, <1>5, <1>6, <1>7, <1>8, <1>9, <1>10, <1>11, <1>12, <1>13, <1>14, <1>15,
           <1>16, <1>17, StepIs

\* A step disturbs the kind of account, the faults and the acts only by counting.
Counted == /\ cas' = cas /\ (Fault \/ faults' = faults)
           /\ (\E k : Act(k)) \/ UNCHANGED <<acts, kinds>>

LEMMA StepCounted ==
    ASSUME Typed, NEW w \in Workers, Start(w) \/ Advance(w) \/ GoWrong(w)
    PROVE  Counted
<1>1. CASE CalmStep(w) BY <1>1, CalmIsCalm, CalmBegins DEF Calm, Counted
<1>2. CASE TakeLock(w) BY <1>2, TakeLockDoes DEF Bystanders, Counted
<1>3. CASE LockFails(w) BY <1>3, LockFailsDoes DEF Bystanders, Counted
<1>4. CASE Reread(w) BY <1>4, RereadDoes DEF Bystanders, Counted
<1>5. CASE Present(w) BY <1>5, PresentDoes DEF Bystanders, Counted
<1>6. CASE Rejected(w) BY <1>6, RejectedDoes DEF Bystanders, Counted
<1>7. CASE LoseAnswer(w) BY <1>7, LoseAnswerDoes DEF Bystanders, Counted
<1>8. CASE Recover(w) BY <1>8, RecoverDoes DEF Bystanders, Counted
<1>9. CASE Persist(w) BY <1>9, PersistDoes DEF Bystanders, Counted
<1>10. CASE PersistFails(w) BY <1>10, PersistFailsDoes DEF Bystanders, Counted
<1>11. CASE Purge(w) \/ PurgeFails(w) BY <1>11, PurgeDoes, PurgeFailsDoes DEF Bystanders, Counted
<1>12. CASE AttemptFails(w) \/ RecoverFails(w) BY <1>12, FailDoes DEF Bystanders, Counted
<1>13. CASE Release(w) \/ ReleaseFails(w) BY <1>13, ReleaseDoes DEF Bystanders, Counted
<1>14. CASE StartManual(w) \/ StartEdit(w) BY <1>14, StartDoes DEF Bystanders, Counted
<1>15. CASE StartReauth(w) BY <1>15, ReauthDoes DEF Bystanders, Counted
<1>16. CASE Load(w) BY <1>16, LoadDoes DEF Bystanders, Counted
<1>17. CASE UpdateAccount(w) BY <1>17, UpdateDoes DEF Bystanders, Counted
<1> QED BY <1>1, <1>2, <1>3, <1>4, <1>5, <1>6, <1>7, <1>8, <1>9, <1>10, <1>11, <1>12,
           <1>13, <1>14, <1>15, <1>16, <1>17, StepIs

LEMMA OrderlyBefore ==
    ASSUME Typed, TInv, Next, Orderly' PROVE Orderly
<1>1. ASSUME cas' = cas, faults' = faults, UNCHANGED <<acts, kinds>> \/ \E k : Act(k)
      PROVE  Orderly
  <2>1. faults = 0 /\ kinds' \subseteq {"reauth"} BY <1>1 DEF Orderly
  <2>2. acts \in Nat /\ (acts' = acts \/ acts' = acts + 1) /\ kinds \subseteq kinds'
    BY <1>1, Counters DEF Act
  <2>3. CASE cas BY <1>1, <2>1, <2>2, <2>3 DEF Orderly
  <2>4. CASE ~cas BY <1>1, <2>1, <2>2, <2>4 DEF Orderly
  <2> QED BY <2>3, <2>4
<1>2. CASE Environment
  <2>1. faults' = 0 BY DEF Orderly
  <2> QED BY <1>1, <1>2, <2>1, EnvironmentDoes
<1>3. ASSUME NEW w \in Workers, Start(w) \/ Advance(w) \/ GoWrong(w) PROVE Orderly
  <2>1. faults' = 0 BY DEF Orderly
  <2> QED BY <1>1, <1>3, <2>1, StepCounted, Counters DEF Counted
<1> QED BY <1>2, <1>3 DEF Next

LEMMA EnvironmentOrdered ==
    ASSUME Typed, TInv, Orderly, Orderly', Environment PROVE Ordered'
<1>1. UNCHANGED <<cred, job, newest, current, acts>>
  <2>1. faults' = 0 /\ kinds' \subseteq {"reauth"} BY DEF Orderly
  <2> QED BY <2>1, EnvironmentDoes DEF Act
<1>2. InTime /\ OneWriter /\ GrantKept BY DEF TInv, InOrder
<1>3. InTime' BY <1>1, <1>2 DEF InTime, At, Live
<1>4. OneWriter' BY <1>1, <1>2 DEF OneWriter, Writing, Live
<1>5. Reauthorising' <=> Reauthorising BY <1>1 DEF Reauthorising
<1>6. \A w \in Workers : HoldsSuccessor(w)' <=> HoldsSuccessor(w)
  BY <1>1 DEF HoldsSuccessor, At, Live
<1>7. GrantKept' BY <1>1, <1>2, <1>5, <1>6 DEF GrantKept, Live
<1> QED BY <1>3, <1>4, <1>7 DEF Ordered

\* While nobody acts, the provider accepts what a worker presents.
LEMMA Accepted ==
    ASSUME Typed, TInv, faults = 0, acts = 0, NEW w \in Workers, job[w].pc = "provider"
    PROVE  Live(job[w].tried)
<1>1. kinds = {} /\ Orderly BY DEF TInv, Orderly
<1>2. IsApi(job[w]) BY <1>1, Now DEF Shape
<1>3. InTime /\ GrantKept BY <1>1 DEF TInv, InOrder
<1>4. newest = 0 /\ cred.grant = 0 /\ job[w].tried.grant = 0
  <2>1. newest = 0 BY <1>3 DEF GrantKept
  <2>2. job[w].tried.grant <= newest BY DEF TInv, AllIssued, Issued, IssuedAt
  <2> QED BY <2>1, <2>2, Grown
<1>5. job[w].tried = cred BY <1>3, <1>4 DEF InTime
<1>6. \A q \in Workers : ~HoldsSuccessor(q)
  BY <1>2 DEF TInv, Exclusive, UnderLock, HoldsSuccessor, At
<1> QED BY <1>3, <1>4, <1>5, <1>6 DEF GrantKept

LEMMA StepRejects ==
    ASSUME Typed, TInv, faults' = 0, faults = 0, acts = 0, NEW w \in Workers,
           Start(w) \/ Advance(w) \/ GoWrong(w)
    PROVE  \A q \in Workers : ~Rejects(job'[q]) /\ job'[q].pc # "seterror"
<1>0. ~Fault BY Counters
<1>1. \A q \in Workers : ~Rejects(job[q]) /\ job[q].pc # "seterror"
  BY DEF TInv, NoneRejected, At
<1>2. SUFFICES Others(w) /\ ~Rejects(job'[w]) /\ job'[w].pc # "seterror"
  BY <1>1 DEF Others
<1> USE DEF Rejects
<1>3. CASE CalmStep(w)
  <2>1. Others(w) /\ job'[w].pc \in CalmSteps BY <1>3, CalmIsCalm DEF Calm
  <2> QED BY <2>1 DEF CalmSteps
<1>4. CASE TakeLock(w) BY <1>4, TakeLockDoes
<1>5. CASE Reread(w) BY <1>5, RereadDoes
<1>6. CASE Present(w) BY <1>6, PresentDoes
<1>7. CASE Rejected(w) BY <1>7, RejectedDoes, Accepted
<1>8. CASE Recover(w) BY <1>1, <1>8, RecoverDoes
<1>9. CASE Persist(w) BY <1>9, PersistDoes
<1>10. CASE Purge(w)
  <2>1. job[w].pc = "purge" /\ job'[w].outcome = job[w].outcome /\ Others(w)
        /\ job'[w].pc = "release"
    BY <1>10, PurgeDoes
  <2>2. job[w].outcome = "refreshed" BY <2>1 DEF TInv, DeadStay, DeadIn
  <2> QED BY <2>1, <2>2
<1>11. CASE Release(w) \/ ReleaseFails(w) BY <1>1, <1>11, ReleaseDoes DEF CalmSteps
<1>12. CASE StartManual(w) \/ StartEdit(w) BY <1>12, StartDoes
<1>13. CASE StartReauth(w) BY <1>13, ReauthDoes
<1>14. CASE Load(w) BY <1>14, LoadDoes
<1>15. CASE UpdateAccount(w) BY <1>15, UpdateDoes
<1>16. CASE \/ LockFails(w) \/ LoseAnswer(w) \/ PersistFails(w) \/ AttemptFails(w)
            \/ RecoverFails(w) \/ PurgeFails(w)
  BY <1>0, <1>16 DEF LockFails, LoseAnswer, PersistFails, AttemptFails, RecoverFails,
                  PurgeFails
<1> QED BY <1>3, <1>4, <1>5, <1>6, <1>7, <1>8, <1>9, <1>10, <1>11, <1>12, <1>13, <1>14,
           <1>15, <1>16, StepIs

LEMMA NextKeeps == TInv /\ Next => TInv'
<1> SUFFICES ASSUME TInv, Next PROVE TInv' OBVIOUS
<1>1. Typed BY DEF TInv
<1>2. Typed' BY <1>1, StepTyped
<1>3. AllIssued' /\ DeadStay'
  BY <1>1, StepDead, EnvironmentDead DEF TInv, Next
<1>4. Exclusive' BY <1>1, StepExclusive, EnvironmentExclusive DEF TInv, Next
<1>5. InOrder'
  <2>1. ASSUME Orderly' PROVE Ordered'
    BY <1>1, <2>1, OrderlyBefore, StepOrdered, EnvironmentOrdered DEF Next
  <2> QED BY <2>1 DEF InOrder, Ordered
<1>6. ASSUME faults' = 0 PROVE faults = 0 /\ (acts' = 0 => acts = 0 /\ kinds' = {})
  <2>1. CASE Environment
    <3>1. faults = 0 BY <1>1, <1>6, <2>1, EnvironmentDoes
    <3>2. Act("revoke") \/ UNCHANGED <<acts, kinds>> BY <1>1, <1>6, <2>1, EnvironmentDoes
    <3> QED BY <1>1, <3>1, <3>2, Counters DEF TInv, Act
  <2>2. CASE Counted
    <3>1. faults = 0 BY <1>1, <1>6, <2>2, Counters DEF Counted
    <3> QED BY <1>1, <2>2, <3>1, Counters DEF TInv, Act, Counted
  <2> QED BY <1>1, <2>1, <2>2, StepCounted DEF Next
<1>7. NoneRejected'
  <2> SUFFICES ASSUME faults' = 0, acts' = 0
               PROVE  \A q \in Workers : ~Rejects(job'[q]) /\ job'[q].pc # "seterror"
    BY DEF NoneRejected, At
  <2>1. CASE Environment
    <3>1. job' = job BY <1>1, <2>1, EnvironmentDoes
    <3> QED BY <1>6, <3>1 DEF TInv, NoneRejected, At
  <2> QED BY <1>1, <1>6, <2>1, StepRejects DEF Next
<1>8. acts' = 0 => kinds' = {}
  <2>1. Counted \/ Act("revoke") \/ UNCHANGED <<acts, kinds>>
    <3>1. CASE Environment BY <3>1 DEF Environment, Revoke, Age, CooldownEnds, CacheExpires,
                                        LockLapses, Stall, Crash, historyVars
    <3> QED BY <1>1, <3>1, StepCounted DEF Next
  <2> QED BY <1>1, <2>1, Counters DEF TInv, Act, Counted
<1> QED BY <1>2, <1>3, <1>4, <1>5, <1>7, <1>8 DEF TInv

LEMMA StutterKeeps == TInv /\ UNCHANGED vars => TInv'
<1> SUFFICES ASSUME TInv, UNCHANGED vars PROVE TInv' OBVIOUS
<1>1. UNCHANGED <<cas, cred, lock, job, acts, kinds, faults, newest, current>>
  BY DEF vars, rowVars, historyVars, providerVars
<1>2. Typed' BY StepTyped DEF TInv
<1>3. AllIssued' /\ DeadStay' BY <1>1 DEF TInv, AllIssued, Issued, DeadStay
<1>4. Exclusive' /\ NoneRejected' BY <1>1 DEF TInv, Exclusive, NoneRejected, At
<1>5. /\ Orderly' <=> Orderly
      /\ InTime => InTime'
      /\ OneWriter => OneWriter'
  BY <1>1 DEF Orderly, InTime, OneWriter, At, Live, Writing
<1>6. GrantKept => GrantKept'
  <2>1. Reauthorising => Reauthorising' BY <1>1 DEF Reauthorising
  <2>2. \A w \in Workers : HoldsSuccessor(w) => HoldsSuccessor(w)'
    BY <1>1 DEF HoldsSuccessor, At, Live
  <2> QED BY <1>1, <2>1, <2>2 DEF GrantKept, Live
<1>7. InOrder' BY <1>5, <1>6 DEF TInv, InOrder
<1> QED BY <1>1, <1>2, <1>3, <1>4, <1>7 DEF TInv

LEMMA InitKeeps == Init => TInv
<1> SUFFICES ASSUME Init PROVE TInv OBVIOUS
<1>1. Typed BY InitTyped
<1>2. /\ \A w \in Workers : job[w] = Idle
      /\ cred = First /\ newest = 0 /\ current[0] = 0 /\ kinds = {} /\ acts = 0
  BY ProviderAssumption DEF Init, ProviderInit, Grants
<1>3. /\ Idle.acct = First /\ Idle.tried = First /\ Idle.fresh = First /\ Idle.pc = "idle"
      /\ Idle.task = "none" /\ First.grant = 0 /\ First.turn = 0
  BY DEF Idle, First
<1>4. AllIssued BY <1>2, <1>3 DEF AllIssued, Issued, IssuedAt
<1>5. DeadStay BY <1>2, <1>3 DEF DeadStay, DeadIn, Rejects
<1>6. Exclusive BY <1>2, <1>3 DEF Exclusive, UnderLock
<1>7. NoneRejected BY <1>2, <1>3 DEF NoneRejected, Rejects, At
<1>8. InTime /\ OneWriter BY <1>2, <1>3 DEF InTime, OneWriter, Writing, At
<1>9. GrantKept BY <1>2, <1>3 DEF GrantKept, Live
<1> QED BY <1>1, <1>2, <1>4, <1>5, <1>6, <1>7, <1>8, <1>9 DEF TInv, InOrder

LEMMA Invariant == Spec => []TInv
<1>1. TInv /\ [Next]_vars => TInv' BY NextKeeps, StutterKeeps
<1> QED BY <1>1, InitKeeps, PTL DEF Spec

-----------------------------------------------------------------------------
(* Theorems. *)

\* While nothing goes wrong that the lock is not there for, the stored refresh token
\* is valid, or its successor or new credentials are about to be stored.
THEOREM TokenKept == Spec => []TokenNotLost
<1>1. TInv => TokenNotLost
  <2> SUFFICES ASSUME TInv, Orderly
               PROVE  Live(cred) \/ Reauthorising \/ \E w \in Workers : HoldsSuccessor(w)
    BY DEF TokenNotLost
  <2>1. GrantKept BY DEF TInv, InOrder
  <2>2. cred.grant < newest \/ cred.grant = newest BY Grown DEF TInv
  <2> QED BY <2>1, <2>2 DEF GrantKept
<1> QED BY <1>1, Invariant, PTL

\* Only SetError takes an account out of service of its own accord.
LEMMA OutOfService ==
    ASSUME Typed, Next, status = "active", status' = "error"
    PROVE  \E w \in Workers : SetError(w) \/ UpdateAccount(w)
<1> USE DEF rowVars
<1>1. ASSUME Environment PROVE FALSE
  BY <1>1 DEF Environment, Revoke, Age, CooldownEnds, CacheExpires, LockLapses, Stall, Crash
<1>2. ASSUME NEW w \in Workers, Start(w) PROVE FALSE
  BY <1>2 DEF Start, StartRequest, StartBackground, StartManual, StartEdit, StartReauth
<1>3. ASSUME NEW w \in Workers, GoWrong(w) PROVE FALSE
  BY <1>3 DEF GoWrong, LockFails, LoseAnswer, PersistFails, ReleaseFails, CheckFails,
              AttemptFails, RecoverFails, PurgeFails, MutexTimesOut, StepFails
<1>4. ASSUME NEW w \in Workers, Advance(w) PROVE SetError(w) \/ UpdateAccount(w)
  BY <1>4 DEF Advance, TakeMutex, TakeLock, LockHeld, Reread, Present, Rejected, Recover,
     Persist, Purge, Release, CoolDown, Invalidate, CheckTokenVersion, SetAccessToken, Await,
     Load, ClearAccountError
<1> QED BY <1>1, <1>2, <1>3, <1>4 DEF Next

\* A refresh takes an account out of service only when its stored refresh token is dead.
THEOREM QuarantineJust == Spec => QuarantineIsJust
<1> DEFINE Just == /\ status = "active" /\ status' = "error"
                   /\ cas \/ (faults = 0 /\ acts = 0)
                   => \/ ~Live(cred)
                      \/ \E w \in Workers : At(w, "write") /\ ~At(w, "write")'
<1>1. TInv /\ [Next]_vars => [Just]_vars
  <2> SUFFICES ASSUME TInv, Next, status = "active", status' = "error",
                      cas \/ (faults = 0 /\ acts = 0)
               PROVE  \/ ~Live(cred)
                      \/ \E w \in Workers : At(w, "write") /\ ~At(w, "write")'
    OBVIOUS
  <2>1. PICK w \in Workers : SetError(w) \/ UpdateAccount(w) BY OutOfService DEF TInv
  <2>2. CASE UpdateAccount(w)
    <3>1. job[w].pc = "write" /\ job'[w].pc # "write" BY <2>2, UpdateDoes DEF TInv
    <3> QED BY <3>1 DEF At
  <2>3. CASE SetError(w)
    <3>1. job[w].pc = "seterror" /\ Quarantines(w) BY <2>3 DEF SetError, At
    <3>2. cas BY <3>1 DEF TInv, NoneRejected, At
    <3>3. cred = job[w].acct BY <3>1, <3>2 DEF Quarantines, Unchanged
    <3> QED BY <3>1, <3>3 DEF TInv, DeadStay, DeadIn, Live, LiveAt
  <2> QED BY <2>1, <2>2, <2>3
<1> QED BY <1>1, Invariant, PTL DEF Spec, QuarantineIsJust

-----------------------------------------------------------------------------
(* The cache, while nothing goes wrong and no administrator acts. *)

Undisturbed == faults = 0 /\ acts = 0

\* The stored document, or one that it has replaced: the versions say which.
Earlier(d) == d = cred \/ d.version < cred.version

\* The documents of a worker: its copies are no newer than the stored one, what it is
\* going to store is, and what it is going to cache it has compared with the stored one.
Copies(j) == /\ Earlier(j.acct) /\ Earlier(j.tried)
             /\ j.pc = "persist" => cred.version < j.fresh.version
             /\ j.pc = "set" => j.tried = j.acct
CacheInv == Undisturbed =>
    /\ Earlier(First)
    /\ \A w \in Workers : Copies(job[w])
    /\ late \/ cache \in {NoToken, cred} \/ \E w \in Workers : StillToPublish(w)

LEMMA UndisturbedBefore ==
    ASSUME TInv, Next, Undisturbed'
    PROVE  Undisturbed /\ faults' = faults /\ UNCHANGED <<acts, kinds>> /\ kinds = {}
<1>1. Typed BY DEF TInv
<1>2. CASE Environment
  BY <1>1, <1>2, EnvironmentDoes, Counters DEF TInv, Act, Undisturbed
<1>3. CASE Counted
  BY <1>1, <1>3, Counters DEF TInv, Act, Counted, Undisturbed
<1> QED BY <1>1, <1>2, <1>3, StepCounted DEF Next

\* The stored document stays and the worker that moved has not forgotten the cache.
LEMMA CacheKept ==
    ASSUME CacheInv, Undisturbed, NEW w \in Workers, Others(w), cred' = cred,
           Copies(job'[w]),
           \/ UNCHANGED cacheVars /\ (StillToPublish(w) => StillToPublish(w)')
           \/ cache' \in {NoToken, cred} \/ late'
    PROVE  CacheInv'
<1>1. Earlier(First)' BY DEF CacheInv, Earlier
<1>2. ASSUME NEW q \in Workers PROVE Copies(job[q])'
  <2>1. Copies(job'[q]) BY DEF CacheInv, Others
  <2> QED BY <2>1 DEF Copies, Earlier
<1>3. ASSUME NEW q \in Workers, q # w, StillToPublish(q) PROVE StillToPublish(q)'
  BY <1>3 DEF StillToPublish, Others
<1>4. late' \/ cache' \in {NoToken, cred'} \/ \E q \in Workers : StillToPublish(q)'
  BY <1>3 DEF CacheInv, cacheVars
<1> QED BY <1>1, <1>2, <1>4 DEF CacheInv

\* A worker that neither stores nor caches with what it had, and owes the cache nothing.
LEMMA CacheAside ==
    ASSUME CacheInv, Undisturbed, NEW w \in Workers, Others(w),
           cred' = cred, UNCHANGED cacheVars,
           job'[w].pc \notin {"persist", "set"},
           {job'[w].acct, job'[w].tried} \subseteq {First, cred, job[w].acct, job[w].tried},
           ~StillToPublish(w)
    PROVE  CacheInv'
<1>1. \A d \in {First, cred, job[w].acct, job[w].tried} : Earlier(d)
  BY DEF CacheInv, Copies, Earlier
<1>2. Copies(job'[w]) BY <1>1 DEF Copies
<1> QED BY <1>2, CacheKept

\* The callers' steps.
LEMMA CalmCache ==
    ASSUME TInv, CacheInv, Undisturbed, faults' = faults, kinds = {},
           NEW w \in Workers, CalmStep(w)
    PROVE  CacheInv'
<1>0. /\ Typed /\ ~Fault /\ job[w] \in JobType
      /\ job[w].pc \in {"load", "write", "clear"} => FALSE
  <2>1. Typed /\ Shape(job[w], kinds) /\ job[w] \in JobType BY Now DEF TInv
  <2> QED BY <2>1, Counters DEF Undisturbed, Shape
<1>1. Others(w) /\ cred' = cred BY <1>0, CalmIsCalm DEF Calm
<1>2. Copies(job[w]) BY DEF CacheInv
<1>i. Idle.acct = First /\ Idle.tried = First /\ Idle.pc = "idle" BY DEF Idle
<1>3. ASSUME UNCHANGED cacheVars, job[w].pc \in {"idle", "mutex", "lock", "await", "seterror", "cooldown"},
             job'[w].pc # "set",
             {job'[w].acct, job'[w].tried} \subseteq {First, cred, job[w].acct, job[w].tried}
      PROVE  CacheInv'
  <2>1. ~StillToPublish(w) BY <1>3 DEF StillToPublish
  <2>2. job'[w].pc # "persist" BY <1>0, CalmIsCalm DEF Calm, CalmSteps
  <2> QED BY <1>1, <1>3, <2>1, <2>2, CacheAside
<1>4. ASSUME NEW t, NEW q \in {"mutex", "check"},
             Become(w, [Idle EXCEPT !.task = t, !.acct = cred, !.pc = q]),
             UNCHANGED cacheVars, job[w].pc = "idle"
      PROVE  CacheInv'
  <2>1. job'[w] = [Idle EXCEPT !.task = t, !.acct = cred, !.pc = q] BY <1>0, <1>4, NewJob
  <2>2. job'[w].acct = cred /\ job'[w].tried = First /\ job'[w].pc = q BY <2>1 DEF Idle
  <2> QED BY <1>3, <1>4, <2>2
<1>5. CASE StartRequest(w) BY <1>4, <1>5 DEF StartRequest, At
<1>6. CASE StartBackground(w) BY <1>4, <1>6 DEF StartBackground, At
<1>7. ASSUME NEW q \in CalmSteps \ {"set"}, Goto(w, q), UNCHANGED cacheVars,
             job[w].pc \in {"mutex", "lock", "await"}
      PROVE  CacheInv'
  <2>1. job'[w] = [job[w] EXCEPT !.pc = q] BY <1>0, <1>7, NewJob DEF Goto
  <2>2. job'[w].acct = job[w].acct /\ job'[w].tried = job[w].tried /\ job'[w].pc = q
    BY <1>0, <2>1 DEF JobType
  <2> QED BY <1>3, <1>7, <2>2
<1>8. ASSUME Finish(w) PROVE job'[w] = Idle BY <1>0, <1>8, NewJob DEF Finish
<1>9. CASE TakeMutex(w) BY <1>7, <1>9 DEF TakeMutex, At, CalmSteps
<1>10. CASE LockHeld(w) BY <1>3, <1>7, <1>8, <1>10, <1>i DEF LockHeld, At, CalmSteps
<1>11. ASSUME NEW q \in {"invalidate"}, Proceed(w, q)
       PROVE  job'[w].acct = First /\ job'[w].tried = First /\ job'[w].pc = q
  <2>1. job'[w] = [Idle EXCEPT !.task = job[w].task, !.pc = q] BY <1>0, <1>11, NewJob DEF Proceed
  <2> QED BY <2>1 DEF Idle
<1>12. CASE SetError(w)
  <2>1. job[w].pc = "seterror" /\ UNCHANGED cacheVars /\ (Finish(w) \/ Proceed(w, "invalidate"))
    BY <1>12 DEF SetError, At
  <2> QED BY <1>3, <1>8, <1>11, <1>i, <2>1
<1>13. CASE CoolDown(w) BY <1>3, <1>8, <1>13, <1>i DEF CoolDown, At
<1>14. CASE Invalidate(w)
  <2>1. cache' = NoToken /\ job'[w] = Idle BY <1>8, <1>14 DEF Invalidate, Uncache
  <2>2. Copies(job'[w]) BY <1>i, <2>1 DEF Copies, CacheInv
  <2> QED BY <1>1, <2>1, <2>2, CacheKept
<1>15. CASE CheckTokenVersion(w)
  <2>1. UNCHANGED cacheVars /\ job[w].pc = "check" BY <1>15 DEF CheckTokenVersion, At
  <2>2. /\ cred \in Document /\ job[w].acct \in Document
        /\ cred.version \in Nat /\ job[w].acct.version \in Nat
    BY <1>0, Now DEF Document
  <2>3. CASE IsStale(w)
    <3>1. job'[w] = Idle BY <1>8, <1>15, <2>3 DEF CheckTokenVersion
    <3>2. job[w].acct # cred BY <2>2, <2>3 DEF IsStale
    <3>3. ~StillToPublish(w) BY <2>1, <3>2 DEF StillToPublish
    <3> QED BY <1>1, <1>i, <2>1, <3>1, <3>3, CacheAside
  <2>4. CASE ~IsStale(w)
    <3>1. job'[w] = [job[w] EXCEPT !.tried = cred, !.pc = "set"]
      BY <1>0, <1>15, <2>4, NewJob DEF CheckTokenVersion
    <3>2. /\ job'[w].tried = cred /\ job'[w].pc = "set" /\ job'[w].acct = job[w].acct
          /\ job'[w].outcome = job[w].outcome
      BY <1>0, <3>1 DEF JobType
    <3>3. job[w].acct = cred BY <1>2, <2>2, <2>4 DEF IsStale, Copies, Earlier
    <3>4. Copies(job'[w]) BY <3>2, <3>3 DEF Copies, Earlier
    <3>5. StillToPublish(w) => StillToPublish(w)' BY <1>1, <3>2, <3>3 DEF StillToPublish
    <3> QED BY <1>1, <2>1, <3>4, <3>5, CacheKept
  <2> QED BY <2>3, <2>4
<1>16. CASE SetAccessToken(w)
  <2>1. /\ cache' = job[w].acct /\ late' = (job[w].tried = job[w].acct /\ job[w].acct # cred)
        /\ job[w].pc = "set" /\ job'[w] = Idle
    BY <1>8, <1>16 DEF SetAccessToken, At
  <2>2. late' \/ cache' = cred BY <1>2, <2>1 DEF Copies
  <2>3. Copies(job'[w]) BY <1>i, <2>1 DEF Copies, CacheInv
  <2> QED BY <1>1, <2>2, <2>3, CacheKept
<1>17. CASE Await(w)
  <2>1. UNCHANGED cacheVars /\ job[w].pc = "await" BY <1>17 DEF Await, At
  <2>2. CASE Finish(w) BY <1>3, <1>8, <1>i, <2>1, <2>2
  <2>3. CASE Become(w, [job[w] EXCEPT !.acct = cred, !.tried = cred, !.pc = "set"])
    <3>1. job'[w] = [job[w] EXCEPT !.acct = cred, !.tried = cred, !.pc = "set"]
      BY <1>0, <2>3, NewJob
    <3>2. job'[w].acct = cred /\ job'[w].tried = cred /\ job'[w].pc = "set"
      BY <1>0, <3>1 DEF JobType
    <3>3. Copies(job'[w]) BY <3>2 DEF Copies, Earlier
    <3>4. ~StillToPublish(w) BY <2>1 DEF StillToPublish
    <3> QED BY <1>1, <2>1, <3>3, <3>4, CacheKept
  <2> QED BY <1>17, <2>2, <2>3 DEF Await
<1>18. CASE ClearAccountError(w) BY <1>0, <1>18 DEF ClearAccountError, At
<1>19. CASE CheckFails(w) \/ MutexTimesOut(w) \/ StepFails(w)
  BY <1>0, <1>19 DEF CheckFails, MutexTimesOut, StepFails
<1> QED BY <1>5, <1>6, <1>9, <1>10, <1>12, <1>13, <1>14, <1>15, <1>16, <1>17, <1>18, <1>19
        DEF CalmStep

\* A worker that stored a document goes on to the cache when it releases the lock.
LEMMA ReleaseCache ==
    ASSUME TInv, CacheInv, Undisturbed, NEW w \in Workers, Release(w)
    PROVE  CacheInv'
<1>0. Typed BY DEF TInv
<1>1. /\ Others(w) /\ cred' = cred /\ job[w].pc = "release"
      /\ job'[w].acct \in {First, job[w].tried, job[w].acct} /\ job'[w].tried = First
      /\ job'[w].pc \notin {"persist", "set"}
  BY <1>0, ReleaseDoes DEF CalmSteps
<1>2. UNCHANGED cacheVars /\ Return(w) BY DEF Release
<1>3. CASE ~StillToPublish(w) BY <1>1, <1>2, <1>3, CacheAside
<1>4. CASE StillToPublish(w)
  <2>1. job[w].outcome = "refreshed" /\ job[w].tried = cred BY <1>1, <1>4 DEF StillToPublish
  <2>2. ~Finish(w)
    <3>1. PICK p \in (IF job[w].task = "request" THEN AfterRequest(job[w])
                      ELSE AfterBackground(job[w])),
               a \in Document, o \in Outcomes :
             /\ Become(w, IF p = "idle" THEN Idle
                          ELSE [Idle EXCEPT !.task = job[w].task, !.pc = p, !.acct = a,
                                            !.outcome = o])
             /\ o = "refreshed"
      BY <1>0, <1>2, <2>1, Now DEF Return, Outcomes
    <3>2. p # "idle" BY <2>1 DEF AfterRequest, AfterBackground, Usable
    <3>3. job'[w].outcome = "refreshed"
      <4>1. job'[w] = [Idle EXCEPT !.task = job[w].task, !.pc = p, !.acct = a, !.outcome = o]
        BY <1>0, <3>1, <3>2, NewJob
      <4> QED BY <3>1, <4>1 DEF Idle
    <3>4. Finish(w) => job'[w] = Idle BY <1>0, NewJob DEF Finish
    <3> QED BY <3>3, <3>4 DEF Idle
  <2>3. job'[w] # Idle
    <3>1. job'[w] = Idle => Finish(w)
      <4>1. \E r : Become(w, r) BY <1>2 DEF Return
      <4> QED BY <1>0, <4>1, NewJob DEF Finish
    <3> QED BY <2>2, <3>1
  <2>4. /\ job'[w].outcome = "refreshed" /\ job'[w].pc \in {"check", "invalidate"}
        /\ job'[w].acct = cred
    BY <1>0, <2>1, <2>3, ReleaseDoes
  <2>5. StillToPublish(w)' BY <1>1, <2>4 DEF StillToPublish
  <2>6. Copies(job'[w]) BY <1>1, <2>4 DEF Copies, Earlier, CacheInv
  <2> QED BY <1>1, <1>2, <2>5, <2>6, CacheKept
<1> QED BY <1>3, <1>4

\* A new document is stored: every copy is older, and the worker owes the cache.
LEMMA PersistCache ==
    ASSUME TInv, CacheInv, Undisturbed, faults' = faults, NEW w \in Workers, Persist(w)
    PROVE  CacheInv'
<1>0. Typed BY DEF TInv
<1>1. /\ Others(w) /\ job[w].pc = "persist" /\ IsApi(job[w])
      /\ job'[w].acct = job[w].acct
      /\ job'[w].pc \in {"purge", "release"}
  BY <1>0, PersistDoes
<1>2. CASE cred' = cred /\ job'[w].tried = cred
  <2>1. UNCHANGED cacheVars /\ ~StillToPublish(w) BY <1>1 DEF Persist, StillToPublish
  <2> QED BY <1>1, <1>2, <2>1, CacheAside
<1>3. CASE cred' = job[w].fresh /\ job'[w].tried = job[w].fresh /\ job'[w].outcome = "refreshed"
  <2>1. cred.version < cred'.version BY <1>1, <1>3 DEF CacheInv, Copies
  <2>2. ASSUME NEW d \in Document, Earlier(d) PROVE Earlier(d)'
    <3>1. d.version \in Nat /\ cred.version \in Nat /\ cred'.version \in Nat
      BY <1>0, <1>3, Now DEF Document
    <3> QED BY <2>1, <2>2, <3>1 DEF Earlier
  <2>3. ASSUME NEW q \in Workers, q # w PROVE Copies(job[q])'
    <3>1. job'[q] = job[q] /\ Copies(job[q]) BY <1>1, <2>3 DEF Others, CacheInv
    <3>2. Earlier(job[q].acct)' /\ Earlier(job[q].tried)'
      <4>1. job[q].acct \in Document /\ job[q].tried \in Document BY <1>0, Now
      <4> PICK a, t : a = job[q].acct /\ t = job[q].tried OBVIOUS
      <4>2. Earlier(a)' /\ Earlier(t)' BY <2>2, <3>1, <4>1 DEF Copies
      <4> QED BY <3>1, <4>2 DEF Earlier
    <3>3. job[q].pc # "persist"
      BY <1>1, <2>3, <1>0, Now DEF TInv, Exclusive, UnderLock, Undisturbed, Shape
    <3> QED BY <3>1, <3>2, <3>3 DEF Copies
  <2>4. Copies(job[w])'
    <3>1. job[w].acct \in Document /\ Earlier(job[w].acct) BY <1>0, Now DEF CacheInv, Copies
    <3> PICK a : a = job[w].acct OBVIOUS
    <3>2. Earlier(a)' BY <2>2, <3>1
    <3> QED BY <1>1, <1>3, <3>2 DEF Copies, Earlier
  <2>5. Earlier(First)' BY <1>0, <2>2, FirstIssued DEF CacheInv
  <2>6. StillToPublish(w)' BY <1>1, <1>3 DEF StillToPublish
  <2> QED BY <2>3, <2>4, <2>5, <2>6 DEF CacheInv
<1> QED BY <1>0, <1>2, <1>3, PersistDoes

LEMMA StepCache ==
    ASSUME TInv, CacheInv, Next, Undisturbed', NEW w \in Workers,
           Start(w) \/ Advance(w) \/ GoWrong(w)
    PROVE  CacheInv'
<1>0. Typed /\ Undisturbed /\ faults' = faults /\ acts' = acts /\ kinds = {} /\ ~Fault
  <2>1. Undisturbed /\ faults' = faults /\ acts' = acts /\ kinds = {} BY UndisturbedBefore
  <2> QED BY <2>1, Counters DEF TInv
<1>1. ~\E k : Act(k) BY <1>0, Counters DEF Act
<1>2. Shape(job[w], {}) /\ Copies(job[w]) BY <1>0, Now DEF CacheInv
<1>3. CASE CalmStep(w) BY <1>0, <1>3, CalmCache
<1>4. CASE TakeLock(w)
  <2>1. UNCHANGED cacheVars /\ ~StillToPublish(w) BY <1>4 DEF TakeLock, At, StillToPublish
  <2> QED BY <1>0, <1>4, <2>1, TakeLockDoes, CacheAside
<1>5. CASE Reread(w)
  <2>1. UNCHANGED cacheVars /\ ~StillToPublish(w) BY <1>5 DEF Reread, At, StillToPublish
  <2> QED BY <1>0, <1>5, <2>1, RereadDoes, CacheAside
<1>6. CASE Present(w)
  <2>1. UNCHANGED cacheVars /\ ~StillToPublish(w) BY <1>6 DEF Present, At, StillToPublish
  <2>2. IsApi(job[w]) \/ job[w].task = "manual" BY <1>2, <1>6 DEF Present, At, Shape
  <2>3. job[w].task # "manual" BY <1>2 DEF Shape
  <2>4. /\ Others(w) /\ cred' = cred /\ job'[w].pc = "persist"
        /\ job'[w].acct = job[w].acct /\ job'[w].tried = job[w].tried
        /\ job'[w].fresh.version = stamp + 1
    BY <1>0, <1>6, <2>3, PresentDoes DEF Same
  <2>5. cred.version < stamp + 1
    <3>1. cred.version \in Nat /\ cred.version <= stamp /\ stamp \in Nat BY <1>0, Now DEF Document
    <3> QED BY <3>1
  <2>6. Copies(job'[w]) BY <1>2, <2>4, <2>5 DEF Copies
  <2> QED BY <1>0, <2>1, <2>4, <2>6, CacheKept
<1>7. CASE Rejected(w)
  <2>1. UNCHANGED cacheVars /\ ~StillToPublish(w) BY <1>7 DEF Rejected, At, StillToPublish
  <2>2. /\ Others(w) /\ cred' = cred /\ job'[w].pc \notin {"persist", "set"}
        /\ {job'[w].acct, job'[w].tried} \subseteq {First, cred, job[w].acct, job[w].tried}
    BY <1>0, <1>7, RejectedDoes DEF Same, EndsWith, Idle
  <2> QED BY <1>0, <2>1, <2>2, CacheAside
<1>8. CASE Recover(w)
  <2>1. UNCHANGED cacheVars /\ ~StillToPublish(w) BY <1>8 DEF Recover, At, StillToPublish
  <2>2. /\ Others(w) /\ cred' = cred /\ job'[w].pc \notin {"persist", "set"}
        /\ {job'[w].acct, job'[w].tried} \subseteq {First, cred, job[w].acct, job[w].tried}
    BY <1>0, <1>8, RecoverDoes DEF Same, EndsWith
  <2> QED BY <1>0, <2>1, <2>2, CacheAside
<1>9. CASE Persist(w) BY <1>0, <1>9, PersistCache
<1>10. CASE Purge(w)
  <2>1. cache' = NoToken BY <1>10 DEF Purge, Uncache
  <2>2. /\ Others(w) /\ cred' = cred /\ job'[w].acct = job[w].acct /\ job'[w].tried = cred
        /\ job'[w].pc = "release"
    BY <1>0, <1>10, PurgeDoes
  <2>3. Copies(job'[w]) BY <1>2, <2>2 DEF Copies, Earlier
  <2> QED BY <1>0, <2>1, <2>2, <2>3, CacheKept
<1>11. CASE Release(w) BY <1>0, <1>11, ReleaseCache
<1>12. CASE StartManual(w) \/ StartEdit(w) \/ StartReauth(w)
  BY <1>1, <1>12 DEF StartManual, StartEdit, StartReauth
<1>13. CASE Load(w) BY <1>2, <1>13 DEF Load, At, Shape
<1>14. CASE UpdateAccount(w) BY <1>2, <1>14 DEF UpdateAccount, At, Shape
<1>15. CASE \/ LockFails(w) \/ LoseAnswer(w) \/ PersistFails(w) \/ AttemptFails(w)
            \/ RecoverFails(w) \/ PurgeFails(w) \/ ReleaseFails(w)
  BY <1>0, <1>15 DEF LockFails, LoseAnswer, PersistFails, AttemptFails, RecoverFails,
                  PurgeFails, ReleaseFails
<1> QED BY <1>3, <1>4, <1>5, <1>6, <1>7, <1>8, <1>9, <1>10, <1>11, <1>12, <1>13, <1>14,
           <1>15, StepIs

LEMMA NextCache == TInv /\ CacheInv /\ [Next]_vars => CacheInv'
<1> SUFFICES ASSUME TInv, CacheInv, [Next]_vars, Undisturbed' PROVE CacheInv'
  BY DEF CacheInv
<1>1. ASSUME Undisturbed, UNCHANGED <<cred, job>>, UNCHANGED cacheVars \/ cache' = NoToken PROVE CacheInv'
  <2>1. \A q \in Workers : StillToPublish(q)' = StillToPublish(q) BY <1>1 DEF StillToPublish
  <2>2. \A q \in Workers : Copies(job[q])' = Copies(job[q]) BY <1>1 DEF Copies, Earlier
  <2>3. Earlier(First)' = Earlier(First) BY <1>1 DEF Earlier
  <2> QED BY <1>1, <2>1, <2>2, <2>3 DEF CacheInv, cacheVars
<1>2. CASE Environment
  <2>1. Next BY <1>2 DEF Next
  <2>2. Undisturbed /\ faults' = 0 /\ Typed BY <2>1, UndisturbedBefore DEF Undisturbed, TInv
  <2>3. UNCHANGED <<cred, job>> BY <1>2, <2>2, EnvironmentDoes
  <2>4. UNCHANGED cacheVars \/ cache' = NoToken
    BY <1>2 DEF Environment, Revoke, Age, CooldownEnds, CacheExpires, LockLapses, Stall, Crash, Uncache
  <2> QED BY <1>1, <2>2, <2>3, <2>4
<1>3. CASE UNCHANGED vars BY <1>1, <1>3 DEF vars, rowVars, cacheVars, historyVars, Undisturbed
<1> QED BY <1>2, <1>3, StepCache DEF Next

LEMMA InitCache == Init => CacheInv
<1> SUFFICES ASSUME Init PROVE CacheInv OBVIOUS
<1>1. cred = First /\ cache = NoToken /\ \A w \in Workers : job[w] = Idle BY DEF Init
<1> QED BY <1>1 DEF CacheInv, Copies, Earlier, Idle

\* While nothing goes wrong and no administrator acts, the token in the cache is the
\* stored one or the worker that replaced it is still going to correct the cache, unless
\* the document was replaced between a request's version check and its SET
\* (CheckTokenVersion and the providers' SetAccessToken, InvalidateToken).
THEOREM CacheIsFollowed == Spec => []CacheFollows
<1>1. CacheInv => CacheFollows BY DEF CacheInv, CacheFollows, Undisturbed
<1> QED BY <1>1, InitCache, NextCache, Invariant, PTL DEF Spec
=============================================================================
