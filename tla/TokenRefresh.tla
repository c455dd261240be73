---------------------------- MODULE TokenRefresh ----------------------------
(***************************************************************************)
(* The refresh of one account's OAuth tokens (service/oauth_refresh_api.go)*)
(* by requests and by the background job, beside an administrator who       *)
(* refreshes, edits or re-authorises the account, and the token cache.     *)
(* Each step is one SQL statement, Redis command or call of the provider;  *)
(* anyone may act between two.                                              *)
(***************************************************************************)
EXTENDS OAuthProvider, FiniteSets

CONSTANTS
    Workers,   \* goroutines that work on the account
    Instances, \* processes
    Homes,     \* possible placements of the workers on the instances
    Nobody,    \* owner of a free lock
    NoToken,   \* content of an empty cache
    MaxActs,   \* bound: acts of administrators and users
    MaxFaults  \* bound: crashes, errors, lost answers and stalls

ASSUME HomesAssumption == Homes \subseteq [Workers -> Instances]
ASSUME NobodyAssumption == Nobody \notin Workers
ASSUME NoTokenAssumption == NoToken \notin Document
ASSUME BoundsAssumption == {MaxActs, MaxFaults} \subseteq Nat

VARIABLES
    cas,            \* a Grok account, whose refreshes write conditionally
    home,           \* the instance of each worker
    cred, status,   \* columns of the account
    cooling,        \* temp_unschedulable_until has not passed
    due,            \* documents whose access token is about to expire
    cache, lock,    \* access token and refresh lock in Redis
    stamp,          \* the last _token_version given
    job,            \* what each worker is doing
    acts, kinds,    \* acts of administrators and users so far, and their kinds
    late,           \* the cached document was replaced between its check and its SET
    faults

cacheVars == <<cache, late>>
rowVars == <<cred, status, cooling>>
providerVars == <<newest, current>>
historyVars == <<acts, kinds>>
vars == <<cas, home, rowVars, due, cacheVars, lock, stamp, job, historyVars,
          faults, providerVars>>

Tasks == {"none", "request", "background", "manual", "edit", "reauth"}
Outcomes == {"none", "refreshed", "skipped", "failed", "contained", "invalid"}
Steps == {"idle", "mutex", "lock", "await", "reread", "provider", "recover",
          "persist", "purge", "release", "seterror", "cooldown", "invalidate",
          "check", "set", "load", "write", "clear"}

\* acct: the caller's copy of the document.  tried: the copy RefreshIfNeeded works
\* on, or the row read for the version check.  fresh: the document to be stored.  held: the lock is to be released.
\* seen: the status to be written back.
Idle == [task |-> "none", pc |-> "idle", acct |-> First, tried |-> First,
         fresh |-> First, held |-> FALSE, outcome |-> "none", seen |-> "active"]

Init ==
    /\ ProviderInit
    /\ cas \in BOOLEAN /\ home \in Homes
    /\ cred = First /\ status = "active" /\ cooling = FALSE
    /\ due = {} /\ cache = NoToken /\ lock = Nobody /\ stamp = 0
    /\ job = [w \in Workers |-> Idle]
    /\ acts = 0 /\ kinds = {} /\ late = FALSE /\ faults = 0

At(w, pc) == job[w].pc = pc
Become(w, r) == job' = [job EXCEPT ![w] = r]
Finish(w) == Become(w, Idle)
Proceed(w, pc) == Become(w, [Idle EXCEPT !.task = job[w].task, !.pc = pc])
Goto(w, pc) == Become(w, [job[w] EXCEPT !.pc = pc])
Ends(w, outcome) == Become(w, [job[w] EXCEPT !.pc = "release", !.outcome = outcome,
                                             !.fresh = First])

Uncache == cache' = NoToken /\ late' = FALSE

IsApi(j) == j.task \in {"request", "background"}
\* The steps of RefreshIfNeeded under the mutex of the process.
InMutex(w) == /\ IsApi(job[w])
              /\ job[w].pc \in {"lock", "reread", "provider", "recover", "persist",
                                "purge", "release"}

Fault == faults < MaxFaults /\ faults' = faults + 1
NoFault == UNCHANGED faults

-----------------------------------------------------------------------------
(* Callers: a request that needs a token, and the background job. *)

\* A Grok request takes the cached token only if its account has the same one.
Misses == IF cas THEN cache # cred \/ cred \in due ELSE cache = NoToken

StartRequest(w) ==
    /\ At(w, "idle") /\ status = "active" /\ Misses
    /\ \E expiring \in {FALSE, (cred \in due)} :
         Become(w, [Idle EXCEPT !.task = "request", !.acct = cred,
                                !.pc = IF expiring THEN "mutex" ELSE "check"])
    /\ NoFault
    /\ UNCHANGED <<cas, home, rowVars, due, cacheVars, lock, stamp, historyVars, providerVars>>

StartBackground(w) ==
    /\ At(w, "idle") /\ status = "active" /\ cred \in due /\ ~cooling
    /\ Become(w, [Idle EXCEPT !.task = "background", !.acct = cred, !.pc = "mutex"])
    /\ NoFault
    /\ UNCHANGED <<cas, home, rowVars, due, cacheVars, lock, stamp, historyVars, providerVars>>

-----------------------------------------------------------------------------
(* RefreshIfNeeded *)

TakeMutex(w) ==
    /\ At(w, "mutex")
    /\ \A q \in Workers : home[q] = home[w] => ~InMutex(q)
    /\ Goto(w, "lock") /\ NoFault
    /\ UNCHANGED <<cas, home, rowVars, due, cacheVars, lock, stamp, historyVars, providerVars>>

TakeLock(w) ==
    /\ At(w, "lock") /\ lock = Nobody
    /\ lock' = w
    /\ Become(w, [job[w] EXCEPT !.pc = "reread", !.held = TRUE]) /\ NoFault
    /\ UNCHANGED <<cas, home, rowVars, due, cacheVars, stamp, historyVars, providerVars>>

\* A request waits, and is done if it then finds a token in the cache.
LockHeld(w) ==
    /\ At(w, "lock") /\ lock # Nobody
    /\ \/ Finish(w) /\ (job[w].task = "background" \/ (~cas /\ cache # NoToken))
       \/ Goto(w, IF cas THEN "await" ELSE "check") /\ job[w].task = "request"
    /\ NoFault
    /\ UNCHANGED <<cas, home, rowVars, due, cacheVars, lock, stamp, historyVars, providerVars>>

\* Redis reports an error, and may have set the key all the same.
LockFails(w) ==
    /\ At(w, "lock") /\ Fault
    /\ lock' \in {lock} \cup (IF lock = Nobody THEN {w} ELSE {})
    /\ Goto(w, "reread")
    /\ UNCHANGED <<cas, home, rowVars, due, cacheVars, stamp, historyVars, providerVars>>

Refreshable == status = "active" /\ cred \in due

RefusedToRequest(w) == cas /\ job[w].task = "request" /\ status # "active"

Reread(w) ==
    /\ At(w, "reread")
    /\ Become(w, [job[w] EXCEPT
         !.tried = cred,
         !.pc = IF Refreshable THEN "provider" ELSE "release",
         !.outcome = IF RefusedToRequest(w) THEN "failed" ELSE "skipped"])
    /\ NoFault
    /\ UNCHANGED <<cas, home, rowVars, due, cacheVars, lock, stamp, historyVars, providerVars>>

Present(w) ==
    /\ At(w, "provider") /\ Rotate(job[w].tried)
    /\ IF IsApi(job[w])
       THEN /\ stamp' = stamp + 1
            /\ Become(w, [job[w] EXCEPT !.pc = "persist",
                                        !.fresh = Successor(job[w].tried, stamp')])
       ELSE /\ UNCHANGED stamp
            /\ Become(w, [Idle EXCEPT
                 !.task = job[w].task, !.pc = "load",
                 !.fresh = Successor(job[w].tried, job[w].tried.version)])
    /\ NoFault
    /\ UNCHANGED <<cas, home, rowVars, due, cacheVars, lock, historyVars>>

\* The recovery looks for invalid_grant; OpenAI's answer has other words too.
Rejected(w) ==
    /\ At(w, "provider") /\ ~Live(job[w].tried)
    /\ IF IsApi(job[w])
       THEN Goto(w, "recover") \/ (~cas /\ Ends(w, "invalid"))
       ELSE Finish(w)
    /\ NoFault
    /\ UNCHANGED <<cas, home, rowVars, due, cacheVars, lock, stamp, historyVars, providerVars>>

\* The answer is lost, or comes after the caller has gone and is dropped.
LoseAnswer(w) ==
    /\ At(w, "provider") /\ Rotate(job[w].tried) /\ Fault
    /\ IF IsApi(job[w]) THEN Ends(w, "failed") ELSE Finish(w)
    /\ UNCHANGED <<cas, home, rowVars, due, cacheVars, lock, stamp, historyVars>>

Recover(w) ==
    /\ At(w, "recover")
    /\ IF SameToken(cred, job[w].tried)
       THEN Ends(w, "invalid")
       ELSE Become(w, [job[w] EXCEPT !.tried = cred, !.pc = "release",
                                     !.outcome = "skipped"])
    /\ NoFault
    /\ UNCHANGED <<cas, home, rowVars, due, cacheVars, lock, stamp, historyVars, providerVars>>

\* Grok accounts are updated only while the document is the one presented.
\* MUTANT: without the comparison in the statement.
PersistsBlindly(w) == TRUE
Persists(w) == ~cas \/ cred = job[w].tried

Persist(w) ==
    /\ At(w, "persist")
    /\ IF Persists(w)
       THEN /\ cred' = job[w].fresh
            /\ Become(w, [job[w] EXCEPT !.tried = job[w].fresh, !.outcome = "refreshed",
                                        !.fresh = First,
                                        !.pc = IF cas THEN "purge" ELSE "release"])
       ELSE /\ UNCHANGED cred
            /\ Become(w, [job[w] EXCEPT !.tried = cred, !.outcome = "skipped",
                                        !.fresh = First, !.pc = "release"])
    /\ NoFault
    /\ UNCHANGED <<cas, home, status, cooling, due, cacheVars, lock, stamp, historyVars,
                   providerVars>>

\* The statement fails, or its success is not reported.
PersistFails(w) ==
    /\ At(w, "persist") /\ Fault
    /\ \/ UNCHANGED cred
       \/ Persists(w) /\ cred' = job[w].fresh
    /\ Ends(w, IF cas THEN "contained" ELSE "failed")
    /\ UNCHANGED <<cas, home, status, cooling, due, cacheVars, lock, stamp, historyVars,
                   providerVars>>

\* loadGrokDurableAccountAfterPersist
Purge(w) ==
    /\ At(w, "purge")
    /\ Uncache
    /\ Become(w, [job[w] EXCEPT !.tried = cred, !.pc = "release"]) /\ NoFault
    /\ UNCHANGED <<cas, home, rowVars, due, lock, stamp, historyVars, providerVars>>

\* The deletion fails, or the row cannot be read again.
PurgeFails(w) ==
    /\ At(w, "purge") /\ Fault
    /\ \/ /\ UNCHANGED cacheVars
          /\ Become(w, [job[w] EXCEPT !.tried = cred, !.pc = "release"])
       \/ Uncache /\ Ends(w, "contained")
    /\ UNCHANGED <<cas, home, rowVars, due, lock, stamp, historyVars, providerVars>>

-----------------------------------------------------------------------------
(* What the caller does with the outcome. *)

Usable(j) == j.outcome \in {"refreshed", "skipped"}

AfterRequest(j) == IF cas /\ ~Usable(j) THEN {"idle"} ELSE {"check"}

AfterBackground(j) ==
    CASE j.outcome = "refreshed" -> {"invalidate"}
      [] j.outcome = "failed" -> {"mutex", "cooldown"}
      [] j.outcome = "invalid" -> {"seterror"}
      [] OTHER -> {"idle"}

Return(w) ==
    LET j == job[w]
        a == IF j.task = "background" \/ Usable(j) THEN j.tried ELSE j.acct
    IN \E pc \in (IF j.task = "request" THEN AfterRequest(j) ELSE AfterBackground(j)) :
         Become(w, IF pc = "idle" THEN Idle
                   ELSE [Idle EXCEPT
                          !.task = j.task, !.pc = pc, !.acct = a,
                          !.outcome = IF j.outcome = "refreshed" THEN j.outcome ELSE "none"])

\* The key is deleted whoever owns it by now.
Release(w) ==
    /\ At(w, "release")
    /\ lock' = IF job[w].held THEN Nobody ELSE lock
    /\ Return(w) /\ NoFault
    /\ UNCHANGED <<cas, home, rowVars, due, cacheVars, stamp, historyVars, providerVars>>

ReleaseFails(w) ==
    /\ At(w, "release") /\ job[w].held /\ Fault
    /\ Return(w)
    /\ UNCHANGED <<cas, home, rowVars, due, cacheVars, lock, stamp, historyVars, providerVars>>

Unchanged(w) == cred = job[w].acct /\ status = "active"

\* MUTANT: without the comparison in the statement.
QuarantinesBlindly(w) == TRUE
Quarantines(w) == ~cas \/ Unchanged(w)

SetError(w) ==
    /\ At(w, "seterror")
    /\ IF Quarantines(w)
       THEN status' = "error" /\ Proceed(w, "invalidate")
       ELSE UNCHANGED status /\ Finish(w)
    /\ NoFault
    /\ UNCHANGED <<cas, home, cred, cooling, due, cacheVars, lock, stamp, historyVars,
                   providerVars>>

CoolDown(w) ==
    /\ At(w, "cooldown")
    /\ cooling' = (cooling \/ ~cas \/ Unchanged(w))
    /\ Finish(w) /\ NoFault
    /\ UNCHANGED <<cas, home, cred, status, due, cacheVars, lock, stamp, historyVars,
                   providerVars>>

\* After a refresh the job also clears a cooldown its copy of the row shows.
Invalidate(w) ==
    /\ At(w, "invalidate")
    /\ Uncache
    /\ cooling' \in {cooling} \cup (IF job[w].outcome = "refreshed" THEN {FALSE} ELSE {})
    /\ Finish(w) /\ NoFault
    /\ UNCHANGED <<cas, home, cred, status, due, lock, stamp, historyVars, providerVars>>

\* MUTANT: no check of the version.
IsStaleNever(w) == FALSE
IsStale(w) == cred.version > job[w].acct.version

\* A stale caller answers with the newer token and leaves the cache alone.
CheckTokenVersion(w) ==
    /\ At(w, "check")
    /\ IF IsStale(w) THEN Finish(w)
       ELSE Become(w, [job[w] EXCEPT !.tried = cred, !.pc = "set"])
    /\ NoFault
    /\ UNCHANGED <<cas, home, rowVars, due, cacheVars, lock, stamp, historyVars, providerVars>>

CheckFails(w) ==
    /\ At(w, "check") /\ Fault /\ Goto(w, "set")
    /\ UNCHANGED <<cas, home, rowVars, due, cacheVars, lock, stamp, historyVars, providerVars>>

SetAccessToken(w) ==
    /\ At(w, "set")
    /\ cache' = job[w].acct
    /\ late' = (job[w].tried = job[w].acct /\ job[w].acct # cred)
    /\ Finish(w) /\ NoFault
    /\ UNCHANGED <<cas, home, rowVars, due, lock, stamp, historyVars, providerVars>>

\* waitForRefreshedToken: gives up, or finds a new document and repairs the cache.
Await(w) ==
    /\ At(w, "await")
    /\ \/ Finish(w)
       \/ /\ cred # job[w].acct /\ cache \notin {NoToken, cred}
          /\ Become(w, [job[w] EXCEPT !.acct = cred, !.tried = cred, !.pc = "set"])
    /\ NoFault
    /\ UNCHANGED <<cas, home, rowVars, due, cacheVars, lock, stamp, historyVars, providerVars>>

-----------------------------------------------------------------------------
(* Administrators: each reads the whole row and writes it back later. *)

Act(kind) == acts < MaxActs /\ acts' = acts + 1 /\ kinds' = kinds \cup {kind}

\* refreshSingleAccount, which knows neither the mutex nor the lock.
StartManual(w) ==
    /\ At(w, "idle") /\ Act("manual") /\ cred.turn < MaxTurns
    /\ Become(w, [Idle EXCEPT !.task = "manual", !.tried = cred, !.pc = "provider"])
    /\ NoFault
    /\ UNCHANGED <<cas, home, rowVars, due, cacheVars, lock, stamp, providerVars>>

StartEdit(w) ==
    /\ At(w, "idle") /\ Act("edit")
    /\ Become(w, [Idle EXCEPT !.task = "edit", !.fresh = cred, !.seen = status,
                              !.pc = "write"])
    /\ NoFault
    /\ UNCHANGED <<cas, home, rowVars, due, cacheVars, lock, stamp, providerVars>>

\* The new document keeps the version of the one it replaces.
StartReauth(w) ==
    /\ At(w, "idle") /\ Act("reauth") /\ Authorise
    /\ Become(w, [Idle EXCEPT
         !.task = "reauth", !.pc = "load",
         !.fresh = [grant |-> newest', turn |-> 0, version |-> cred.version]])
    /\ NoFault
    /\ UNCHANGED <<cas, home, rowVars, due, cacheVars, lock, stamp>>

Load(w) ==
    /\ At(w, "load")
    /\ Become(w, [job[w] EXCEPT !.seen = status, !.pc = "write"]) /\ NoFault
    /\ UNCHANGED <<cas, home, rowVars, due, cacheVars, lock, stamp, historyVars, providerVars>>

AfterWrite(w) == CASE job[w].task = "manual" -> "invalidate"
                   [] job[w].task = "reauth" -> "clear"
                   [] OTHER -> "idle"

UpdateAccount(w) ==
    /\ At(w, "write")
    /\ cred' = job[w].fresh /\ status' = job[w].seen
    /\ IF AfterWrite(w) = "idle" THEN Finish(w) ELSE Proceed(w, AfterWrite(w))
    /\ NoFault
    /\ UNCHANGED <<cas, home, cooling, due, cacheVars, lock, stamp, historyVars, providerVars>>

ClearAccountError(w) ==
    /\ At(w, "clear")
    /\ status' = "active" /\ cooling' = FALSE
    /\ Proceed(w, "invalidate") /\ NoFault
    /\ UNCHANGED <<cas, home, cred, due, cacheVars, lock, stamp, historyVars, providerVars>>

Revoke ==
    /\ Act("revoke") /\ \E g \in Grants : EndGrant(g)
    /\ NoFault
    /\ UNCHANGED <<cas, home, rowVars, due, cacheVars, lock, stamp, job>>

-----------------------------------------------------------------------------
(* Time and faults. *)

Age ==
    /\ cred \notin due /\ cred.turn < MaxTurns
    /\ due' = due \cup {cred}
    /\ NoFault
    /\ UNCHANGED <<cas, home, rowVars, cacheVars, lock, stamp, job, historyVars, providerVars>>

CooldownEnds ==
    /\ cooling /\ cooling' = FALSE /\ NoFault
    /\ UNCHANGED <<cas, home, cred, status, due, cacheVars, lock, stamp, job, historyVars,
                   providerVars>>

CacheExpires ==
    /\ cache # NoToken /\ Uncache /\ NoFault
    /\ UNCHANGED <<cas, home, rowVars, due, lock, stamp, job, historyVars, providerVars>>

\* The owner is gone, or is one that stalled for the whole TTL.
\* MUTANT: a lock without a TTL.
LockIsForGood == FALSE
LockMayLapse == lock # Nobody /\ ~job[lock].held
LockLapses ==
    /\ LockMayLapse
    /\ lock' = Nobody /\ NoFault
    /\ UNCHANGED <<cas, home, rowVars, due, cacheVars, stamp, job, historyVars, providerVars>>

Stall ==
    /\ lock # Nobody /\ job[lock].held /\ Fault
    /\ lock' = Nobody
    /\ UNCHANGED <<cas, home, rowVars, due, cacheVars, stamp, job, historyVars, providerVars>>

Crash(i) ==
    /\ Fault
    /\ job' = [w \in Workers |-> IF home[w] = i THEN Idle ELSE job[w]]
    /\ UNCHANGED <<cas, home, rowVars, due, cacheVars, lock, stamp, historyVars, providerVars>>

\* The reread or the call fails before the provider has seen the token.
AttemptFails(w) ==
    /\ job[w].pc \in {"reread", "provider"} /\ IsApi(job[w]) /\ Fault
    /\ Ends(w, IF At(w, "reread") THEN "contained" ELSE "failed")
    /\ UNCHANGED <<cas, home, rowVars, due, cacheVars, lock, stamp, historyVars, providerVars>>

RecoverFails(w) ==
    /\ At(w, "recover") /\ Fault /\ Ends(w, "invalid")
    /\ UNCHANGED <<cas, home, rowVars, due, cacheVars, lock, stamp, historyVars, providerVars>>

\* The deadline passes before the mutex is free.
MutexTimesOut(w) ==
    /\ At(w, "mutex") /\ Fault
    /\ CASE job[w].task = "background" -> Goto(w, "cooldown")
         [] job[w].task = "request" -> IF cas THEN Finish(w) ELSE Goto(w, "check")
    /\ UNCHANGED <<cas, home, rowVars, due, cacheVars, lock, stamp, historyVars, providerVars>>

\* The command or statement of the step has no effect.
StepFails(w) ==
    /\ Fault
    /\ \/ At(w, "seterror") /\ (IF cas THEN Finish(w) ELSE Proceed(w, "invalidate"))
       \/ At(w, "clear") /\ Goto(w, "invalidate")
       \/ job[w].pc \in {"set", "cooldown", "invalidate", "load", "write"} /\ Finish(w)
    /\ UNCHANGED <<cas, home, rowVars, due, cacheVars, lock, stamp, historyVars, providerVars>>

-----------------------------------------------------------------------------
Advance(w) ==
    \/ TakeMutex(w) \/ TakeLock(w) \/ LockHeld(w) \/ Reread(w)
    \/ Present(w) \/ Rejected(w) \/ Recover(w) \/ Persist(w) \/ Purge(w) \/ Release(w)
    \/ SetError(w) \/ CoolDown(w) \/ Invalidate(w)
    \/ CheckTokenVersion(w) \/ SetAccessToken(w) \/ Await(w)
    \/ Load(w) \/ UpdateAccount(w) \/ ClearAccountError(w)

Start(w) == \/ StartRequest(w) \/ StartBackground(w)
            \/ StartManual(w) \/ StartEdit(w) \/ StartReauth(w)

GoWrong(w) == \/ LockFails(w) \/ LoseAnswer(w) \/ PersistFails(w) \/ ReleaseFails(w)
              \/ CheckFails(w) \/ AttemptFails(w) \/ RecoverFails(w)
              \/ PurgeFails(w) \/ MutexTimesOut(w) \/ StepFails(w)

Environment == \/ Revoke \/ Age \/ CooldownEnds \/ CacheExpires \/ LockLapses \/ Stall
               \/ \E i \in Instances : Crash(i)

Next == \/ \E w \in Workers : Start(w) \/ Advance(w) \/ GoWrong(w)
        \/ Environment

Spec == Init /\ [][Next]_vars

\* Goroutines run, the job looks at every account again and again, cooldowns pass
\* and the key of a lock has a TTL.
Fairness ==
    /\ \A w \in Workers : WF_vars(Advance(w)) /\ SF_vars(StartBackground(w))
    /\ WF_vars(CooldownEnds) /\ WF_vars(LockLapses)

FairSpec == Spec /\ Fairness

-----------------------------------------------------------------------------
JobType == [task : Tasks, pc : Steps, acct : Document, tried : Document,
            fresh : Document, held : BOOLEAN, outcome : Outcomes,
            seen : {"active", "error"}]

TypeOK ==
    /\ cas \in BOOLEAN /\ home \in [Workers -> Instances]
    /\ cred \in Document /\ status \in {"active", "error"} /\ cooling \in BOOLEAN
    /\ due \subseteq Document /\ cache \in Document \cup {NoToken}
    /\ lock \in Workers \cup {Nobody} /\ stamp \in Nat
    /\ job \in [Workers -> JobType]
    /\ acts \in 0 .. MaxActs /\ kinds \subseteq {"manual", "edit", "reauth", "revoke"}
    /\ late \in BOOLEAN /\ faults \in 0 .. MaxFaults
    /\ cred.version <= stamp
    /\ newest \in Grants /\ current \in [Grants -> {Revoked} \cup 0 .. MaxTurns]

\* Nothing has happened that the lock, or for Grok the comparison of documents, is
\* not there for: no fault, and no administrator but one who re-authorises a Grok
\* account.
Orderly == /\ faults = 0 /\ kinds \subseteq {"reauth"}
           /\ acts <= IF cas THEN 1 ELSE 0

Reauthorising == \E w \in Workers : job[w].task = "reauth" /\ job[w].pc \in {"load", "write"}

HoldsSuccessor(w) == /\ IsApi(job[w]) /\ At(w, "persist")
                     /\ job[w].tried = cred /\ Live(job[w].fresh)

\* The account never loses its grant: the stored refresh token is valid, or a worker
\* is about to store the one that replaced it, or new credentials are on their way.
TokenNotLost ==
    Orderly => \/ Live(cred) \/ Reauthorising
               \/ \E w \in Workers : HoldsSuccessor(w)

\* A refresh takes an account out of service only when the stored refresh token is
\* dead: for Grok whatever goes wrong and whoever writes, for the others while no
\* fault and no administrator disturbs them.  An administrator's write, which puts
\* back the status read before, is not a refresh.
QuarantineIsJust ==
    [][/\ status = "active" /\ status' = "error"
       /\ cas \/ (faults = 0 /\ acts = 0)
       => \/ ~Live(cred)
          \/ \E w \in Workers : At(w, "write") /\ ~At(w, "write")']_vars

\* A worker that stored a new document and has not yet dealt with the cache.
StillToPublish(w) ==
    /\ job[w].outcome = "refreshed"
    /\ \/ job[w].pc \in {"purge", "release"} /\ job[w].tried = cred
       \/ job[w].pc \in {"invalidate", "check", "set"} /\ job[w].acct = cred

\* The cache holds no token but the stored one, or will be corrected by the worker
\* that replaced it, unless the document changed between a request's version check
\* and its SET.
CacheFollows ==
    faults = 0 /\ acts = 0 /\ ~late
        => \/ cache \in {NoToken, cred}
           \/ \E w \in Workers : StillToPublish(w)

\* A document about to expire is replaced, or the account is taken out of service,
\* even after a crash that leaves the lock behind, once requests leave the account
\* alone: while they come, one of them may have the lock whenever the job asks.
Expiring == status = "active" /\ cred \in due
ExpiryHandled == <>[](\A w \in Workers : job[w].task # "request") => []<>(~Expiring)
=============================================================================
