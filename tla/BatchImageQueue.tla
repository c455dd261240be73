--------------------------- MODULE BatchImageQueue ---------------------------
(***************************************************************************)
(* One batch image job in the Redis queue of repository/batch_image_queue. *)
(* go: the inflight key that keeps it from being queued twice, the ready   *)
(* list, the delayed and active sorted sets, and the lock of the worker    *)
(* that processes it.  Each action is one Lua script or one MULTI.         *)
(*                                                                         *)
(* Time is what the scripts ask of it: a delayed job becomes due at any    *)
(* moment, and an active entry is stale, or a lock expires, when nobody    *)
(* whose heartbeat still reaches Redis keeps it.                           *)
(***************************************************************************)
EXTENDS Naturals

CONSTANTS
    Workers, \* worker loops, one for each instance
    Nobody   \* no worker holds the lock

ASSUME NobodyAssumption == Nobody \notin Workers

VARIABLES
    inflight, \* the inflight key exists
    ready,    \* copies of the job in the ready list
    delayed,  \* the job is in the delayed set
    active,   \* the job is in the active set
    lock      \* the worker whose token the job lock holds

placeVars == <<inflight, ready, delayed, active>>
queueVars == <<placeVars, lock>>

QueueTypeOK ==
    /\ inflight \in BOOLEAN /\ delayed \in BOOLEAN /\ active \in BOOLEAN
    /\ ready \in Nat
    /\ lock \in Workers \cup {Nobody}

QueueInit ==
    /\ inflight = FALSE /\ ready = 0
    /\ delayed = FALSE /\ active = FALSE
    /\ lock = Nobody

\* The job is somewhere a worker will find it.
Queued == ready > 0 \/ delayed \/ active

\* batchImageEnqueueScript: the key and the entry in one step.
Enqueue ==
    /\ inflight' = TRUE
    /\ ready' = ready + (IF inflight THEN 0 ELSE 1)
    /\ UNCHANGED <<delayed, active, lock>>

\* batchImageReserveScript moves the job in one step.  Popping it first and adding
\* it to the active set with the heartbeat would lose it with the worker.
PopOnly ==
    /\ ready > 0
    /\ ready' = ready - 1
    /\ UNCHANGED <<inflight, delayed, active, lock>>

\* Taking the empty answer of the list for a job.
ReserveUnchecked ==
    /\ ready' = ready - 1
    /\ active' = TRUE
    /\ UNCHANGED <<inflight, delayed, lock>>

Reserve ==
    /\ ready > 0
    /\ ready' = ready - 1
    /\ active' = TRUE
    /\ UNCHANGED <<inflight, delayed, lock>>

RequeueAfter ==
    /\ active' = FALSE /\ delayed' = TRUE
    /\ UNCHANGED <<inflight, ready, lock>>

Ack ==
    /\ active' = FALSE /\ delayed' = FALSE /\ inflight' = FALSE
    /\ UNCHANGED <<ready, lock>>

MoveDueDelayed ==
    /\ delayed
    /\ delayed' = FALSE /\ ready' = ready + 1
    /\ UNCHANGED <<inflight, active, lock>>

\* Removing the stale entry without queueing the job again.
DropStaleActive(fresh) ==
    /\ active /\ ~fresh
    /\ active' = FALSE
    /\ UNCHANGED <<inflight, delayed, lock, ready>>

RecoverStaleActive(fresh) ==
    /\ active /\ ~fresh
    /\ active' = FALSE /\ ready' = ready + 1
    /\ UNCHANGED <<inflight, delayed, lock>>

TryAcquire(w) ==
    /\ lock = Nobody
    /\ lock' = w
    /\ UNCHANGED placeVars

\* batchImageReleaseLockScript deletes the lock only if the token is w's.
ReleaseLock(w) ==
    /\ lock' = IF lock = w THEN Nobody ELSE lock
    /\ UNCHANGED placeVars

LockExpires(kept) ==
    /\ lock # Nobody /\ ~kept
    /\ lock' = Nobody
    /\ UNCHANGED placeVars
=============================================================================
