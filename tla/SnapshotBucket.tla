--------------------------- MODULE SnapshotBucket ---------------------------
(***************************************************************************)
(* One bucket of the scheduler's snapshot cache in Redis (repository/      *)
(* scheduler_cache.go): the epoch that fences writers, the retired marker, *)
(* the active snapshot and the set of registered buckets.  Each action is  *)
(* one Lua script.                                                         *)
(*                                                                         *)
(* Version numbers only order the writers: ahead holds those that were     *)
(* given a version above that of the active snapshot, in that order.       *)
(***************************************************************************)
EXTENDS Integers, SequencesExt

CONSTANT NoSnapshot \* the active key does not exist

Snapshots == [data: Nat, life: Nat]

ASSUME SnapshotAssumption == NoSnapshot \notin Snapshots

VARIABLES
    epoch,      \* epoch key, 0 while it does not exist
    retired,    \* the retired marker exists
    registered, \* the bucket is in the bucket set
    published,  \* active snapshot: the accounts (data) and the life they were read in
    ahead,      \* see above
    life        \* times the bucket has been retired

keyVars == <<epoch, retired, registered, published>>
bucketVars == <<keyVars, ahead, life>>

BucketTypeOK ==
    /\ epoch \in Nat /\ {retired, registered} \subseteq BOOLEAN
    /\ published \in {NoSnapshot} \cup Snapshots
    /\ life \in Nat

BucketInit ==
    /\ epoch = 0 /\ retired = FALSE
    /\ registered = FALSE /\ published = NoSnapshot
    /\ ahead = <<>> /\ life = 0

\* The epoch a script goes on with when the key may not exist yet.
Captured == IF epoch = 0 THEN 1 ELSE epoch

\* captureBucketWriteTokenScript, for a bucket that is not retired.
Capture ==
    /\ ~retired
    /\ epoch' = Captured
    /\ UNCHANGED <<retired, registered, published, ahead, life>>

\* The check that allocation and activation share.
Accepts(token) == ~retired /\ epoch = token

\* A writer that will not activate its version.
Forget(w) ==
    /\ \/ ~Contains(ahead, w) /\ UNCHANGED ahead
       \/ \E i \in DOMAIN ahead: ahead[i] = w /\ ahead' = RemoveAt(ahead, i)
    /\ UNCHANGED <<keyVars, life>>

\* allocateSnapshotVersionScript
AllocateVersion(w) ==
    /\ ahead' = Append(ahead, w)
    /\ UNCHANGED <<keyVars, life>>

\* activateSnapshotScript for a token it accepts.  The versions given before w's are
\* below the active one from now on; a version below it is dropped without an error.
Activate(w, snapshot) ==
    \/ /\ \/ ~Contains(ahead, w) /\ published = NoSnapshot /\ UNCHANGED ahead
          \/ \E i \in DOMAIN ahead: ahead[i] = w /\ ahead' = SubSeq(ahead, i + 1, Len(ahead))
       /\ published' = snapshot /\ registered' = TRUE
       /\ UNCHANGED <<epoch, retired, life>>
    \/ /\ ~Contains(ahead, w) /\ published # NoSnapshot
       /\ UNCHANGED bucketVars

\* Retiring without a new epoch: the tokens of before are good again after a reopening.
RetireSameEpoch ==
    /\ retired' = TRUE
    /\ epoch' = Captured
    /\ registered' = FALSE /\ published' = NoSnapshot
    /\ life' = life + (IF retired THEN 0 ELSE 1)
    /\ UNCHANGED ahead

RetireBucket ==
    /\ retired' = TRUE
    /\ epoch' = IF retired THEN Captured ELSE epoch + 1
    /\ registered' = FALSE /\ published' = NoSnapshot
    /\ life' = life + (IF retired THEN 0 ELSE 1)
    /\ UNCHANGED ahead

ReopenBucket ==
    /\ epoch' = Captured
    /\ retired' = FALSE
    /\ registered' = (registered /\ ~retired)
    /\ published' = IF retired THEN NoSnapshot ELSE published
    /\ UNCHANGED <<ahead, life>>
=============================================================================
