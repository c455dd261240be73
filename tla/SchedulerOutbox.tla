--------------------------- MODULE SchedulerOutbox ---------------------------
(***************************************************************************)
(* The scheduler_outbox table (repository/scheduler_outbox_repo.go) and    *)
(* the watermark in Redis up to which its rows are consumed.  A row's      *)
(* number is its id: the sequence gives it out at the insertion, before    *)
(* the transaction that inserts it commits.                                *)
(***************************************************************************)
EXTENDS Integers, Sequences

CONSTANT Kinds \* event types that carry a dedup key

VARIABLES
    outbox,   \* rows in the order of their ids
    watermark \* last consumed id, written by any instance

outboxVars == <<outbox, watermark>>

\* claimed: a poll has released the dedup key.  late: committed after a row with a
\* higher id was polled.  handled: some poll has handled it without an error.
Row(kind, status) ==
    [kind |-> kind, status |-> status, claimed |-> FALSE, late |-> FALSE, handled |-> FALSE]

Ids == DOMAIN outbox

Rows == [kind: Kinds, status: {"open", "committed", "deleted"},
         claimed: BOOLEAN, late: BOOLEAN, handled: BOOLEAN]

OutboxTypeOK ==
    /\ outbox \in Seq(Rows)
    /\ watermark \in {0} \cup Ids

OutboxInit == outbox = <<>> /\ watermark = 0

Holds(kind, status) ==
    \E i \in Ids: outbox[i].kind = kind /\ outbox[i].status = status /\ ~outbox[i].claimed

\* INSERT ... ON CONFLICT (dedup_key) DO NOTHING.  It waits for a transaction that
\* inserts the same key and inserts nothing when the key is there.
Inserts(kind) == ~Holds(kind, "committed")
Insert(kind, status) ==
    /\ ~Holds(kind, "open")
    /\ outbox' = IF Inserts(kind) THEN Append(outbox, Row(kind, status)) ELSE outbox
    /\ UNCHANGED watermark

Commit(i) ==
    /\ outbox' = [outbox EXCEPT ![i].status = "committed",
                                ![i].late = \E j \in Ids: j > i /\ outbox[j].claimed]
    /\ UNCHANGED watermark

\* The rows ListAfterAndReleaseDedup returns.
After(id) == {i \in Ids: i > id /\ outbox[i].status = "committed"}

Claim(ids) ==
    /\ outbox' = [i \in Ids |-> IF i \in ids THEN [outbox[i] EXCEPT !.claimed = TRUE] ELSE outbox[i]]
    /\ UNCHANGED watermark

Handled(i) ==
    /\ outbox' = [outbox EXCEPT ![i].handled = TRUE]
    /\ UNCHANGED watermark

\* One too many.
SetWatermarkAfter(id) ==
    /\ watermark' = id + 1
    /\ UNCHANGED outbox

SetWatermark(id) ==
    /\ watermark' = id
    /\ UNCHANGED outbox

\* DeleteConsumedUpTo: rows up to upto are older than the grace.
DeleteConsumed(upto) ==
    /\ outbox' = [i \in Ids |-> IF i <= upto /\ outbox[i].status = "committed"
                                THEN [outbox[i] EXCEPT !.status = "deleted"] ELSE outbox[i]]
    /\ UNCHANGED watermark
=============================================================================
