------------------------ MODULE MCSchedulerSnapshot ------------------------
(* SchedulerSnapshot for TLC: a poller, and a goroutine that rebuilds everything *)
(* or serves a request that missed the cache.                                    *)
EXTENDS SchedulerSnapshot

CONSTANTS p1, f1
EventKinds == {"account", "group"}
=============================================================================
