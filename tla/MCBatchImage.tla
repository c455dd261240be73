---------------------------- MODULE MCBatchImage ----------------------------
(* BatchImage for TLC: the workers of two instances. *)
EXTENDS BatchImage

CONSTANTS w1, w2
=============================================================================
