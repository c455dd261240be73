--------------------------- MODULE MCTokenRefresh ---------------------------
(* TokenRefresh for TLC: two workers, in one process or in two. *)
EXTENDS TokenRefresh

CONSTANTS w1, w2, i1, i2

TogetherOrApart == {[w \in Workers |-> i1], [w \in Workers |-> IF w = w1 THEN i1 ELSE i2]}
=============================================================================
