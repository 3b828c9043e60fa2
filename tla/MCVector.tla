------------------------------ MODULE MCVector ------------------------------
(* Small instances of Vector: every pair of an initial and a maximal       *)
(* capacity out of small sets, so that doubling meets the maximum exactly   *)
(* (1, 2, 4 -> 8) and misses it (3 -> 8, 2 -> 5).                           *)
EXTENDS Vector

CONSTANTS zero, a, none
MCInit == {1, 2, 3}
MCMax == {4, 5, 8}
MCMaxUnbounded == {0, 4}
=============================================================================
