------------------------------ MODULE MCDeque ------------------------------
(* Pages of two values, so that few values fill and leave pages. *)
EXTENDS Deque

MCMatches == {{1}, {2, 3}}
=============================================================================
