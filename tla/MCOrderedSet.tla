---------------------------- MODULE MCOrderedSet ----------------------------
(* Eleven keys: the rebalancing climbs two levels. *)
EXTENDS OrderedSet

MCNodes == 1 .. 12
MCElements == 1 .. 11
MCOthers == {{2, 4, 5, 8}, {1, 3, 5, 6, 7, 9, 10, 11}}
MCMatches == {{1, 3, 5, 7, 9}, {2, 3, 4, 8}, {5, 6, 7, 8, 9, 10}}
=============================================================================
