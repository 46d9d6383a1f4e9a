----------------------------- MODULE MCHashMap -----------------------------
(* A small instance of HashMap: buckets of 4 slots (the source's           *)
(* STBDS_INTERNAL_SMALL_BUCKET), and keys that collide in full, one by the *)
(* correction of 0 and 1, in the slot and in the bucket: five keys do not  *)
(* fit the bucket they all hash to.                                        *)
EXTENDS HashMap

MCHash == [k \in Keys |-> <<0, 2, 3, 10, 8>>[k]]
MCSize == [k \in Keys |-> <<2, 3, 9, 1, 4>>[k]]
MCVals == [k \in Keys |-> IF k = 1 THEN {2, 3} ELSE {k + 2}]
MCDefaults == [mode \in {"none", "default", "arena", "strdup"} |->
                 IF mode = "strdup" THEN {} ELSE {9}]
=============================================================================
