------------------------------ MODULE KeyMap ------------------------------
(***************************************************************************)
(* What a user of the hash maps of lib/stb_ds.h sees: a map from keys to   *)
(* values, and a value for the keys it does not have.                      *)
(***************************************************************************)
CONSTANTS
  Keys, Zero,         \* Zero: a value of zero bytes
  Vals, Defaults      \* the values a key may be given, and the default

VARIABLES dict, default

kvars == <<dict, default>>

Init == dict = <<>> /\ default = Zero

Put(k, v) ==
  /\ dict' = [j \in DOMAIN dict \union {k} |-> IF j = k THEN v ELSE dict[j]]
  /\ UNCHANGED default

(* The answer to hmget. *)
Lookup(k) == IF k \in DOMAIN dict THEN dict[k] ELSE default

Del(k) ==
  /\ dict' = [j \in DOMAIN dict \ {k} |-> dict[j]]
  /\ UNCHANGED default

Default(v) == default' = v /\ UNCHANGED dict

Free == dict' = <<>> /\ default' = Zero

Next ==
  \/ \E k \in Keys : Del(k) \/ \E v \in Vals[k] : Put(k, v)
  \/ \E v \in Defaults : Default(v)
  \/ Free

Spec == Init /\ [][Next]_kvars
=============================================================================
