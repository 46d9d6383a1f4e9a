------------------------------ MODULE Strings ------------------------------
(***************************************************************************)
(* What lib/sds.h promises: a variable that holds a binary-safe string or  *)
(* none, and calls, each of which makes it the string its comment says,    *)
(* with no word of headers, of room to spare or of how bytes are moved.    *)
(***************************************************************************)
EXTENDS Integers, Sequences

VARIABLES
  call,      \* the last call, with its arguments
  here,      \* there is a string
  str        \* its bytes

svars == <<call, here, str>>

Init == call = <<"none">> /\ here = FALSE /\ str = <<>>

New  == call'[1] = "new" /\ ~here /\ here' /\ str' = call'[2]
Free == call'[1] = "free" /\ here /\ ~here' /\ str' = <<>>

(* Only the bytes up to the first NUL are content. *)
UpdatedLen ==
  \E n \in 0 .. Len(str) :
    /\ \A i \in 1 .. n : str[i] # 0
    /\ n < Len(str) => str[n + 1] = 0
    /\ str' = SubSeq(str, 1, n)

(* What trimming leaves neither begins nor ends with a byte of the set, a  *)
(* NUL counting as one, and what it takes away is all of the set.          *)
Trimmed(cset) ==
  LET cut == cset \union {0} IN
  \E i \in 1 .. Len(str) + 1 : \E j \in i - 1 .. Len(str) :
    /\ \A k \in DOMAIN str \ (i .. j) : str[k] \in cut
    /\ i <= j => str[i] \notin cut /\ str[j] \notin cut
    /\ str' = SubSeq(str, i, j)

(* Both ends are inclusive; a negative one counts from the end, -1 being   *)
(* the last byte; both are clipped to the string.                          *)
Ranged(a, b) ==
  LET n == Len(str)
      at(x) == IF x >= n THEN n - 1 ELSE IF x >= 0 THEN x ELSE IF n + x >= 0 THEN n + x ELSE 0
  IN str' = IF n = 0 \/ a >= n THEN <<>> ELSE SubSeq(str, at(a) + 1, at(b) + 1)

(* Byte by byte, and a byte always to the same byte. *)
Translated ==
  /\ DOMAIN str' = DOMAIN str
  /\ \A i, j \in DOMAIN str : str[i] = str[j] => str'[i] = str'[j]

(* A call on a string. *)
Does(c) ==
  /\ here /\ here'
  /\ CASE c[1] = "cat"       -> str' = str \o c[2]
       [] c[1] = "cpy"       -> str' = c[2]
       [] c[1] = "clear"     -> str' = <<>>
       [] c[1] = "cut"       -> str' = SubSeq(str, 1, Len(str) - c[2])
       [] c[1] = "growzero"  -> str' = str \o [i \in 1 .. c[2] - Len(str) |-> 0]
       [] c[1] = "updatelen" -> UpdatedLen
       [] c[1] = "trim"      -> Trimmed(c[2])
       [] c[1] = "range"     -> Ranged(c[2], c[3])
       [] c[1] = "translate" -> Translated
       [] OTHER              -> FALSE

Next == New \/ Free \/ Does(call')

Spec == Init /\ [][Next]_svars
=============================================================================
