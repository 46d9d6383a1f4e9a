------------------------------ MODULE SdsLists ------------------------------
(***************************************************************************)
(* The calls of lib/sds.c that make arrays of strings from a string and    *)
(* strings from arrays and numbers, on top of Sds: sdssplitlen, sdsjoin,   *)
(* sdssplitargs, sdsfromlonglong.                                          *)
(***************************************************************************)
EXTENDS Sds

CONSTANTS
  Slots,        \* the first size of the array of sdssplitlen
  LlMax,        \* the largest long long
  LlStrSize,    \* SDS_LLSTR_SIZE
  Lines,        \* the texts that are split
  Seps,         \* the separators of sdssplitlen and sdsjoin
  Values        \* the long longs of sdsfromlonglong

Tens[k \in Nat] == IF k = 0 THEN 1 ELSE 10 * Tens[k - 1]

ASSUME ListsAssumption ==
  /\ Lines \subseteq Seq(Bytes) /\ Seps \subseteq Seq(Bytes)
  /\ Slots \in Nat \ {0}
ASSUME LongLongAssumption ==
  /\ LlMax \in Nat /\ Values \subseteq -LlMax - 1 .. LlMax
  /\ LlStrSize \in Nat /\ LlStrSize >= 2 /\ LlMax + 1 < Tens[LlStrSize - 2]

VARIABLE
  out     \* what the last of these calls has returned, and for what

vars == <<pc, s, todo, call, out>>

NoOut == [kind |-> "none", of |-> <<>>, sep |-> <<>>, parts |-> <<>>, slots |-> 0, ok |-> TRUE]

(* Bounds: a line is split and read as it was made, and neither it nor a   *)
(* string made to be read back is worked on.                               *)
Workable == pc = "idle" /\ out.kind = "none"
IsLine   == pc = "idle" /\ out.kind \in {"line", "unsplit"}

NewLine(t) == New(t) /\ out' = [NoOut EXCEPT !.kind = "line"]

FromLongLong(v) ==
  /\ New(Ll2str(v, LlMax))
  /\ out' = [NoOut EXCEPT !.kind = "number", !.of = <<v>>]

(* One of its mallocs may fail: then the pieces made so far and the array  *)
(* are freed again, and the result is NULL (sds.c:846, 874).               *)
SplitLen(sep) ==
  /\ IsLine /\ s.len > 0 /\ sep # <<>>
  /\ LET r == Split(Content(s), sep, Slots)
     IN \/ out' = [NoOut EXCEPT !.kind = "split", !.of = Content(s), !.sep = sep,
                                !.parts = r.parts, !.slots = r.slots]
        \/ out' = [NoOut EXCEPT !.kind = "unsplit", !.ok = FALSE]
  /\ UNCHANGED cvars

(* sdsjoinsds on the pieces of a split: a new string, the old one freed.   *)
Join ==
  /\ pc = "idle" /\ out.kind = "split"
  /\ pc' = "cat"
  /\ s' = NewLen(<<>>) /\ call' = <<"cpy", <<>>>>
  /\ todo' = [i \in 1 .. 2 * Len(out.parts) - 1 |->
                IF i % 2 = 1 THEN out.parts[(i + 1) \div 2] ELSE out.sep]
  /\ out' = [out EXCEPT !.kind = "joined"]

(* The line is what a C function sees of the string. *)
SplitArgsOf ==
  /\ IsLine \/ (pc = "idle" /\ out.kind = "repr")
  /\ \E n \in 0 .. s.len :
       /\ IsStrLen(s.text, n)
       /\ LET r == SplitArgs(Prefix(s.text, n))
              reread == out.kind = "repr"
          IN out' = [NoOut EXCEPT !.kind = IF reread THEN "reread" ELSE "args",
                                  !.of = IF reread THEN out.of ELSE Prefix(s.text, n),
                                  !.parts = r.parts, !.ok = r.ok]
  /\ UNCHANGED cvars

Quoted(p) == Workable /\ CatRepr(p) /\ out' = [NoOut EXCEPT !.kind = "repr", !.of = p]

LInit == Init /\ out = NoOut
LNext ==
  \/ \E t \in Texts : New(t) /\ UNCHANGED out
  \/ \E t \in Lines : NewLine(t)
  \/ \E v \in Values : FromLongLong(v)
  \/ Workable /\ Work /\ UNCHANGED out
  \/ Loop /\ UNCHANGED out
  \/ Free /\ out' = NoOut
  \/ \E sep \in Seps : SplitLen(sep)
  \/ \E p \in Reprs : Quoted(p)
  \/ SplitArgsOf \/ Join

LSpec == LInit /\ [][LNext]_vars

-----------------------------------------------------------------------------
(* sdssplitlen never stores past the slots it has (sds.c:867, "We are sure *)
(* there is room in the tokens array"), no piece holds the separator, and  *)
(* sdsjoinsds puts the pieces together to the string that was split.       *)
JoinRestores ==
  /\ out.kind = "split" => Len(out.parts) <= out.slots
  /\ out.kind = "joined" /\ pc = "idle" =>
    /\ Content(s) = out.of
    /\ \A k \in DOMAIN out.parts : \A i \in 1 .. Len(out.parts[k]) - Len(out.sep) + 1 :
         SubSeq(out.parts[k], i, i + Len(out.sep) - 1) # out.sep

(* What sdscatrepr has quoted, sdssplitargs reads back as one argument,    *)
(* byte for byte (sds.c:965, "sdscatrepr() is able to convert back a       *)
(* string into a quoted string in the same format").  The arguments of a   *)
(* line without quotes are the longest pieces of it that begin with no     *)
(* blank and end before a space, a tab or the end of a line: the other two *)
(* blanks, \v and \f, are skipped between arguments and kept inside.       *)
ArgsRead ==
  LET line == out.of
      inside(i) == \E j \in 1 .. i : /\ line[j] \notin Space
                                    /\ \A k \in j .. i : line[k] \notin Space \ {11, 12}
      last(k, at) == at[k] + Len(out.parts[k]) - 1
  IN /\ out.kind = "reread" => out.ok /\ out.parts = <<out.of>>
     /\ out.kind = "args" /\ (\A i \in DOMAIN line : line[i] \notin {Quote, Apostrophe}) =>
       \E at \in [DOMAIN out.parts -> DOMAIN line] :
         /\ \A k \in DOMAIN out.parts : /\ at[k] <= last(k, at)
                                        /\ out.parts[k] = SubSeq(line, at[k], last(k, at))
                                        /\ k > 1 => at[k] > last(k - 1, at) + 1
         /\ {i \in DOMAIN line : inside(i)} =
              UNION {at[k] .. last(k, at) : k \in DOMAIN out.parts}

(* A number is written in decimal, in a buffer that holds it.              *)
NumberRead ==
  LET t == Content(s)
      minus == t # <<>> /\ t[1] = 45
      value[i \in 0 .. Len(t)] ==
        IF i = 0 \/ (i = 1 /\ minus) THEN 0 ELSE 10 * value[i - 1] + (t[i] - 48)
  IN out.kind = "number" =>
       /\ (IF minus THEN -value[Len(t)] ELSE value[Len(t)]) = out.of[1]
       /\ Len(t) + 1 <= LlStrSize
=============================================================================
