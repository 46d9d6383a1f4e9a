------------------------------ MODULE SdsText ------------------------------
(***************************************************************************)
(* The functions of lib/sds.c that compute bytes from bytes, as operators. *)
(* A byte is its code; a text is a sequence of bytes.  Nothing here knows  *)
(* how an sds lays its text out in memory: that is module Sds.             *)
(***************************************************************************)
EXTENDS Integers, Sequences

NUL == 0
Quote == 34
Apostrophe == 39
Backslash == 92
LowerX == 120

(* Fault: the end of the line does not end an argument. *)
ArgEnds_NoNul == {32, 10, 13, 9}

(* isspace, and the blanks that end an argument outside quotes. *)
Space == 9 .. 13 \union {32}
ArgEnds == {32, 10, 13, 9, NUL}
Printable == 32 .. 126

Prefix(t, n) == SubSeq(t, 1, IF n < Len(t) THEN n ELSE Len(t))

(* strlen: n bytes before the first NUL. *)
IsStrLen(t, n) == t[n + 1] = NUL /\ \A i \in 1 .. n : t[i] # NUL

-----------------------------------------------------------------------------
(* sdstrim: sp and ep stop at the first and the last byte to keep, ep not  *)
(* before sp.  strchr finds the terminator of cset too, so NUL bytes are   *)
(* trimmed with the others.                                                *)
TrimStops(t, cset, sp, ep) ==
  LET cut == cset \union {NUL} IN
  /\ \A i \in 1 .. sp - 1 : t[i] \in cut
  /\ sp <= Len(t) => t[sp] \notin cut
  /\ \A i \in ep + 1 .. Len(t) : i > sp /\ t[i] \in cut
  /\ ep > sp => t[ep] \notin cut

(* Fault: an end that lies before the string is not moved to its first byte. *)
SubRange_EndBefore(t, start, end) ==
  LET len == Len(t)
      a == IF start >= 0 THEN start ELSE IF len + start < 0 THEN 0 ELSE len + start
      b == IF end >= 0 THEN end ELSE len + end
      newlen == CASE a > b -> 0
                  [] a <= b /\ a >= len -> 0
                  [] a <= b /\ a < len /\ b >= len -> (len - 1 - a) + 1
                  [] OTHER -> (b - a) + 1
  IN IF len = 0 THEN t ELSE SubSeq(t, a + 1, a + newlen)

(* sdsrange.  newlen is computed before and after the end is clipped.      *)
SubRange(t, start, end) ==
  LET len  == Len(t)
      from(x) == IF x >= 0 THEN x ELSE IF len + x < 0 THEN 0 ELSE len + x
      a == from(start)
      b == from(end)
      newlen == CASE a > b -> 0
                  [] a <= b /\ a >= len -> 0
                  [] a <= b /\ a < len /\ b >= len -> (len - 1 - a) + 1
                  [] OTHER -> (b - a) + 1
  IN IF len = 0 THEN t ELSE SubSeq(t, a + 1, a + newlen)

(* sdsmapchars: the first match in from decides. *)
Mapped(t, from, to) ==
  [j \in DOMAIN t |->
     LET hits == {i \in DOMAIN from : from[i] = t[j]}
     IN IF hits = {} THEN t[j] ELSE to[CHOOSE i \in hits : \A k \in hits : i <= k]]

Lowered(t) == [j \in DOMAIN t |-> IF t[j] \in 65 .. 90 THEN t[j] + 32 ELSE t[j]]
Uppered(t) == [j \in DOMAIN t |-> IF t[j] \in 97 .. 122 THEN t[j] - 32 ELSE t[j]]

-----------------------------------------------------------------------------
(* Fault: the most negative value is negated like any other, and overflows. *)
Ll2str_NoMin(value, llmax) ==
  LET v0 == IF value >= 0 THEN value ELSE (-value) % (llmax + 1)
      digits[v \in Nat] == (IF v < 10 THEN <<>> ELSE digits[v \div 10]) \o <<48 + (v % 10)>>
  IN (IF value < 0 THEN <<45>> ELSE <<>>) \o digits[v0]

(* sdsll2str, with long long ranging from -llmax - 1 to llmax: the value   *)
(* is made unsigned, its digits are written last first and then reversed.  *)
Ll2str(value, llmax) ==
  LET v0 == IF value >= 0 THEN value
            ELSE IF value # -llmax - 1 THEN -value ELSE llmax + 1
      digits[v \in Nat] == (IF v < 10 THEN <<>> ELSE digits[v \div 10]) \o <<48 + (v % 10)>>
  IN (IF value < 0 THEN <<45>> ELSE <<>>) \o digits[v0]

-----------------------------------------------------------------------------
(* sdssplitlen: the array starts with some slots and doubles when the next *)
(* piece and the last one may not both fit.                                *)

(* Fault: the skip of a separator forgets the increment of the loop. *)
SplitRound_SkipOne(t, sep, r, j) ==
  LET slots == IF r.slots < Len(r.parts) + 2 THEN 2 * r.slots ELSE r.slots
      found == SubSeq(t, j + 1, j + Len(sep)) = sep
  IN IF r.skip > 0 THEN [r EXCEPT !.skip = @ - 1]
     ELSE IF found
     THEN [r EXCEPT !.slots = slots, !.parts = Append(@, SubSeq(t, r.start + 1, j)),
                    !.start = j + Len(sep) + 1, !.skip = Len(sep)]
     ELSE [r EXCEPT !.slots = slots]

(* Fault: room is made for the next piece only. *)
SplitRound_NoRoomForLast(t, sep, r, j) ==
  LET slots == IF r.slots < Len(r.parts) + 1 THEN 2 * r.slots ELSE r.slots
      found == SubSeq(t, j + 1, j + Len(sep)) = sep
  IN IF r.skip > 0 THEN [r EXCEPT !.skip = @ - 1]
     ELSE IF found
     THEN [r EXCEPT !.slots = slots, !.parts = Append(@, SubSeq(t, r.start + 1, j)),
                    !.start = j + Len(sep), !.skip = Len(sep) - 1]
     ELSE [r EXCEPT !.slots = slots]

SplitRound(t, sep, r, j) ==
  LET slots == IF r.slots < Len(r.parts) + 2 THEN 2 * r.slots ELSE r.slots
      found == SubSeq(t, j + 1, j + Len(sep)) = sep
  IN IF r.skip > 0 THEN [r EXCEPT !.skip = @ - 1]
     ELSE IF found
     THEN [r EXCEPT !.slots = slots, !.parts = Append(@, SubSeq(t, r.start + 1, j)),
                    !.start = j + Len(sep), !.skip = Len(sep) - 1]
     ELSE [r EXCEPT !.slots = slots]

Split(t, sep, slots) ==
  LET from == [parts |-> <<>>, start |-> 0, slots |-> slots, skip |-> 0]
      last == Len(t) - (Len(sep) - 1)
      after[j \in 0 .. Len(t)] ==
        IF j = 0 \/ j > last THEN from ELSE SplitRound(t, sep, after[j - 1], j - 1)
      r == after[IF last < 0 THEN 0 ELSE last]
  IN [r EXCEPT !.parts = Append(@, SubSeq(t, r.start + 1, Len(t)))]

-----------------------------------------------------------------------------
(* sdscatrepr: what one byte becomes between the quotes. *)
HexDigit == 48 .. 57 \union 65 .. 70 \union 97 .. 102
ToHex(n) == IF n < 10 THEN 48 + n ELSE 87 + n
OfHex(c) == CASE c \in 48 .. 57 -> c - 48 [] c \in 65 .. 70 -> c - 55 [] OTHER -> c - 87

(* \n \r \t \a \b: the letter and the byte it stands for. *)
Escapes == {<<110, 10>>, <<114, 13>>, <<116, 9>>, <<97, 7>>, <<98, 8>>}

(* Fault: the backslash is taken for a printable byte like the others. *)
Repr_PlainBackslash(c) ==
  IF c = Quote THEN <<Backslash, c>>
  ELSE IF \E e \in Escapes : e[2] = c THEN <<Backslash, (CHOOSE e \in Escapes : e[2] = c)[1]>>
  ELSE IF c \in Printable THEN <<c>>
  ELSE <<Backslash, LowerX, ToHex(c \div 16), ToHex(c % 16)>>

Repr(c) ==
  IF c \in {Backslash, Quote} THEN <<Backslash, c>>
  ELSE IF \E e \in Escapes : e[2] = c THEN <<Backslash, (CHOOSE e \in Escapes : e[2] = c)[1]>>
  ELSE IF c \in Printable THEN <<c>>
  ELSE <<Backslash, LowerX, ToHex(c \div 16), ToHex(c % 16)>>

-----------------------------------------------------------------------------
(* sdssplitargs: one byte of the line at a time, with the mode the loop is *)
(* in, the argument being read and the vector of those read.  The line     *)
(* ends with its NUL.                                                      *)
ByteAt(line, i) == IF i <= Len(line) THEN line[i] ELSE NUL

Add(st, mode, c) == [st EXCEPT !.mode = mode, !.cur = Append(@, c)]
Finished(st) == [st EXCEPT !.mode = "blank", !.cur = <<>>, !.parts = Append(@, st.cur)]

(* A closing quote must be followed by a space or nothing at all. *)
Closed(line, st, i) ==
  IF ByteAt(line, i + 1) \in Space \union {NUL} THEN Finished(st) ELSE [st EXCEPT !.mode = "err"]

Unquoted(st, c) ==
  CASE c \in ArgEnds     -> Finished(st)
    [] c = Quote         -> [st EXCEPT !.mode = "inq"]
    [] c = Apostrophe    -> [st EXCEPT !.mode = "insq"]
    [] OTHER             -> Add(st, "word", c)

InQuotes(line, st, i) ==
  LET c == ByteAt(line, i)
      n == ByteAt(line, i + 1)
      h == ByteAt(line, i + 2)
      l == ByteAt(line, i + 3)
  IN IF c = Backslash /\ n = LowerX /\ h \in HexDigit /\ l \in HexDigit
     THEN [Add(st, "inq", 16 * OfHex(h) + OfHex(l)) EXCEPT !.skip = 3]
     ELSE IF c = Backslash /\ n # NUL
     THEN [Add(st, "inq", IF \E e \in Escapes : e[1] = n
                          THEN (CHOOSE e \in Escapes : e[1] = n)[2] ELSE n) EXCEPT !.skip = 1]
     ELSE CASE c = Quote -> Closed(line, st, i)
            [] c = NUL   -> [st EXCEPT !.mode = "err"]
            [] OTHER     -> Add(st, "inq", c)

InSingleQuotes(line, st, i) ==
  LET c == ByteAt(line, i)
  IN IF c = Backslash /\ ByteAt(line, i + 1) = Apostrophe
     THEN [Add(st, "insq", Apostrophe) EXCEPT !.skip = 1]
     ELSE CASE c = Apostrophe -> Closed(line, st, i)
            [] c = NUL        -> [st EXCEPT !.mode = "err"]
            [] OTHER          -> Add(st, "insq", c)

ArgStep(line, st, i) ==
  LET c == ByteAt(line, i) IN
  CASE st.skip > 0 -> [st EXCEPT !.skip = @ - 1]
    [] st.skip = 0 /\ st.mode = "err" -> st
    [] st.skip = 0 /\ st.mode = "blank" ->
         IF c \in Space \union {NUL} THEN st ELSE Unquoted(st, c)
    [] st.skip = 0 /\ st.mode = "word" -> Unquoted(st, c)
    [] st.skip = 0 /\ st.mode = "inq"  -> InQuotes(line, st, i)
    [] st.skip = 0 /\ st.mode = "insq" -> InSingleQuotes(line, st, i)

SplitArgs(line) ==
  LET from == [mode |-> "blank", cur |-> <<>>, parts |-> <<>>, skip |-> 0]
      after[i \in 0 .. Len(line) + 1] ==
        IF i = 0 THEN from ELSE ArgStep(line, after[i - 1], i)
      end == after[Len(line) + 1]
  IN [ok |-> end.mode # "err", parts |-> IF end.mode = "err" THEN <<>> ELSE end.parts]
=============================================================================
