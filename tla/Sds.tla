-------------------------------- MODULE Sds --------------------------------
(***************************************************************************)
(* The dynamic strings of lib/sds.c and lib/sds.h: one string, from        *)
(* sdsnewlen to sdsfree, in the hands of one caller.                       *)
(*                                                                         *)
(* A string is a pointer into a block, behind a header whose width depends *)
(* on the length it has to hold.  The block is represented by the header   *)
(* it was laid out for (hdr), the number of bytes from the pointer to its  *)
(* end (room) and the bytes written so far (text); the header by its type  *)
(* and the fields len and alloc, which hold numbers below the limit of the *)
(* type and are written modulo it.  Type 0, SDS_TYPE_5, has no alloc.      *)
(*                                                                         *)
(* A call is one step, save those that append in a loop, whose rounds are  *)
(* steps: sdscatrepr, sdscatfmt and (in SdsLists) sdsjoin.  A growth whose *)
(* malloc fails makes the call return NULL with the string as it was, a    *)
(* step that changes nothing; in the loops the NULL is dereferenced.       *)
(***************************************************************************)
EXTENDS SdsText

CONSTANTS
  Limit,        \* what the fields of each header type hold: numbers below it
  MaxPrealloc,  \* SDS_MAX_PREALLOC
  Texts,        \* the texts that strings are made of, appended, copied
  Reprs,        \* the texts sdscatrepr is given
  Csets,        \* the sets of bytes of sdstrim
  Fmts,         \* the formats of sdscatfmt: their length, and what their items append
  Indexes,      \* the offsets of sdsrange
  SizeMax,      \* no text gets longer: twice of it fits a size_t
  MaxLen        \* bound: the longest string the calls that do not loop make

Types == 0 .. 4
Bytes == 0 .. 255

ASSUME LimitAssumption ==
  /\ Limit \in [Types -> Nat]
  /\ 1 < Limit[0] /\ Limit[0] < Limit[1] /\ Limit[1] < Limit[2]
  /\ Limit[2] < Limit[3] /\ Limit[3] < Limit[4]
ASSUME SizesAssumption ==
  /\ MaxPrealloc \in Nat /\ SizeMax \in Nat /\ MaxLen \in 1 .. SizeMax
  /\ 2 * SizeMax < Limit[4] /\ SizeMax + MaxPrealloc < Limit[4]
ASSUME TextsAssumption ==
  /\ Texts \subseteq Seq(Bytes) /\ Reprs \subseteq Seq(Bytes)
  /\ Fmts \subseteq [len : Nat, items : Seq(Seq(Bytes))]
  /\ Indexes \subseteq Int

VARIABLES
  pc,     \* none, idle, cat, fmt or crashed
  s,      \* the string, when there is one
  todo,   \* what the loop of sdscatrepr, sdsjoin or sdscatfmt still appends
  call    \* the last call that made the string what it is, with its arguments

cvars == <<pc, s, todo, call>>

-----------------------------------------------------------------------------
(* sds.h: the header. *)

ReqType(n) ==
  IF n < Limit[0] THEN 0 ELSE IF n < Limit[1] THEN 1
  ELSE IF n < Limit[2] THEN 2 ELSE IF n < Limit[3] THEN 3 ELSE 4

Alloc(x) == IF x.type = 0 THEN x.len ELSE x.alloc
Avail(x) == IF x.type = 0 THEN 0 ELSE x.alloc - x.len
SetLen(x, n) == [x EXCEPT !.len = n % Limit[x.type]]
SetAlloc(x, n) == IF x.type = 0 THEN x ELSE [x EXCEPT !.alloc = n % Limit[x.type]]

Content(x) == SubSeq(x.text, 1, x.len)

(* A block of n bytes behind a header of the type, holding t.              *)
Block(type, n, t) ==
  [hdr |-> type, type |-> type, len |-> Len(t) % Limit[type], alloc |-> 0,
   room |-> n, text |-> t]
NoSds == [hdr |-> 0, type |-> 0, len |-> 0, alloc |-> 0, room |-> 0, text |-> <<>>]

(* sdsnewlen: an empty string is usually made to be appended to, so it     *)
(* gets a header that remembers free space.                                *)
NewLen(t) ==
  LET type == IF Len(t) = 0 THEN 1 ELSE ReqType(Len(t))
  IN [SetAlloc(Block(type, Len(t) + 1, t), Len(t)) EXCEPT !.text = Append(t, NUL)]

-----------------------------------------------------------------------------
(* The room.  realloc keeps the header where it is; when the header's size *)
(* changes, the string is copied to a new block with its terminator.       *)
Moved(x, type, n) ==
  SetLen([x EXCEPT !.hdr = type, !.type = type, !.room = n + 1,
                   !.alloc = 0, !.text = Prefix(x.text, x.len + 1)], x.len)
Resized(x, n) == [x EXCEPT !.room = n + 1, !.text = Prefix(x.text, n + 1)]

(* Fault: the header type is chosen for the length asked for, not for the  *)
(* length allocated.                                                       *)
MakeRoomFor_TypeOfRequest(x, addlen) ==
  LET req    == x.len + addlen
      newlen == IF req < MaxPrealloc THEN 2 * req ELSE req + MaxPrealloc
      type   == IF ReqType(req) = 0 THEN 1 ELSE ReqType(req)
  IN IF Avail(x) >= addlen THEN x
     ELSE SetAlloc(IF type = x.type THEN Resized(x, newlen) ELSE Moved(x, type, newlen), newlen)

MakeRoomFor(x, addlen) ==
  LET req    == x.len + addlen
      newlen == IF req < MaxPrealloc THEN 2 * req ELSE req + MaxPrealloc
      type   == IF ReqType(newlen) = 0 THEN 1 ELSE ReqType(newlen)
  IN IF Avail(x) >= addlen THEN x
     ELSE SetAlloc(IF type = x.type THEN Resized(x, newlen) ELSE Moved(x, type, newlen), newlen)

(* Fault: the bytes are kept, their terminator is cut off. *)
RemoveFreeSpace_NoTerminator(x) ==
  LET type == ReqType(x.len)
  IN IF Avail(x) = 0 THEN x
     ELSE SetAlloc(IF type = x.type \/ type > 1
                   THEN [Resized(x, x.len) EXCEPT !.text = Prefix(@, x.len)]
                   ELSE Moved(x, type, x.len), x.len)

(* A header of more than 8 bits is kept if the string needs more than 8.   *)
RemoveFreeSpace(x) ==
  LET type == ReqType(x.len)
  IN IF Avail(x) = 0 THEN x
     ELSE SetAlloc(IF type = x.type \/ type > 1
                   THEN Resized(x, x.len) ELSE Moved(x, type, x.len), x.len)

-----------------------------------------------------------------------------
(* Writing.  Put leaves the n first bytes and writes t behind them.        *)
Put(x, n, t) == [x EXCEPT !.text = Prefix(x.text, n) \o t]
SetText(x, t) == SetLen([x EXCEPT !.text = Append(t, NUL)], Len(t))

CatLen(x, t) ==
  LET r == MakeRoomFor(x, Len(t))
  IN SetLen(Put(r, x.len, Append(t, NUL)), x.len + Len(t))

CpyLen(x, t) ==
  SetText(IF Alloc(x) < Len(t) THEN MakeRoomFor(x, Len(t) - x.len) ELSE x, t)

GrowZero(x, n) ==
  IF n <= x.len THEN x
  ELSE SetLen(Put(MakeRoomFor(x, n - x.len), x.len, [i \in 1 .. n - x.len + 1 |-> NUL]), n)

(* One round of sdscatfmt: room for at least one byte, room for the text   *)
(* of the specifier, the text written where the string ends.               *)
FmtRound(x, t) ==
  LET q == IF Avail(x) = 0 THEN MakeRoomFor(x, 1) ELSE x
      r == IF Avail(q) < Len(t) THEN MakeRoomFor(q, Len(t)) ELSE q
  IN SetLen(Put(r, r.len, t), r.len + Len(t))

-----------------------------------------------------------------------------
Init == pc = "none" /\ s = NoSds /\ todo = <<>> /\ call = <<"none">>

(* The call c makes the string r; a call that leaves the content alone.    *)
Makes(c, r) == pc = "idle" /\ s' = r /\ call' = c /\ UNCHANGED <<pc, todo>>
Keeps(r)    == pc = "idle" /\ s' = r /\ UNCHANGED <<pc, todo, call>>

New(t) ==
  /\ pc = "none" /\ Len(t) <= SizeMax
  /\ pc' = "idle"
  /\ s' = NewLen(t) /\ call' = <<"new", t>>
  /\ UNCHANGED todo

(* The caller goes on with the duplicate. *)
Dup == Keeps(NewLen(Content(s)))

Free ==
  /\ pc = "idle" /\ pc' = "none"
  /\ s' = NoSds /\ call' = <<"free">>
  /\ UNCHANGED todo

Reserve(n) == s.len + n <= MaxLen /\ Keeps(MakeRoomFor(s, n))
Shrink     == Keeps(RemoveFreeSpace(s))

Cat(t)  == s.len + Len(t) <= MaxLen /\ Makes(<<"cat", t>>, CatLen(s, t))
Cpy(t)  == Len(t) <= MaxLen /\ Makes(<<"cpy", t>>, CpyLen(s, t))
Grow(n) == Makes(<<"growzero", n>>, GrowZero(s, n))

(* sdsIncrLen after the caller has written t into the free space, and with *)
(* a negative increment; a type 5 header has none, and an assertion there  *)
(* refuses even an increment of 0.                                         *)
IncrLen(t) ==
  /\ s.type # 0 /\ Avail(s) >= Len(t)
  /\ Makes(<<"cat", t>>, SetLen(Put(s, s.len, Append(t, NUL)), s.len + Len(t)))
DecrLen(n) ==
  n <= s.len /\ Makes(<<"cut", n>>, SetText(s, Prefix(s.text, s.len - n)))

(* sdsupdatelen: up to the first NUL, which is written already. *)
Update ==
  \E n \in 0 .. s.len :
    /\ n + 1 \in DOMAIN s.text
    /\ IsStrLen(s.text, n)
    /\ Makes(<<"updatelen">>, SetText(s, Prefix(s.text, n)))
Clear == Makes(<<"clear">>, SetText(s, <<>>))

Trim(cset) ==
  \E sp \in 1 .. s.len + 1, ep \in 0 .. s.len :
    /\ TrimStops(Content(s), cset, sp, ep)
    /\ Makes(<<"trim", cset>>, SetText(s, SubSeq(Content(s), sp, ep)))

CutRange(a, b) == Makes(<<"range", a, b>>, SetText(s, SubRange(Content(s), a, b)))

(* sdstolower, sdstoupper, sdsmapchars. *)
Translate(t) == Len(t) = s.len /\ Makes(<<"translate">>, SetText(s, t))
ToLower == Translate(Lowered(Content(s)))
ToUpper == Translate(Uppered(Content(s)))
MapChars(from, to) ==
  Len(from) = Len(to) /\ Translate(Mapped(Content(s), from, to))

-----------------------------------------------------------------------------
(* The calls that append in a loop. *)

(* sdscatrepr: a quote, a piece for every byte, a quote. *)
CatRepr(p) ==
  /\ pc = "idle" /\ pc' = "cat"
  /\ s.len = 0                          \* bound: onto an empty string
  /\ todo' = <<<<Quote>>>> \o [i \in DOMAIN p |-> Repr(p[i])] \o <<<<Quote>>>>
  /\ UNCHANGED <<s, call>>

CatNext ==
  /\ pc = "cat" /\ todo # <<>>
  /\ s.len + Len(Head(todo)) <= SizeMax
  /\ s' = CatLen(s, Head(todo)) /\ call' = <<"cat", Head(todo)>>
  /\ todo' = Tail(todo)
  /\ pc' = IF Len(todo) = 1 THEN "idle" ELSE "cat"

(* sdscatfmt: room is made for twice the format, whatever it will append;  *)
(* when that fails, the NULL is dereferenced as in the rounds.             *)
CatFmt(f) ==
  LET r == MakeRoomFor(s, s.len + 2 * f.len)
  IN /\ pc = "idle"
     /\ s.len + s.len + 2 * f.len <= MaxLen
     /\ \/ pc' = "fmt" /\ s' = r /\ todo' = f.items
        \/ r.room # s.room /\ pc' = "crashed" /\ UNCHANGED <<s, todo>>
     /\ UNCHANGED call

FmtNext ==
  /\ pc = "fmt" /\ todo # <<>>
  /\ s.len + Len(Head(todo)) <= SizeMax /\ s.len < SizeMax
  /\ s' = FmtRound(s, Head(todo)) /\ call' = <<"cat", Head(todo)>>
  /\ todo' = Tail(todo)
  /\ UNCHANGED pc

FmtEnd ==
  /\ pc = "fmt" /\ todo = <<>>
  /\ s' = Put(s, s.len, <<NUL>>)
  /\ pc' = "idle"
  /\ UNCHANGED <<todo, call>>

(* A growth in a loop fails: the next round asks NULL for its length. *)
Crash ==
  /\ todo # <<>>
  /\ \/ pc = "cat" /\ CatLen(s, Head(todo)).room # s.room
     \/ pc = "fmt" /\ FmtRound(s, Head(todo)).room # s.room
  /\ pc' = "crashed"
  /\ UNCHANGED <<s, todo, call>>

(* The calls that work on the string there is. *)
Work ==
  \/ \E t \in Texts : Cat(t) \/ Cpy(t) \/ IncrLen(t)
  \/ \E n \in 1 .. MaxLen : Reserve(n) \/ DecrLen(n) \/ Grow(n)
  \/ Dup \/ Shrink \/ Update \/ Clear \/ ToLower \/ ToUpper
  \/ \E cset \in Csets : Trim(cset)
  \/ \E a, b \in Indexes : CutRange(a, b)
  \/ \E t, u \in Texts : MapChars(t, u)
  \/ \E f \in Fmts : CatFmt(f)

Loop == CatNext \/ FmtNext \/ FmtEnd \/ Crash

Next ==
  \/ \E t \in Texts : New(t)
  \/ \E p \in Reprs : CatRepr(p)
  \/ Free \/ Work \/ Loop

Spec == Init /\ [][Next]_cvars

-----------------------------------------------------------------------------
Here == pc # "none"

(* The string is well typed; its header is one of the five.                *)
TypeOK ==
  /\ pc \in {"none", "idle", "cat", "fmt", "crashed"}
  /\ s \in [hdr : Types, type : Types, len : Nat, alloc : Nat, room : Nat, text : Seq(Int)]
  /\ todo \in Seq(Seq(Int))

(* The header tells the truth about the block: the size is not above what  *)
(* is allocated, the string and its terminator are within the block, the   *)
(* fields hold the numbers they were given, and the header is the one      *)
(* sdsfree will step back over (sds.c:167).                                *)
HeaderFits ==
  Here =>
    /\ s.len <= Alloc(s)
    /\ Alloc(s) < Limit[s.type]
    /\ Alloc(s) + 1 <= s.room
    /\ Len(s.text) <= s.room
    /\ s.hdr = s.type

(* Between calls the string ends with a NUL byte, right behind its content *)
(* (sds.c:81, "The string is always null-terminated"); inside sdscatfmt it *)
(* does not, but its length is right in every round.                       *)
Terminated ==
  /\ pc \in {"idle", "cat"} => Len(s.text) = s.len + 1 /\ s.text[s.len + 1] = NUL
  /\ pc = "fmt" => Len(s.text) \in {s.len, s.len + 1}

(* Whatever header it moves to, the string is what the calls make it: each *)
(* call does to the content what its comment says.                         *)
Str == INSTANCE Strings WITH here <- Here, str <- IF Here THEN Content(s) ELSE <<>>
IsString == Str!Spec
=============================================================================
