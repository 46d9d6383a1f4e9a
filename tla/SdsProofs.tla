------------------------------ MODULE SdsProofs ------------------------------
(***************************************************************************)
(* Theorems about modules Sds and SdsLists: the header of an sds fits its  *)
(* block, the text ends with its terminator, and whatever the block does   *)
(* underneath, the string is what the calls of module Strings make it, for *)
(* every width of the headers and every set of texts; numbers are written  *)
(* in decimal, what is split is joined again, and what is quoted is read   *)
(* back, for every text, separator and long long.                          *)
(***************************************************************************)
EXTENDS SdsLists, SequenceTheorems, WellFoundedInduction, TLAPS

SdsRecord == [hdr : Types, type : Types, len : Nat, alloc : Nat, room : Nat, text : Seq(Int)]

(* The header tells the truth about the block (HeaderFits, of any block).  *)
Fits(x) ==
  /\ x \in SdsRecord
  /\ x.hdr = x.type
  /\ x.len <= Alloc(x) /\ Alloc(x) < Limit[x.type] /\ Alloc(x) + 1 <= x.room
  /\ Len(x.text) <= x.room

(* Nothing is written but the content and perhaps its terminator.          *)
Sound(x) == Fits(x) /\ Len(x.text) \in {x.len, x.len + 1}

(* The block holds the string t, terminated.                               *)
Holds(x, t) ==
  /\ Fits(x) /\ t \in Seq(Int)
  /\ x.len = Len(t) /\ x.text = Append(t, NUL)

-----------------------------------------------------------------------------
(* Sequences of bytes. *)

(* Two sequences of one length with equal elements are equal.              *)
LEMMA SameSeq ==
  \A t, u \in Seq(Int) :
    Len(t) = Len(u) /\ (\A i \in 1 .. Len(t) : t[i] = u[i]) => t = u
BY SeqEqual

(* What the prefix of a text is.                                           *)
LEMMA PrefixLemma ==
  ASSUME NEW t \in Seq(Int), NEW n \in Nat
  PROVE  /\ Prefix(t, n) \in Seq(Int)
         /\ Len(Prefix(t, n)) = IF n < Len(t) THEN n ELSE Len(t)
         /\ \A i \in 1 .. Len(Prefix(t, n)) : Prefix(t, n)[i] = t[i]
<1> DEFINE m == IF n < Len(t) THEN n ELSE Len(t)
<1>1. m \in Nat /\ m <= Len(t)
  BY LenProperties
<1>2. \A i \in 1 .. m : t[i] \in Int
  BY <1>1, ElementOfSeq
<1>3. /\ SubSeq(t, 1, m) \in Seq(Int)
      /\ Len(SubSeq(t, 1, m)) = IF 1 <= m THEN m - 1 + 1 ELSE 0
      /\ \A i \in 1 .. m - 1 + 1 : SubSeq(t, 1, m)[i] = t[1 + i - 1]
  BY <1>1, <1>2, SubSeqProperties
<1>4. Prefix(t, n) = SubSeq(t, 1, m)
  BY DEF Prefix
<1> QED
  BY <1>1, <1>3, <1>4

LEMMA PrefixShort ==
  \A t \in Seq(Int), n \in Nat :
    n <= Len(t) =>
      /\ Prefix(t, n) \in Seq(Int) /\ Len(Prefix(t, n)) = n
      /\ \A i \in 1 .. n : Prefix(t, n)[i] = t[i]
<1> SUFFICES ASSUME NEW t \in Seq(Int), NEW n \in Nat, n <= Len(t)
             PROVE  /\ Prefix(t, n) \in Seq(Int) /\ Len(Prefix(t, n)) = n
                    /\ \A i \in 1 .. n : Prefix(t, n)[i] = t[i]
  OBVIOUS
<1>1. Len(Prefix(t, n)) = n
  BY PrefixLemma, LenProperties
<1> QED
  BY <1>1, PrefixLemma

(* A prefix that leaves nothing out.                                       *)
LEMMA PrefixFull ==
  ASSUME NEW t \in Seq(Int), NEW n \in Nat, Len(t) <= n
  PROVE  Prefix(t, n) = t
BY PrefixLemma, SameSeq, LenProperties

(* A text and a byte behind it.                                            *)
LEMMA AppendLemma ==
  ASSUME NEW t \in Seq(Int), NEW b \in Int
  PROVE  /\ Append(t, b) \in Seq(Int) /\ Len(Append(t, b)) = Len(t) + 1
         /\ \A i \in 1 .. Len(t) : Append(t, b)[i] = t[i]
         /\ Append(t, b)[Len(t) + 1] = b
BY AppendProperties

LEMMA PrefixAgree ==
  ASSUME NEW t \in Seq(Int), NEW u \in Seq(Int), NEW n \in Nat,
         n <= Len(t), n <= Len(u), \A i \in 1 .. n : t[i] = u[i]
  PROVE  Prefix(t, n) = Prefix(u, n)
<1>1. /\ Prefix(t, n) \in Seq(Int) /\ Len(Prefix(t, n)) = n
      /\ \A i \in 1 .. n : Prefix(t, n)[i] = t[i]
  BY PrefixShort
<1>2. /\ Prefix(u, n) \in Seq(Int) /\ Len(Prefix(u, n)) = n
      /\ \A i \in 1 .. n : Prefix(u, n)[i] = u[i]
  BY PrefixShort
<1>3. \A i \in 1 .. n : Prefix(t, n)[i] = Prefix(u, n)[i]
  BY <1>1, <1>2, Zenon
<1> QED
  BY <1>1, <1>2, <1>3, SameSeq, Zenon

(* The text before its terminator.                                         *)
LEMMA PrefixOfAppend ==
  ASSUME NEW t \in Seq(Int), NEW b \in Int, NEW n \in Nat, n <= Len(t)
  PROVE  Prefix(Append(t, b), n) = Prefix(t, n)
<1>1. Append(t, b) \in Seq(Int) /\ Len(Append(t, b)) = Len(t) + 1 /\ Len(t) \in Nat
  BY AppendLemma, LenProperties
<1>2. \A i \in 1 .. n : Append(t, b)[i] = t[i]
  BY AppendLemma, LenProperties
<1>3. n <= Len(Append(t, b))
  BY <1>1
<1> QED
  BY <1>1, <1>2, <1>3, PrefixAgree

-----------------------------------------------------------------------------
(* Headers. *)

(* The fields are wider from type to type.                                 *)
LEMMA LimitLemma ==
  /\ \A t \in Types : Limit[t] \in Nat /\ 1 < Limit[t] /\ Limit[t] <= Limit[4]
  /\ \A t, u \in Types : t <= u => Limit[t] <= Limit[u]
BY LimitAssumption DEF Types

(* sdsReqType returns a header that can hold the length, and the narrowest. *)
LEMMA ReqTypeLemma ==
  ASSUME NEW n \in Nat, n < Limit[4]
  PROVE  /\ ReqType(n) \in Types /\ n < Limit[ReqType(n)]
         /\ \A t \in Types : n < Limit[t] => ReqType(n) <= t
<1>1. \A t \in Types : Limit[t] \in Nat
  BY LimitLemma
<1> QED
  BY <1>1, LimitAssumption DEF ReqType, Types

(* A block is the record of its fields, one of them assigned at a time.    *)
Fields(h, y, l, a, r, t) ==
  [hdr |-> h, type |-> y, len |-> l, alloc |-> a, room |-> r, text |-> t]

LEMMA RecordLemma ==
  ASSUME NEW x \in SdsRecord
  PROVE  x = Fields(x.hdr, x.type, x.len, x.alloc, x.room, x.text)
BY DEF SdsRecord, Fields

LEMMA PutHdr == \A h, y, l, a, r, t, v :
  [Fields(h, y, l, a, r, t) EXCEPT !.hdr = v] = Fields(v, y, l, a, r, t)
BY DEF Fields
LEMMA PutType == \A h, y, l, a, r, t, v :
  [Fields(h, y, l, a, r, t) EXCEPT !.type = v] = Fields(h, v, l, a, r, t)
BY DEF Fields
LEMMA PutLen == \A h, y, l, a, r, t, v :
  [Fields(h, y, l, a, r, t) EXCEPT !.len = v] = Fields(h, y, v, a, r, t)
BY DEF Fields
LEMMA PutAlloc == \A h, y, l, a, r, t, v :
  [Fields(h, y, l, a, r, t) EXCEPT !.alloc = v] = Fields(h, y, l, v, r, t)
BY DEF Fields
LEMMA PutRoom == \A h, y, l, a, r, t, v :
  [Fields(h, y, l, a, r, t) EXCEPT !.room = v] = Fields(h, y, l, a, v, t)
BY DEF Fields
LEMMA PutText == \A h, y, l, a, r, t, v :
  [Fields(h, y, l, a, r, t) EXCEPT !.text = v] = Fields(h, y, l, a, r, v)
BY DEF Fields

(* The fields of a record made of them, and when it is a block.            *)
LEMMA FieldsLemma ==
  \A h, y, l, a, r, t :
    LET x == Fields(h, y, l, a, r, t) IN
    /\ x.hdr = h /\ x.type = y /\ x.len = l /\ x.alloc = a /\ x.room = r /\ x.text = t
    /\ h \in Types /\ y \in Types /\ l \in Nat /\ a \in Nat /\ r \in Nat /\ t \in Seq(Int)
         => x \in SdsRecord
BY DEF Fields, SdsRecord

(* Fields that hold the number they are given.                             *)
LEMMA SetLenLemma ==
  ASSUME NEW h, NEW y \in Types, NEW l, NEW a, NEW r, NEW t, NEW n \in Nat, n < Limit[y]
  PROVE  SetLen(Fields(h, y, l, a, r, t), n) = Fields(h, y, n, a, r, t)
<1>1. n % Limit[y] = n
  BY LimitLemma
<1>2. Fields(h, y, l, a, r, t).type = y
  BY FieldsLemma
<1> QED
  BY <1>1, <1>2, PutLen DEF SetLen

LEMMA SetAllocLemma ==
  ASSUME NEW h, NEW y \in Types, NEW l, NEW a, NEW r, NEW t, NEW n \in Nat, n < Limit[y]
  PROVE  SetAlloc(Fields(h, y, l, a, r, t), n) =
           Fields(h, y, l, IF y = 0 THEN a ELSE n, r, t)
<1>1. n % Limit[y] = n
  BY LimitLemma
<1>2. Fields(h, y, l, a, r, t).type = y
  BY FieldsLemma
<1> QED
  BY <1>1, <1>2, PutAlloc DEF SetAlloc

(* A block of exactly the size asked for, under a header for it, with the  *)
(* text as it was: what the two branches of a growth or a shrinking make.  *)
LEMMA ResizedLemma ==
  ASSUME NEW x, Sound(x), NEW n \in Nat, x.len <= n, n < Limit[x.type], x.type # 0
  PROVE  SetAlloc(Resized(x, n), n) = Fields(x.type, x.type, x.len, n, n + 1, x.text)
<1>1. x \in SdsRecord /\ Len(x.text) \in Nat /\ Len(x.text) <= n + 1 /\ x.hdr = x.type
  BY LenProperties DEF Sound, Fits, SdsRecord
<1>2. Prefix(x.text, n + 1) = x.text
  BY <1>1, PrefixFull DEF SdsRecord
<1>3. x = Fields(x.hdr, x.type, x.len, x.alloc, x.room, x.text)
  BY <1>1, RecordLemma
<1>4. Resized(x, n) = [[x EXCEPT !.room = n + 1] EXCEPT !.text = x.text]
  BY <1>2 DEF Resized
<1>5. [x EXCEPT !.room = n + 1] = Fields(x.hdr, x.type, x.len, x.alloc, n + 1, x.text)
  BY <1>3, PutRoom
<1>6. [Fields(x.hdr, x.type, x.len, x.alloc, n + 1, x.text) EXCEPT !.text = x.text]
        = Fields(x.hdr, x.type, x.len, x.alloc, n + 1, x.text)
  BY PutText
<1>7. Resized(x, n) = Fields(x.hdr, x.type, x.len, x.alloc, n + 1, x.text)
  BY <1>4, <1>5, <1>6
<1>8. x.type \in Types
  BY <1>1 DEF SdsRecord
<1> QED
  BY <1>1, <1>7, <1>8, SetAllocLemma

LEMMA MovedLemma ==
  ASSUME NEW x, Sound(x), NEW n \in Nat, x.len <= n, NEW type \in Types, n < Limit[type]
  PROVE  SetAlloc(Moved(x, type, n), n) =
           Fields(type, type, x.len, IF type = 0 THEN 0 ELSE n, n + 1, x.text)
<1>1. x \in SdsRecord /\ x.len \in Nat /\ Len(x.text) \in Nat /\ Len(x.text) <= x.len + 1
  BY LenProperties DEF Sound, Fits, SdsRecord
<1>2. Prefix(x.text, x.len + 1) = x.text
  BY <1>1, PrefixFull DEF SdsRecord
<1>3. x = Fields(x.hdr, x.type, x.len, x.alloc, x.room, x.text)
  BY <1>1, RecordLemma
<1> DEFINE x1 == [x EXCEPT !.hdr = type]
           x2 == [x1 EXCEPT !.type = type]
           x3 == [x2 EXCEPT !.room = n + 1]
           x4 == [x3 EXCEPT !.alloc = 0]
           x5 == [x4 EXCEPT !.text = x.text]
<1>4. Moved(x, type, n) = SetLen(x5, x.len)
  BY <1>2 DEF Moved
<1>5. x1 = Fields(type, x.type, x.len, x.alloc, x.room, x.text)
  BY <1>3, PutHdr
<1> HIDE DEF x1
<1>6. x2 = Fields(type, type, x.len, x.alloc, x.room, x.text)
  BY <1>5, PutType
<1> HIDE DEF x2
<1>7. x3 = Fields(type, type, x.len, x.alloc, n + 1, x.text)
  BY <1>6, PutRoom
<1> HIDE DEF x3
<1>8. x4 = Fields(type, type, x.len, 0, n + 1, x.text)
  BY <1>7, PutAlloc
<1> HIDE DEF x4
<1>9. x5 = Fields(type, type, x.len, 0, n + 1, x.text)
  BY <1>8, PutText
<1>10. x.len < Limit[type]
  BY <1>1, LimitLemma
<1>11. Moved(x, type, n) = Fields(type, type, x.len, 0, n + 1, x.text)
  BY <1>1, <1>4, <1>9, <1>10, SetLenLemma
<1> QED
  BY <1>11, SetAllocLemma

(* Such a block is sound.                                                  *)
LEMMA FreshSound ==
  ASSUME NEW x, Sound(x), NEW n \in Nat, x.len <= n, NEW type \in Types, n < Limit[type],
         type # 0 \/ x.len = n
  PROVE  LET r == Fields(type, type, x.len, IF type = 0 THEN 0 ELSE n, n + 1, x.text)
         IN Sound(r) /\ r.len = x.len /\ r.text = x.text /\ r.type = type /\ Alloc(r) = n
<1> DEFINE r == Fields(type, type, x.len, IF type = 0 THEN 0 ELSE n, n + 1, x.text)
<1>1. /\ x.len \in Nat /\ x.text \in Seq(Int)
      /\ Len(x.text) \in {x.len, x.len + 1}
  BY DEF Sound, Fits, SdsRecord
<1>2. /\ r.hdr = type /\ r.type = type /\ r.len = x.len
      /\ r.alloc = (IF type = 0 THEN 0 ELSE n) /\ r.room = n + 1 /\ r.text = x.text
  BY FieldsLemma
<1>3. r \in SdsRecord
  BY <1>1, FieldsLemma
<1> HIDE DEF r
<1>4. Alloc(r) = n
  BY <1>2 DEF Alloc
<1>5. Fits(r)
  BY <1>1, <1>2, <1>3, <1>4 DEF Fits
<1> QED
  BY <1>1, <1>2, <1>4, <1>5 DEF Sound, r

-----------------------------------------------------------------------------
(* The functions that make room. *)

(* sdsMakeRoomFor leaves the string and its text alone, and afterwards     *)
(* there is room for what was asked for.                                   *)
LEMMA MakeRoomLemma ==
  ASSUME NEW x, Sound(x), NEW n \in Nat, x.len + n <= SizeMax
  PROVE  LET r == MakeRoomFor(x, n)
         IN Sound(r) /\ r.len = x.len /\ r.text = x.text /\ Avail(r) >= n
<1> DEFINE req == x.len + n
           newlen == IF req < MaxPrealloc THEN 2 * req ELSE req + MaxPrealloc
           type == IF ReqType(newlen) = 0 THEN 1 ELSE ReqType(newlen)
           r == SetAlloc(IF type = x.type THEN Resized(x, newlen)
                         ELSE Moved(x, type, newlen), newlen)
<1>1. CASE Avail(x) >= n
  BY <1>1 DEF MakeRoomFor
<1>2. CASE ~(Avail(x) >= n)
  <2>1. MakeRoomFor(x, n) = r
    BY <1>2 DEF MakeRoomFor
  <2>2. x.len \in Nat /\ req \in Nat /\ newlen \in Nat /\ req <= newlen /\ newlen < Limit[4]
    <3>1. x.len \in Nat
      BY DEF Sound, Fits, SdsRecord
    <3>2. MaxPrealloc \in Nat /\ SizeMax \in Nat /\ 2 * SizeMax < Limit[4]
          /\ SizeMax + MaxPrealloc < Limit[4] /\ Limit[4] \in Nat
      BY SizesAssumption, LimitLemma DEF Types
    <3> QED
      BY <3>1, <3>2
  <2>3. type \in Types /\ type # 0 /\ newlen < Limit[type]
    <3>1. ReqType(newlen) \in Types /\ newlen < Limit[ReqType(newlen)]
      BY <2>2, ReqTypeLemma
    <3>2. Limit[0] < Limit[1] /\ Limit[0] \in Nat /\ Limit[1] \in Nat
      BY LimitAssumption DEF Types
    <3> HIDE DEF newlen
    <3>3. CASE ReqType(newlen) = 0
      BY <2>2, <3>1, <3>2, <3>3 DEF Types
    <3>4. CASE ReqType(newlen) # 0
      BY <3>1, <3>4
    <3> QED
      BY <3>3, <3>4
  <2>4. r = Fields(type, type, x.len, newlen, newlen + 1, x.text)
    <3> HIDE DEF newlen, req
    <3>1. x.len <= newlen
      BY <2>2 DEF req
    <3> HIDE DEF type
    <3>2. CASE type = x.type
      <4>1. r = SetAlloc(Resized(x, newlen), newlen)
        BY <3>2
      <4> QED
        BY <2>2, <2>3, <3>1, <3>2, <4>1, ResizedLemma
    <3>3. CASE type # x.type
      <4>1. r = SetAlloc(Moved(x, type, newlen), newlen)
        BY <3>3
      <4> QED
        BY <2>2, <2>3, <3>1, <4>1, MovedLemma
    <3> QED
      BY <3>2, <3>3
  <2> HIDE DEF r, type, newlen
  <2>5. Sound(r) /\ r.len = x.len /\ r.text = x.text /\ r.type = type /\ Alloc(r) = newlen
    <3>1. x.len <= newlen
      BY <2>2
    <3> QED
      BY <2>2, <2>3, <2>4, <3>1, FreshSound
  <2>6. Avail(r) >= n
    BY <2>2, <2>3, <2>5 DEF Avail, Alloc
  <2> QED
    BY <2>1, <2>5, <2>6
<1> QED
  BY <1>1, <1>2

(* sdsRemoveFreeSpace leaves the string and its text alone.                *)
LEMMA RemoveFreeSpaceLemma ==
  ASSUME NEW x, Sound(x)
  PROVE  LET r == RemoveFreeSpace(x)
         IN Sound(r) /\ r.len = x.len /\ r.text = x.text
<1> DEFINE type == ReqType(x.len)
           r == SetAlloc(IF type = x.type \/ type > 1
                         THEN Resized(x, x.len) ELSE Moved(x, type, x.len), x.len)
<1>1. CASE Avail(x) = 0
  BY <1>1 DEF RemoveFreeSpace
<1>2. CASE Avail(x) # 0
  <2>1. RemoveFreeSpace(x) = r
    BY <1>2 DEF RemoveFreeSpace
  <2>2. /\ x.len \in Nat /\ x.type \in Types /\ x.type # 0
        /\ x.len <= x.alloc /\ x.alloc < Limit[x.type] /\ x.alloc \in Nat
    BY <1>2 DEF Sound, Fits, SdsRecord, Avail, Alloc
  <2>3. x.len < Limit[x.type] /\ x.len < Limit[4]
    <3>1. Limit[x.type] \in Nat /\ Limit[4] \in Nat /\ Limit[x.type] <= Limit[4]
      BY <2>2, LimitLemma DEF Types
    <3> QED
      BY <2>2, <3>1
  <2>4. type \in Types /\ x.len < Limit[type]
    BY <2>2, <2>3, ReqTypeLemma
  <2> HIDE DEF type
  <2>5. CASE type = x.type \/ type > 1
    <3>1. r = SetAlloc(Resized(x, x.len), x.len)
      BY <2>5
    <3>2. r = Fields(x.type, x.type, x.len, x.len, x.len + 1, x.text)
      BY <2>2, <2>3, <3>1, ResizedLemma
    <3> HIDE DEF r
    <3> QED
      BY <2>1, <2>2, <2>3, <3>2, FreshSound
  <2>6. CASE ~(type = x.type \/ type > 1)
    <3>1. r = SetAlloc(Moved(x, type, x.len), x.len)
      BY <2>6
    <3>2. r = Fields(type, type, x.len, IF type = 0 THEN 0 ELSE x.len, x.len + 1, x.text)
      BY <2>2, <2>4, <3>1, MovedLemma
    <3> HIDE DEF r
    <3> QED
      BY <2>1, <2>2, <2>4, <3>2, FreshSound
  <2> QED
    BY <2>5, <2>6
<1> QED
  BY <1>1, <1>2

-----------------------------------------------------------------------------
(* The functions that write. *)

(* What is free of a block is what is allocated and not used.              *)
LEMMA AvailLemma ==
  ASSUME NEW x, Fits(x)
  PROVE  /\ Avail(x) = Alloc(x) - x.len
         /\ x.len \in Nat /\ Alloc(x) \in Nat /\ x.type \in Types /\ x.text \in Seq(Int)
BY DEF Fits, Avail, Alloc, SdsRecord

(* The content of a sound block, and that of one that holds a string.      *)
LEMMA ContentLemma ==
  ASSUME NEW x, Sound(x)
  PROVE  /\ Content(x) = Prefix(x.text, x.len)
         /\ Content(x) \in Seq(Int) /\ Len(Content(x)) = x.len
<1>1. x.text \in Seq(Int) /\ x.len \in Nat /\ x.len <= Len(x.text) /\ Len(x.text) \in Nat
  BY LenProperties DEF Sound, Fits, SdsRecord
<1>2. (IF x.len < Len(x.text) THEN x.len ELSE Len(x.text)) = x.len
  BY <1>1
<1>3. Content(x) = Prefix(x.text, x.len)
  BY <1>2 DEF Content, Prefix
<1> QED
  BY <1>1, <1>3, PrefixShort

LEMMA HoldsLemma ==
  ASSUME NEW x, NEW t, Holds(x, t)
  PROVE  /\ Sound(x) /\ Content(x) = t
         /\ Len(x.text) = x.len + 1 /\ x.text[x.len + 1] = NUL
<1>1. NUL \in Int /\ t \in Seq(Int) /\ Len(t) \in Nat
  BY LenProperties DEF Holds, NUL
<1>2. Len(x.text) = x.len + 1 /\ x.text[x.len + 1] = NUL
  BY <1>1, AppendLemma DEF Holds
<1>3. Sound(x)
  BY <1>2 DEF Holds, Sound
<1>4. Prefix(x.text, x.len) = Prefix(t, Len(t))
  BY <1>1, PrefixOfAppend DEF Holds
<1>5. Prefix(t, Len(t)) = t
  BY <1>1, PrefixFull
<1> QED
  BY <1>2, <1>3, <1>4, <1>5, ContentLemma

LEMMA WholeLemma ==
  ASSUME NEW x, Fits(x), Len(x.text) = x.len + 1, x.text[x.len + 1] = NUL
  PROVE  Holds(x, Content(x))
<1>1. Sound(x)
  BY DEF Sound
<1>2. PICK t : t = Content(x)
  OBVIOUS
<1>3. t = Prefix(x.text, x.len) /\ t \in Seq(Int) /\ Len(t) = x.len
  BY <1>1, <1>2, ContentLemma
<1>4. x.text \in Seq(Int) /\ x.len \in Nat /\ NUL \in Int
  BY AvailLemma DEF NUL
<1>5. /\ Append(t, NUL) \in Seq(Int) /\ Len(Append(t, NUL)) = x.len + 1
      /\ \A i \in 1 .. x.len : Append(t, NUL)[i] = t[i]
      /\ Append(t, NUL)[x.len + 1] = NUL
  BY <1>3, <1>4, AppendLemma
<1>6. \A i \in 1 .. x.len : t[i] = x.text[i]
  <2>1. x.len <= Len(x.text)
    BY <1>4
  <2>2. \A i \in 1 .. x.len : Prefix(x.text, x.len)[i] = x.text[i]
    BY <1>4, <2>1, PrefixShort, Zenon
  <2> QED
    BY <1>3, <2>2, Zenon
<1>7. \A i \in 1 .. Len(x.text) : x.text[i] = Append(t, NUL)[i]
  BY <1>4, <1>5, <1>6
<1>8. x.text = Append(t, NUL)
  BY <1>4, <1>5, <1>7, SameSeq
<1> QED
  BY <1>2, <1>3, <1>8 DEF Holds

(* Writing a text that fits, and its length.                               *)
LEMMA WriteLemma ==
  ASSUME NEW x, Fits(x), NEW t \in Seq(Int), NEW m \in Nat, m <= Alloc(x),
         Len(t) \in {m, m + 1}
  PROVE  LET r == SetLen([x EXCEPT !.text = t], m)
         IN Sound(r) /\ r.len = m /\ r.text = t
<1> DEFINE r == SetLen([x EXCEPT !.text = t], m)
<1>1. /\ x \in SdsRecord /\ x.hdr = x.type /\ x.type \in Types /\ x.len \in Nat
      /\ x.alloc \in Nat /\ x.room \in Nat /\ Alloc(x) < Limit[x.type]
      /\ Alloc(x) + 1 <= x.room /\ Alloc(x) \in Nat
  BY AvailLemma DEF Fits, SdsRecord
<1>2. [x EXCEPT !.text = t] = Fields(x.hdr, x.type, x.len, x.alloc, x.room, t)
  BY <1>1, RecordLemma, PutText
<1>3. m < Limit[x.type]
  BY <1>1, LimitLemma
<1>4. r = Fields(x.hdr, x.type, m, x.alloc, x.room, t)
  BY <1>1, <1>2, <1>3, SetLenLemma
<1> HIDE DEF r
<1>5. /\ r.hdr = x.type /\ r.type = x.type /\ r.len = m /\ r.alloc = x.alloc
      /\ r.room = x.room /\ r.text = t
  BY <1>1, <1>4, FieldsLemma
<1>6. r \in SdsRecord
  BY <1>1, <1>4, FieldsLemma
<1>7. m <= Alloc(r) /\ Alloc(r) <= Alloc(x)
  BY <1>1, <1>5 DEF Alloc
<1>8. Alloc(r) \in Nat
  BY <1>5, <1>1 DEF Alloc
<1>9. Alloc(r) < Limit[r.type] /\ Alloc(r) + 1 <= r.room /\ Len(r.text) <= r.room
  BY <1>1, <1>5, <1>7, <1>8, LimitLemma
<1>10. Fits(r)
  BY <1>5, <1>6, <1>7, <1>9 DEF Fits
<1> QED
  BY <1>5, <1>10 DEF Sound, r

LEMMA SetTextLemma ==
  ASSUME NEW x, Fits(x), NEW t \in Seq(Int), Len(t) <= Alloc(x)
  PROVE  Holds(SetText(x, t), t)
<1>1. NUL \in Int /\ Len(t) \in Nat
  BY LenProperties DEF NUL
<1>2. PICK u : u = Append(t, NUL)
  OBVIOUS
<1>3. PICK m : m = Len(t)
  OBVIOUS
<1>4. u \in Seq(Int) /\ Len(u) = m + 1 /\ m \in Nat
  BY <1>1, <1>2, <1>3, AppendLemma
<1>5. PICK r : r = SetLen([x EXCEPT !.text = u], m)
  OBVIOUS
<1>6. m <= Alloc(x) /\ Len(u) \in {m, m + 1}
  BY <1>3, <1>4
<1>7. Sound(r) /\ r.len = m /\ r.text = u
  BY <1>4, <1>5, <1>6, WriteLemma
<1>8. SetText(x, t) = r
  BY <1>2, <1>3, <1>5, Zenon DEF SetText
<1> QED
  BY <1>2, <1>3, <1>7, <1>8 DEF Holds, Sound

(* A text behind another, and the terminator behind both.                  *)
LEMMA ConcatAppend ==
  ASSUME NEW t \in Seq(Int), NEW u \in Seq(Int), NEW b \in Int
  PROVE  t \o Append(u, b) = Append(t \o u, b)
<1>1. <<b>> \in Seq(Int) /\ t \o u \in Seq(Int)
  BY ConcatProperties
<1>2. Append(u, b) = u \o <<b>> /\ Append(t \o u, b) = (t \o u) \o <<b>>
  BY <1>1, AppendIsConcat, Zenon
<1>3. (t \o u) \o <<b>> = t \o (u \o <<b>>)
  BY <1>1, ConcatAssociative
<1> QED
  BY <1>1, <1>2, <1>3

(* Writing t and a terminator behind the content.                          *)
LEMMA BehindLemma ==
  ASSUME NEW x, Sound(x), NEW t \in Seq(Int), x.len + Len(t) <= Alloc(x)
  PROVE  Holds(SetLen(Put(x, x.len, Append(t, NUL)), x.len + Len(t)), Content(x) \o t)
<1>1. PICK c : c = Content(x)
  OBVIOUS
<1>2. c = Prefix(x.text, x.len) /\ c \in Seq(Int) /\ Len(c) = x.len
  BY <1>1, ContentLemma
<1>3. NUL \in Int /\ Len(t) \in Nat /\ x.len \in Nat /\ Fits(x)
  BY LenProperties, AvailLemma DEF NUL, Sound
<1>4. /\ c \o t \in Seq(Int) /\ Len(c \o t) = x.len + Len(t)
  BY <1>2, ConcatProperties
<1>5. c \o Append(t, NUL) = Append(c \o t, NUL)
  BY <1>2, <1>3, ConcatAppend
<1>6. Put(x, x.len, Append(t, NUL)) = [x EXCEPT !.text = Append(c \o t, NUL)]
  BY <1>2, <1>5 DEF Put
<1>7. SetLen(Put(x, x.len, Append(t, NUL)), x.len + Len(t)) = SetText(x, c \o t)
  BY <1>4, <1>6 DEF SetText
<1>8. Len(c \o t) <= Alloc(x)
  BY <1>4
<1>9. Holds(SetText(x, c \o t), c \o t)
  BY <1>3, <1>4, <1>8, SetTextLemma
<1> QED
  BY <1>1, <1>7, <1>9

(* sdscatlen, once there is room.                                          *)
LEMMA CatLenLemma ==
  ASSUME NEW x, Sound(x), NEW t \in Seq(Int), x.len + Len(t) <= SizeMax
  PROVE  Holds(CatLen(x, t), Content(x) \o t)
<1>1. Len(t) \in Nat
  BY LenProperties
<1>2. PICK r : r = MakeRoomFor(x, Len(t))
  OBVIOUS
<1>3. Sound(r) /\ r.len = x.len /\ r.text = x.text /\ Avail(r) >= Len(t)
  BY <1>1, <1>2, MakeRoomLemma
<1>4. r.len + Len(t) <= Alloc(r)
  BY <1>1, <1>3, AvailLemma DEF Sound
<1>5. Holds(SetLen(Put(r, r.len, Append(t, NUL)), r.len + Len(t)), Content(r) \o t)
  BY <1>3, <1>4, BehindLemma
<1>6. Content(r) = Content(x)
  BY <1>3 DEF Content
<1>7. CatLen(x, t) = SetLen(Put(r, x.len, Append(t, NUL)), x.len + Len(t))
  BY <1>2 DEF CatLen
<1> QED
  BY <1>3, <1>5, <1>6, <1>7

(* sdscpylen: grown if what is allocated does not hold the text.           *)
LEMMA CpyLenLemma ==
  ASSUME NEW x, Sound(x), NEW t \in Seq(Int), Len(t) <= SizeMax
  PROVE  Holds(CpyLen(x, t), t)
<1>1. Len(t) \in Nat /\ Fits(x)
  BY LenProperties DEF Sound
<1>2. CASE Alloc(x) < Len(t)
  <2>1. PICK n : n = Len(t) - x.len
    OBVIOUS
  <2>2. n \in Nat /\ x.len + n <= SizeMax /\ x.len \in Nat
    BY <1>1, <1>2, <2>1, AvailLemma DEF Fits
  <2>3. PICK r : r = MakeRoomFor(x, n)
    OBVIOUS
  <2>4. Sound(r) /\ r.len = x.len /\ Avail(r) >= n
    BY <2>2, <2>3, MakeRoomLemma
  <2>5. Fits(r) /\ Len(t) <= Alloc(r)
    BY <1>1, <2>1, <2>2, <2>4, AvailLemma DEF Sound
  <2>6. CpyLen(x, t) = SetText(r, t)
    BY <1>2, <2>1, <2>3 DEF CpyLen
  <2> QED
    BY <2>5, <2>6, SetTextLemma
<1>3. CASE ~(Alloc(x) < Len(t))
  <2>1. Len(t) <= Alloc(x)
    BY <1>1, <1>3, AvailLemma
  <2>2. CpyLen(x, t) = SetText(x, t)
    BY <1>3 DEF CpyLen
  <2> QED
    BY <1>1, <2>1, <2>2, SetTextLemma
<1> QED
  BY <1>2, <1>3

(* sdsgrowzero: the bytes set are those added and one more.                *)
Zeros(n) == [i \in 1 .. n |-> NUL]

LEMMA ZerosLemma ==
  ASSUME NEW n \in Nat
  PROVE  /\ Zeros(n) \in Seq(Int) /\ Len(Zeros(n)) = n
         /\ Zeros(n + 1) = Append(Zeros(n), NUL)
<1>1. NUL \in Int
  BY DEF NUL
<1>2. \A m \in Nat : Zeros(m) \in Seq(Int) /\ Len(Zeros(m)) = m
  BY <1>1 DEF Zeros
<1>3. \A m \in Nat : \A i \in 1 .. m : Zeros(m)[i] = NUL
  BY DEF Zeros
<1>4. PICK z : z = Zeros(n)
  OBVIOUS
<1>5. z \in Seq(Int) /\ Len(z) = n /\ \A i \in 1 .. n : z[i] = NUL
  BY <1>2, <1>3, <1>4
<1>6. PICK u : u = Append(z, NUL)
  OBVIOUS
<1>7. /\ u \in Seq(Int) /\ Len(u) = n + 1
      /\ \A i \in 1 .. n : u[i] = z[i]
      /\ u[n + 1] = NUL
  BY <1>1, <1>5, <1>6, AppendLemma
<1>8. PICK w : w = Zeros(n + 1)
  OBVIOUS
<1>9. w \in Seq(Int) /\ Len(w) = n + 1 /\ \A i \in 1 .. n + 1 : w[i] = NUL
  BY <1>2, <1>3, <1>8
<1>10. \A i \in 1 .. n + 1 : w[i] = u[i]
  BY <1>5, <1>7, <1>9
<1>11. w = u
  BY <1>7, <1>9, <1>10, SameSeq
<1> QED
  BY <1>4, <1>5, <1>6, <1>8, <1>11

LEMMA GrowZeroLemma ==
  ASSUME NEW x, NEW c, Holds(x, c), NEW n \in Nat, n <= SizeMax
  PROVE  Holds(GrowZero(x, n), c \o [i \in 1 .. n - Len(c) |-> 0])
<1>1. Sound(x) /\ Content(x) = c /\ c \in Seq(Int) /\ x.len = Len(c) /\ x.len \in Nat
  BY HoldsLemma, AvailLemma DEF Holds
<1>2. CASE n <= x.len
  <2>1. [i \in 1 .. n - Len(c) |-> 0] = <<>>
    BY <1>1, <1>2
  <2>2. c \o <<>> = c
    BY <1>1, ConcatEmptySeq
  <2> QED
    BY <1>2, <2>1, <2>2 DEF GrowZero
<1>3. CASE ~(n <= x.len)
  <2>1. PICK k : k = n - x.len
    OBVIOUS
  <2>2. k \in Nat /\ x.len + k = n
    BY <1>1, <1>3, <2>1
  <2>3. PICK r : r = MakeRoomFor(x, k)
    OBVIOUS
  <2>4. Sound(r) /\ r.len = x.len /\ r.text = x.text /\ Avail(r) >= k
    BY <1>1, <2>2, <2>3, MakeRoomLemma
  <2>5. PICK z : z = Zeros(k)
    OBVIOUS
  <2>6. z \in Seq(Int) /\ Len(z) = k /\ Zeros(k + 1) = Append(z, NUL)
    BY <2>2, <2>5, ZerosLemma
  <2>7. r.len + Len(z) <= Alloc(r)
    BY <2>2, <2>4, <2>6, AvailLemma DEF Sound
  <2>8. Holds(SetLen(Put(r, r.len, Append(z, NUL)), r.len + Len(z)), Content(r) \o z)
    BY <2>4, <2>6, <2>7, BehindLemma
  <2>9. GrowZero(x, n) = SetLen(Put(r, x.len, Zeros(k + 1)), n)
    BY <1>3, <2>1, <2>3 DEF GrowZero, Zeros
  <2>10. Content(r) = c
    BY <1>1, <2>4 DEF Content
  <2>11. z = [i \in 1 .. n - Len(c) |-> 0]
    BY <1>1, <2>1, <2>5 DEF Zeros, NUL
  <2> QED
    BY <2>2, <2>4, <2>6, <2>8, <2>9, <2>10, <2>11
<1> QED
  BY <1>2, <1>3

(* A round of sdscatfmt leaves the string open at its end.                 *)
LEMMA FmtRoundLemma ==
  ASSUME NEW x, Sound(x), NEW t \in Seq(Int), x.len + Len(t) <= SizeMax, x.len < SizeMax
  PROVE  LET r == FmtRound(x, t)
         IN Sound(r) /\ Content(r) = Content(x) \o t
<1>1. Len(t) \in Nat /\ x.len \in Nat /\ SizeMax \in Nat
  BY LenProperties, AvailLemma, SizesAssumption DEF Sound
<1>2. PICK q : q = IF Avail(x) = 0 THEN MakeRoomFor(x, 1) ELSE x
  OBVIOUS
<1>3. Sound(q) /\ q.len = x.len /\ q.text = x.text
  BY <1>1, <1>2, MakeRoomLemma
<1>4. PICK r : r = IF Avail(q) < Len(t) THEN MakeRoomFor(q, Len(t)) ELSE q
  OBVIOUS
<1>5. Sound(r) /\ r.len = x.len /\ r.text = x.text /\ Avail(r) >= Len(t)
  <2>1. CASE Avail(q) < Len(t)
    BY <1>1, <1>3, <1>4, <2>1, MakeRoomLemma
  <2>2. CASE ~(Avail(q) < Len(t))
    BY <1>1, <1>3, <1>4, <2>2, AvailLemma DEF Sound
  <2> QED
    BY <2>1, <2>2
<1>6. PICK c : c = Content(x)
  OBVIOUS
<1>7. c \in Seq(Int) /\ Len(c) = x.len /\ Prefix(r.text, r.len) = c
  BY <1>5, <1>6, ContentLemma
<1>8. c \o t \in Seq(Int) /\ Len(c \o t) = r.len + Len(t)
  <2>1. c \o t \in Seq(Int) /\ Len(c \o t) = Len(c) + Len(t)
    BY <1>7, ConcatProperties
  <2> QED
    BY <1>5, <1>7, <2>1
<1>9. PICK m : m = r.len + Len(t)
  OBVIOUS
<1>10. m \in Nat /\ m <= Alloc(r) /\ Fits(r)
  BY <1>1, <1>5, <1>9, AvailLemma DEF Sound
<1>11. PICK y : y = FmtRound(x, t)
  OBVIOUS
<1>12. y = SetLen([r EXCEPT !.text = c \o t], m)
  BY <1>2, <1>4, <1>7, <1>9, <1>11 DEF FmtRound, Put
<1>13. Sound(y) /\ y.len = m /\ y.text = c \o t
  BY <1>8, <1>9, <1>10, <1>12, WriteLemma
<1>14. Content(y) = c \o t
  <2>1. Content(y) = Prefix(c \o t, m)
    BY <1>13, ContentLemma
  <2>2. Prefix(c \o t, m) = c \o t
    <3>1. Len(c \o t) <= m
      BY <1>8, <1>9, <1>10
    <3> QED
      BY <1>8, <1>10, <3>1, PrefixFull, Zenon
  <2> QED
    BY <2>1, <2>2
<1> QED
  BY <1>6, <1>11, <1>13, <1>14

(* sdscatfmt ends the string.                                              *)
LEMMA EndLemma ==
  ASSUME NEW x, Sound(x)
  PROVE  Holds(Put(x, x.len, <<NUL>>), Content(x))
<1>1. PICK c : c = Content(x)
  OBVIOUS
<1>2. c = Prefix(x.text, x.len) /\ c \in Seq(Int) /\ Len(c) = x.len
  BY <1>1, ContentLemma
<1>3. /\ x \in SdsRecord /\ x.hdr = x.type /\ x.type \in Types /\ x.len \in Nat
      /\ x.alloc \in Nat /\ x.room \in Nat /\ x.len <= Alloc(x) /\ Alloc(x) < Limit[x.type]
      /\ Alloc(x) + 1 <= x.room /\ Alloc(x) \in Nat /\ NUL \in Int
  BY AvailLemma DEF Sound, Fits, SdsRecord, NUL
<1>4. PICK r : r = Put(x, x.len, <<NUL>>)
  OBVIOUS
<1>5. PICK u : u = Append(c, NUL)
  OBVIOUS
<1>6. u \in Seq(Int) /\ Len(u) = x.len + 1 /\ c \o <<NUL>> = u
  BY <1>2, <1>3, <1>5, AppendLemma, AppendIsConcat
<1>7. r = [x EXCEPT !.text = u]
  BY <1>2, <1>4, <1>6 DEF Put
<1>8. r = Fields(x.hdr, x.type, x.len, x.alloc, x.room, u)
  BY <1>3, <1>7, RecordLemma, PutText
<1>9. /\ r.hdr = x.type /\ r.type = x.type /\ r.len = x.len /\ r.alloc = x.alloc
      /\ r.room = x.room /\ r.text = u
  BY <1>3, <1>8, FieldsLemma
<1>10. r \in SdsRecord
  BY <1>3, <1>6, <1>8, FieldsLemma
<1>11. Fits(r)
  BY <1>3, <1>6, <1>9, <1>10 DEF Fits, Alloc
<1> QED
  BY <1>1, <1>2, <1>4, <1>5, <1>9, <1>11 DEF Holds

(* sdsnewlen.                                                              *)
LEMMA NewLenLemma ==
  ASSUME NEW t \in Seq(Int), Len(t) < Limit[4]
  PROVE  Holds(NewLen(t), t)
<1>1. Len(t) \in Nat /\ NUL \in Int
  BY LenProperties DEF NUL
<1>2. PICK n : n = Len(t)
  OBVIOUS
<1>3. PICK y : y = IF Len(t) = 0 THEN 1 ELSE ReqType(Len(t))
  OBVIOUS
<1>4. y \in Types /\ n < Limit[y] /\ (y = 0 => n # 0)
  <2>1. CASE n = 0
    BY <1>1, <1>2, <1>3, <2>1, LimitLemma DEF Types
  <2>2. CASE n # 0
    BY <1>1, <1>2, <1>3, <2>2, ReqTypeLemma
  <2> QED
    BY <2>1, <2>2
<1>5. n % Limit[y] = n
  BY <1>1, <1>2, <1>4, LimitLemma, SMTT(30)
<1>6. Block(y, n + 1, t) = Fields(y, y, n, 0, n + 1, t)
  BY <1>2, <1>5 DEF Block, Fields
<1>7. SetAlloc(Block(y, n + 1, t), n) = Fields(y, y, n, IF y = 0 THEN 0 ELSE n, n + 1, t)
  BY <1>1, <1>2, <1>4, <1>6, SetAllocLemma
<1>8. PICK u : u = Append(t, NUL)
  OBVIOUS
<1>9. u \in Seq(Int) /\ Len(u) = n + 1
  BY <1>1, <1>2, <1>8, AppendLemma
<1>10. PICK r : r = NewLen(t)
  OBVIOUS
<1>11. PICK z : z = SetAlloc(Block(y, n + 1, t), n)
  OBVIOUS
<1>12. r = [z EXCEPT !.text = u]
  BY <1>2, <1>3, <1>8, <1>10, <1>11 DEF NewLen
<1>13. r = Fields(y, y, n, IF y = 0 THEN 0 ELSE n, n + 1, u)
  BY <1>7, <1>11, <1>12, PutText
<1>14. /\ r.hdr = y /\ r.type = y /\ r.len = n /\ r.alloc = (IF y = 0 THEN 0 ELSE n)
       /\ r.room = n + 1 /\ r.text = u
  BY <1>13, FieldsLemma
<1>15. r \in SdsRecord
  BY <1>1, <1>2, <1>4, <1>9, <1>13, FieldsLemma
<1>16. Fits(r)
  BY <1>1, <1>2, <1>4, <1>9, <1>14, <1>15 DEF Fits, Alloc
<1> QED
  BY <1>2, <1>8, <1>10, <1>14, <1>16 DEF Holds

-----------------------------------------------------------------------------
(* The bytes the calls make of bytes. *)

(* sdscatrepr writes bytes for a byte.                                     *)
LEMMA ReprLemma ==
  ASSUME NEW c \in Bytes
  PROVE  Repr(c) \in Seq(Int)
<1>1. c \in Int /\ c \div 16 \in Int /\ c % 16 \in Int
  BY DEF Bytes
<1>2. CASE c \in {Backslash, Quote}
  <2>1. Repr(c) = <<Backslash, c>>
    BY <1>2 DEF Repr
  <2> QED
    BY <1>1, <2>1 DEF Backslash
<1>3. CASE c \notin {Backslash, Quote} /\ \E e \in Escapes : e[2] = c
  <2>1. PICK e : e = CHOOSE f \in Escapes : f[2] = c
    OBVIOUS
  <2>2. e \in Escapes
    BY <1>3, <2>1
  <2>3. e[1] \in Int
    BY <2>2 DEF Escapes
  <2>4. Repr(c) = <<Backslash, e[1]>>
    BY <1>3, <2>1 DEF Repr
  <2> QED
    BY <2>3, <2>4 DEF Backslash
<1>4. CASE c \notin {Backslash, Quote} /\ ~(\E e \in Escapes : e[2] = c)
  <2>1. ToHex(c \div 16) \in Int /\ ToHex(c % 16) \in Int
    BY <1>1 DEF ToHex
  <2>2. Repr(c) = IF c \in Printable THEN <<c>>
                  ELSE <<Backslash, LowerX, ToHex(c \div 16), ToHex(c % 16)>>
    BY <1>4 DEF Repr
  <2>3. <<c>> \in Seq(Int)
    BY <1>1
  <2>4. <<Backslash, LowerX, ToHex(c \div 16), ToHex(c % 16)>> \in Seq(Int)
    BY <2>1 DEF Backslash, LowerX
  <2> QED
    BY <2>2, <2>3, <2>4
<1> QED
  BY <1>2, <1>3, <1>4

LEMMA PiecesLemma ==
  ASSUME NEW p \in Reprs
  PROVE  <<<<Quote>>>> \o [i \in DOMAIN p |-> Repr(p[i])] \o <<<<Quote>>>> \in Seq(Seq(Int))
<1>1. p \in Seq(Bytes) /\ Len(p) \in Nat /\ DOMAIN p = 1 .. Len(p)
  BY TextsAssumption, LenProperties
<1>2. \A i \in 1 .. Len(p) : Repr(p[i]) \in Seq(Int)
  BY <1>1, ElementOfSeq, ReprLemma
<1> DEFINE q == [i \in DOMAIN p |-> Repr(p[i])]
<1>3. q \in Seq(Seq(Int))
  BY <1>1, <1>2
<1>4. <<<<Quote>>>> \in Seq(Seq(Int))
  BY DEF Quote
<1> HIDE DEF q
<1>5. <<<<Quote>>>> \o q \in Seq(Seq(Int))
  BY <1>3, <1>4, ConcatProperties
<1>6. (<<<<Quote>>>> \o q) \o <<<<Quote>>>> \in Seq(Seq(Int))
  BY <1>4, <1>5, ConcatProperties
<1> QED
  BY <1>6 DEF q

(* sdstrim keeps a piece of the text, and the piece its comment says.      *)
LEMMA TrimLemma ==
  ASSUME NEW t \in Seq(Int), NEW cset, NEW sp \in 1 .. Len(t) + 1, NEW ep \in 0 .. Len(t),
         TrimStops(t, cset, sp, ep)
  PROVE  /\ SubSeq(t, sp, ep) \in Seq(Int) /\ Len(SubSeq(t, sp, ep)) <= Len(t)
         /\ ep \in sp - 1 .. Len(t)
         /\ \A k \in DOMAIN t \ (sp .. ep) : t[k] \in cset \union {0}
         /\ sp <= ep => t[sp] \notin cset \union {0} /\ t[ep] \notin cset \union {0}
<1>1. Len(t) \in Nat /\ DOMAIN t = 1 .. Len(t)
  BY LenProperties
<1>2. \A i \in sp .. ep : t[i] \in Int
  BY <1>1, ElementOfSeq
<1>3. /\ SubSeq(t, sp, ep) \in Seq(Int)
      /\ Len(SubSeq(t, sp, ep)) = IF sp <= ep THEN ep - sp + 1 ELSE 0
  BY <1>1, <1>2, SubSeqProperties
<1>4. PICK cut : cut = cset \union {0}
  OBVIOUS
<1>5. /\ \A i \in 1 .. sp - 1 : t[i] \in cut
      /\ sp <= Len(t) => t[sp] \notin cut
      /\ \A i \in ep + 1 .. Len(t) : i > sp /\ t[i] \in cut
      /\ ep > sp => t[ep] \notin cut
  BY <1>4 DEF TrimStops, NUL
<1>6. ep \in sp - 1 .. Len(t)
  BY <1>1, <1>5
<1>7. \A k \in DOMAIN t \ (sp .. ep) : t[k] \in cut
  BY <1>1, <1>5
<1>8. sp <= ep => t[sp] \notin cut /\ t[ep] \notin cut
  <2> SUFFICES ASSUME sp <= ep
               PROVE  t[sp] \notin cut /\ t[ep] \notin cut
    OBVIOUS
  <2>1. CASE ep = sp
    BY <1>1, <1>5, <2>1
  <2>2. CASE ep # sp
    BY <1>1, <1>5, <2>2
  <2> QED
    BY <2>1, <2>2
<1>9. Len(SubSeq(t, sp, ep)) <= Len(t)
  BY <1>1, <1>3
<1> QED
  BY <1>3, <1>4, <1>6, <1>7, <1>8, <1>9

(* sdsrange, whose ends count from either side, takes the piece its        *)
(* comment says.                                                           *)
LEMMA SubRangeLemma ==
  ASSUME NEW t \in Seq(Int), NEW a \in Int, NEW b \in Int
  PROVE  LET n == Len(t)
             at(x) == IF x >= n THEN n - 1 ELSE IF x >= 0 THEN x ELSE IF n + x >= 0 THEN n + x ELSE 0
         IN /\ SubRange(t, a, b) =
                 IF n = 0 \/ a >= n THEN <<>> ELSE SubSeq(t, at(a) + 1, at(b) + 1)
            /\ SubRange(t, a, b) \in Seq(Int) /\ Len(SubRange(t, a, b)) <= Len(t)
<1> DEFINE n == Len(t)
           from(x) == IF x >= 0 THEN x ELSE IF n + x < 0 THEN 0 ELSE n + x
           at(x) == IF x >= n THEN n - 1 ELSE IF x >= 0 THEN x ELSE IF n + x >= 0 THEN n + x ELSE 0
           A == from(a)
           B == from(b)
           m == CASE A > B -> 0
                  [] A <= B /\ A >= n -> 0
                  [] A <= B /\ A < n /\ B >= n -> (n - 1 - A) + 1
                  [] OTHER -> (B - A) + 1
<1>1. n \in Nat /\ A \in Nat /\ B \in Nat
  BY LenProperties
<1>2. m = IF A > B \/ A >= n THEN 0 ELSE IF B >= n THEN n - A ELSE B - A + 1
  <2> HIDE DEF A, B, n
  <2> QED
    BY <1>1
<1>3. SubRange(t, a, b) = IF n = 0 THEN t ELSE SubSeq(t, A + 1, A + m)
  BY DEF SubRange
<1>4. CASE n = 0
  <2>1. t = <<>>
    BY <1>4, EmptySeq
  <2> QED
    BY <1>3, <1>4, <2>1
<1>5. CASE n # 0 /\ (A > B \/ A >= n)
  <2>1. m = 0
    BY <1>2, <1>5
  <2>2. SubSeq(t, A + 1, A + m) = <<>>
    BY <1>1, <2>1, SubSeqEmpty
  <2>3. a >= n \/ at(a) + 1 > at(b) + 1
    BY <1>1, <1>5
  <2>4. at(a) + 1 \in Int /\ at(b) + 1 \in Int
    BY <1>1
  <2>5. ~(a >= n) => SubSeq(t, at(a) + 1, at(b) + 1) = <<>>
    BY <2>3, <2>4, SubSeqEmpty
  <2> HIDE DEF m, A, B
  <2>6. SubRange(t, a, b) = <<>>
    BY <1>3, <1>5, <2>2
  <2>7. (IF n = 0 \/ a >= n THEN <<>> ELSE SubSeq(t, at(a) + 1, at(b) + 1)) = <<>>
    BY <1>5, <2>5
  <2>8. <<>> \in Seq(Int) /\ Len(<<>>) <= n
    BY <1>1, EmptySeq
  <2> QED
    BY <2>6, <2>7, <2>8
<1>6. CASE n # 0 /\ ~(A > B \/ A >= n)
  <2>1. m = IF B >= n THEN n - A ELSE B - A + 1
    BY <1>2, <1>6
  <2>2. ~(a >= n) /\ at(a) = A
    BY <1>1, <1>6
  <2>3. at(b) + 1 = A + m /\ A + m <= n /\ A + m \in Int
    BY <1>1, <1>6, <2>1
  <2>4. SubRange(t, a, b) = SubSeq(t, at(a) + 1, at(b) + 1)
    BY <1>3, <1>6, <2>2, <2>3
  <2> HIDE DEF A, m
  <2>5. \A i \in A + 1 .. A + m : t[i] \in Int
    BY <1>1, <2>3, ElementOfSeq
  <2>6. SubSeq(t, A + 1, A + m) \in Seq(Int) /\ Len(SubSeq(t, A + 1, A + m)) <= n
    BY <1>1, <2>3, <2>5, SubSeqProperties
  <2> QED
    BY <1>3, <1>6, <2>2, <2>4, <2>6
<1> QED
  BY <1>4, <1>5, <1>6

(* A set of natural numbers has a least one.                               *)
LEMMA LeastNatural ==
  ASSUME NEW S, S \subseteq Nat, S # {}
  PROVE  \E m \in S : \A k \in S : m <= k
<1>1. PICK m \in S : \A k \in S : <<k, m>> \notin OpToRel(<, Nat)
  BY NatLessThanWellFounded, WFMin, Zenon
<1>2. \A k \in S : ~(k < m)
  BY <1>1, Zenon DEF OpToRel
<1> QED
  BY <1>2

(* sdstolower, sdstoupper, sdsmapchars: a text of the same length, and     *)
(* equal bytes become equal bytes.                                         *)
Translates(t, u) ==
  /\ u \in Seq(Int) /\ Len(u) = Len(t)
  /\ \A i, j \in DOMAIN t : t[i] = t[j] => u[i] = u[j]

LEMMA CaseLemma ==
  ASSUME NEW t \in Seq(Int)
  PROVE  Translates(t, Lowered(t)) /\ Translates(t, Uppered(t))
<1>1. Len(t) \in Nat /\ DOMAIN t = 1 .. Len(t) /\ \A i \in 1 .. Len(t) : t[i] \in Int
  BY LenProperties, ElementOfSeq
<1>2. Translates(t, Lowered(t))
  <2> DEFINE image(b) == IF b \in 65 .. 90 THEN b + 32 ELSE b
  <2>1. \A b \in Int : image(b) \in Int
    OBVIOUS
  <2>2. Lowered(t) = [j \in DOMAIN t |-> image(t[j])]
    BY DEF Lowered
  <2> HIDE DEF image
  <2>3. [j \in DOMAIN t |-> image(t[j])] \in Seq(Int)
        /\ Len([j \in DOMAIN t |-> image(t[j])]) = Len(t)
    BY <1>1, <2>1
  <2>4. \A i, j \in DOMAIN t : t[i] = t[j] =>
          [k \in DOMAIN t |-> image(t[k])][i] = [k \in DOMAIN t |-> image(t[k])][j]
    BY Zenon
  <2> QED
    BY <2>2, <2>3, <2>4 DEF Translates
<1>3. Translates(t, Uppered(t))
  <2> DEFINE image(b) == IF b \in 97 .. 122 THEN b - 32 ELSE b
  <2>1. \A b \in Int : image(b) \in Int
    OBVIOUS
  <2>2. Uppered(t) = [j \in DOMAIN t |-> image(t[j])]
    BY DEF Uppered
  <2> HIDE DEF image
  <2>3. [j \in DOMAIN t |-> image(t[j])] \in Seq(Int)
        /\ Len([j \in DOMAIN t |-> image(t[j])]) = Len(t)
    BY <1>1, <2>1
  <2>4. \A i, j \in DOMAIN t : t[i] = t[j] =>
          [k \in DOMAIN t |-> image(t[k])][i] = [k \in DOMAIN t |-> image(t[k])][j]
    BY Zenon
  <2> QED
    BY <2>2, <2>3, <2>4 DEF Translates
<1> QED
  BY <1>2, <1>3

LEMMA MappedLemma ==
  ASSUME NEW t \in Seq(Int), NEW from \in Seq(Int), NEW to \in Seq(Int), Len(from) = Len(to)
  PROVE  Translates(t, Mapped(t, from, to))
<1> DEFINE hits(b) == {i \in DOMAIN from : from[i] = b}
           image(b) == IF hits(b) = {} THEN b
                       ELSE to[CHOOSE i \in hits(b) : \A k \in hits(b) : i <= k]
<1>1. /\ Len(t) \in Nat /\ DOMAIN t = 1 .. Len(t) /\ \A i \in 1 .. Len(t) : t[i] \in Int
      /\ Len(from) \in Nat /\ DOMAIN from = 1 .. Len(from)
      /\ \A i \in 1 .. Len(from) : to[i] \in Int
  BY LenProperties, ElementOfSeq
<1>2. \A b \in Int : image(b) \in Int
  <2> SUFFICES ASSUME NEW b \in Int, hits(b) # {}
               PROVE  to[CHOOSE i \in hits(b) : \A k \in hits(b) : i <= k] \in Int
    BY Zenon
  <2>1. hits(b) \subseteq Nat /\ hits(b) \subseteq 1 .. Len(from)
    BY <1>1
  <2>2. \E m \in hits(b) : \A k \in hits(b) : m <= k
    BY <2>1, LeastNatural
  <2>3. (CHOOSE i \in hits(b) : \A k \in hits(b) : i <= k) \in hits(b)
    BY <2>2, Zenon
  <2> QED
    BY <1>1, <2>1, <2>3
<1>3. Mapped(t, from, to) = [j \in DOMAIN t |-> image(t[j])]
  BY DEF Mapped
<1> HIDE DEF image
<1>4. [j \in DOMAIN t |-> image(t[j])] \in Seq(Int)
      /\ Len([j \in DOMAIN t |-> image(t[j])]) = Len(t)
  BY <1>1, <1>2
<1>5. \A i, j \in DOMAIN t : t[i] = t[j] =>
        [k \in DOMAIN t |-> image(t[k])][i] = [k \in DOMAIN t |-> image(t[k])][j]
  BY Zenon
<1> QED
  BY <1>3, <1>4, <1>5 DEF Translates

-----------------------------------------------------------------------------
(* The calls, as steps of module Strings. *)

(* Each of these says what a call must do to the content.                  *)
LEMMA StrCat ==
  ASSUME Here, Here', NEW t, call' = <<"cat", t>>, Content(s)' = Content(s) \o t
  PROVE  Str!Next
BY DEF Str!Next, Str!Does

LEMMA StrCpy ==
  ASSUME Here, Here', NEW t, call' = <<"cpy", t>>, Content(s)' = t
  PROVE  Str!Next
BY DEF Str!Next, Str!Does

LEMMA StrClear ==
  ASSUME Here, Here', call' = <<"clear">>, Content(s)' = <<>>
  PROVE  Str!Next
BY DEF Str!Next, Str!Does

LEMMA StrCut ==
  ASSUME Here, Here', NEW n, call' = <<"cut", n>>,
         Content(s)' = SubSeq(Content(s), 1, Len(Content(s)) - n)
  PROVE  Str!Next
BY DEF Str!Next, Str!Does

LEMMA StrGrow ==
  ASSUME Here, Here', NEW n, call' = <<"growzero", n>>,
         Content(s)' = Content(s) \o [i \in 1 .. n - Len(Content(s)) |-> 0]
  PROVE  Str!Next
BY DEF Str!Next, Str!Does

LEMMA StrUpdate ==
  ASSUME Here, Here', call' = <<"updatelen">>, NEW n \in 0 .. Len(Content(s)),
         \A i \in 1 .. n : Content(s)[i] # 0,
         n < Len(Content(s)) => Content(s)[n + 1] = 0,
         Content(s)' = SubSeq(Content(s), 1, n)
  PROVE  Str!Next
BY DEF Str!Next, Str!Does, Str!UpdatedLen

LEMMA StrTrim ==
  ASSUME Here, Here', NEW cset, call' = <<"trim", cset>>,
         NEW i \in 1 .. Len(Content(s)) + 1, NEW j \in i - 1 .. Len(Content(s)),
         \A k \in DOMAIN Content(s) \ (i .. j) : Content(s)[k] \in cset \union {0},
         i <= j => /\ Content(s)[i] \notin cset \union {0}
                   /\ Content(s)[j] \notin cset \union {0},
         Content(s)' = SubSeq(Content(s), i, j)
  PROVE  Str!Next
<1>1. Str!Trimmed(cset)
  BY DEF Str!Trimmed
<1> QED
  BY <1>1 DEF Str!Next, Str!Does

LEMMA StrRange ==
  ASSUME Here, Here', NEW a, NEW b, call' = <<"range", a, b>>,
         Content(s)' =
           LET n == Len(Content(s))
               at(x) == IF x >= n THEN n - 1 ELSE IF x >= 0 THEN x
                        ELSE IF n + x >= 0 THEN n + x ELSE 0
           IN IF n = 0 \/ a >= n THEN <<>> ELSE SubSeq(Content(s), at(a) + 1, at(b) + 1)
  PROVE  Str!Next
<1>1. Str!Ranged(a, b)
  BY DEF Str!Ranged
<1> QED
  BY <1>1 DEF Str!Next, Str!Does

LEMMA StrTranslate ==
  ASSUME Here, Here', call' = <<"translate">>, Content(s) \in Seq(Int),
         NEW u, Content(s)' = u, Translates(Content(s), u)
  PROVE  Str!Next
<1>1. DOMAIN u = DOMAIN Content(s)
  BY LenProperties DEF Translates
<1>2. Str!Translated
  BY <1>1 DEF Str!Translated, Translates
<1> QED
  BY <1>2 DEF Str!Next, Str!Does

-----------------------------------------------------------------------------
(* The states. *)

(* What holds between any two steps; it is inductive as it stands.         *)
SdsInv == TypeOK /\ HeaderFits /\ Terminated

(* What every step does: it keeps the invariant, and is a call of module   *)
(* Strings or leaves call and content alone.                               *)
Progress == SdsInv' /\ [Str!Next]_(Str!svars)

LEMMA WhenTerminated ==
  ASSUME SdsInv, pc \in {"idle", "cat"}
  PROVE  /\ Holds(s, Content(s)) /\ Sound(s) /\ Here
         /\ Content(s) \in Seq(Int) /\ Len(Content(s)) = s.len /\ s.len \in Nat
<1>1. Fits(s) /\ Here
  BY DEF SdsInv, TypeOK, HeaderFits, Here, Fits, SdsRecord
<1>2. Len(s.text) = s.len + 1 /\ s.text[s.len + 1] = NUL
  BY DEF SdsInv, Terminated
<1>3. Holds(s, Content(s))
  BY <1>1, <1>2, WholeLemma
<1> QED
  BY <1>1, <1>3, HoldsLemma, ContentLemma, AvailLemma

LEMMA WhenOpen ==
  ASSUME SdsInv, pc = "fmt"
  PROVE  Sound(s) /\ Here
BY DEF SdsInv, TypeOK, HeaderFits, Terminated, Here, Fits, Sound, SdsRecord

LEMMA ThenTerminated ==
  ASSUME pc' \in {"idle", "cat"}, NEW t, Holds(s', t), todo' \in Seq(Seq(Int))
  PROVE  SdsInv' /\ Here' /\ Content(s)' = t
<1>1. /\ Fits(s') /\ Content(s') = t
      /\ Len(s'.text) = s'.len + 1 /\ s'.text[s'.len + 1] = NUL
  BY HoldsLemma DEF Holds
<1>2. TypeOK'
  BY <1>1 DEF TypeOK, Fits, SdsRecord
<1>3. HeaderFits'
  BY <1>1 DEF HeaderFits, Fits
<1>4. Terminated'
  BY <1>1 DEF Terminated
<1> QED
  BY <1>1, <1>2, <1>3, <1>4 DEF SdsInv, Here

LEMMA ThenOpen ==
  ASSUME pc' = "fmt", Sound(s'), todo' \in Seq(Seq(Int))
  PROVE  SdsInv' /\ Here'
<1>1. TypeOK'
  BY DEF TypeOK, Sound, Fits, SdsRecord
<1>2. HeaderFits'
  BY DEF HeaderFits, Sound, Fits
<1>3. Terminated'
  BY DEF Terminated, Sound
<1> QED
  BY <1>1, <1>2, <1>3 DEF SdsInv, Here

(* Holding the same with other room.                                       *)
LEMMA SameText ==
  ASSUME NEW x, NEW r, NEW t, Holds(x, t), Sound(r), r.len = x.len, r.text = x.text
  PROVE  Holds(r, t)
BY DEF Holds, Sound

(* A call that makes the string t, and one that keeps it.                  *)
LEMMA MakesLemma ==
  ASSUME SdsInv, NEW c, NEW r, NEW t, Makes(c, r), Holds(r, t)
  PROVE  /\ SdsInv' /\ Here /\ Here' /\ call' = c /\ Content(s)' = t
         /\ Content(s) \in Seq(Int)
<1>1. pc' \in {"idle", "cat"} /\ s' = r /\ call' = c /\ todo' \in Seq(Seq(Int)) /\ pc = "idle"
  BY DEF Makes, SdsInv, TypeOK
<1> QED
  BY <1>1, ThenTerminated, WhenTerminated

LEMMA KeepsLemma ==
  ASSUME SdsInv, NEW r, Keeps(r), Holds(r, Content(s))
  PROVE  Progress
<1>1. /\ pc = "idle" /\ pc' = "idle" /\ s' = r /\ call' = call
      /\ todo' \in Seq(Seq(Int))
  BY DEF Keeps, SdsInv, TypeOK
<1>2. SdsInv' /\ Here' /\ Content(s)' = Content(s)
  BY <1>1, ThenTerminated
<1>3. UNCHANGED Str!svars
  BY <1>1, <1>2 DEF Str!svars, Here
<1> QED
  BY <1>2, <1>3 DEF Progress

-----------------------------------------------------------------------------
(* One lemma for each call. *)

LEMMA TextsLemma ==
  ASSUME NEW t \in Texts
  PROVE  t \in Seq(Int) /\ Len(t) \in Nat
<1>1. t \in Seq(Bytes) /\ Bytes \subseteq Int
  BY TextsAssumption DEF Bytes
<1>2. t \in Seq(Int)
  BY <1>1, SeqMonotonic, Zenon
<1> QED
  BY <1>2, LenProperties

(* sdsnewlen, sdsfree, sdsdup, sdsMakeRoomFor and sdsRemoveFreeSpace.      *)
LEMMA NewStep ==
  ASSUME SdsInv, NEW t \in Seq(Int), New(t)
  PROVE  Progress /\ Content(s)' = t
<1>1. Len(t) \in Nat
  BY LenProperties
<1>2. Len(t) < Limit[4]
  BY <1>1, SizesAssumption, LimitLemma DEF New, Types
<1>3. Holds(NewLen(t), t)
  BY <1>1, <1>2, NewLenLemma
<1>4. /\ pc = "none" /\ pc' = "idle" /\ s' = NewLen(t) /\ call' = <<"new", t>>
      /\ todo' \in Seq(Seq(Int))
  BY DEF New, SdsInv, TypeOK
<1>5. SdsInv' /\ Here' /\ Content(s)' = t
  BY <1>3, <1>4, ThenTerminated
<1>6. Str!New
  BY <1>4, <1>5 DEF Str!New, Here
<1> QED
  BY <1>5, <1>6 DEF Progress, Str!Next

LEMMA FreeStep ==
  ASSUME SdsInv, Free
  PROVE  Progress
<1>1. pc = "idle" /\ pc' = "none" /\ s' = NoSds /\ call' = <<"free">> /\ todo' = todo
  BY DEF Free
<1>2. TypeOK'
  BY <1>1 DEF SdsInv, TypeOK, NoSds, Types
<1>3. SdsInv'
  BY <1>1, <1>2 DEF SdsInv, HeaderFits, Terminated, Here
<1>4. Str!Free
  BY <1>1 DEF Str!Free, Here
<1> QED
  BY <1>3, <1>4 DEF Progress, Str!Next

LEMMA DupStep ==
  ASSUME SdsInv, Dup
  PROVE  Progress
<1>1. pc = "idle"
  BY DEF Dup, Keeps
<1>2. /\ Content(s) \in Seq(Int) /\ Len(Content(s)) = s.len /\ s.len \in Nat /\ Fits(s)
  BY <1>1, WhenTerminated DEF Sound
<1>3. Len(Content(s)) < Limit[4]
  <2>1. s.type \in Types /\ s.len <= Alloc(s) /\ Alloc(s) < Limit[s.type] /\ Alloc(s) \in Nat
    BY <1>2, AvailLemma DEF Fits
  <2>2. Limit[s.type] \in Nat /\ Limit[4] \in Nat /\ Limit[s.type] <= Limit[4]
    BY <2>1, LimitLemma DEF Types
  <2> QED
    BY <1>2, <2>1, <2>2
<1>4. Holds(NewLen(Content(s)), Content(s))
  BY <1>2, <1>3, NewLenLemma
<1> QED
  BY <1>4, KeepsLemma DEF Dup

LEMMA ReserveStep ==
  ASSUME SdsInv, NEW n \in Nat, Reserve(n)
  PROVE  Progress
<1>1. pc = "idle" /\ s.len + n <= MaxLen /\ Keeps(MakeRoomFor(s, n))
  BY DEF Reserve, Keeps
<1>2. Holds(s, Content(s)) /\ Sound(s) /\ s.len \in Nat
  BY <1>1, WhenTerminated
<1>3. s.len + n <= SizeMax
  BY <1>1, <1>2, SizesAssumption
<1>4. Holds(MakeRoomFor(s, n), Content(s))
  BY <1>2, <1>3, MakeRoomLemma, SameText
<1> QED
  BY <1>1, <1>4, KeepsLemma

LEMMA ShrinkStep ==
  ASSUME SdsInv, Shrink
  PROVE  Progress
<1>1. pc = "idle" /\ Keeps(RemoveFreeSpace(s))
  BY DEF Shrink, Keeps
<1>2. Holds(RemoveFreeSpace(s), Content(s))
  BY <1>1, WhenTerminated, RemoveFreeSpaceLemma, SameText
<1> QED
  BY <1>1, <1>2, KeepsLemma

(* sdscatlen, sdscpylen, sdsgrowzero.                                      *)
LEMMA CatStep ==
  ASSUME SdsInv, NEW t \in Texts, Cat(t)
  PROVE  Progress
<1>1. pc = "idle" /\ s.len + Len(t) <= MaxLen /\ Makes(<<"cat", t>>, CatLen(s, t))
  BY DEF Cat, Makes
<1>2. Sound(s) /\ s.len \in Nat /\ s.len + Len(t) <= SizeMax
  BY <1>1, WhenTerminated, SizesAssumption, TextsLemma
<1>3. Holds(CatLen(s, t), Content(s) \o t)
  BY <1>2, TextsLemma, CatLenLemma
<1>4. SdsInv' /\ Here /\ Here' /\ call' = <<"cat", t>> /\ Content(s)' = Content(s) \o t
  BY <1>1, <1>3, MakesLemma
<1>5. Str!Next
  BY <1>4, StrCat
<1> QED
  BY <1>4, <1>5 DEF Progress

LEMMA CpyStep ==
  ASSUME SdsInv, NEW t \in Texts, Cpy(t)
  PROVE  Progress
<1>1. pc = "idle" /\ Len(t) <= MaxLen /\ Makes(<<"cpy", t>>, CpyLen(s, t))
  BY DEF Cpy, Makes
<1>2. Sound(s) /\ Len(t) <= SizeMax
  BY <1>1, WhenTerminated, SizesAssumption, TextsLemma
<1>3. Holds(CpyLen(s, t), t)
  BY <1>2, TextsLemma, CpyLenLemma
<1> QED
  BY <1>1, <1>3, MakesLemma, StrCpy DEF Progress

LEMMA GrowStep ==
  ASSUME SdsInv, NEW n \in 1 .. MaxLen, Grow(n)
  PROVE  Progress
<1>1. pc = "idle" /\ Makes(<<"growzero", n>>, GrowZero(s, n))
  BY DEF Grow, Makes
<1>2. n \in Nat /\ n <= SizeMax
  BY SizesAssumption
<1>3. Holds(GrowZero(s, n), Content(s) \o [i \in 1 .. n - Len(Content(s)) |-> 0])
  BY <1>1, <1>2, WhenTerminated, GrowZeroLemma
<1>4. SdsInv' /\ Here /\ Here' /\ call' = <<"growzero", n>> /\ Content(s)' = Content(s) \o [i \in 1 .. n - Len(Content(s)) |-> 0]
  BY <1>1, <1>3, MakesLemma
<1>5. Str!Next
  BY <1>4, StrGrow
<1> QED
  BY <1>4, <1>5 DEF Progress

(* sdsIncrLen, both ways.                                                  *)
LEMMA IncrLenStep ==
  ASSUME SdsInv, NEW t \in Texts, IncrLen(t)
  PROVE  Progress
<1>1. /\ pc = "idle" /\ Avail(s) >= Len(t)
      /\ Makes(<<"cat", t>>, SetLen(Put(s, s.len, Append(t, NUL)), s.len + Len(t)))
  BY DEF IncrLen, Makes
<1>2. Sound(s) /\ s.len \in Nat /\ Fits(s)
  BY <1>1, WhenTerminated DEF Sound
<1>3. s.len + Len(t) <= Alloc(s)
  BY <1>1, <1>2, AvailLemma, TextsLemma
<1>4. Holds(SetLen(Put(s, s.len, Append(t, NUL)), s.len + Len(t)), Content(s) \o t)
  BY <1>2, <1>3, TextsLemma, BehindLemma
<1>5. SdsInv' /\ Here /\ Here' /\ call' = <<"cat", t>> /\ Content(s)' = Content(s) \o t
  BY <1>1, <1>4, MakesLemma
<1>6. Str!Next
  BY <1>5, StrCat
<1> QED
  BY <1>5, <1>6 DEF Progress

(* A piece of the content fits where the content was.                      *)
LEMMA PieceLemma ==
  ASSUME SdsInv, pc = "idle", NEW t \in Seq(Int), Len(t) <= s.len
  PROVE  Holds(SetText(s, t), t)
<1>1. Fits(s) /\ s.len <= Alloc(s) /\ s.len \in Nat /\ Alloc(s) \in Nat /\ Len(t) \in Nat
  BY WhenTerminated, AvailLemma, LenProperties DEF Sound, Fits
<1>2. Len(t) <= Alloc(s)
  BY <1>1
<1> QED
  BY <1>1, <1>2, SetTextLemma

(* The first bytes of the text are those of the content.                   *)
LEMMA FrontLemma ==
  ASSUME SdsInv, pc = "idle", NEW n \in Nat, n <= s.len
  PROVE  /\ Prefix(s.text, n) = SubSeq(Content(s), 1, n)
         /\ Prefix(s.text, n) \in Seq(Int) /\ Len(Prefix(s.text, n)) = n
<1>1. PICK c : c = Content(s)
  OBVIOUS
<1>2. s.text = Append(c, NUL) /\ c \in Seq(Int) /\ Len(c) = s.len /\ NUL \in Int
      /\ s.len \in Nat
  BY <1>1, WhenTerminated DEF Holds, NUL
<1>3. Prefix(s.text, n) = Prefix(c, n)
  BY <1>2, PrefixOfAppend
<1>4. Prefix(c, n) = SubSeq(c, 1, n)
  BY <1>2 DEF Prefix
<1>5. Prefix(c, n) \in Seq(Int) /\ Len(Prefix(c, n)) = n
  BY <1>2, PrefixShort
<1> QED
  BY <1>1, <1>3, <1>4, <1>5

LEMMA DecrLenStep ==
  ASSUME SdsInv, NEW n \in 1 .. MaxLen, DecrLen(n)
  PROVE  Progress
<1>1. /\ pc = "idle" /\ n <= s.len
      /\ Makes(<<"cut", n>>, SetText(s, Prefix(s.text, s.len - n)))
  BY DEF DecrLen, Makes
<1>2. PICK k : k = s.len - n
  OBVIOUS
<1>3. k \in Nat /\ k <= s.len /\ Len(Content(s)) = s.len
  BY <1>1, <1>2, WhenTerminated
<1>4. /\ Prefix(s.text, k) = SubSeq(Content(s), 1, k)
      /\ Prefix(s.text, k) \in Seq(Int) /\ Len(Prefix(s.text, k)) = k
  BY <1>1, <1>3, FrontLemma
<1>5. Holds(SetText(s, Prefix(s.text, k)), Prefix(s.text, k))
  BY <1>1, <1>3, <1>4, PieceLemma
<1>6. SdsInv' /\ Here /\ Here' /\ call' = <<"cut", n>> /\ Content(s)' = Prefix(s.text, k)
  BY <1>1, <1>2, <1>5, MakesLemma
<1>7. Str!Next
  BY <1>2, <1>3, <1>4, <1>6, StrCut
<1> QED
  BY <1>6, <1>7 DEF Progress

LEMMA ClearStep ==
  ASSUME SdsInv, Clear
  PROVE  Progress
<1>1. pc = "idle" /\ Makes(<<"clear">>, SetText(s, <<>>))
  BY DEF Clear, Makes
<1>2. <<>> \in Seq(Int) /\ Len(<<>>) <= s.len
  BY <1>1, WhenTerminated, EmptySeq
<1>3. Holds(SetText(s, <<>>), <<>>)
  BY <1>1, <1>2, PieceLemma
<1> QED
  BY <1>1, <1>3, MakesLemma, StrClear DEF Progress

(* sdsupdatelen, sdstrim, sdsrange.                                        *)
LEMMA UpdateStep ==
  ASSUME SdsInv, Update
  PROVE  Progress
<1>1. PICK n \in 0 .. s.len :
        /\ IsStrLen(s.text, n)
        /\ Makes(<<"updatelen">>, SetText(s, Prefix(s.text, n)))
  BY DEF Update
<1>2. pc = "idle"
  BY <1>1 DEF Makes
<1>3. PICK c : c = Content(s)
  OBVIOUS
<1>4. /\ s.text = Append(c, NUL) /\ c \in Seq(Int) /\ Len(c) = s.len /\ NUL \in Int
      /\ s.len \in Nat /\ n \in Nat /\ n <= s.len
  BY <1>2, <1>3, WhenTerminated DEF Holds, NUL
<1>5. /\ Prefix(s.text, n) = SubSeq(c, 1, n)
      /\ Prefix(s.text, n) \in Seq(Int) /\ Len(Prefix(s.text, n)) = n
  BY <1>2, <1>3, <1>4, FrontLemma
<1>6. Holds(SetText(s, Prefix(s.text, n)), Prefix(s.text, n))
  BY <1>2, <1>4, <1>5, PieceLemma
<1>7. /\ SdsInv' /\ Here /\ Here' /\ call' = <<"updatelen">>
      /\ Content(s)' = SubSeq(c, 1, n)
  BY <1>1, <1>5, <1>6, MakesLemma
<1>8. \A i \in 1 .. Len(c) : s.text[i] = c[i]
  BY <1>4, AppendLemma
<1>9. s.text[n + 1] = 0 /\ \A i \in 1 .. n : s.text[i] # 0
  BY <1>1 DEF IsStrLen, NUL
<1>10. \A i \in 1 .. n : c[i] # 0
  BY <1>4, <1>8, <1>9
<1>11. n < Len(c) => c[n + 1] = 0
  BY <1>4, <1>8, <1>9
<1>12. n \in 0 .. Len(c)
  BY <1>4
<1>13. Str!Next
  BY <1>3, <1>7, <1>10, <1>11, <1>12, StrUpdate
<1> QED
  BY <1>7, <1>13 DEF Progress

LEMMA TrimStep ==
  ASSUME SdsInv, NEW cset, Trim(cset)
  PROVE  Progress
<1>1. pc = "idle"
  BY DEF Trim, Makes
<1>2. PICK c : c = Content(s)
  OBVIOUS
<1>3. c \in Seq(Int) /\ Len(c) = s.len
  BY <1>1, <1>2, WhenTerminated
<1>4. PICK sp \in 1 .. s.len + 1, ep \in 0 .. s.len :
        /\ TrimStops(c, cset, sp, ep)
        /\ Makes(<<"trim", cset>>, SetText(s, SubSeq(c, sp, ep)))
  BY <1>2 DEF Trim
<1>5. /\ SubSeq(c, sp, ep) \in Seq(Int) /\ Len(SubSeq(c, sp, ep)) <= Len(c)
      /\ ep \in sp - 1 .. Len(c)
      /\ \A k \in DOMAIN c \ (sp .. ep) : c[k] \in cset \union {0}
      /\ sp <= ep => c[sp] \notin cset \union {0} /\ c[ep] \notin cset \union {0}
  BY <1>3, <1>4, TrimLemma
<1>6. PICK t : t = SubSeq(c, sp, ep)
  OBVIOUS
<1>7. Holds(SetText(s, t), t)
  BY <1>1, <1>3, <1>5, <1>6, PieceLemma
<1>8. SdsInv' /\ Here /\ Here' /\ call' = <<"trim", cset>> /\ Content(s)' = t
  BY <1>4, <1>6, <1>7, MakesLemma
<1>9. sp \in 1 .. Len(c) + 1
  BY <1>3
<1>10. Str!Next
  BY <1>2, <1>5, <1>6, <1>8, <1>9, StrTrim
<1> QED
  BY <1>8, <1>10 DEF Progress

LEMMA CutRangeStep ==
  ASSUME SdsInv, NEW a \in Indexes, NEW b \in Indexes, CutRange(a, b)
  PROVE  Progress
<1>1. pc = "idle" /\ Makes(<<"range", a, b>>, SetText(s, SubRange(Content(s), a, b)))
  BY DEF CutRange, Makes
<1>2. a \in Int /\ b \in Int
  BY TextsAssumption
<1>3. Content(s) \in Seq(Int) /\ Len(Content(s)) = s.len
  BY <1>1, WhenTerminated
<1>4. PICK t : t = SubRange(Content(s), a, b)
  OBVIOUS
<1>5. /\ t \in Seq(Int) /\ Len(t) <= Len(Content(s))
      /\ t = LET n == Len(Content(s))
                 at(x) == IF x >= n THEN n - 1 ELSE IF x >= 0 THEN x
                          ELSE IF n + x >= 0 THEN n + x ELSE 0
             IN IF n = 0 \/ a >= n THEN <<>> ELSE SubSeq(Content(s), at(a) + 1, at(b) + 1)
  BY <1>2, <1>3, <1>4, SubRangeLemma
<1>6. Holds(SetText(s, t), t)
  BY <1>1, <1>3, <1>5, PieceLemma
<1>7. SdsInv' /\ Here /\ Here' /\ call' = <<"range", a, b>> /\ Content(s)' = t
  BY <1>1, <1>4, <1>6, MakesLemma
<1>8. Str!Next
  BY <1>5, <1>7, StrRange
<1> QED
  BY <1>7, <1>8 DEF Progress

(* sdstolower, sdstoupper, sdsmapchars.                                    *)
LEMMA TranslateStep ==
  ASSUME SdsInv, NEW u, Translates(Content(s), u), Translate(u)
  PROVE  Progress
<1>1. pc = "idle" /\ Makes(<<"translate">>, SetText(s, u))
  BY DEF Translate, Makes
<1>2. Content(s) \in Seq(Int) /\ Len(Content(s)) = s.len /\ s.len \in Nat
  BY <1>1, WhenTerminated
<1>3. u \in Seq(Int) /\ Len(u) <= s.len
  BY <1>2 DEF Translates
<1>4. Holds(SetText(s, u), u)
  BY <1>1, <1>3, PieceLemma
<1>5. SdsInv' /\ Here /\ Here' /\ call' = <<"translate">> /\ Content(s)' = u
  BY <1>1, <1>4, MakesLemma
<1>6. Str!Next
  BY <1>2, <1>5, StrTranslate
<1> QED
  BY <1>5, <1>6 DEF Progress

LEMMA ToLowerStep ==
  ASSUME SdsInv, ToLower \/ ToUpper
  PROVE  Progress
<1>1. pc = "idle"
  BY DEF ToLower, ToUpper, Translate, Makes
<1>2. Content(s) \in Seq(Int)
  BY <1>1, WhenTerminated
<1>3. CASE ToLower
  BY <1>2, <1>3, CaseLemma, TranslateStep DEF ToLower
<1>4. CASE ToUpper
  BY <1>2, <1>4, CaseLemma, TranslateStep DEF ToUpper
<1> QED
  BY <1>3, <1>4

LEMMA MapCharsStep ==
  ASSUME SdsInv, NEW t \in Texts, NEW u \in Texts, MapChars(t, u)
  PROVE  Progress
<1>1. pc = "idle" /\ Len(t) = Len(u) /\ Translate(Mapped(Content(s), t, u))
  BY DEF MapChars, Translate, Makes
<1>2. Content(s) \in Seq(Int)
  BY <1>1, WhenTerminated
<1>3. Translates(Content(s), Mapped(Content(s), t, u))
  BY <1>1, <1>2, TextsLemma, MappedLemma
<1> QED
  BY <1>1, <1>3, TranslateStep

(* sdscatrepr: the start and a piece.                                      *)
LEMMA CatReprStep ==
  ASSUME SdsInv, NEW p \in Reprs, CatRepr(p)
  PROVE  Progress
<1>1. /\ pc = "idle" /\ pc' = "cat" /\ s' = s /\ call' = call
      /\ todo' \in Seq(Seq(Int))
  BY PiecesLemma DEF CatRepr
<1>2. Holds(s', Content(s)) /\ Here
  BY <1>1, WhenTerminated
<1>3. SdsInv' /\ Here' /\ Content(s)' = Content(s)
  BY <1>1, <1>2, ThenTerminated
<1>4. UNCHANGED Str!svars
  BY <1>1, <1>2, <1>3 DEF Str!svars
<1> QED
  BY <1>3, <1>4 DEF Progress

LEMMA CatNextStep ==
  ASSUME SdsInv, CatNext
  PROVE  Progress /\ Content(s)' = Content(s) \o Head(todo)
<1>1. PICK t : t = Head(todo)
  OBVIOUS
<1>2. /\ pc = "cat" /\ todo # <<>> /\ s.len + Len(t) <= SizeMax
      /\ s' = CatLen(s, t) /\ call' = <<"cat", t>> /\ todo' = Tail(todo)
      /\ pc' \in {"idle", "cat"}
  BY <1>1 DEF CatNext
<1>3. t \in Seq(Int) /\ todo' \in Seq(Seq(Int))
  <2>1. todo \in Seq(Seq(Int)) /\ todo # <<>>
    BY <1>2 DEF SdsInv, TypeOK
  <2> QED
    BY <1>1, <1>2, <2>1, HeadTailProperties
<1>4. Sound(s) /\ Here
  BY <1>2, WhenTerminated
<1>5. Holds(s', Content(s) \o t)
  BY <1>2, <1>3, <1>4, CatLenLemma
<1>6. SdsInv' /\ Here' /\ Content(s)' = Content(s) \o t
  BY <1>2, <1>3, <1>5, ThenTerminated
<1>7. Str!Next
  BY <1>2, <1>4, <1>6, StrCat
<1> QED
  BY <1>1, <1>6, <1>7 DEF Progress

(* sdscatfmt: the start, a round, the end.                                 *)
LEMMA CatFmtStep ==
  ASSUME SdsInv, NEW f \in Fmts, CatFmt(f)
  PROVE  Progress
<1>1. f.len \in Nat /\ f.items \in Seq(Seq(Bytes))
  BY TextsAssumption
<1>2. f.items \in Seq(Seq(Int))
  <2>1. Bytes \subseteq Int
    BY DEF Bytes
  <2>2. Seq(Bytes) \subseteq Seq(Int)
    BY <2>1, SeqMonotonic, Zenon
  <2> QED
    BY <1>1, <2>2, SeqMonotonic, Zenon
<1>3. PICK n : n = s.len + 2 * f.len
  OBVIOUS
<1> SUFFICES ASSUME pc' # "crashed" PROVE Progress
  <2>1. CASE pc' = "crashed"
    <3>1. pc = "idle" /\ s' = s /\ todo' = todo /\ call' = call
      BY <2>1 DEF CatFmt
    <3>2. SdsInv'
      BY <2>1, <3>1 DEF SdsInv, TypeOK, HeaderFits, Terminated, Here
    <3>3. UNCHANGED Str!svars
      BY <2>1, <3>1 DEF Str!svars, Here
    <3> QED
      BY <3>2, <3>3 DEF Progress
  <2> QED
    BY <2>1
<1>4. /\ pc = "idle" /\ pc' = "fmt" /\ s.len + n <= MaxLen
      /\ s' = MakeRoomFor(s, n) /\ call' = call /\ todo' \in Seq(Seq(Int))
  <2>1. s.len \in Nat
    BY WhenTerminated DEF CatFmt
  <2> QED
    BY <1>1, <1>2, <1>3, <2>1 DEF CatFmt
<1>5. Sound(s) /\ s.len \in Nat /\ Here
  BY <1>4, WhenTerminated
<1>6. n \in Nat /\ s.len + n <= SizeMax
  BY <1>1, <1>3, <1>4, <1>5, SizesAssumption, SMTT(30)
<1>7. Sound(s') /\ Content(s') = Content(s)
  BY <1>4, <1>5, <1>6, MakeRoomLemma DEF Content
<1>8. SdsInv' /\ Here'
  BY <1>4, <1>7, ThenOpen
<1>9. UNCHANGED Str!svars
  BY <1>4, <1>5, <1>7, <1>8 DEF Str!svars
<1> QED
  BY <1>8, <1>9 DEF Progress

LEMMA FmtNextStep ==
  ASSUME SdsInv, FmtNext
  PROVE  Progress
<1>1. PICK t : t = Head(todo)
  OBVIOUS
<1>2. /\ pc = "fmt" /\ todo # <<>> /\ s.len + Len(t) <= SizeMax /\ s.len < SizeMax
      /\ s' = FmtRound(s, t) /\ call' = <<"cat", t>> /\ todo' = Tail(todo) /\ pc' = "fmt"
  BY <1>1 DEF FmtNext
<1>3. t \in Seq(Int) /\ todo' \in Seq(Seq(Int))
  <2>1. todo \in Seq(Seq(Int)) /\ todo # <<>>
    BY <1>2 DEF SdsInv, TypeOK
  <2> QED
    BY <1>1, <1>2, <2>1, HeadTailProperties
<1>4. Sound(s) /\ Here
  BY <1>2, WhenOpen
<1>5. Sound(s') /\ Content(s') = Content(s) \o t
  BY <1>2, <1>3, <1>4, FmtRoundLemma
<1>6. SdsInv' /\ Here'
  BY <1>2, <1>3, <1>5, ThenOpen
<1>7. Str!Next
  BY <1>2, <1>4, <1>5, <1>6, StrCat
<1> QED
  BY <1>6, <1>7 DEF Progress

LEMMA FmtEndStep ==
  ASSUME SdsInv, FmtEnd
  PROVE  Progress
<1>1. /\ pc = "fmt" /\ pc' = "idle" /\ s' = Put(s, s.len, <<NUL>>) /\ call' = call
      /\ todo' \in Seq(Seq(Int))
  BY DEF FmtEnd, SdsInv, TypeOK
<1>2. Sound(s) /\ Here
  BY <1>1, WhenOpen
<1>3. Holds(s', Content(s))
  BY <1>1, <1>2, EndLemma
<1>4. SdsInv' /\ Here' /\ Content(s)' = Content(s)
  BY <1>1, <1>3, ThenTerminated
<1>5. UNCHANGED Str!svars
  BY <1>1, <1>2, <1>4 DEF Str!svars
<1> QED
  BY <1>4, <1>5 DEF Progress

LEMMA CrashStep ==
  ASSUME SdsInv, Crash
  PROVE  Progress
<1>1. /\ pc \in {"cat", "fmt"} /\ pc' = "crashed" /\ s' = s /\ todo' = todo /\ call' = call
  BY DEF Crash
<1>2. SdsInv'
  BY <1>1 DEF SdsInv, TypeOK, HeaderFits, Terminated, Here
<1>3. UNCHANGED Str!svars
  BY <1>1 DEF Str!svars, Here
<1> QED
  BY <1>2, <1>3 DEF Progress

-----------------------------------------------------------------------------
(* The theorems. *)

LEMMA InitInv ==
  ASSUME Init
  PROVE  SdsInv /\ Str!Init
<1>1. pc = "none" /\ s = NoSds /\ todo = <<>> /\ call = <<"none">>
  BY DEF Init
<1>2. TypeOK
  BY <1>1 DEF TypeOK, NoSds, Types
<1>3. SdsInv
  BY <1>1, <1>2 DEF SdsInv, HeaderFits, Terminated, Here
<1>4. Str!Init
  BY <1>1 DEF Str!Init, Here
<1> QED
  BY <1>3, <1>4

LEMMA WorkStep ==
  ASSUME SdsInv, Work
  PROVE  Progress
<1>1. ASSUME NEW t \in Texts, Cat(t) \/ Cpy(t) \/ IncrLen(t)
      PROVE  Progress
  BY <1>1, CatStep, CpyStep, IncrLenStep
<1>2. ASSUME NEW n \in 1 .. MaxLen, Reserve(n) \/ DecrLen(n) \/ Grow(n)
      PROVE  Progress
  BY <1>2, ReserveStep, DecrLenStep, GrowStep
<1>3. ASSUME Dup \/ Shrink \/ Update \/ Clear \/ ToLower \/ ToUpper
      PROVE  Progress
  BY <1>3, DupStep, ShrinkStep, UpdateStep, ClearStep, ToLowerStep
<1>4. ASSUME NEW cset \in Csets, Trim(cset)
      PROVE  Progress
  BY <1>4, TrimStep
<1>5. ASSUME NEW a \in Indexes, NEW b \in Indexes, CutRange(a, b)
      PROVE  Progress
  BY <1>5, CutRangeStep
<1>6. ASSUME NEW t \in Texts, NEW u \in Texts, MapChars(t, u)
      PROVE  Progress
  BY <1>6, MapCharsStep
<1>7. ASSUME NEW f \in Fmts, CatFmt(f)
      PROVE  Progress
  BY <1>7, CatFmtStep
<1> QED
  BY <1>1, <1>2, <1>3, <1>4, <1>5, <1>6, <1>7 DEF Work

(* Every step of Sds keeps the invariant and is a step of Strings.         *)
LEMMA NextStep ==
  ASSUME SdsInv, [Next]_cvars
  PROVE  Progress
<1>1. CASE \E t \in Texts : New(t)
  BY <1>1, TextsLemma, NewStep
<1>2. CASE \E p \in Reprs : CatRepr(p)
  BY <1>2, CatReprStep
<1>3. CASE Free
  BY <1>3, FreeStep
<1>4. CASE Work
  BY <1>4, WorkStep
<1>5. CASE Loop
  BY <1>5, CatNextStep, FmtNextStep, FmtEndStep, CrashStep DEF Loop
<1>6. CASE UNCHANGED cvars
  <2>1. pc' = pc /\ s' = s /\ todo' = todo /\ call' = call
    BY <1>6 DEF cvars
  <2>2. SdsInv'
    BY <2>1 DEF SdsInv, TypeOK, HeaderFits, Terminated, Here
  <2>3. UNCHANGED Str!svars
    BY <2>1 DEF Str!svars, Here
  <2> QED
    BY <2>2, <2>3 DEF Progress
<1> QED
  BY <1>1, <1>2, <1>3, <1>4, <1>5, <1>6 DEF Next

(* The invariant of every behavior.                                        *)
THEOREM SdsInvariant == Spec => []SdsInv
<1>1. SdsInv /\ [Next]_cvars => SdsInv'
  BY NextStep DEF Progress
<1> QED
  BY InitInv, <1>1, PTL DEF Spec

(* Whatever the widths of the headers, an sds is well typed in every call  *)
(* of sds.c, and its header is one of the five.                            *)
THEOREM SdsTypeOK == Spec => []TypeOK
BY SdsInvariant, PTL DEF SdsInv

(* After every call the header tells the truth about the block: no call    *)
(* writes beyond what was allocated, no field wraps, and sdsfree           *)
(* (sds.c:167) steps back over the header that was laid out.               *)
THEOREM HeadersFit == Spec => []HeaderFits
BY SdsInvariant, PTL DEF SdsInv

(* Between calls the string ends with a NUL byte (sds.c:81), and its       *)
(* length is right in every round of sdscatfmt.                            *)
THEOREM StringsTerminated == Spec => []Terminated
BY SdsInvariant, PTL DEF SdsInv

(* Each call of sds.c does to the content what its comment says, through   *)
(* every change of header and every growth: Sds implements Strings.        *)
THEOREM SdsImplementsStrings == Spec => IsString
<1>1. SdsInv /\ [Next]_cvars => [Str!Next]_(Str!svars)
  BY NextStep DEF Progress
<1> QED
  BY InitInv, SdsInvariant, <1>1, PTL DEF Spec, IsString, Str!Spec

-----------------------------------------------------------------------------
(* Numbers, and functions defined by recursion over them. *)

(* Induction, over a set.                                                  *)
LEMMA Induction ==
  ASSUME NEW S, 0 \in S, \A n \in Nat : n \in S => n + 1 \in S
  PROVE  Nat \subseteq S
<1> SUFFICES ASSUME Nat \ S # {} PROVE FALSE
  OBVIOUS
<1>1. PICK x \in Nat \ S : \A y \in Nat \ S : x <= y
  BY LeastNatural
<1>2. x # 0 /\ x - 1 \in Nat /\ x - 1 \in S
  BY <1>1
<1>3. (x - 1) + 1 \in S
  BY <1>2
<1> QED
  BY <1>1, <1>3

(* What holds of a number when it holds of all smaller ones.               *)
LEMMA StrongInduction ==
  ASSUME NEW S, \A n \in Nat : (\A k \in Nat : k < n => k \in S) => n \in S
  PROVE  Nat \subseteq S
<1> SUFFICES ASSUME Nat \ S # {} PROVE FALSE
  OBVIOUS
<1>1. PICK x \in Nat \ S : \A y \in Nat \ S : x <= y
  BY LeastNatural
<1>2. \A k \in Nat : k < x => k \in S
  BY <1>1
<1> QED
  BY <1>1, <1>2

(* A function whose value is given or follows from one before it.          *)
Steps(f, n, B, c, p, G) ==
  \A v \in 0 .. n : f[v] = IF v \in B THEN c[v] ELSE G[v][f[p[v]]]

Ground(S, B, c, p, G) ==
  /\ c \in [Nat -> S] /\ p \in [Nat -> Nat] /\ G \in [Nat -> [S -> S]]
  /\ \A v \in Nat : v \in B \/ p[v] < v

LEMMA StepsExist ==
  ASSUME NEW S, NEW B, NEW c, NEW p, NEW G, Ground(S, B, c, p, G)
  PROVE  \A n \in Nat : \E f \in [0 .. n -> S] : Steps(f, n, B, c, p, G)
<1>  /\ c \in [Nat -> S] /\ p \in [Nat -> Nat] /\ G \in [Nat -> [S -> S]]
      /\ \A v \in Nat : v \in B \/ p[v] < v
  BY DEF Ground
<1> DEFINE next(f, v) == IF v \in B THEN c[v] ELSE G[v][f[p[v]]]
           Ns == {n \in Nat : \E f \in [0 .. n -> S] : \A v \in 0 .. n : f[v] = next(f, v)}
<1>1. 0 \in Ns
  <2> DEFINE f == [v \in 0 .. 0 |-> c[0]]
  <2>1. 0 \in B
    OBVIOUS
  <2>2. f \in [0 .. 0 -> S] /\ f[0] = next(f, 0) /\ \A v \in 0 .. 0 : v = 0
    BY <2>1
  <2> HIDE DEF f, next
  <2>3. \A v \in 0 .. 0 : f[v] = next(f, v)
    BY <2>2
  <2> QED
    BY <2>2, <2>3
<1>2. ASSUME NEW n \in Nat, n \in Ns PROVE n + 1 \in Ns
  <2>1. PICK f \in [0 .. n -> S] : \A v \in 0 .. n : f[v] = next(f, v)
    BY <1>2
  <2> DEFINE g == [v \in 0 .. n + 1 |-> IF v = n + 1 THEN next(f, v) ELSE f[v]]
  <2>2. ASSUME NEW v \in 0 .. n + 1 PROVE next(f, v) \in S /\ next(g, v) = next(f, v)
    <3>1. CASE v \in B
      BY <3>1
    <3>2. CASE v \notin B
      <4>1. p[v] \in 0 .. n
        BY <3>2
      <4>2. g[p[v]] = f[p[v]] /\ f[p[v]] \in S
        BY <4>1
      <4> HIDE DEF g
      <4> QED
        BY <3>2, <4>2
    <3> QED
      BY <3>1, <3>2
  <2>3. ASSUME NEW v \in 0 .. n + 1 PROVE g[v] = next(f, v) /\ g[v] \in S
    <3>1. CASE v = n + 1
      BY <2>2, <3>1
    <3>2. CASE v \in 0 .. n
      <4>1. g[v] = f[v] /\ f[v] = next(f, v)
        BY <2>1, <3>2
      <4> HIDE DEF g, next
      <4> QED
        BY <2>2, <4>1
    <3> QED
      BY <3>1, <3>2
  <2>4. g \in [0 .. n + 1 -> S]
    BY <2>3
  <2> HIDE DEF g, next
  <2>5. \A v \in 0 .. n + 1 : g[v] = next(g, v)
    BY <2>2, <2>3
  <2>6. n + 1 \in Nat
    OBVIOUS
  <2> QED
    BY <2>4, <2>5, <2>6, Zenon
<1> HIDE DEF next
<1>3. Nat \subseteq Ns
  <2> HIDE DEF Ns
  <2> QED
    BY <1>1, <1>2, Induction
<1> QED
  BY <1>3 DEF Steps, next

LEMMA StepsUnique ==
  ASSUME NEW S, NEW B, NEW c, NEW p, NEW G, Ground(S, B, c, p, G),
         NEW n \in Nat, NEW m \in Nat, NEW f, NEW g,
         Steps(f, n, B, c, p, G), Steps(g, m, B, c, p, G)
  PROVE  \A v \in Nat : v <= n /\ v <= m => f[v] = g[v]
<1>  /\ c \in [Nat -> S] /\ p \in [Nat -> Nat] /\ G \in [Nat -> [S -> S]]
      /\ \A v \in Nat : v \in B \/ p[v] < v
  BY DEF Ground
<1> DEFINE Ns == {v \in Nat : v <= n /\ v <= m => f[v] = g[v]}
<1>1. ASSUME NEW v \in Nat, \A k \in Nat : k < v => k \in Ns PROVE v \in Ns
  <2> SUFFICES ASSUME v <= n, v <= m PROVE f[v] = g[v]
    OBVIOUS
  <2>1. /\ f[v] = IF v \in B THEN c[v] ELSE G[v][f[p[v]]]
        /\ g[v] = IF v \in B THEN c[v] ELSE G[v][g[p[v]]]
    BY DEF Steps
  <2>2. v \notin B => f[p[v]] = g[p[v]]
    BY <1>1
  <2> QED
    BY <2>1, <2>2
<1> HIDE DEF Ns
<1>2. Nat \subseteq Ns
  BY <1>1, StrongInduction
<1> QED
  BY <1>2 DEF Ns

Recurs(f, S, B, c, p, G) ==
  f \in [Nat -> S] /\ \A v \in Nat : f[v] = IF v \in B THEN c[v] ELSE G[v][f[p[v]]]

LEMMA Recursion ==
  ASSUME NEW S, NEW B, NEW c, NEW p, NEW G, Ground(S, B, c, p, G)
  PROVE  \E f : Recurs(f, S, B, c, p, G)
<1>  /\ c \in [Nat -> S] /\ p \in [Nat -> Nat] /\ G \in [Nat -> [S -> S]]
      /\ \A v \in Nat : v \in B \/ p[v] < v
  BY DEF Ground
<1> DEFINE Up(n, f) == f \in [0 .. n -> S] /\ Steps(f, n, B, c, p, G)
           at(n) == CHOOSE f : Up(n, f)
           g == [v \in Nat |-> at(v)[v]]
<1>1. \A n \in Nat : Up(n, at(n))
  BY StepsExist
<1>2. ASSUME NEW n \in Nat, NEW v \in Nat, v <= n PROVE at(n)[v] = at(v)[v]
  <2>1. Steps(at(n), n, B, c, p, G) /\ Steps(at(v), v, B, c, p, G)
    BY <1>1
  <2> HIDE DEF at
  <2>2. n <= n /\ v <= v
    OBVIOUS
  <2>3. \A i \in Nat : i <= n /\ i <= v => at(n)[i] = at(v)[i]
    BY <2>1, StepsUnique
  <2> QED
    BY <1>2, <2>2, <2>3
<1> HIDE DEF at
<1>3. ASSUME NEW v \in Nat
      PROVE  g[v] \in S /\ g[v] = IF v \in B THEN c[v] ELSE G[v][g[p[v]]]
  <2>1. at(v)[v] \in S /\ at(v)[v] = IF v \in B THEN c[v] ELSE G[v][at(v)[p[v]]]
    BY <1>1 DEF Steps
  <2>2. v \notin B => at(v)[p[v]] = at(p[v])[p[v]]
    BY <1>2
  <2>3. g[v] = at(v)[v] /\ g[p[v]] = at(p[v])[p[v]]
    OBVIOUS
  <2> HIDE DEF g
  <2> QED
    BY <2>1, <2>2, <2>3
<1>4. g \in [Nat -> S]
  BY <1>3
<1> HIDE DEF g
<1> QED
  BY <1>3, <1>4 DEF Recurs

-----------------------------------------------------------------------------
(* sdsfromlonglong. *)

(* What Tens and the digits of sdsll2str satisfy. *)
LEMMA TensAre ==
  \A k \in Nat : Tens[k] = IF k = 0 THEN 1 ELSE 10 * Tens[k - 1]
<1> DEFINE c == [v \in Nat |-> 1]
           p == [v \in Nat |-> IF v = 0 THEN 0 ELSE v - 1]
           G == [v \in Nat |-> [x \in Int |-> 10 * x]]
<1>1. c \in [Nat -> Int] /\ p \in [Nat -> Nat] /\ G \in [Nat -> [Int -> Int]]
  OBVIOUS
<1>2. Ground(Int, {0}, c, p, G)
  BY <1>1 DEF Ground
<1>3. PICK f : Recurs(f, Int, {0}, c, p, G)
  <2> HIDE DEF c, p, G
  <2> QED
    BY <1>2, Recursion, Zenon
<1>4. ASSUME NEW v \in Nat PROVE f[v] = IF v = 0 THEN 1 ELSE 10 * f[v - 1]
  <2>1. v # 0 => f[v - 1] \in Int /\ p[v] = v - 1
    BY <1>3 DEF Recurs
  <2>2. f[v] = IF v = 0 THEN c[v] ELSE G[v][f[p[v]]]
    BY <1>3, Zenon DEF Recurs
  <2> QED
    BY <2>1, <2>2
<1>5. f = [k \in Nat |-> IF k = 0 THEN 1 ELSE 10 * f[k - 1]]
  BY <1>3, <1>4 DEF Recurs
<1>6. Tens = [k \in Nat |-> IF k = 0 THEN 1 ELSE 10 * Tens[k - 1]]
  BY <1>5 DEF Tens
<1> QED
  BY <1>6, Zenon

LEMMA TensInt == \A k \in Nat : Tens[k] \in Int
<1> DEFINE Ns == {k \in Nat : Tens[k] \in Int}
<1>1. 0 \in Ns
  BY TensAre
<1>2. ASSUME NEW k \in Nat, k \in Ns PROVE k + 1 \in Ns
  <2>1. Tens[k + 1] = 10 * Tens[(k + 1) - 1] /\ (k + 1) - 1 = k
    BY TensAre
  <2> QED
    BY <1>2, <2>1
<1> HIDE DEF Ns
<1>3. Nat \subseteq Ns
  BY <1>1, <1>2, Induction
<1> QED
  BY <1>3 DEF Ns

DigitsBy(f, v) == (IF v < 10 THEN <<>> ELSE f[v \div 10]) \o <<48 + (v % 10)>>

LEMMA DigitsExist == \E f : f = [v \in Nat |-> DigitsBy(f, v)]
<1> DEFINE B == 0 .. 9
           c == [v \in Nat |-> <<>> \o <<48 + (v % 10)>>]
           p == [v \in Nat |-> v \div 10]
           G == [v \in Nat |-> [x \in Seq(Int) |-> x \o <<48 + (v % 10)>>]]
<1>1. ASSUME NEW v \in Nat, NEW x \in Seq(Int) PROVE x \o <<48 + (v % 10)>> \in Seq(Int)
  <2>1. 48 + (v % 10) \in Int
    OBVIOUS
  <2> QED
    BY <2>1
<1>2. <<>> \in Seq(Int)
  OBVIOUS
<1>3. c \in [Nat -> Seq(Int)] /\ G \in [Nat -> [Seq(Int) -> Seq(Int)]]
  BY <1>1, <1>2
<1>4. p \in [Nat -> Nat] /\ \A v \in Nat : v \in B \/ p[v] < v
  OBVIOUS
<1>5. PICK f : Recurs(f, Seq(Int), B, c, p, G)
  <2>1. Ground(Seq(Int), B, c, p, G)
    BY <1>3, <1>4 DEF Ground
  <2> HIDE DEF B, c, p, G
  <2> QED
    BY <2>1, Recursion, Zenon
<1>6. ASSUME NEW v \in Nat PROVE f[v] = DigitsBy(f, v)
  <2>1. f[v \div 10] \in Seq(Int) /\ (v < 10 <=> v \in B)
    <3>1. v \div 10 \in Nat
      OBVIOUS
    <3> QED
      BY <1>5, <3>1 DEF Recurs
  <2>2. CASE v < 10
    BY <1>5, <2>1, <2>2 DEF DigitsBy, Recurs
  <2>3. CASE ~(v < 10)
    <3>1. f[v] = G[v][f[p[v]]] /\ p[v] = v \div 10
      BY <1>5, <2>1, <2>3 DEF Recurs
    <3>2. G[v][f[v \div 10]] = f[v \div 10] \o <<48 + (v % 10)>>
      BY <2>1
    <3> QED
      BY <2>3, <3>1, <3>2 DEF DigitsBy
  <2> QED
    BY <2>2, <2>3
<1>7. f = [v \in Nat |-> DigitsBy(f, v)]
  BY <1>5, <1>6 DEF Recurs
<1> QED
  BY <1>7

(* The digits of a number read back as the number, and there are as many   *)
(* as it takes tens to exceed it.                                          *)
Reads(w, d) == w[0] = 0 /\ \A i \in 1 .. Len(d) : w[i] = 10 * w[i - 1] + (d[i] - 48)
Decimal(d, v) ==
  /\ d \in Seq(48 .. 57) /\ Len(d) >= 1
  /\ \A w : Reads(w, d) => w[Len(d)] = v
  /\ \A k \in Nat : k >= 1 /\ v < Tens[k] => Len(d) <= k

LEMMA OneDigit ==
  ASSUME NEW v \in 0 .. 9
  PROVE  Decimal(<<48 + v>>, v)
<1> PICK d : d = <<48 + v>>
  OBVIOUS
<1>1. d \in Seq(48 .. 57) /\ Len(d) = 1 /\ d[1] = 48 + v
  OBVIOUS
<1>2. ASSUME NEW w, Reads(w, d) PROVE w[1] = v
  BY <1>1, <1>2 DEF Reads
<1> QED
  BY <1>1, <1>2 DEF Decimal

LEMMA DigitBehind ==
  ASSUME NEW v \in Nat, v >= 10, NEW e, Decimal(e, v \div 10)
  PROVE  Decimal(e \o <<48 + (v % 10)>>, v)
<1> PICK b : b = 48 + (v % 10)
  OBVIOUS
<1> PICK n : n = Len(e)
  OBVIOUS
<1> PICK d : d = e \o <<b>>
  OBVIOUS
<1>1. b \in 48 .. 57 /\ v = 10 * (v \div 10) + (b - 48) /\ v \div 10 \in Nat
  OBVIOUS
<1>2. e \in Seq(48 .. 57) /\ n \in Nat /\ n >= 1
  BY LenProperties DEF Decimal
<1>3. /\ d \in Seq(48 .. 57) /\ Len(d) = n + 1 /\ d[n + 1] = b
      /\ \A i \in 1 .. n : d[i] = e[i]
  BY <1>1, <1>2
<1>4. ASSUME NEW w, Reads(w, d) PROVE w[n + 1] = v
  <2>1. w[0] = 0 /\ \A i \in 1 .. n : w[i] = 10 * w[i - 1] + (e[i] - 48)
    BY <1>2, <1>3, <1>4 DEF Reads
  <2>2. w[n] = v \div 10
    BY <2>1 DEF Decimal, Reads
  <2>3. w[n + 1] = 10 * w[(n + 1) - 1] + (d[n + 1] - 48)
    BY <1>2, <1>3, <1>4 DEF Reads
  <2>4. (n + 1) - 1 = n
    BY <1>2
  <2> QED
    BY <1>1, <1>3, <2>2, <2>3, <2>4
<1>5. ASSUME NEW k \in Nat, k >= 1, v < Tens[k] PROVE n + 1 <= k
  <2>1. Tens[k] = 10 * Tens[k - 1] /\ Tens[1] = 10 * Tens[0] /\ Tens[0] = 1
    BY <1>5, TensAre, SMTT(30)
  <2>2. k # 1
    BY <1>5, <2>1
  <2>3. Tens[k] = 10 * Tens[k - 1] => v \div 10 < Tens[k - 1]
    <3>1. k - 1 \in Nat
      BY <1>5
    <3>2. Tens[k - 1] \in Int
      BY <3>1, TensInt
    <3> QED
      BY <1>5, <3>2
  <2>4. n <= k - 1
    BY <1>5, <2>1, <2>2, <2>3 DEF Decimal
  <2> QED
    BY <1>2, <2>4
<1> QED
  BY <1>2, <1>3, <1>4, <1>5 DEF Decimal

LEMMA DigitsDecimal ==
  ASSUME NEW f, \A v \in Nat : f[v] = DigitsBy(f, v)
  PROVE  \A v \in Nat : Decimal(f[v], v)
<1> DEFINE Ns == {v \in Nat : Decimal(f[v], v)}
<1>1. ASSUME NEW v \in Nat, \A k \in Nat : k < v => k \in Ns PROVE v \in Ns
  <2>1. CASE v < 10
    <3>0. f[v] = DigitsBy(f, v) /\ v % 10 = v
      BY <2>1
    <3>1. f[v] = <<>> \o <<48 + (v % 10)>> /\ v % 10 = v
      BY <2>1, <3>0, Zenon DEF DigitsBy
    <3>2. f[v] = <<48 + v>>
      BY <3>1
    <3>3. v \in 0 .. 9
      BY <2>1
    <3> QED
      BY <3>2, <3>3, OneDigit
  <2>2. CASE v >= 10
    <3>1. f[v] = f[v \div 10] \o <<48 + (v % 10)>>
      BY <2>2 DEF DigitsBy
    <3>2. v \div 10 \in Nat /\ v \div 10 < v
      BY <2>2
    <3>3. Decimal(f[v \div 10], v \div 10)
      BY <1>1, <3>2
    <3> QED
      BY <2>2, <3>1, <3>3, DigitBehind
  <2> QED
    BY <2>1, <2>2
<1> HIDE DEF Ns
<1>2. Nat \subseteq Ns
  BY <1>1, StrongInduction
<1> QED
  BY <1>2 DEF Ns

(* What sdsll2str writes of a long long.                                   *)
Magnitude(v) == IF v >= 0 THEN v ELSE IF v # -LlMax - 1 THEN -v ELSE LlMax + 1

LEMMA Ll2strIs ==
  ASSUME NEW v \in Values
  PROVE  \E d : /\ Decimal(d, Magnitude(v))
                /\ Ll2str(v, LlMax) = (IF v < 0 THEN <<45>> ELSE <<>>) \o d
<1>1. \E f : /\ f = (CHOOSE g : g = [n \in Nat |-> DigitsBy(g, n)])
             /\ Ll2str(v, LlMax) = (IF v < 0 THEN <<45>> ELSE <<>>) \o f[Magnitude(v)]
  BY Zenon DEF Ll2str, DigitsBy, Magnitude
<1>2. PICK f : /\ f = (CHOOSE g : g = [n \in Nat |-> DigitsBy(g, n)])
               /\ Ll2str(v, LlMax) = (IF v < 0 THEN <<45>> ELSE <<>>) \o f[Magnitude(v)]
  BY <1>1
<1>3. f = [n \in Nat |-> DigitsBy(f, n)]
  BY <1>2, DigitsExist, Zenon
<1>4. \A n \in Nat : f[n] = DigitsBy(f, n)
  BY <1>3, Zenon
<1>5. Magnitude(v) \in Nat
  BY LongLongAssumption DEF Magnitude
<1> QED
  BY <1>2, <1>4, <1>5, DigitsDecimal

(* The value of a text: what NumberRead computes.                          *)
ValueBy(t, neg, f, i) ==
  IF i = 0 \/ (i = 1 /\ neg) THEN 0 ELSE 10 * f[i - 1] + (t[i] - 48)

LEMMA ValueExists ==
  ASSUME NEW t \in Seq(Int), NEW neg \in BOOLEAN
  PROVE  \E f : f = [i \in 0 .. Len(t) |-> ValueBy(t, neg, f, i)]
<1> PICK n : n = Len(t)
  OBVIOUS
<1>1. n \in Nat /\ \A i \in 1 .. n : t[i] \in Int
  BY LenProperties, ElementOfSeq
<1> DEFINE B == IF neg THEN {0, 1} ELSE {0}
           c == [i \in Nat |-> 0]
           p == [i \in Nat |-> IF i = 0 THEN 0 ELSE i - 1]
           b == [i \in Nat |-> IF i \in 1 .. n THEN t[i] ELSE 0]
           G == [i \in Nat |-> [x \in Int |-> 10 * x + (b[i] - 48)]]
<1>2. \A i \in Nat : b[i] \in Int
  BY <1>1
<1>3. Ground(Int, B, c, p, G)
  <2> HIDE DEF b
  <2> QED
    BY <1>2 DEF Ground
<1>4. PICK g : Recurs(g, Int, B, c, p, G)
  <2> HIDE DEF B, c, p, G
  <2> QED
    BY <1>3, Recursion, Zenon
<1>5. PICK f : f = [i \in 0 .. n |-> g[i]]
  OBVIOUS
<1>6. ASSUME NEW i \in 0 .. n PROVE f[i] = ValueBy(t, neg, f, i)
  <2>0. i \in Nat /\ f[i] = g[i]
    BY <1>1, <1>5
  <2>1. f[i] = IF i \in B THEN c[i] ELSE G[i][g[p[i]]]
    <3> HIDE DEF B, c, p, G
    <3> QED
      BY <1>4, <2>0, Zenon DEF Recurs
  <2>2. i \in B <=> (i = 0 \/ (i = 1 /\ neg))
    OBVIOUS
  <2>3. i \in Nat /\ c[i] = 0
    BY <1>1
  <2>4. CASE i \in B
    BY <2>1, <2>2, <2>3, <2>4 DEF ValueBy
  <2>5. CASE i \notin B
    <3>1. i # 0 /\ i - 1 \in 0 .. n /\ i - 1 \in Nat /\ p[i] = i - 1 /\ b[i] = t[i]
      BY <1>1, <2>5
    <3>2. g[i - 1] \in Int /\ f[i - 1] = g[i - 1]
      BY <1>4, <1>5, <3>1 DEF Recurs
    <3>3. G[i][g[i - 1]] = 10 * g[i - 1] + (b[i] - 48)
      BY <2>3, <3>2
    <3> QED
      BY <2>1, <2>2, <2>5, <3>1, <3>2, <3>3 DEF ValueBy
  <2> QED
    BY <2>4, <2>5
<1> QED
  BY <1>5, <1>6

ValueOf(t, neg) == CHOOSE g : g = [i \in 0 .. Len(t) |-> ValueBy(t, neg, g, i)]

LEMMA ValueIs ==
  ASSUME NEW t \in Seq(Int), NEW neg \in BOOLEAN, NEW f, f = ValueOf(t, neg)
  PROVE  \A i \in 0 .. Len(t) : f[i] = ValueBy(t, neg, f, i)
<1>1. f = [i \in 0 .. Len(t) |-> ValueBy(t, neg, f, i)]
  BY ValueExists, Zenon DEF ValueOf
<1> QED
  BY <1>1, Zenon

(* The values of the beginnings of t, whose first k bytes count nothing.   *)
Valued(t, k, f) ==
  \A i \in 0 .. Len(t) : f[i] = IF i <= k THEN 0 ELSE 10 * f[i - 1] + (t[i] - 48)

(* How many bytes of the text of a number are no digits.                   *)
Signs(v) == IF v < 0 THEN 1 ELSE 0

(* A text that sdsll2str has written reads back as the number, and fits.   *)
LEMMA ReadsBack ==
  ASSUME NEW v \in Values, NEW t, t = Ll2str(v, LlMax)
  PROVE  /\ t \in Seq(Int) /\ Len(t) + 1 <= LlStrSize
         /\ (t # <<>> /\ t[1] = 45) <=> v < 0
         /\ \A f : Valued(t, Signs(v), f) => f[Len(t)] = Magnitude(v)
<1>1. PICK d : /\ Decimal(d, Magnitude(v))
               /\ t = (IF v < 0 THEN <<45>> ELSE <<>>) \o d
  BY Ll2strIs
<1> PICK n : n = Len(d)
  OBVIOUS
<1>2. d \in Seq(48 .. 57) /\ n \in Nat /\ n >= 1
  BY <1>1, LenProperties DEF Decimal
<1>3. \A i \in 1 .. n : d[i] \in 48 .. 57
  BY <1>2, ElementOfSeq
<1>4. v \in Int /\ LlMax \in Nat /\ LlStrSize \in Nat /\ LlStrSize >= 2 /\ Magnitude(v) <= LlMax + 1
      /\ LlMax + 1 < Tens[LlStrSize - 2] /\ Magnitude(v) \in Nat
  BY LongLongAssumption DEF Magnitude
<1>5. n <= LlStrSize - 2
  <2>1. LlStrSize - 2 \in Nat
    BY <1>4
  <2>2. Tens[LlStrSize - 2] \in Int
    BY <2>1, TensInt
  <2>3. Magnitude(v) < Tens[LlStrSize - 2]
    BY <1>4, <2>2
  <2>4. Tens[0] = 1
    BY TensAre
  <2>5. LlStrSize - 2 # 0
    BY <1>4, <2>4
  <2>6. LlStrSize - 2 >= 1
    BY <1>4, <2>1, <2>5
  <2> QED
    BY <1>1, <2>1, <2>3, <2>6 DEF Decimal
<1>6. CASE v < 0
  <2>1. t = <<45>> \o d
    BY <1>1, <1>6
  <2>2. d \in Seq(Int)
    BY <1>2, <1>3
  <2>3. /\ t \in Seq(Int) /\ Len(t) = n + 1 /\ t[1] = 45
        /\ \A i \in 1 .. n : t[i + 1] = d[i]
    BY <1>2, <2>1, <2>2
  <2>4. ASSUME NEW f, \A i \in 0 .. n + 1 : f[i] = IF i <= 1 THEN 0 ELSE 10 * f[i - 1] + (t[i] - 48)
        PROVE  f[n + 1] = Magnitude(v)
    <3>1. f[1] = 0
      BY <1>2, <2>4
    <3>2. ASSUME NEW i \in 1 .. n PROVE f[i + 1] = 10 * f[i] + (d[i] - 48)
      <4>0. i + 1 \in 0 .. n + 1
        BY <1>2
      <4>1. f[i + 1] = IF i + 1 <= 1 THEN 0 ELSE 10 * f[(i + 1) - 1] + (t[i + 1] - 48)
        BY <2>4, <4>0, Zenon
      <4>2. ~(i + 1 <= 1) /\ (i + 1) - 1 = i
        BY <1>2
      <4> QED
        BY <2>3, <4>1, <4>2
    <3>3. PICK w : w = [i \in 0 .. n |-> f[i + 1]]
      OBVIOUS
    <3>4. w[0] = 0 /\ w[n] = f[n + 1]
      BY <1>2, <3>1, <3>3
    <3>5. ASSUME NEW i \in 1 .. n PROVE w[i] = 10 * w[i - 1] + (d[i] - 48)
      <4>1. w[i] = f[i + 1] /\ w[i - 1] = f[(i - 1) + 1] /\ (i - 1) + 1 = i
        BY <1>2, <3>3
      <4> QED
        BY <3>2, <4>1
    <3>6. Reads(w, d)
      BY <3>4, <3>5 DEF Reads
    <3> QED
      BY <1>1, <3>4, <3>6 DEF Decimal
  <2>5. t # <<>>
    BY <1>2, <2>3
  <2>6. Len(t) + 1 <= LlStrSize
    BY <1>2, <1>4, <1>5, <2>3
  <2>7. \A f : Valued(t, Signs(v), f) => f[Len(t)] = Magnitude(v)
    <3>1. Signs(v) = 1 /\ Len(t) = n + 1
      BY <1>6, <2>3 DEF Signs
    <3> QED
      BY <2>4, <3>1 DEF Valued
  <2> QED
    BY <1>6, <2>3, <2>5, <2>6, <2>7, Zenon
<1>7. CASE ~(v < 0)
  <2>1. t = <<>> \o d
    BY <1>1, <1>7
  <2>2. d \in Seq(Int)
    BY <1>2, <1>3
  <2>3. t = d
    BY <2>1, <2>2
  <2>4. d[1] # 45
    BY <1>2, <1>3
  <2>5. ASSUME NEW f, \A i \in 0 .. n : f[i] = IF i <= 0 THEN 0 ELSE 10 * f[i - 1] + (d[i] - 48)
        PROVE  f[n] = Magnitude(v)
    <3>1. f[0] = 0
      BY <1>2, <2>5
    <3>2. \A i \in 1 .. n : f[i] = 10 * f[i - 1] + (d[i] - 48)
      BY <1>2, <2>5
    <3> QED
      BY <1>1, <3>1, <3>2 DEF Decimal, Reads
  <2>6. Len(t) + 1 <= LlStrSize
    BY <1>2, <1>4, <1>5, <2>3
  <2>7. \A f : Valued(t, Signs(v), f) => f[Len(t)] = Magnitude(v)
    <3>1. Signs(v) = 0
      BY <1>7 DEF Signs
    <3> QED
      BY <2>3, <2>5, <3>1 DEF Valued
  <2> QED
    BY <1>7, <2>2, <2>3, <2>4, <2>6, <2>7, Zenon
<1> QED
  BY <1>6, <1>7

LEMMA NumberLemma ==
  ASSUME NEW v \in Values, out.kind = "number" => Content(s) = Ll2str(v, LlMax) /\ out.of[1] = v
  PROVE  NumberRead
<1> SUFFICES ASSUME out.kind = "number" PROVE NumberRead
  BY DEF NumberRead
<1> PICK t : t = Content(s)
  OBVIOUS
<1>1. t = Ll2str(v, LlMax) /\ out.of[1] = v
  OBVIOUS
<1> PICK neg : neg = (t # <<>> /\ t[1] = 45)
  OBVIOUS
<1>2. \E f : /\ f = ValueOf(t, neg)
             /\ NumberRead <=> /\ (IF neg THEN -f[Len(t)] ELSE f[Len(t)]) = out.of[1]
                               /\ Len(t) + 1 <= LlStrSize
  BY ZenonT(30) DEF NumberRead, ValueBy, ValueOf
<1>3. PICK f : /\ f = ValueOf(t, neg)
               /\ NumberRead <=> /\ (IF neg THEN -f[Len(t)] ELSE f[Len(t)]) = out.of[1]
                                 /\ Len(t) + 1 <= LlStrSize
  BY <1>2
<1>4. t \in Seq(Int) /\ Len(t) + 1 <= LlStrSize /\ (neg <=> v < 0)
  BY <1>1, ReadsBack
<1>5. neg \in BOOLEAN /\ (v < 0 => neg = TRUE) /\ (~(v < 0) => neg = FALSE)
  BY <1>4, Zenon
<1>6. \A i \in 0 .. Len(t) : f[i] = ValueBy(t, neg, f, i)
  BY <1>3, <1>4, <1>5, ValueIs
<1>7. Valued(t, Signs(v), f)
  <2>1. ASSUME NEW i \in 0 .. Len(t) PROVE (i = 0 \/ (i = 1 /\ neg)) <=> i <= Signs(v)
    BY <1>4, LenProperties DEF Signs
  <2> QED
    BY <1>6, <2>1, Zenon DEF ValueBy, Valued
<1>8. f[Len(t)] = Magnitude(v)
  BY <1>1, <1>7, ReadsBack
<1>9. v \in Int /\ LlMax \in Nat
  BY LongLongAssumption
<1> QED
  BY <1>1, <1>3, <1>4, <1>5, <1>8, <1>9 DEF Magnitude

-----------------------------------------------------------------------------
(* sdssplitlen. *)

(* Pieces of a text. *)
LEMMA PieceOf ==
  ASSUME NEW t \in Seq(Int), NEW a \in Nat, NEW b \in Nat, b <= Len(t)
  PROVE  /\ SubSeq(t, a + 1, b) \in Seq(Int)
         /\ Len(SubSeq(t, a + 1, b)) = IF a < b THEN b - a ELSE 0
         /\ \A i \in 1 .. b - a : SubSeq(t, a + 1, b)[i] = t[a + i]
<1>1. Len(t) \in Nat
  BY LenProperties
<1>2. \A i \in a + 1 .. b : t[i] \in Int
  BY <1>1, ElementOfSeq
<1>3. /\ SubSeq(t, a + 1, b) \in Seq(Int)
      /\ Len(SubSeq(t, a + 1, b)) = IF a + 1 <= b THEN b - (a + 1) + 1 ELSE 0
      /\ \A i \in 1 .. b - (a + 1) + 1 : SubSeq(t, a + 1, b)[i] = t[(a + 1) + i - 1]
  BY <1>2, SubSeqProperties
<1>4. b - (a + 1) + 1 = b - a /\ (a + 1 <= b <=> a < b) /\ \A i \in Int : (a + 1) + i - 1 = a + i
  OBVIOUS
<1> QED
  BY <1>3, <1>4

LEMMA PieceIs ==
  ASSUME NEW t \in Seq(Int), NEW a \in Nat, NEW b \in Nat, a <= b, b <= Len(t), NEW u,
         u = SubSeq(t, a + 1, b)
  PROVE  u \in Seq(Int) /\ Len(u) = b - a /\ \A i \in 1 .. b - a : u[i] = t[a + i]
<1>1. (IF a < b THEN b - a ELSE 0) = b - a
  OBVIOUS
<1> QED
  BY <1>1, PieceOf, Zenon

LEMMA PieceOfPiece ==
  ASSUME NEW t, NEW u, NEW x, NEW y, t \in Seq(Int), NEW a \in Nat, NEW b \in Nat, a <= b,
         b <= Len(t), NEW c \in Nat, NEW d \in Nat, c <= d, d <= b - a,
         u = SubSeq(t, a + 1, b), x = SubSeq(u, c + 1, d), y = SubSeq(t, (a + c) + 1, a + d)
  PROVE  x = y
<1>2. u \in Seq(Int) /\ Len(u) = b - a /\ \A i \in 1 .. b - a : u[i] = t[a + i]
  BY PieceIs
<1>3. x \in Seq(Int) /\ Len(x) = d - c /\ \A i \in 1 .. d - c : x[i] = u[c + i]
  <2>1. d <= Len(u)
    BY <1>2
  <2> QED
    BY <1>2, <2>1, PieceIs
<1>4. a + c \in Nat /\ a + d \in Nat /\ (a + d) - (a + c) = d - c /\ a + c <= a + d
  OBVIOUS
<1>5. y \in Seq(Int) /\ Len(y) = d - c /\ \A i \in 1 .. d - c : y[i] = t[(a + c) + i]
  <2>1. a + d <= Len(t)
    BY LenProperties
  <2> QED
    BY <1>4, <2>1, PieceIs
<1>6. ASSUME NEW i \in 1 .. d - c PROVE x[i] = y[i]
  <2>1. c + i \in 1 .. b - a /\ a + (c + i) = (a + c) + i
    OBVIOUS
  <2> QED
    BY <1>2, <1>3, <1>5, <2>1
<1> QED
  BY <1>3, <1>5, <1>6, SameSeq

(* A sequence of pieces and one more.                                      *)
More(parts, piece, more, m) ==
  /\ more \in Seq(Seq(Int)) /\ Len(more) = m + 1 /\ more[m + 1] = piece
  /\ \A k \in 1 .. m : more[k] = parts[k]

LEMMA OneMore ==
  ASSUME NEW parts \in Seq(Seq(Int)), NEW piece \in Seq(Int)
  PROVE  More(parts, piece, Append(parts, piece), Len(parts))
BY AppendProperties DEF More

(* What the loop works on, after j bytes: the pieces it has found end with *)
(* a separator each, the last of them where the next piece starts.         *)
Splits == [parts : Seq(Seq(Int)), start : Nat, slots : Nat, skip : Nat]
At(t, sep, p) == SubSeq(t, p + 1, p + Len(sep)) = sep
Without(u, sep) ==
  \A i \in 1 .. Len(u) - Len(sep) + 1 : SubSeq(u, i, i + Len(sep) - 1) # sep

Splittable(t, sep) == t \in Seq(Int) /\ sep \in Seq(Int) /\ Len(sep) >= 1

Cuts(t, sep, parts, a, n) ==
  /\ a \in [1 .. n + 1 -> Nat] /\ a[1] = 0
  /\ \A k \in 1 .. n :
       /\ a[k] + Len(sep) <= a[k + 1] /\ a[k + 1] <= Len(t)
       /\ parts[k] = SubSeq(t, a[k] + 1, a[k + 1] - Len(sep))
       /\ At(t, sep, a[k + 1] - Len(sep))

SplitSoFar(t, sep, r, j) ==
  /\ r \in Splits
  /\ Len(r.parts) + 1 <= r.slots
  /\ r.start <= Len(t)
  /\ r.skip > 0 => r.start = j + r.skip
  /\ r.skip = 0 => r.start <= j /\ \A p \in r.start .. j - 1 : ~At(t, sep, p)
  /\ \A k \in 1 .. Len(r.parts) : Without(r.parts[k], sep)
  /\ \E a : Cuts(t, sep, r.parts, a, Len(r.parts)) /\ a[Len(r.parts) + 1] = r.start

SplitOf(t, sep, parts, slots) ==
  /\ parts \in Seq(Seq(Int)) /\ Len(parts) >= 1 /\ Len(parts) <= slots
  /\ \A k \in 1 .. Len(parts) : Without(parts[k], sep)
  /\ \E a : /\ Cuts(t, sep, parts, a, Len(parts) - 1)
            /\ a[Len(parts)] <= Len(t)
            /\ parts[Len(parts)] = SubSeq(t, a[Len(parts)] + 1, Len(t))

(* A piece of t in which the separator begins nowhere.                     *)
LEMMA WithoutLemma ==
  ASSUME NEW t \in Seq(Int), NEW sep \in Seq(Int), Len(sep) >= 1,
         NEW a \in Nat, NEW b \in Nat, a <= b, b <= Len(t),
         \A p \in a .. b - Len(sep) : ~At(t, sep, p)
  PROVE  Without(SubSeq(t, a + 1, b), sep)
<1> PICK u, q : u = SubSeq(t, a + 1, b) /\ q = Len(sep)
  OBVIOUS
<1>1. Len(t) \in Nat /\ q \in Nat /\ q >= 1
  BY LenProperties
<1>2. Len(u) = b - a
  BY PieceIs, Zenon
<1>3. ASSUME NEW i \in 1 .. (b - a) - q + 1 PROVE SubSeq(u, i, i + q - 1) # sep
  <2>1. /\ i - 1 \in Nat /\ (i - 1) + q \in Nat /\ i - 1 <= (i - 1) + q /\ (i - 1) + q <= b - a
        /\ (i - 1) + 1 = i /\ i + q - 1 = (i - 1) + q
    BY <1>1
  <2>2. SubSeq(u, i, i + q - 1) = SubSeq(t, (a + (i - 1)) + 1, a + ((i - 1) + q))
    BY <2>1, PieceOfPiece
  <2>3. a + (i - 1) \in a .. b - q /\ a + ((i - 1) + q) = (a + (i - 1)) + q
    BY <1>1
  <2> QED
    BY <2>2, <2>3 DEF At
<1> QED
  BY <1>2, <1>3 DEF Without

LEMMA SplitStart ==
  ASSUME NEW t \in Seq(Int), NEW sep \in Seq(Int)
  PROVE  SplitSoFar(t, sep, [parts |-> <<>>, start |-> 0, slots |-> Slots, skip |-> 0], 0)
<1> PICK r : r = [parts |-> <<>>, start |-> 0, slots |-> Slots, skip |-> 0]
  OBVIOUS
<1>1. r.parts = <<>> /\ r.start = 0 /\ r.slots = Slots /\ r.skip = 0 /\ r \in Splits
  BY ListsAssumption DEF Splits
<1>2. Len(r.parts) = 0 /\ Len(t) \in Nat
  BY <1>1, LenProperties
<1>3. PICK a : a = [k \in 1 .. 1 |-> 0]
  OBVIOUS
<1>4. Cuts(t, sep, r.parts, a, 0) /\ a[1] = 0
  BY <1>3 DEF Cuts
<1> QED
  BY <1>1, <1>2, <1>4, ListsAssumption DEF SplitSoFar

(* A round of the loop. *)
LEMMA SplitRoundType ==
  ASSUME NEW t \in Seq(Int), NEW sep \in Seq(Int), Len(sep) >= 1, NEW r \in Splits,
         NEW j \in 0 .. Len(t)
  PROVE  SplitRound(t, sep, r, j) \in Splits
<1>1. Len(t) \in Nat /\ Len(sep) \in Nat /\ j \in Nat /\ j <= Len(t)
  BY LenProperties
<1>2. r.parts \in Seq(Seq(Int)) /\ r.start \in Nat /\ r.slots \in Nat /\ r.skip \in Nat
  BY DEF Splits
<1>3. SubSeq(t, r.start + 1, j) \in Seq(Int)
  BY <1>1, <1>2, PieceOf
<1>4. PICK more : more = Append(r.parts, SubSeq(t, r.start + 1, j))
  OBVIOUS
<1>5. more \in Seq(Seq(Int))
  BY <1>2, <1>3, <1>4, AppendProperties
<1>6. PICK slots \in Nat : slots = IF r.slots < Len(r.parts) + 2 THEN 2 * r.slots ELSE r.slots
  BY <1>2
<1>7. SplitRound(t, sep, r, j) =
        IF r.skip > 0 THEN [r EXCEPT !.skip = r.skip - 1]
        ELSE IF At(t, sep, j)
        THEN [r EXCEPT !.slots = slots, !.parts = more, !.start = j + Len(sep),
                       !.skip = Len(sep) - 1]
        ELSE [r EXCEPT !.slots = slots]
  BY <1>4, <1>6 DEF SplitRound, At
<1>8. r = [parts |-> r.parts, start |-> r.start, slots |-> r.slots, skip |-> r.skip]
  BY DEF Splits
<1>9. r.skip > 0 => r.skip - 1 \in Nat
  BY <1>2
<1>10. j + Len(sep) \in Nat /\ Len(sep) - 1 \in Nat
  BY <1>1
<1>11. CASE r.skip > 0
  <2>1. SplitRound(t, sep, r, j) = [parts |-> r.parts, start |-> r.start, slots |-> r.slots,
                                    skip |-> r.skip - 1]
    BY <1>7, <1>8, <1>11, Zenon
  <2> QED
    BY <1>2, <1>9, <1>11, <2>1 DEF Splits
<1>12. CASE ~(r.skip > 0) /\ At(t, sep, j)
  <2>1. SplitRound(t, sep, r, j) = [parts |-> more, start |-> j + Len(sep), slots |-> slots,
                                    skip |-> Len(sep) - 1]
    BY <1>7, <1>8, <1>12, Zenon
  <2> QED
    BY <1>5, <1>10, <2>1 DEF Splits
<1>13. CASE ~(r.skip > 0) /\ ~At(t, sep, j)
  <2>1. SplitRound(t, sep, r, j) = [parts |-> r.parts, start |-> r.start, slots |-> slots,
                                    skip |-> r.skip]
    BY <1>7, <1>8, <1>13, Zenon
  <2> QED
    BY <1>2, <2>1 DEF Splits
<1> QED
  BY <1>11, <1>12, <1>13

LEMMA SplitRoundLemma ==
  ASSUME NEW t, NEW sep, Splittable(t, sep), NEW r, NEW j \in Nat, NEW q, q = Len(sep),
         NEW l, l = Len(t), j + q <= l, SplitSoFar(t, sep, r, j)
  PROVE  SplitSoFar(t, sep, SplitRound(t, sep, r, j), j + 1)
<1>p. PICK parts : parts = r.parts
  OBVIOUS
<1>m. PICK m : m = Len(parts)
  OBVIOUS
<1>x. PICK x : x = SplitRound(t, sep, r, j)
  OBVIOUS
<1>t. t \in Seq(Int) /\ sep \in Seq(Int) /\ Len(sep) >= 1
  BY DEF Splittable
<1>1. l \in Nat /\ q \in Nat /\ q >= 1 /\ j <= l /\ j + q <= l
  BY <1>t, LenProperties
<1>0. r \in Splits /\ parts \in Seq(Seq(Int))
  BY <1>p DEF SplitSoFar, Splits
<1>2. /\ r.start \in Nat /\ r.slots \in Nat /\ r.skip \in Nat /\ m \in Nat
      /\ m + 1 <= r.slots /\ r.start <= l
  BY <1>0, <1>m, <1>p, LenProperties DEF SplitSoFar, Splits
<1>3. PICK a : Cuts(t, sep, parts, a, m) /\ a[m + 1] = r.start
  BY <1>m, <1>p DEF SplitSoFar
<1>4. x \in Splits
  BY <1>0, <1>p, <1>1, <1>t, <1>x, SplitRoundType
<1>5. PICK slots \in Nat : slots = IF r.slots < m + 2 THEN 2 * r.slots ELSE r.slots
  BY <1>2
<1>6. m + 2 <= slots
  BY <1>2, <1>5
<1>7. CASE r.skip > 0
  <2>1. x = [r EXCEPT !.skip = r.skip - 1]
    BY <1>m, <1>p, <1>x, <1>7 DEF SplitRound
  <2>2. x.parts = parts /\ x.start = r.start /\ x.slots = r.slots /\ x.skip = r.skip - 1
    BY <1>0, <1>p, <2>1 DEF Splits
  <2>3. r.start = j + r.skip
    BY <1>7 DEF SplitSoFar
  <2>4. x.skip > 0 => x.start = (j + 1) + x.skip
    <3>1. (j + 1) + (r.skip - 1) = j + r.skip
      BY <1>2
    <3> QED
      BY <2>2, <2>3, <3>1, Zenon
  <2>5. x.skip = 0 => x.start <= j + 1 /\ \A p \in x.start .. (j + 1) - 1 : ~At(t, sep, p)
    BY <1>2, <2>2, <2>3
  <2>6. \A k \in 1 .. m : Without(parts[k], sep)
    BY <1>m, <1>p DEF SplitSoFar
  <2> HIDE DEF Cuts, At, Without
  <2> QED
    BY <1>2, <1>3, <1>4, <1>m, <1>p, <1>x, <2>2, <2>4, <2>5, <2>6 DEF SplitSoFar
<1>8. CASE r.skip = 0 /\ At(t, sep, j)
  <2>p. PICK piece : piece = SubSeq(t, r.start + 1, j)
    OBVIOUS
  <2>a. PICK more : more = Append(parts, piece)
    OBVIOUS
  <2>1. x = [r EXCEPT !.slots = slots, !.parts = more, !.start = j + q, !.skip = q - 1]
    <3>1. /\ slots = IF r.slots < Len(r.parts) + 2 THEN 2 * r.slots ELSE r.slots
          /\ more = Append(r.parts, SubSeq(t, r.start + 1, j))
      BY <1>m, <1>p, <1>5, <2>p, <2>a, Zenon
    <3>2. ~(r.skip > 0)
      BY <1>8
    <3> QED
      BY <1>x, <1>8, <3>1, <3>2, Zenon DEF SplitRound, At
  <2>2. x.parts = more /\ x.start = j + q /\ x.slots = slots /\ x.skip = q - 1
    BY <1>0, <1>p, <2>1 DEF Splits
  <2>3. r.start <= j /\ \A p \in r.start .. j - 1 : ~At(t, sep, p)
    BY <1>8 DEF SplitSoFar
  <2>4. piece \in Seq(Int)
    BY <1>1, <1>2, <1>t, <2>p, PieceOf
  <2>5. /\ more \in Seq(Seq(Int)) /\ Len(more) = m + 1 /\ more[m + 1] = piece
        /\ \A k \in 1 .. m : more[k] = parts[k]
    <3>1. parts \in Seq(Seq(Int)) /\ m = Len(parts)
      BY <1>0, <1>m
    <3>2. More(parts, piece, more, m)
      BY <2>4, <2>a, <3>1, OneMore
    <3> QED
      BY <3>2, Zenon DEF More
  <2>6. Without(piece, sep)
    <3>1. \A p \in r.start .. j - q : ~At(t, sep, p)
      BY <1>1, <1>2, <2>3
    <3> QED
      BY <1>1, <1>2, <1>t, <2>3, <2>p, <3>1, WithoutLemma
  <2>7. \A k \in 1 .. m + 1 : Without(more[k], sep)
    <3>1. \A k \in 1 .. m : Without(parts[k], sep)
      BY <1>m, <1>p DEF SplitSoFar
    <3>2. \A k \in 1 .. m + 1 : k \in 1 .. m \/ k = m + 1
      BY <1>2
    <3> QED
      BY <2>5, <2>6, <3>1, <3>2
  <2>8. PICK b : b = [k \in 1 .. m + 2 |-> IF k = m + 2 THEN j + q ELSE a[k]]
    OBVIOUS
  <2>9. Cuts(t, sep, more, b, m + 1) /\ b[m + 2] = j + q
    <3>1. a \in [1 .. m + 1 -> Nat] /\ a[1] = 0
      BY <1>3 DEF Cuts
    <3>2. b \in [1 .. (m + 1) + 1 -> Nat] /\ b[1] = 0 /\ b[m + 2] = j + q /\ b[m + 1] = r.start
      BY <1>1, <1>2, <1>3, <2>8, <3>1
    <3>3. ASSUME NEW k \in 1 .. m
          PROVE  /\ b[k] + q <= b[k + 1] /\ b[k + 1] <= l
                 /\ more[k] = SubSeq(t, b[k] + 1, b[k + 1] - q)
                 /\ At(t, sep, b[k + 1] - q)
      <4>1. b[k] = a[k] /\ b[k + 1] = a[k + 1]
        BY <1>2, <2>8
      <4>2. /\ a[k] + q <= a[k + 1] /\ a[k + 1] <= l
            /\ parts[k] = SubSeq(t, a[k] + 1, a[k + 1] - q)
            /\ At(t, sep, a[k + 1] - q)
        BY <1>3 DEF Cuts
      <4> QED
        BY <2>5, <4>1, <4>2
    <3>4. /\ b[m + 1] + q <= b[(m + 1) + 1] /\ b[(m + 1) + 1] <= l
          /\ more[m + 1] = SubSeq(t, b[m + 1] + 1, b[(m + 1) + 1] - q)
          /\ At(t, sep, b[(m + 1) + 1] - q)
      <4>1. (m + 1) + 1 = m + 2 /\ (j + q) - q = j
        BY <1>1, <1>2
      <4>2. r.start + q <= j + q /\ j + q <= l
        BY <1>1, <1>2, <2>3
      <4> QED
        BY <1>8, <2>5, <2>p, <3>2, <4>1, <4>2
    <3>5. \A k \in 1 .. m + 1 : k \in 1 .. m \/ k = m + 1
      BY <1>2
    <3>6. ASSUME NEW k \in 1 .. m + 1
          PROVE  /\ b[k] + q <= b[k + 1] /\ b[k + 1] <= l
                 /\ more[k] = SubSeq(t, b[k] + 1, b[k + 1] - q)
                 /\ At(t, sep, b[k + 1] - q)
      BY <3>3, <3>4, <3>5
    <3> QED
      BY <3>2, <3>6 DEF Cuts
  <2>10. x.skip > 0 => x.start = (j + 1) + x.skip
    BY <1>1, <2>2
  <2>11. x.skip = 0 => x.start <= j + 1 /\ \A p \in x.start .. (j + 1) - 1 : ~At(t, sep, p)
    BY <1>1, <2>2
  <2>12. Len(x.parts) + 1 <= x.slots /\ x.start <= l /\ (m + 1) + 1 = m + 2
    BY <1>1, <1>2, <1>6, <2>2, <2>5
  <2> HIDE DEF Cuts, At, Without
  <2> QED
    BY <1>4, <1>x, <2>2, <2>5, <2>7, <2>9, <2>10, <2>11, <2>12 DEF SplitSoFar
<1>9. CASE r.skip = 0 /\ ~At(t, sep, j)
  <2>1. x = [r EXCEPT !.slots = slots]
    BY <1>m, <1>p, <1>x, <1>5, <1>9 DEF SplitRound, At
  <2>2. x.parts = parts /\ x.start = r.start /\ x.slots = slots /\ x.skip = 0
    BY <1>0, <1>p, <1>9, <2>1 DEF Splits
  <2>3. r.start <= j /\ \A p \in r.start .. j - 1 : ~At(t, sep, p)
    BY <1>9 DEF SplitSoFar
  <2>4. \A p \in r.start .. (j + 1) - 1 : p \in r.start .. j - 1 \/ p = j
    BY <1>2
  <2>5. x.start <= j + 1 /\ \A p \in x.start .. (j + 1) - 1 : ~At(t, sep, p)
    BY <1>2, <1>9, <2>2, <2>3, <2>4
  <2>6. \A k \in 1 .. m : Without(parts[k], sep)
    BY <1>m, <1>p DEF SplitSoFar
  <2>7. m + 1 <= slots
    BY <1>2, <1>6
  <2> HIDE DEF Cuts, At, Without
  <2> QED
    BY <1>2, <1>3, <1>4, <1>m, <1>p, <1>x, <2>2, <2>5, <2>6, <2>7 DEF SplitSoFar
<1> QED
  BY <1>2, <1>7, <1>8, <1>9

(* The loop: what it has after j rounds.                                   *)
SplitBy(t, sep, f, j) ==
  IF j = 0 \/ j > Len(t) - (Len(sep) - 1)
  THEN [parts |-> <<>>, start |-> 0, slots |-> Slots, skip |-> 0]
  ELSE SplitRound(t, sep, f[j - 1], j - 1)
SplitLoop(t, sep) == CHOOSE g : g = [j \in 0 .. Len(t) |-> SplitBy(t, sep, g, j)]

LEMMA SplitExists ==
  ASSUME NEW t, NEW sep, Splittable(t, sep)
  PROVE  \E f : f = [j \in 0 .. Len(t) |-> SplitBy(t, sep, f, j)]
<1>l. PICK l : l = Len(t)
  OBVIOUS
<1>q. PICK last : last = Len(t) - (Len(sep) - 1)
  OBVIOUS
<1>0. t \in Seq(Int) /\ sep \in Seq(Int) /\ Len(sep) >= 1
  BY DEF Splittable
<1>1. l \in Nat /\ last \in Int
  BY <1>0, <1>l, <1>q, LenProperties
<1>2. PICK from : from = [parts |-> <<>>, start |-> 0, slots |-> Slots, skip |-> 0]
  OBVIOUS
<1>3. from \in Splits
  BY <1>2, ListsAssumption DEF Splits
<1> DEFINE B == {j \in Nat : j = 0 \/ j > last \/ j > l}
           c == [j \in Nat |-> from]
           p == [j \in Nat |-> IF j = 0 THEN 0 ELSE j - 1]
           G == [j \in Nat |-> [r \in Splits |-> IF j \in 1 .. l THEN SplitRound(t, sep, r, j - 1)
                                               ELSE r]]
<1>4. ASSUME NEW j \in 1 .. l, NEW r \in Splits PROVE SplitRound(t, sep, r, j - 1) \in Splits
  <2>1. j - 1 \in 0 .. Len(t)
    BY <1>1, <1>l
  <2> QED
    BY <1>0, <2>1, SplitRoundType
<1>5. Ground(Splits, B, c, p, G)
  <2>1. c \in [Nat -> Splits]
    BY <1>3
  <2>2. G \in [Nat -> [Splits -> Splits]]
    BY <1>4
  <2>3. p \in [Nat -> Nat] /\ \A j \in Nat : j \in B \/ p[j] < j
    OBVIOUS
  <2> HIDE DEF B, c, p, G
  <2> QED
    BY <2>1, <2>2, <2>3 DEF Ground
<1>6. PICK g : Recurs(g, Splits, B, c, p, G)
  <2> HIDE DEF B, c, p, G
  <2> QED
    BY <1>5, Recursion, Zenon
<1>7. PICK f : f = [j \in 0 .. l |-> g[j]]
  OBVIOUS
<1>8. ASSUME NEW j \in 0 .. l PROVE f[j] = SplitBy(t, sep, f, j)
  <2>1. j \in Nat /\ f[j] = g[j]
    BY <1>1, <1>7
  <2>2. g[j] = IF j \in B THEN c[j] ELSE G[j][g[p[j]]]
    <3> HIDE DEF B, c, p, G
    <3> QED
      BY <1>6, <2>1, Zenon DEF Recurs
  <2>3. j \in B <=> (j = 0 \/ j > last)
    BY <1>1, <2>1
  <2>4. CASE j \in B
    <3>1. f[j] = from
      BY <2>1, <2>2, <2>4
    <3> QED
      BY <1>2, <1>q, <2>3, <2>4, <3>1, Zenon DEF SplitBy
  <2>5. CASE j \notin B
    <3>1. j \in 1 .. l /\ j - 1 \in 0 .. l /\ j - 1 \in Nat
      BY <1>1, <2>1, <2>5
    <3>2. p[j] = j - 1 /\ f[j - 1] = g[j - 1]
      BY <1>7, <2>1, <3>1
    <3>3. g[j - 1] \in Splits
      <4> HIDE DEF B, c, p, G
      <4> QED
        BY <1>6, <3>1 DEF Recurs
    <3>4. G[j][g[j - 1]] = SplitRound(t, sep, g[j - 1], j - 1)
      BY <2>1, <3>1, <3>3
    <3>5. f[j] = SplitRound(t, sep, f[j - 1], j - 1)
      <4> HIDE DEF B, c, p, G
      <4> QED
        BY <2>1, <2>2, <2>5, <3>2, <3>4, Zenon
    <3> QED
      BY <1>q, <2>3, <2>5, <3>5, Zenon DEF SplitBy
  <2> QED
    BY <2>4, <2>5
<1> QED
  BY <1>7, <1>8, <1>l, Zenon

LEMMA SplitLoopIs ==
  ASSUME NEW t, NEW sep, Splittable(t, sep), NEW f, f = SplitLoop(t, sep)
  PROVE  \A j \in 0 .. Len(t) : f[j] = SplitBy(t, sep, f, j)
<1>1. f = [j \in 0 .. Len(t) |-> SplitBy(t, sep, f, j)]
  BY SplitExists, Zenon DEF SplitLoop
<1> QED
  BY <1>1, Zenon

LEMMA SplitLoopInv ==
  ASSUME NEW t, NEW sep, Splittable(t, sep), NEW f, f = SplitLoop(t, sep),
         NEW l, l = Len(t), NEW q, q = Len(sep)
  PROVE  \A j \in Nat : j = 0 \/ j <= l - (q - 1) => SplitSoFar(t, sep, f[j], j)
<1>0. t \in Seq(Int) /\ sep \in Seq(Int) /\ q >= 1 /\ l \in Nat /\ q \in Nat
  BY LenProperties DEF Splittable
<1>1. ASSUME NEW j \in 0 .. l
      PROVE  f[j] = IF j = 0 \/ j > l - (q - 1)
                    THEN [parts |-> <<>>, start |-> 0, slots |-> Slots, skip |-> 0]
                    ELSE SplitRound(t, sep, f[j - 1], j - 1)
  BY SplitLoopIs, Zenon DEF SplitBy
<1> DEFINE Js == {j \in Nat : j = 0 \/ j <= l - (q - 1) => SplitSoFar(t, sep, f[j], j)}
<1>2. 0 \in Js
  <2>1. 0 \in 0 .. l
    BY <1>0
  <2>2. f[0] = [parts |-> <<>>, start |-> 0, slots |-> Slots, skip |-> 0]
    BY <1>1, <2>1, Zenon
  <2>3. SplitSoFar(t, sep, f[0], 0)
    BY <1>0, <2>2, SplitStart, Zenon
  <2> QED
    BY <2>3
<1>3. ASSUME NEW j \in Nat, j \in Js PROVE j + 1 \in Js
  <2> SUFFICES ASSUME j + 1 <= l - (q - 1) PROVE SplitSoFar(t, sep, f[j + 1], j + 1)
    OBVIOUS
  <2>1. /\ j + 1 \in 0 .. l /\ ~(j + 1 = 0 \/ j + 1 > l - (q - 1)) /\ (j + 1) - 1 = j
        /\ j <= l - (q - 1) /\ j + q <= l
    BY <1>0
  <2>2. f[j + 1] = SplitRound(t, sep, f[j], j)
    BY <1>1, <2>1, Zenon
  <2>3. SplitSoFar(t, sep, f[j], j)
    BY <1>3, <2>1
  <2>4. SplitSoFar(t, sep, SplitRound(t, sep, f[j], j), j + 1)
    BY <2>1, <2>3, SplitRoundLemma, Zenon
  <2> QED
    BY <2>2, <2>4, Zenon
<1> HIDE DEF Js
<1>4. Nat \subseteq Js
  BY <1>2, <1>3, Induction
<1> QED
  BY <1>4 DEF Js

(* What sdssplitlen returns.                                               *)
LEMMA SplitIs ==
  ASSUME NEW t, NEW sep, Splittable(t, sep)
  PROVE  \E r, j : /\ SplitSoFar(t, sep, r, j)
                   /\ j \in Nat /\ (j = 0 \/ j <= Len(t) - (Len(sep) - 1))
                   /\ j >= Len(t) - (Len(sep) - 1)
                   /\ Split(t, sep, Slots) =
                        [r EXCEPT !.parts = Append(r.parts, SubSeq(t, r.start + 1, Len(t)))]
<1>1. PICK l, q : l = Len(t) /\ q = Len(sep)
  OBVIOUS
<1>2. l \in Nat /\ q \in Nat /\ q >= 1
  BY <1>1, LenProperties DEF Splittable
<1>3. PICK j : j = IF l - (q - 1) < 0 THEN 0 ELSE l - (q - 1)
  OBVIOUS
<1>4. j \in Nat /\ (j = 0 \/ j <= l - (q - 1)) /\ j >= l - (q - 1)
  BY <1>2, <1>3
<1>5. \E f : /\ f = SplitLoop(t, sep)
             /\ Split(t, sep, Slots) =
                  [f[j] EXCEPT !.parts = Append(f[j].parts, SubSeq(t, f[j].start + 1, Len(t)))]
  BY <1>1, <1>3, Zenon DEF Split, SplitLoop, SplitBy
<1>6. PICK f : /\ f = SplitLoop(t, sep)
               /\ Split(t, sep, Slots) =
                    [f[j] EXCEPT !.parts = Append(f[j].parts, SubSeq(t, f[j].start + 1, Len(t)))]
  BY <1>5
<1>7. SplitSoFar(t, sep, f[j], j)
  BY <1>1, <1>4, <1>6, SplitLoopInv, Zenon
<1> QED
  BY <1>1, <1>4, <1>6, <1>7, Zenon

LEMMA SplitLemma ==
  ASSUME NEW t, NEW sep, Splittable(t, sep), NEW r, r = Split(t, sep, Slots)
  PROVE  SplitOf(t, sep, r.parts, r.slots)
<1>1. PICK l, q : l = Len(t) /\ q = Len(sep)
  OBVIOUS
<1>2. l \in Nat /\ q \in Nat /\ q >= 1 /\ t \in Seq(Int) /\ sep \in Seq(Int)
  BY <1>1, LenProperties DEF Splittable
<1>3. PICK x, j : /\ SplitSoFar(t, sep, x, j)
                  /\ j \in Nat /\ (j = 0 \/ j <= l - (q - 1)) /\ j >= l - (q - 1)
                  /\ r = [x EXCEPT !.parts = Append(x.parts, SubSeq(t, x.start + 1, l))]
  BY <1>1, SplitIs, Zenon
<1>4. PICK parts, m : parts = x.parts /\ m = Len(parts)
  OBVIOUS
<1>5. x \in Splits /\ parts \in Seq(Seq(Int))
  BY <1>3, <1>4 DEF SplitSoFar, Splits
<1>6. x.start \in Nat /\ x.slots \in Nat /\ x.skip \in Nat /\ m \in Nat /\ m + 1 <= x.slots /\ x.start <= l
  BY <1>1, <1>3, <1>4, <1>5, LenProperties DEF SplitSoFar, Splits
<1>7. PICK piece : piece = SubSeq(t, x.start + 1, l)
  OBVIOUS
<1>8. PICK more : more = Append(parts, piece)
  OBVIOUS
<1>9. r.parts = more /\ r.slots = x.slots
  BY <1>3, <1>4, <1>5, <1>7, <1>8 DEF Splits
<1>10. piece \in Seq(Int)
  BY <1>1, <1>2, <1>6, <1>7, PieceIs
<1>11. More(parts, piece, more, m)
  BY <1>4, <1>5, <1>8, <1>10, OneMore
<1>12. /\ more \in Seq(Seq(Int)) /\ Len(more) = m + 1 /\ more[m + 1] = piece
       /\ \A k \in 1 .. m : more[k] = parts[k]
  BY <1>11, Zenon DEF More
<1>13. ASSUME NEW p \in x.start .. l - q PROVE ~At(t, sep, p)
  <2>1. p <= j - 1
    BY <1>2, <1>3, <1>6
  <2>2. CASE x.skip = 0
    <3>1. p \in x.start .. j - 1
      BY <1>6, <2>1
    <3> QED
      BY <1>3, <2>2, <3>1 DEF SplitSoFar
  <2>3. CASE x.skip > 0
    <3>1. x.start = j + x.skip
      BY <1>3, <2>3 DEF SplitSoFar
    <3> QED
      BY <1>3, <1>6, <2>1, <2>3, <3>1
  <2> QED
    BY <1>6, <2>2, <2>3
<1>14. Without(piece, sep)
  <2>1. \A p \in x.start .. Len(t) - Len(sep) : ~At(t, sep, p)
    BY <1>1, <1>13, Zenon
  <2>2. Len(sep) >= 1 /\ Len(t) \in Nat /\ x.start <= Len(t) /\ Len(t) <= Len(t)
    BY <1>1, <1>2, <1>6
  <2>3. Without(SubSeq(t, x.start + 1, Len(t)), sep)
    BY <1>2, <1>6, <2>1, <2>2, WithoutLemma, Zenon
  <2> QED
    BY <1>1, <1>7, <2>3, Zenon
<1>15. \A k \in 1 .. m : Without(parts[k], sep)
  BY <1>3, <1>4 DEF SplitSoFar
<1>16. ASSUME NEW k \in 1 .. m + 1 PROVE Without(more[k], sep)
  <2>1. k \in 1 .. m \/ k = m + 1
    BY <1>6
  <2> QED
    BY <1>12, <1>14, <1>15, <2>1, Zenon
<1>17. PICK a : Cuts(t, sep, parts, a, m) /\ a[m + 1] = x.start
  BY <1>3, <1>4 DEF SplitSoFar
<1>18. Cuts(t, sep, more, a, m)
  BY <1>12, <1>17, Zenon DEF Cuts
<1>19. m + 1 >= 1 /\ (m + 1) - 1 = m
  BY <1>6
<1> QED
  BY <1>1, <1>6, <1>7, <1>9, <1>12, <1>16, <1>17, <1>18, <1>19, Zenon DEF SplitOf

-----------------------------------------------------------------------------
(* The loops that append: what is left of a text from the byte p on.       *)
Laid(items, txt, p) ==
  \E b : /\ b \in [1 .. Len(items) + 1 -> Nat] /\ b[1] = p /\ b[Len(items) + 1] = Len(txt)
         /\ \A k \in 1 .. Len(items) : /\ b[k] <= b[k + 1] /\ b[k + 1] <= Len(txt)
                                       /\ items[k] = SubSeq(txt, b[k] + 1, b[k + 1])

(* Appending the next item. *)
Appending(txt, p, items, u, h, v) ==
  /\ txt \in Seq(Int) /\ p \in Nat /\ p <= Len(txt) /\ Laid(items, txt, p)
  /\ items \in Seq(Seq(Int)) /\ items # <<>> /\ h = Head(items)
  /\ u = SubSeq(txt, 1, p) /\ v = u \o h

LEMMA LaidStep ==
  ASSUME NEW txt, NEW p, NEW items, NEW u, NEW h, NEW v, Appending(txt, p, items, u, h, v)
  PROVE  \E n \in Nat : /\ n <= Len(txt) /\ Laid(Tail(items), txt, n)
                        /\ v = SubSeq(txt, 1, n) /\ Len(v) = n
                        /\ (Len(items) = 1 => n = Len(txt))
<1>1. PICK l, m : l = Len(txt) /\ m = Len(items) - 1
  OBVIOUS
<1>0. items \in Seq(Seq(Int)) /\ items # <<>> /\ h = Head(items)
  BY DEF Appending
<1>t. txt \in Seq(Int) /\ u = SubSeq(txt, 1, p) /\ v = u \o h
  BY DEF Appending
<1>2. l \in Nat /\ m \in Nat /\ Len(items) = m + 1 /\ h = items[1] /\ p \in Nat /\ p <= l
  <2>1. Len(items) \in Nat /\ Len(items) >= 1 /\ h = items[1] /\ l \in Nat
    BY <1>0, <1>1, <1>t, LenProperties, HeadTailProperties
  <2> QED
    BY <1>1, <2>1 DEF Appending
<1>3. PICK rest : rest = Tail(items)
  OBVIOUS
<1>4. Len(rest) = m /\ \A k \in 1 .. m : rest[k] = items[k + 1]
  BY <1>0, <1>1, <1>2, <1>3, HeadTailProperties
<1>5. PICK b : /\ b \in [1 .. (m + 1) + 1 -> Nat] /\ b[1] = p /\ b[(m + 1) + 1] = l
               /\ \A k \in 1 .. m + 1 : /\ b[k] <= b[k + 1] /\ b[k + 1] <= l
                                       /\ items[k] = SubSeq(txt, b[k] + 1, b[k + 1])
  BY <1>1, <1>2, Zenon DEF Laid, Appending
<1>6. PICK n : n = b[2]
  OBVIOUS
<1>7. n \in Nat /\ p <= n /\ n <= l /\ h = SubSeq(txt, p + 1, n)
  <2>1. 1 \in 1 .. m + 1 /\ 2 \in 1 .. (m + 1) + 1 /\ 1 + 1 = 2
    BY <1>2
  <2> QED
    BY <1>2, <1>5, <1>6, <2>1, Zenon
<1>8. PICK c : c = [k \in 1 .. m + 1 |-> b[k + 1]]
  OBVIOUS
<1>9. Laid(rest, txt, n)
  <2>1. c \in [1 .. m + 1 -> Nat] /\ c[1] = n /\ c[m + 1] = l
    BY <1>2, <1>5, <1>6, <1>8, SMTT(30)
  <2>2. ASSUME NEW k \in 1 .. m
        PROVE  c[k] <= c[k + 1] /\ c[k + 1] <= l /\ rest[k] = SubSeq(txt, c[k] + 1, c[k + 1])
    <3>1. k + 1 \in 1 .. m + 1 /\ k \in 1 .. m + 1
      BY <1>2
    <3>2. c[k] = b[k + 1] /\ c[k + 1] = b[(k + 1) + 1] /\ rest[k] = items[k + 1]
      BY <1>4, <1>8, <3>1, Zenon
    <3> QED
      BY <1>5, <3>1, <3>2, Zenon
  <2> QED
    BY <1>1, <1>4, <2>1, <2>2, Zenon DEF Laid
<1>10. v = SubSeq(txt, 1, n) /\ Len(v) = n
  <2>1. PICK w : w = SubSeq(txt, 1, n)
    OBVIOUS
  <2>2. 0 + 1 = 1 /\ n - 0 = n /\ p - 0 = p /\ 0 <= p /\ 0 <= n /\ (\A i \in Int : 0 + i = i) /\ 0 \in Nat
    BY <1>2, <1>7
  <2>3. w \in Seq(Int) /\ Len(w) = n /\ \A i \in 1 .. n : w[i] = txt[i]
    BY <1>1, <1>7, <1>t, <2>1, <2>2, PieceIs, SMTT(30)
  <2>4. u \in Seq(Int) /\ Len(u) = p /\ \A i \in 1 .. p : u[i] = txt[i]
    BY <1>1, <1>2, <1>t, <2>2, PieceIs
  <2>5. h \in Seq(Int) /\ Len(h) = n - p /\ \A i \in 1 .. n - p : h[i] = txt[p + i]
    BY <1>1, <1>2, <1>7, <1>t, PieceIs
  <2>6. /\ v \in Seq(Int) /\ Len(v) = p + (n - p)
        /\ \A i \in 1 .. p : v[i] = u[i]
        /\ \A i \in 1 .. n - p : v[p + i] = h[i]
    BY <1>2, <1>7, <1>t, <2>4, <2>5
  <2>7. ASSUME NEW i \in 1 .. n PROVE v[i] = w[i]
    <3>1. CASE i <= p
      <4>1. i \in 1 .. p
        BY <1>2, <1>7, <3>1
      <4> QED
        BY <2>3, <2>4, <2>6, <4>1, Zenon
    <3>2. CASE i > p
      <4>1. i - p \in 1 .. n - p /\ p + (i - p) = i
        BY <1>2, <1>7, <3>2
      <4>2. v[p + (i - p)] = txt[p + (i - p)]
        BY <2>5, <2>6, <4>1, Zenon
      <4> QED
        BY <2>3, <4>1, <4>2
    <3> QED
      BY <1>2, <1>7, <3>1, <3>2
  <2>8. Len(v) = n
    BY <1>2, <1>7, <2>6
  <2> QED
    BY <2>1, <2>3, <2>6, <2>7, <2>8, SameSeq
<1>11. Len(items) = 1 => n = l
  <2>1. m + 1 = 1 => (m + 1) + 1 = 2
    OBVIOUS
  <2> QED
    BY <1>2, <1>5, <1>6, <2>1, Zenon
<1> QED
  BY <1>1, <1>3, <1>7, <1>9, <1>10, <1>11

(* What sdsjoinsds appends of a split lays out the text that was split.    *)
Joining(parts, sep) ==
  [i \in 1 .. 2 * Len(parts) - 1 |-> IF i % 2 = 1 THEN parts[(i + 1) \div 2] ELSE sep]

LEMMA JoinLaid ==
  ASSUME NEW t, NEW sep, Splittable(t, sep), NEW parts, NEW slots, SplitOf(t, sep, parts, slots)
  PROVE  Joining(parts, sep) \in Seq(Seq(Int)) /\ Len(Joining(parts, sep)) >= 1
         /\ Laid(Joining(parts, sep), t, 0)
<1>1. PICK l, q, n : l = Len(t) /\ q = Len(sep) /\ n = Len(parts)
  OBVIOUS
<1>2. l \in Nat /\ q \in Nat /\ q >= 1 /\ n \in Nat /\ n >= 1
  BY <1>1, LenProperties DEF Splittable, SplitOf
<1>3. sep \in Seq(Int) /\ \A k \in 1 .. n : parts[k] \in Seq(Int)
  BY <1>1, <1>2, ElementOfSeq DEF Splittable, SplitOf
<1>4. PICK items : items = Joining(parts, sep)
  OBVIOUS
<1>5. PICK m : m = 2 * n - 1
  OBVIOUS
<1>6. m \in Nat /\ m >= 1 /\ m + 1 = 2 * n
  BY <1>2, <1>5
<1>7. \A i \in 1 .. m : i % 2 = 1 => (i + 1) \div 2 \in 1 .. n
  BY <1>2, <1>5
<1>8. /\ DOMAIN items = 1 .. m
      /\ \A i \in 1 .. m : items[i] = IF i % 2 = 1 THEN parts[(i + 1) \div 2] ELSE sep
      /\ items = [i \in 1 .. m |-> items[i]]
  BY <1>1, <1>4, <1>5, Zenon DEF Joining
<1>9. \A i \in 1 .. m : items[i] \in Seq(Int)
  BY <1>3, <1>7, <1>8, Zenon
<1>10. items \in Seq(Seq(Int)) /\ Len(items) = m
  <2>1. [i \in 1 .. m |-> items[i]] \in Seq(Seq(Int)) /\ Len([i \in 1 .. m |-> items[i]]) = m
    BY <1>6, <1>9
  <2> QED
    BY <1>8, <2>1, Zenon
<1>11. PICK a : /\ Cuts(t, sep, parts, a, n - 1) /\ a[n] <= l
                /\ parts[n] = SubSeq(t, a[n] + 1, l)
  BY <1>1 DEF SplitOf
<1>12. /\ a \in [1 .. n -> Nat] /\ a[1] = 0
       /\ \A k \in 1 .. n - 1 : /\ a[k] + q <= a[k + 1] /\ a[k + 1] <= l
                                /\ parts[k] = SubSeq(t, a[k] + 1, a[k + 1] - q)
                                /\ SubSeq(t, (a[k + 1] - q) + 1, (a[k + 1] - q) + q) = sep
  <2>1. (n - 1) + 1 = n
    BY <1>2
  <2> QED
    BY <1>1, <1>11, <2>1, Zenon DEF Cuts, At
<1>13. PICK e : e = [k \in 1 .. n |-> IF k = n THEN l ELSE a[k + 1] - q]
  OBVIOUS
<1>14. ASSUME NEW k \in 1 .. n
       PROVE  /\ e[k] \in Nat /\ a[k] <= e[k] /\ e[k] <= l /\ parts[k] = SubSeq(t, a[k] + 1, e[k])
  <2>1. CASE k = n
    BY <1>2, <1>11, <1>12, <1>13, <2>1
  <2>2. CASE k # n
    <3>1. k \in 1 .. n - 1 /\ a[k] \in Nat /\ a[k + 1] \in Nat /\ e[k] = a[k + 1] - q
      BY <1>2, <1>12, <1>13, <2>2
    <3>2. /\ a[k] + q <= a[k + 1] /\ a[k + 1] <= l
          /\ parts[k] = SubSeq(t, a[k] + 1, a[k + 1] - q)
      BY <1>12, <3>1, Zenon
    <3>3. a[k + 1] - q \in Nat /\ a[k] <= a[k + 1] - q /\ a[k + 1] - q <= l
      BY <1>2, <3>1, <3>2
    <3> QED
      BY <3>1, <3>2, <3>3, Zenon
  <2> QED
    BY <2>1, <2>2
<1>15. ASSUME NEW k \in 1 .. n - 1
       PROVE  a[k + 1] \in Nat /\ e[k] <= a[k + 1] /\ a[k + 1] <= l /\ sep = SubSeq(t, e[k] + 1, a[k + 1])
  <2>1. k # n /\ k \in 1 .. n /\ k + 1 \in 1 .. n
    BY <1>2
  <2>2. e[k] = a[k + 1] - q /\ a[k + 1] \in Nat
    BY <1>12, <1>13, <2>1
  <2>3. (a[k + 1] - q) + q = a[k + 1] /\ a[k + 1] - q <= a[k + 1]
    BY <1>2, <2>2
  <2> QED
    BY <1>12, <2>2, <2>3
<1>16. PICK b : b = [i \in 1 .. m + 1 |-> IF i % 2 = 1 THEN a[(i + 1) \div 2] ELSE e[i \div 2]]
  OBVIOUS
<1>17. ASSUME NEW i \in 1 .. m + 1
       PROVE  \/ i % 2 = 1 /\ (i + 1) \div 2 \in 1 .. n
              \/ i % 2 = 0 /\ i \div 2 \in 1 .. n
  BY <1>2, <1>6
<1>18. b \in [1 .. m + 1 -> Nat]
  <2>1. ASSUME NEW i \in 1 .. m + 1 PROVE b[i] \in Nat
    BY <1>12, <1>14, <1>16, <1>17
  <2> QED
    BY <1>16, <2>1
<1>19. b[1] = 0 /\ b[m + 1] = l
  <2>1. 1 \in 1 .. m + 1 /\ 1 % 2 = 1 /\ (1 + 1) \div 2 = 1
    BY <1>6
  <2>2. m + 1 \in 1 .. m + 1 /\ (m + 1) % 2 # 1 /\ (m + 1) \div 2 = n /\ n \in 1 .. n
    BY <1>2, <1>6
  <2>3. b[1] = a[1]
    BY <1>16, <2>1
  <2>4. b[m + 1] = e[n]
    BY <1>16, <2>2
  <2> QED
    BY <1>12, <1>13, <2>2, <2>3, <2>4
<1>20. ASSUME NEW i \in 1 .. m
       PROVE  b[i] <= b[i + 1] /\ b[i + 1] <= l /\ items[i] = SubSeq(t, b[i] + 1, b[i + 1])
  <2>0. i \in 1 .. m + 1 /\ i + 1 \in 1 .. m + 1
    BY <1>6
  <2>1. CASE i % 2 = 1
    <3>1. PICK k : k = (i + 1) \div 2
      OBVIOUS
    <3>2. k \in 1 .. n /\ (i + 1) % 2 # 1
      BY <1>2, <1>6, <2>1, <3>1
    <3>3. b[i] = a[k] /\ b[i + 1] = e[k] /\ items[i] = parts[k]
      BY <1>8, <1>16, <2>0, <2>1, <3>1, <3>2
    <3> QED
      BY <1>14, <3>2, <3>3, Zenon
  <2>2. CASE i % 2 # 1
    <3>1. PICK k : k = i \div 2
      OBVIOUS
    <3>2. k \in 1 .. n - 1 /\ (i + 1) % 2 = 1 /\ ((i + 1) + 1) \div 2 = k + 1
      BY <1>2, <1>6, <2>2, <3>1
    <3>3. b[i] = e[k] /\ b[i + 1] = a[k + 1] /\ items[i] = sep
      BY <1>8, <1>16, <2>0, <2>2, <3>1, <3>2, Zenon
    <3> QED
      BY <1>15, <3>2, <3>3, Zenon
  <2> QED
    BY <2>1, <2>2
<1>21. Laid(items, t, 0)
  BY <1>1, <1>10, <1>18, <1>19, <1>20, Zenon DEF Laid
<1> QED
  BY <1>4, <1>6, <1>10, <1>21

(* A text that the items lay out.                                          *)
LEMMA PieceOfFront ==
  ASSUME NEW t \in Seq(Int), NEW h \in Seq(Int), NEW a \in Nat, NEW b \in Nat,
         a <= b, b <= Len(t)
  PROVE  SubSeq(t \o h, a + 1, b) = SubSeq(t, a + 1, b)
<1>1. PICK w : w = t \o h
  OBVIOUS
<1>2. /\ w \in Seq(Int) /\ Len(t) \in Nat /\ Len(h) \in Nat /\ Len(w) = Len(t) + Len(h)
      /\ \A i \in 1 .. Len(t) : w[i] = t[i]
  BY <1>1, LenProperties
<1>3. PICK x, y : x = SubSeq(w, a + 1, b) /\ y = SubSeq(t, a + 1, b)
  OBVIOUS
<1>4. b <= Len(w)
  BY <1>2
<1>5. x \in Seq(Int) /\ Len(x) = b - a /\ \A i \in 1 .. b - a : x[i] = w[a + i]
  BY <1>2, <1>3, <1>4, PieceIs, SMTT(30)
<1>6. y \in Seq(Int) /\ Len(y) = b - a /\ \A i \in 1 .. b - a : y[i] = t[a + i]
  BY <1>3, PieceIs
<1>7. \A i \in 1 .. b - a : a + i \in 1 .. Len(t)
  BY <1>2
<1>8. \A i \in 1 .. b - a : x[i] = y[i]
  BY <1>2, <1>5, <1>6, <1>7, Zenon
<1>9. x = y
  BY <1>5, <1>6, <1>8, SameSeq
<1> QED
  BY <1>1, <1>3, <1>9

LEMMA PieceOfEnd ==
  ASSUME NEW t \in Seq(Int), NEW h \in Seq(Int)
  PROVE  SubSeq(t \o h, Len(t) + 1, Len(t) + Len(h)) = h
<1>1. PICK w : w = t \o h
  OBVIOUS
<1>2. /\ w \in Seq(Int) /\ Len(t) \in Nat /\ Len(h) \in Nat /\ Len(w) = Len(t) + Len(h)
      /\ \A i \in 1 .. Len(h) : w[Len(t) + i] = h[i]
  BY <1>1, LenProperties
<1>3. PICK x : x = SubSeq(w, Len(t) + 1, Len(t) + Len(h))
  OBVIOUS
<1>4. Len(t) + Len(h) \in Nat /\ Len(t) <= Len(t) + Len(h) /\ (Len(t) + Len(h)) - Len(t) = Len(h)
      /\ Len(t) + Len(h) <= Len(w)
  BY <1>2
<1>5. /\ x \in Seq(Int) /\ Len(x) = Len(h)
      /\ \A i \in 1 .. Len(h) : x[i] = w[Len(t) + i]
  BY <1>2, <1>3, <1>4, PieceIs
<1>6. x = h
  BY <1>2, <1>5, SameSeq
<1> QED
  BY <1>1, <1>3, <1>6

LEMMA LayOut ==
  \A items \in Seq(Seq(Int)) : \E txt \in Seq(Int) : Laid(items, txt, 0)
<1> DEFINE Ns == {n \in Nat : \A items \in Seq(Seq(Int)) : Len(items) = n =>
                                \E txt \in Seq(Int) : Laid(items, txt, 0)}
<1>1. 0 \in Ns
  <2> SUFFICES ASSUME NEW items \in Seq(Seq(Int)), Len(items) = 0
               PROVE  \E txt \in Seq(Int) : Laid(items, txt, 0)
    OBVIOUS
  <2>1. PICK b : b = [k \in 1 .. 1 |-> 0]
    OBVIOUS
  <2>2. b \in [1 .. 0 + 1 -> Nat] /\ b[1] = 0 /\ 0 + 1 = 1 /\ 1 .. 0 = {}
    BY <2>1
  <2>3. <<>> \in Seq(Int) /\ Len(<<>>) = 0
    OBVIOUS
  <2>4. Laid(items, <<>>, 0)
    BY <2>2, <2>3 DEF Laid
  <2> QED
    BY <2>3, <2>4
<1>2. ASSUME NEW n \in Nat, n \in Ns PROVE n + 1 \in Ns
  <2>1. ASSUME NEW items, items \in Seq(Seq(Int)), Len(items) = n + 1
        PROVE  \E txt \in Seq(Int) : Laid(items, txt, 0)
    <3>1. PICK front : front = [k \in 1 .. n |-> items[k]]
      OBVIOUS
    <3>2. PICK h : h = items[n + 1]
      OBVIOUS
    <3>3. \A k \in 1 .. n + 1 : items[k] \in Seq(Int)
      BY <2>1, ElementOfSeq
    <3>4. h \in Seq(Int) /\ \A k \in 1 .. n : items[k] \in Seq(Int)
      BY <3>2, <3>3
    <3>5. front \in Seq(Seq(Int)) /\ Len(front) = n /\ \A k \in 1 .. n : front[k] = items[k]
      BY <3>1, <3>4
    <3>6. PICK t \in Seq(Int) : Laid(front, t, 0)
      BY <1>2, <3>5
    <3>7. PICK l : l = Len(t)
      OBVIOUS
    <3>8. PICK w : w = t \o h
      OBVIOUS
    <3>9. w \in Seq(Int) /\ Len(w) = l + Len(h) /\ l \in Nat /\ Len(h) \in Nat
      BY <3>4, <3>6, <3>7, <3>8, LenProperties
    <3>10. PICK b : /\ b \in [1 .. n + 1 -> Nat] /\ b[1] = 0 /\ b[n + 1] = l
                    /\ \A k \in 1 .. n : /\ b[k] <= b[k + 1] /\ b[k + 1] <= l
                                         /\ front[k] = SubSeq(t, b[k] + 1, b[k + 1])
      BY <3>5, <3>6, <3>7, Zenon DEF Laid
    <3>11. PICK c : c = [k \in 1 .. (n + 1) + 1 |-> IF k = n + 2 THEN l + Len(h) ELSE b[k]]
      OBVIOUS
    <3>12. /\ c \in [1 .. (n + 1) + 1 -> Nat] /\ c[1] = 0 /\ c[(n + 1) + 1] = l + Len(h)
           /\ \A k \in 1 .. n + 1 : c[k] = b[k]
      <4>1. l + Len(h) \in Nat
        BY <3>9
      <4>2. \A k \in 1 .. (n + 1) + 1 : k \in 1 .. n + 1 \/ k = n + 2
        OBVIOUS
      <4>3. \A k \in 1 .. n + 1 : k \in 1 .. (n + 1) + 1 /\ k # n + 2
        OBVIOUS
      <4>4. (n + 1) + 1 \in 1 .. (n + 1) + 1 /\ (n + 1) + 1 = n + 2 /\ 1 \in 1 .. n + 1
        OBVIOUS
      <4> QED
        BY <3>10, <3>11, <4>1, <4>2, <4>3, <4>4
    <3>13. ASSUME NEW k \in 1 .. n + 1
           PROVE  c[k] <= c[k + 1] /\ c[k + 1] <= l + Len(h) /\ items[k] = SubSeq(w, c[k] + 1, c[k + 1])
      <4>1. CASE k \in 1 .. n
        <5>1. k \in 1 .. n + 1 /\ k + 1 \in 1 .. n + 1
          BY <4>1
        <5>2. c[k] = b[k] /\ c[k + 1] = b[k + 1] /\ b[k] \in Nat /\ b[k + 1] \in Nat
          BY <3>10, <3>12, <5>1
        <5>3. b[k] <= b[k + 1] /\ b[k + 1] <= l /\ items[k] = SubSeq(t, b[k] + 1, b[k + 1])
          BY <3>5, <3>10, <4>1, Zenon
        <5>4. SubSeq(w, b[k] + 1, b[k + 1]) = SubSeq(t, b[k] + 1, b[k + 1])
          BY <3>4, <3>6, <3>7, <3>8, <5>2, <5>3, PieceOfFront, Zenon
        <5>5. b[k + 1] <= l + Len(h)
          BY <3>9, <5>2, <5>3
        <5> QED
          BY <5>2, <5>3, <5>4, <5>5, Zenon
      <4>2. CASE k = n + 1
        <5>1. n + 1 \in 1 .. n + 1
          OBVIOUS
        <5>2. c[k] = l /\ c[k + 1] = l + Len(h) /\ items[k] = h
          BY <3>2, <3>10, <3>12, <4>2, <5>1, Zenon
        <5>3. SubSeq(w, l + 1, l + Len(h)) = h
          BY <3>4, <3>6, <3>7, <3>8, PieceOfEnd, Zenon
        <5>4. l <= l + Len(h) /\ l + Len(h) <= l + Len(h)
          BY <3>9
        <5> QED
          BY <5>2, <5>3, <5>4, Zenon
      <4>3. k \in 1 .. n \/ k = n + 1
        OBVIOUS
      <4> QED
        BY <4>1, <4>2, <4>3
    <3>14. Laid(items, w, 0)
      BY <2>1, <3>9, <3>12, <3>13, Zenon DEF Laid
    <3> QED
      BY <3>9, <3>14
  <2> QED
    BY <2>1
<1> HIDE DEF Ns
<1>3. Nat \subseteq Ns
  BY <1>1, <1>2, Induction
<1> SUFFICES ASSUME NEW items \in Seq(Seq(Int)) PROVE \E txt \in Seq(Int) : Laid(items, txt, 0)
  OBVIOUS
<1>4. Len(items) \in Ns
  BY <1>3, LenProperties
<1> QED
  BY <1>4 DEF Ns

-----------------------------------------------------------------------------
(* What the calls of SdsLists have returned. *)

Out(kind, of, sep, parts, slots, ok) ==
  [kind |-> kind, of |-> of, sep |-> sep, parts |-> parts, slots |-> slots, ok |-> ok]

(* A loop that appends is within txt, or has made all of it.               *)
Laying(txt) ==
  /\ txt \in Seq(Int)
  /\ pc = "cat" => /\ todo # <<>> /\ Laid(todo, txt, s.len)
                   /\ s.len <= Len(txt) /\ Content(s) = SubSeq(txt, 1, s.len)
  /\ pc = "idle" => Content(s) = txt

Pieces(p) == <<<<Quote>>>> \o [i \in DOMAIN p |-> Repr(p[i])] \o <<<<Quote>>>>

OfNumber == \E v \in Values : Content(s) = Ll2str(v, LlMax) /\ out.of[1] = v
OfSplit  == Splittable(out.of, out.sep) /\ SplitOf(out.of, out.sep, out.parts, out.slots)
OfRepr   == \E txt : Laid(Pieces(out.of), txt, 0) /\ Laying(txt)

OutInv ==
  /\ out = Out(out.kind, out.of, out.sep, out.parts, out.slots, out.ok)
  /\ pc \in {"none", "fmt"} => out.kind = "none"
  /\ out.kind \in {"line", "unsplit", "number", "split", "args", "reread"} => pc = "idle"
  /\ out.kind = "number" => OfNumber
  /\ out.kind \in {"split", "joined"} => OfSplit
  /\ out.kind = "joined" => Laying(out.of)
  /\ out.kind = "repr" => out.of \in Reprs /\ OfRepr

ListsInv == SdsInv /\ OutInv

LEMMA OutFields ==
  ASSUME NEW o, NEW kind, NEW of, NEW sep, NEW parts, NEW slots, NEW ok,
         o = Out(kind, of, sep, parts, slots, ok)
  PROVE  /\ o.kind = kind /\ o.of = of /\ o.sep = sep /\ o.parts = parts /\ o.slots = slots /\ o.ok = ok
         /\ o = Out(o.kind, o.of, o.sep, o.parts, o.slots, o.ok)
BY DEF Out

LEMMA OutKind ==
  ASSUME NEW o, NEW k, NEW kind, NEW of, NEW sep, NEW parts, NEW slots, NEW ok,
         o = Out(kind, of, sep, parts, slots, ok)
  PROVE  [o EXCEPT !.kind = k] = Out(k, of, sep, parts, slots, ok)
BY DEF Out

(* The calls that leave no result, or only a line.                         *)
LEMMA NoResult ==
  ASSUME OutInv, out.kind = "none", out' = out
  PROVE  OutInv'
<1>1. out' = Out(out'.kind, out'.of, out'.sep, out'.parts, out'.slots, out'.ok)
  BY Zenon DEF OutInv
<1>2. out'.kind = "none"
  OBVIOUS
<1> QED
  BY <1>1, <1>2 DEF OutInv

LEMMA NewResult ==
  ASSUME NEW k \in {"none", "line"}, out' = Out(k, <<>>, <<>>, <<>>, 0, TRUE),
         k = "line" => pc' = "idle"
  PROVE  OutInv'
<1>1. out' = Out(k, <<>>, <<>>, <<>>, 0, TRUE)
  OBVIOUS
<1>2. /\ out' = Out(out'.kind, out'.of, out'.sep, out'.parts, out'.slots, out'.ok)
      /\ out'.kind = k
  BY <1>1 DEF Out
<1>3. pc' \in {"none", "fmt"} => k = "none"
  OBVIOUS
<1> QED
  BY <1>2, <1>3 DEF OutInv

(* sdsfromlonglong. *)
LEMMA NumberStep ==
  ASSUME SdsInv, NEW v \in Values, FromLongLong(v)
  PROVE  ListsInv'
<1>1. Ll2str(v, LlMax) \in Seq(Int)
  BY ReadsBack, Zenon
<1>2. New(Ll2str(v, LlMax)) /\ pc' = "idle"
  BY DEF FromLongLong, New
<1>3. SdsInv' /\ Content(s)' = Ll2str(v, LlMax)
  BY <1>1, <1>2, NewStep DEF Progress
<1>4. out' = Out("number", <<v>>, <<>>, <<>>, 0, TRUE)
  BY Zenon DEF FromLongLong, NoOut, Out
<1>5. /\ out' = Out(out'.kind, out'.of, out'.sep, out'.parts, out'.slots, out'.ok)
      /\ out'.kind = "number" /\ out'.of = <<v>>
  BY <1>4 DEF Out
<1>6. <<v>>[1] = v
  OBVIOUS
<1>7. OfNumber'
  BY <1>3, <1>5, <1>6, Zenon DEF OfNumber
<1>8. OutInv'
  BY <1>2, <1>5, <1>7 DEF OutInv
<1> QED
  BY <1>3, <1>8 DEF ListsInv

(* sdssplitlen. *)
LEMMA SplitStep ==
  ASSUME ListsInv, NEW sep \in Seps, SplitLen(sep)
  PROVE  ListsInv'
<1>1. /\ pc = "idle" /\ s.len > 0 /\ sep # <<>>
      /\ pc' = pc /\ s' = s /\ todo' = todo /\ call' = call
  BY DEF SplitLen, IsLine, cvars
<1>2. SdsInv'
  BY <1>1 DEF ListsInv, SdsInv, TypeOK, HeaderFits, Terminated, Here
<1>3. PICK t : t = Content(s)
  OBVIOUS
<1>4. PICK r : r = Split(t, sep, Slots)
  OBVIOUS
<1> SUFFICES ASSUME out' # Out("unsplit", <<>>, <<>>, <<>>, 0, FALSE) PROVE ListsInv'
  <2>1. ASSUME out' = Out("unsplit", <<>>, <<>>, <<>>, 0, FALSE) PROVE OutInv'
    <3>1. /\ out' = Out(out'.kind, out'.of, out'.sep, out'.parts, out'.slots, out'.ok)
          /\ out'.kind = "unsplit"
      BY <2>1 DEF Out
    <3> QED
      BY <1>1, <3>1 DEF OutInv
  <2> QED
    BY <1>2, <2>1 DEF ListsInv
<1>5. out' = Out("split", t, sep, r.parts, r.slots, TRUE)
  <2>1. PICK a, b : /\ a = [NoOut EXCEPT !.kind = "split", !.of = t, !.sep = sep,
                                         !.parts = r.parts, !.slots = r.slots]
                    /\ b = [NoOut EXCEPT !.kind = "unsplit", !.ok = FALSE]
    OBVIOUS
  <2>2. out' = a \/ out' = b
    BY <1>3, <1>4, <2>1, Zenon DEF SplitLen
  <2>3. a = Out("split", t, sep, r.parts, r.slots, TRUE)
    BY <2>1, Zenon DEF NoOut, Out
  <2>4. b = Out("unsplit", <<>>, <<>>, <<>>, 0, FALSE)
    BY <2>1, Zenon DEF NoOut, Out
  <2> QED
    BY <2>2, <2>3, <2>4, Zenon
<1>6. /\ out' = Out(out'.kind, out'.of, out'.sep, out'.parts, out'.slots, out'.ok)
      /\ out'.kind = "split" /\ out'.of = t /\ out'.sep = sep
      /\ out'.parts = r.parts /\ out'.slots = r.slots
  BY <1>5 DEF Out
<1>7. Splittable(t, sep)
  <2>1. t \in Seq(Int)
    BY <1>1, <1>3, WhenTerminated DEF ListsInv
  <2>2. sep \in Seq(Bytes) /\ Bytes \subseteq Int
    BY ListsAssumption DEF Bytes
  <2>3. sep \in Seq(Int)
    BY <2>2, SeqMonotonic, Zenon
  <2>4. Len(sep) \in Nat /\ Len(sep) # 0
    BY <1>1, <2>3, LenProperties, EmptySeq
  <2> QED
    BY <2>1, <2>3, <2>4 DEF Splittable
<1>8. SplitOf(t, sep, r.parts, r.slots)
  BY <1>4, <1>7, SplitLemma, Zenon
<1>9. OfSplit'
  BY <1>6, <1>7, <1>8, Zenon DEF OfSplit
<1>10. OutInv'
  BY <1>1, <1>6, <1>9 DEF OutInv
<1> QED
  BY <1>2, <1>10 DEF ListsInv

(* The beginning of a loop onto an empty string. *)
LEMMA LayingStarts ==
  ASSUME NEW txt \in Seq(Int), pc' = "cat", todo' # <<>>, Laid(todo', txt, 0),
         s'.len = 0, Content(s)' = <<>>
  PROVE  Laying(txt)'
<1>1. SubSeq(txt, 1, 0) = <<>> /\ 0 <= Len(txt)
  BY LenProperties
<1> QED
  BY <1>1 DEF Laying

(* sdsjoinsds. *)
LEMMA JoinStep ==
  ASSUME ListsInv, Join
  PROVE  ListsInv'
<1>1. /\ pc = "idle" /\ out.kind = "split" /\ pc' = "cat" /\ s' = NewLen(<<>>)
      /\ todo' = Joining(out.parts, out.sep)
      /\ out' = [out EXCEPT !.kind = "joined"]
  BY Zenon DEF Join, Joining
<1>2. PICK t, sep, parts, slots : /\ t = out.of /\ sep = out.sep
                                  /\ parts = out.parts /\ slots = out.slots
  OBVIOUS
<1>3. Splittable(t, sep) /\ SplitOf(t, sep, parts, slots)
  BY <1>1, <1>2 DEF ListsInv, OutInv, OfSplit
<1>4. PICK items : items = Joining(parts, sep)
  OBVIOUS
<1>5. items \in Seq(Seq(Int)) /\ Len(items) >= 1 /\ Laid(items, t, 0)
  BY <1>3, <1>4, JoinLaid, Zenon
<1>6. items # <<>>
  BY <1>5
<1>7. Holds(NewLen(<<>>), <<>>)
  <2>1. <<>> \in Seq(Int) /\ Len(<<>>) = 0 /\ 0 < Limit[4]
    BY LimitLemma DEF Types
  <2> QED
    BY <2>1, NewLenLemma
<1>8. SdsInv' /\ Content(s)' = <<>>
  BY <1>1, <1>2, <1>4, <1>5, <1>7, ThenTerminated
<1>9. s'.len = 0
  BY <1>1, <1>7 DEF Holds
<1>10. t \in Seq(Int)
  BY <1>3 DEF Splittable
<1>11. Laying(t)'
  BY <1>1, <1>2, <1>4, <1>5, <1>6, <1>8, <1>9, <1>10, LayingStarts
<1>12. out' = Out("joined", t, sep, parts, slots, out.ok)
  <2>1. PICK k, ok : k = out.kind /\ ok = out.ok
    OBVIOUS
  <2>2. out = Out(k, t, sep, parts, slots, ok)
    BY <1>2, <2>1 DEF ListsInv, OutInv
  <2>3. [out EXCEPT !.kind = "joined"] = Out("joined", t, sep, parts, slots, ok)
    BY <2>2 DEF Out
  <2> QED
    BY <1>1, <2>1, <2>3, Zenon
<1>13. /\ out' = Out(out'.kind, out'.of, out'.sep, out'.parts, out'.slots, out'.ok)
       /\ out'.kind = "joined" /\ out'.of = t /\ out'.sep = sep
       /\ out'.parts = parts /\ out'.slots = slots
  BY <1>12 DEF Out
<1>14. OfSplit'
  BY <1>3, <1>13, Zenon DEF OfSplit
<1>15. OutInv'
  BY <1>1, <1>11, <1>13, <1>14 DEF OutInv
<1> QED
  BY <1>8, <1>15 DEF ListsInv

LEMMA OneBefore ==
  ASSUME NEW h \in Seq(Seq(Int)), NEW q \in Seq(Seq(Int)), Len(h) = 1
  PROVE  /\ h \o q \in Seq(Seq(Int)) /\ Len(h \o q) = 1 + Len(q) /\ (h \o q)[1] = h[1]
         /\ \A k \in 1 .. Len(q) : (h \o q)[k + 1] = q[k]
<1>1. PICK t : t = h \o q
  OBVIOUS
<1>2. PICK m : m = Len(q)
  OBVIOUS
<1>3. /\ t \in Seq(Seq(Int)) /\ Len(t) = 1 + m /\ m \in Nat
      /\ \A i \in 1 .. 1 + m : t[i] = IF i <= 1 THEN h[i] ELSE q[i - 1]
  <2>1. /\ h \o q \in Seq(Seq(Int)) /\ Len(h \o q) = Len(h) + Len(q)
        /\ \A i \in 1 .. Len(h) + Len(q) :
             (h \o q)[i] = IF i <= Len(h) THEN h[i] ELSE q[i - Len(h)]
    BY ConcatProperties, Zenon
  <2> QED
    BY <1>1, <1>2, <2>1, LenProperties, Zenon
<1>4. ASSUME NEW k \in 1 .. m PROVE t[k + 1] = q[k]
  <2>1. k + 1 \in 1 .. 1 + m /\ ~(k + 1 <= 1) /\ (k + 1) - 1 = k
    BY <1>3
  <2> QED
    BY <1>3, <2>1, Zenon
<1>5. 1 \in 1 .. 1 + m /\ 1 <= 1
  BY <1>3
<1>6. t[1] = h[1]
  BY <1>3, <1>5, Zenon
<1> QED
  BY <1>1, <1>2, <1>3, <1>4, <1>6, Zenon

LEMMA OneBehind ==
  ASSUME NEW h \in Seq(Seq(Int)), NEW q \in Seq(Seq(Int)), Len(h) = 1
  PROVE  /\ q \o h \in Seq(Seq(Int)) /\ Len(q \o h) = Len(q) + 1 /\ (q \o h)[Len(q) + 1] = h[1]
         /\ \A k \in 1 .. Len(q) : (q \o h)[k] = q[k]
<1>1. PICK t : t = q \o h
  OBVIOUS
<1>2. PICK m : m = Len(q)
  OBVIOUS
<1>3. /\ t \in Seq(Seq(Int)) /\ Len(t) = m + 1 /\ m \in Nat
      /\ \A i \in 1 .. m + 1 : t[i] = IF i <= m THEN q[i] ELSE h[i - m]
  <2>1. /\ q \o h \in Seq(Seq(Int)) /\ Len(q \o h) = Len(q) + Len(h)
        /\ \A i \in 1 .. Len(q) + Len(h) :
             (q \o h)[i] = IF i <= Len(q) THEN q[i] ELSE h[i - Len(q)]
    BY ConcatProperties, Zenon
  <2> QED
    BY <1>1, <1>2, <2>1, LenProperties, Zenon
<1>4. ASSUME NEW k \in 1 .. m PROVE t[k] = q[k]
  <2>1. k \in 1 .. m + 1 /\ k <= m
    BY <1>3
  <2> QED
    BY <1>3, <2>1, Zenon
<1>5. m + 1 \in 1 .. m + 1 /\ ~(m + 1 <= m) /\ (m + 1) - m = 1
  BY <1>3
<1>6. t[m + 1] = h[1]
  BY <1>3, <1>5, Zenon
<1> QED
  BY <1>1, <1>2, <1>3, <1>4, <1>6, Zenon

(* What sdscatrepr appends: a quote, a piece for every byte, a quote.      *)
LEMMA PiecesAre ==
  ASSUME NEW p \in Reprs, NEW items, items = Pieces(p), NEW m, m = Len(p)
  PROVE  /\ p \in Seq(Bytes) /\ m \in Nat
         /\ items \in Seq(Seq(Int)) /\ Len(items) = m + 2
         /\ items[1] = <<Quote>> /\ items[m + 2] = <<Quote>>
         /\ \A k \in 1 .. m : items[k + 1] = Repr(p[k])
<1>1. p \in Seq(Bytes) /\ m \in Nat /\ DOMAIN p = 1 .. m
  BY TextsAssumption, LenProperties
<1>2. \A k \in 1 .. m : Repr(p[k]) \in Seq(Int)
  BY <1>1, ElementOfSeq, ReprLemma
<1>3. PICK q : q = [k \in 1 .. m |-> Repr(p[k])]
  OBVIOUS
<1>4. q \in Seq(Seq(Int)) /\ Len(q) = m /\ \A k \in 1 .. m : q[k] = Repr(p[k])
  BY <1>1, <1>2, <1>3
<1>5. PICK h : h = <<<<Quote>>>>
  OBVIOUS
<1>6. h \in Seq(Seq(Int)) /\ Len(h) = 1 /\ h[1] = <<Quote>>
  BY <1>5 DEF Quote
<1>7. PICK front : front = h \o q
  OBVIOUS
<1>8. /\ front \in Seq(Seq(Int)) /\ Len(front) = 1 + m /\ front[1] = h[1]
      /\ \A k \in 1 .. m : front[k + 1] = q[k]
  BY <1>4, <1>6, <1>7, OneBefore, Zenon
<1>9. items = front \o h
  BY <1>1, <1>3, <1>5, <1>7, Zenon DEF Pieces
<1>10. /\ items \in Seq(Seq(Int)) /\ Len(items) = (1 + m) + 1
       /\ \A k \in 1 .. 1 + m : items[k] = front[k]
       /\ items[(1 + m) + 1] = h[1]
  <2>1. /\ front \o h \in Seq(Seq(Int)) /\ Len(front \o h) = Len(front) + 1
        /\ (front \o h)[Len(front) + 1] = h[1]
        /\ \A k \in 1 .. Len(front) : (front \o h)[k] = front[k]
    BY <1>6, <1>8, OneBehind, Zenon
  <2> QED
    BY <1>8, <1>9, <2>1, Zenon
<1>11. (1 + m) + 1 = m + 2 /\ 1 \in 1 .. 1 + m /\ \A k \in 1 .. m : k + 1 \in 1 .. 1 + m
  BY <1>1
<1> QED
  BY <1>1, <1>4, <1>6, <1>8, <1>10, <1>11

(* sdscatrepr, on an empty string.                                         *)
LEMMA QuotedStep ==
  ASSUME ListsInv, NEW p \in Reprs, Quoted(p)
  PROVE  ListsInv'
<1>1. /\ pc = "idle" /\ pc' = "cat" /\ s.len = 0 /\ s' = s /\ CatRepr(p)
      /\ todo' = Pieces(p) /\ out' = [NoOut EXCEPT !.kind = "repr", !.of = p]
  BY Zenon DEF Quoted, CatRepr, Pieces
<1>2. PICK items : items = Pieces(p)
  OBVIOUS
<1>3. items \in Seq(Seq(Int)) /\ items # <<>>
  <2>1. items \in Seq(Seq(Int))
    BY <1>2, PiecesAre
  <2>2. Len(items) = Len(p) + 2 /\ Len(p) \in Nat
    BY <1>2, PiecesAre, LenProperties
  <2> QED
    BY <2>1, <2>2
<1>4. PICK txt \in Seq(Int) : Laid(items, txt, 0)
  BY <1>3, LayOut
<1>5. SdsInv'
  BY <1>1, CatReprStep DEF ListsInv, Progress
<1>6. Content(s)' = <<>> /\ s'.len = 0
  <2>1. Content(s) \in Seq(Int) /\ Len(Content(s)) = 0
    BY <1>1, WhenTerminated DEF ListsInv
  <2> QED
    BY <1>1, <2>1, EmptySeq
<1>7. Laying(txt)'
  BY <1>1, <1>2, <1>3, <1>4, <1>6, LayingStarts
<1>8. out' = Out("repr", p, <<>>, <<>>, 0, TRUE)
  BY <1>1, Zenon DEF NoOut, Out
<1>9. /\ out' = Out(out'.kind, out'.of, out'.sep, out'.parts, out'.slots, out'.ok)
      /\ out'.kind = "repr" /\ out'.of = p
  BY <1>8 DEF Out
<1>10. OfRepr'
  BY <1>2, <1>4, <1>7, <1>9 DEF OfRepr
<1>11. OutInv'
  BY <1>1, <1>9, <1>10 DEF OutInv
<1> QED
  BY <1>5, <1>11 DEF ListsInv

(* A text up to its end. *)
LEMMA WholeText ==
  ASSUME NEW t \in Seq(Int)
  PROVE  SubSeq(t, 1, Len(t)) = t
<1>1. Len(t) \in Nat /\ Len(t) <= Len(t) /\ Prefix(t, Len(t)) = SubSeq(t, 1, Len(t))
  BY LenProperties DEF Prefix
<1> QED
  BY <1>1, PrefixFull

(* A round of a loop that appends.                                         *)
LEMMA LayingNext ==
  ASSUME SdsInv, CatNext, NEW txt, Laying(txt)
  PROVE  Laying(txt)'
<1>1. PICK h, u, n : h = Head(todo) /\ u = Content(s) /\ n = s.len
  OBVIOUS
<1>2. /\ pc = "cat" /\ todo # <<>> /\ todo' = Tail(todo)
      /\ pc' = IF Len(todo) = 1 THEN "idle" ELSE "cat"
  BY DEF CatNext
<1>3. PICK v : v = u \o h
  OBVIOUS
<1>4. Appending(txt, n, todo, u, h, v)
  <2>1. todo \in Seq(Seq(Int)) /\ n \in Nat
    BY <1>1 DEF SdsInv, TypeOK
  <2> QED
    BY <1>1, <1>2, <1>3, <2>1 DEF Appending, Laying
<1>5. PICK m \in Nat : /\ m <= Len(txt) /\ Laid(Tail(todo), txt, m)
                       /\ v = SubSeq(txt, 1, m) /\ Len(v) = m
                       /\ (Len(todo) = 1 => m = Len(txt))
  BY <1>4, LaidStep, Zenon
<1>6. SdsInv' /\ Content(s)' = v
  BY <1>1, <1>3, CatNextStep DEF Progress
<1>7. s'.len = m
  <2>1. todo \in Seq(Seq(Int)) /\ todo # <<>>
    BY <1>2 DEF SdsInv, TypeOK
  <2>2. h \in Seq(Int)
    BY <1>1, <2>1, HeadTailProperties
  <2>3. Sound(s) /\ s.len + Len(h) <= SizeMax /\ s' = CatLen(s, h)
    BY <1>1, <1>2, WhenTerminated DEF CatNext
  <2>4. Holds(s', v)
    BY <1>1, <1>3, <2>2, <2>3, CatLenLemma, Zenon
  <2> QED
    BY <1>5, <2>4 DEF Holds
<1>8. txt \in Seq(Int)
  BY DEF Laying
<1>9. CASE Len(todo) = 1
  <2>1. SubSeq(txt, 1, Len(txt)) = txt
    BY <1>8, WholeText
  <2> QED
    BY <1>2, <1>5, <1>6, <1>8, <1>9, <2>1 DEF Laying
<1>10. CASE Len(todo) # 1
  <2>1. Tail(todo) # <<>>
    <3>1. todo \in Seq(Seq(Int)) /\ todo # <<>>
      BY <1>2 DEF SdsInv, TypeOK
    <3>2. Len(Tail(todo)) = Len(todo) - 1 /\ Len(todo) \in Nat
      BY <3>1, HeadTailProperties, LenProperties
    <3>3. PICK rest : rest = Tail(todo)
      OBVIOUS
    <3>4. Len(rest) # 0
      BY <1>10, <3>2, <3>3
    <3> QED
      BY <3>3, <3>4
  <2> QED
    BY <1>2, <1>5, <1>6, <1>7, <1>8, <1>10, <2>1 DEF Laying
<1> QED
  BY <1>9, <1>10

LEMMA LinesLemma ==
  ASSUME NEW t \in Lines
  PROVE  t \in Seq(Int)
<1>1. t \in Seq(Bytes) /\ Bytes \subseteq Int
  BY ListsAssumption DEF Bytes
<1> QED
  BY <1>1, SeqMonotonic, Zenon

LEMMA LineStep ==
  ASSUME SdsInv, NEW t \in Lines, NewLine(t)
  PROVE  ListsInv'
<1>1. New(t) /\ pc' = "idle"
  BY DEF NewLine, New
<1>2. out' = Out("line", <<>>, <<>>, <<>>, 0, TRUE)
  BY Zenon DEF NewLine, NoOut, Out
<1>3. OutInv'
  BY <1>1, <1>2, NewResult
<1>4. t \in Seq(Int)
  BY LinesLemma
<1>5. SdsInv'
  BY <1>1, <1>4, NewStep DEF Progress
<1> QED
  BY <1>3, <1>5 DEF ListsInv

LEMMA FreeingStep ==
  ASSUME SdsInv, Free, out' = NoOut
  PROVE  ListsInv'
<1>1. out' = Out("none", <<>>, <<>>, <<>>, 0, TRUE)
  BY Zenon DEF NoOut, Out
<1>2. OutInv'
  BY <1>1, NewResult
<1> QED
  BY <1>2, FreeStep DEF ListsInv, Progress

(* The calls that work on a string that is no result, and their loops.     *)
LEMMA PlainStep ==
  ASSUME ListsInv, out' = out,
         \/ \E t \in Texts : New(t)
         \/ Workable /\ Work
  PROVE  ListsInv'
<1>1. out.kind = "none"
  BY DEF ListsInv, OutInv, New, Workable
<1>2. SdsInv'
  <2>1. SdsInv
    BY DEF ListsInv
  <2>2. Next
    BY DEF Next
  <2> QED
    BY <2>1, <2>2, NextStep DEF Progress
<1> QED
  BY <1>1, <1>2, NoResult DEF ListsInv

LEMMA LoopStep ==
  ASSUME ListsInv, Loop, out' = out
  PROVE  ListsInv'
<1>1. SdsInv'
  <2>1. SdsInv
    BY DEF ListsInv
  <2>2. Next
    BY DEF Next
  <2> QED
    BY <2>1, <2>2, NextStep DEF Progress
<1>2. CASE out.kind = "none"
  BY <1>1, <1>2, NoResult DEF ListsInv
<1>3. CASE out.kind # "none"
  <2>1. pc \notin {"none", "fmt"} /\ SdsInv
    BY <1>3 DEF ListsInv, OutInv
  <2>2. CatNext \/ (pc' = "crashed" /\ pc = "cat")
    BY <2>1 DEF Loop, FmtNext, FmtEnd, Crash
  <2>3. pc = "cat" /\ pc' \in {"idle", "cat", "crashed"}
    BY <2>2 DEF CatNext
  <2>4. out.kind \notin {"none", "line", "unsplit", "number", "split", "args", "reread"}
    BY <1>3, <2>3 DEF ListsInv, OutInv
  <2>5. ASSUME NEW txt, Laying(txt) PROVE Laying(txt)'
    <3>1. CASE CatNext
      BY <2>1, <2>5, <3>1, LayingNext
    <3>2. CASE pc' = "crashed"
      BY <2>5, <3>2 DEF Laying
    <3> QED
      BY <2>2, <3>1, <3>2
  <2>6. out.kind = "joined" => OfSplit' /\ Laying(out.of)'
    <3>1. PICK txt : txt = out.of
      OBVIOUS
    <3> SUFFICES ASSUME out.kind = "joined" PROVE OfSplit' /\ Laying(out.of)'
      OBVIOUS
    <3>2. OfSplit /\ Laying(txt)
      BY <3>1 DEF ListsInv, OutInv
    <3>3. OfSplit'
      BY <3>2 DEF OfSplit
    <3> QED
      BY <2>5, <3>1, <3>2, <3>3
  <2>7. out.kind = "repr" => out.of \in Reprs /\ OfRepr'
    <3> SUFFICES ASSUME out.kind = "repr" PROVE out.of \in Reprs /\ OfRepr'
      OBVIOUS
    <3>1. out.of \in Reprs /\ OfRepr
      BY DEF ListsInv, OutInv
    <3>2. PICK txt : Laid(Pieces(out.of), txt, 0) /\ Laying(txt)
      BY <3>1 DEF OfRepr
    <3>3. Laying(txt)'
      BY <2>5, <3>2
    <3> QED
      BY <3>1, <3>2, <3>3 DEF OfRepr
  <2>8. out = Out(out.kind, out.of, out.sep, out.parts, out.slots, out.ok)
    BY DEF ListsInv, OutInv
  <2>9. OutInv'
    BY <2>3, <2>4, <2>6, <2>7, <2>8 DEF OutInv
  <2> QED
    BY <1>1, <2>9 DEF ListsInv
<1> QED
  BY <1>2, <1>3

LEMMA ArgsStep ==
  ASSUME ListsInv, SplitArgsOf
  PROVE  ListsInv'
<1>1. /\ pc = "idle" /\ pc' = pc /\ s' = s /\ todo' = todo /\ call' = call
      /\ out.kind \in {"line", "unsplit", "repr"}
  BY DEF SplitArgsOf, IsLine, cvars
<1>2. SdsInv'
  BY <1>1 DEF ListsInv, SdsInv, TypeOK, HeaderFits, Terminated, Here
<1>3. PICK n \in 0 .. s.len :
        /\ IsStrLen(s.text, n)
        /\ out' = [NoOut EXCEPT !.kind = IF out.kind = "repr" THEN "reread" ELSE "args",
                                !.of = IF out.kind = "repr" THEN out.of ELSE Prefix(s.text, n),
                                !.parts = SplitArgs(Prefix(s.text, n)).parts,
                                !.ok = SplitArgs(Prefix(s.text, n)).ok]
  BY Zenon DEF SplitArgsOf
<1>4. PICK k, of, parts, ok :
        /\ k = IF out.kind = "repr" THEN "reread" ELSE "args"
        /\ of = IF out.kind = "repr" THEN out.of ELSE Prefix(s.text, n)
        /\ parts = SplitArgs(Prefix(s.text, n)).parts /\ ok = SplitArgs(Prefix(s.text, n)).ok
  OBVIOUS
<1>5. out' = Out(k, of, <<>>, parts, 0, ok)
  BY <1>3, <1>4, Zenon DEF NoOut, Out
<1>6. /\ out' = Out(out'.kind, out'.of, out'.sep, out'.parts, out'.slots, out'.ok)
      /\ out'.kind = k
  BY <1>5 DEF Out
<1>7. k \in {"args", "reread"}
  BY <1>4
<1>8. OutInv'
  BY <1>1, <1>6, <1>7 DEF OutInv
<1> QED
  BY <1>2, <1>8 DEF ListsInv

LEMMA ListsStep ==
  ASSUME ListsInv, [LNext]_vars
  PROVE  ListsInv'
<1>1. SdsInv
  BY DEF ListsInv
<1>2. CASE UNCHANGED vars
  <2>1. pc' = pc /\ s' = s /\ todo' = todo /\ call' = call /\ out' = out
    BY <1>2 DEF vars
  <2>2. SdsInv'
    BY <1>1, <2>1 DEF SdsInv, TypeOK, HeaderFits, Terminated, Here
  <2>3. OutInv'
    BY <2>1 DEF ListsInv, OutInv, OfNumber, OfSplit, OfRepr, Laying
  <2> QED
    BY <2>2, <2>3 DEF ListsInv
<1>3. CASE LNext
  <2>1. CASE \/ \E t \in Texts : New(t) /\ UNCHANGED out
             \/ Workable /\ Work /\ UNCHANGED out
    BY <2>1, PlainStep
  <2>2. CASE \E t \in Lines : NewLine(t)
    BY <1>1, <2>2, LineStep
  <2>3. CASE \E v \in Values : FromLongLong(v)
    BY <1>1, <2>3, NumberStep
  <2>4. CASE Loop /\ UNCHANGED out
    BY <2>4, LoopStep
  <2>5. CASE Free /\ out' = NoOut
    BY <1>1, <2>5, FreeingStep
  <2>6. CASE \E sep \in Seps : SplitLen(sep)
    BY <2>6, SplitStep
  <2>7. CASE \E p \in Reprs : Quoted(p)
    BY <2>7, QuotedStep
  <2>8. CASE SplitArgsOf
    BY <2>8, ArgsStep
  <2>9. CASE Join
    BY <2>9, JoinStep
  <2> QED
    BY <1>3, <2>1, <2>2, <2>3, <2>4, <2>5, <2>6, <2>7, <2>8, <2>9 DEF LNext
<1> QED
  BY <1>2, <1>3

LEMMA ListsInit ==
  ASSUME LInit
  PROVE  ListsInv
<1>1. SdsInv
  BY InitInv DEF LInit
<1>2. pc = "none" /\ out = Out("none", <<>>, <<>>, <<>>, 0, TRUE)
  BY Zenon DEF LInit, Init, NoOut, Out
<1>3. out = Out(out.kind, out.of, out.sep, out.parts, out.slots, out.ok) /\ out.kind = "none"
  BY <1>2 DEF Out
<1> QED
  BY <1>1, <1>2, <1>3 DEF ListsInv, OutInv

(* What a call of SdsLists has returned is still in line with the string:  *)
(* a number with its text, the pieces with what was split, and the loops   *)
(* of sdsjoinsds (sds.c:1120) and sdscatrepr (sds.c:898) have made the     *)
(* beginning of the text that their items make together.                   *)
THEOREM ListsInvariant == LSpec => []ListsInv
BY ListsInit, ListsStep, PTL DEF LSpec

(* So the header and the terminator are right under the calls of SdsLists  *)
(* too: those that loop over pieces of texts, and sdsnewlen of the numbers *)
(* that sdsfromlonglong (sds.c:526) writes.                                *)
THEOREM ListsSound == LSpec => [](HeaderFits /\ Terminated)
BY ListsInvariant, PTL DEF ListsInv, SdsInv

(* sdsjoinsds begins with a new, empty string in place of the one split.   *)
LEMMA JoinCopies ==
  ASSUME SdsInv, Join
  PROVE  Str!Next
<1>1. pc = "idle" /\ pc' = "cat" /\ s' = NewLen(<<>>) /\ call' = <<"cpy", <<>>>>
  BY DEF Join
<1>2. <<>> \in Seq(Int) /\ Len(<<>>) = 0 /\ 0 < Limit[4]
  BY LimitLemma DEF Types
<1>3. Holds(NewLen(<<>>), <<>>)
  BY <1>2, NewLenLemma
<1>4. Content(s') = <<>>
  BY <1>1, <1>3, HoldsLemma
<1> QED
  BY <1>1, <1>4, StrCpy DEF Here

(* Every call of SdsLists is a call of module Strings or leaves the string *)
(* and the last call alone.                                                *)
LEMMA ListsCalls ==
  ASSUME SdsInv, [LNext]_vars
  PROVE  [Str!Next]_(Str!svars)
<1>1. ASSUME [Next]_cvars PROVE [Str!Next]_(Str!svars)
  BY <1>1, NextStep DEF Progress
<1>2. CASE \/ \E t \in Texts : New(t) /\ UNCHANGED out
           \/ Workable /\ Work /\ UNCHANGED out
           \/ Loop /\ UNCHANGED out
           \/ Free /\ out' = NoOut
  BY <1>1, <1>2 DEF Next
<1>3. CASE \E t \in Lines : NewLine(t)
  BY <1>3, LinesLemma, NewStep DEF NewLine, Progress
<1>4. CASE \E v \in Values : FromLongLong(v)
  <2>1. PICK v \in Values : New(Ll2str(v, LlMax))
    BY <1>4 DEF FromLongLong
  <2>2. Ll2str(v, LlMax) \in Seq(Int)
    BY ReadsBack, Zenon
  <2> QED
    BY <2>1, <2>2, NewStep DEF Progress
<1>5. CASE \E p \in Reprs : Quoted(p)
  BY <1>5, CatReprStep DEF Quoted, Progress
<1>6. CASE Join
  BY <1>6, JoinCopies
<1>7. CASE (\E sep \in Seps : SplitLen(sep)) \/ SplitArgsOf \/ UNCHANGED vars
  <2>1. UNCHANGED cvars
    BY <1>7 DEF SplitLen, SplitArgsOf, vars, cvars
  <2> QED
    BY <1>1, <2>1
<1> QED
  BY <1>2, <1>3, <1>4, <1>5, <1>6, <1>7 DEF LNext

(* The calls of SdsLists, too, do to the content what Strings says: the    *)
(* string a text is split from or read from stays as it is, and the string *)
(* that sdsjoinsds or sdscatrepr fills grows by the pieces in their order. *)
THEOREM ListsImplementStrings == LSpec => IsString
<1>1. LInit => Str!Init
  BY InitInv DEF LInit
<1>2. SdsInv /\ [LNext]_vars => [Str!Next]_(Str!svars)
  BY ListsCalls
<1>3. ListsInv => SdsInv
  BY DEF ListsInv
<1> QED
  BY <1>1, <1>2, <1>3, ListsInvariant, PTL DEF LSpec, IsString, Str!Spec

(* Whatever the width of a long long, sdsll2str (sds.c:451) writes every   *)
(* one of them, the least included, in decimal, and SDS_LLSTR_SIZE bytes   *)
(* hold it.                                                                *)
THEOREM NumbersRead == LSpec => []NumberRead
<1>1. ASSUME ListsInv PROVE NumberRead
  <2>1. CASE out.kind = "number"
    <3>1. PICK v \in Values : Content(s) = Ll2str(v, LlMax) /\ out.of[1] = v
      BY <1>1, <2>1 DEF ListsInv, OutInv, OfNumber
    <3> QED
      BY <3>1, NumberLemma, Zenon
  <2>2. CASE out.kind # "number"
    BY <2>2 DEF NumberRead
  <2> QED
    BY <2>1, <2>2
<1> QED
  BY <1>1, ListsInvariant, PTL

(* Whatever the text, the separator and the first size of the array,       *)
(* sdssplitlen has room for every piece (sds.c:867), none of which holds   *)
(* the separator, and sdsjoinsds makes the text from them again.           *)
THEOREM JoinsRestore == LSpec => []JoinRestores
<1>1. ASSUME ListsInv PROVE JoinRestores
  <2>1. CASE out.kind = "split"
    <3>1. Len(out.parts) <= out.slots
      BY <1>1, <2>1 DEF ListsInv, OutInv, OfSplit, SplitOf
    <3> QED
      BY <2>1, <3>1 DEF JoinRestores
  <2>2. CASE out.kind = "joined" /\ pc = "idle"
    <3>1. PICK txt, sep, parts : txt = out.of /\ sep = out.sep /\ parts = out.parts
      OBVIOUS
    <3>2. Content(s) = txt
      BY <1>1, <2>2, <3>1 DEF ListsInv, OutInv, Laying
    <3>3. parts \in Seq(Seq(Int)) /\ \A k \in 1 .. Len(parts) : Without(parts[k], sep)
      BY <1>1, <2>2, <3>1 DEF ListsInv, OutInv, OfSplit, SplitOf
    <3>4. DOMAIN parts = 1 .. Len(parts)
      BY <3>3
    <3> QED
      BY <2>2, <3>1, <3>2, <3>3, <3>4, Zenon DEF JoinRestores, Without
  <2>3. CASE out.kind # "split" /\ ~(out.kind = "joined" /\ pc = "idle")
    BY <2>3 DEF JoinRestores
  <2> QED
    BY <2>1, <2>2, <2>3
<1> QED
  BY <1>1, ListsInvariant, PTL

-----------------------------------------------------------------------------
(* sdssplitargs. *)

Modes == {"blank", "word", "inq", "insq", "err"}
ArgStates == [mode : Modes, cur : Seq(Int), parts : Seq(Seq(Int)), skip : Nat]
State(mode, cur, parts, skip) ==
  [mode |-> mode, cur |-> cur, parts |-> parts, skip |-> skip]

LEMMA StateIs ==
  ASSUME NEW st \in ArgStates
  PROVE  /\ st = State(st.mode, st.cur, st.parts, st.skip)
         /\ st.mode \in Modes /\ st.cur \in Seq(Int) /\ st.parts \in Seq(Seq(Int)) /\ st.skip \in Nat
BY DEF ArgStates, State

LEMMA StateType ==
  ASSUME NEW mode \in Modes, NEW cur \in Seq(Int), NEW parts \in Seq(Seq(Int)), NEW skip \in Nat
  PROVE  State(mode, cur, parts, skip) \in ArgStates
BY DEF ArgStates, State

LEMMA ModeOf ==
  ASSUME NEW m, NEW cur, NEW parts, NEW skip, NEW mode
  PROVE  [State(m, cur, parts, skip) EXCEPT !.mode = mode] = State(mode, cur, parts, skip)
BY DEF State

LEMMA CurOf ==
  ASSUME NEW m, NEW cur, NEW parts, NEW skip, NEW v
  PROVE  [State(m, cur, parts, skip) EXCEPT !.cur = v] = State(m, v, parts, skip)
BY DEF State

LEMMA PartsOf ==
  ASSUME NEW m, NEW cur, NEW parts, NEW skip, NEW w
  PROVE  [State(m, cur, parts, skip) EXCEPT !.parts = w] = State(m, cur, w, skip)
BY DEF State

LEMMA AddOf ==
  ASSUME NEW m, NEW cur, NEW parts, NEW skip, NEW mode, NEW c
  PROVE  Add(State(m, cur, parts, skip), mode, c) = State(mode, Append(cur, c), parts, skip)
<1>1. PICK st : st = State(m, cur, parts, skip)
  OBVIOUS
<1>2. PICK v : v = Append(cur, c)
  OBVIOUS
<1>3. st.cur = cur
  BY <1>1 DEF State
<1>4. Add(st, mode, c) = [st EXCEPT !.mode = mode, !.cur = v]
  BY <1>2, <1>3, Zenon DEF Add
<1>5. [st EXCEPT !.mode = mode, !.cur = v] = [[st EXCEPT !.mode = mode] EXCEPT !.cur = v]
  OBVIOUS
<1>6. [st EXCEPT !.mode = mode] = State(mode, cur, parts, skip)
  BY <1>1, ModeOf
<1>7. [State(mode, cur, parts, skip) EXCEPT !.cur = v] = State(mode, v, parts, skip)
  BY CurOf
<1> QED
  BY <1>1, <1>2, <1>4, <1>5, <1>6, <1>7, Zenon

LEMMA FinishedOf ==
  ASSUME NEW m, NEW cur, NEW parts, NEW skip
  PROVE  Finished(State(m, cur, parts, skip)) = State("blank", <<>>, Append(parts, cur), skip)
<1>1. PICK st : st = State(m, cur, parts, skip)
  OBVIOUS
<1>2. PICK w : w = Append(parts, cur)
  OBVIOUS
<1>3. st.cur = cur /\ st.parts = parts
  BY <1>1 DEF State
<1>4. Finished(st) = [st EXCEPT !.mode = "blank", !.cur = <<>>, !.parts = w]
  BY <1>2, <1>3, Zenon DEF Finished
<1>5. [st EXCEPT !.mode = "blank", !.cur = <<>>, !.parts = w]
        = [[[st EXCEPT !.mode = "blank"] EXCEPT !.cur = <<>>] EXCEPT !.parts = w]
  OBVIOUS
<1>6. [st EXCEPT !.mode = "blank"] = State("blank", cur, parts, skip)
  BY <1>1, ModeOf
<1>7. [State("blank", cur, parts, skip) EXCEPT !.cur = <<>>] = State("blank", <<>>, parts, skip)
  BY CurOf
<1>8. [State("blank", <<>>, parts, skip) EXCEPT !.parts = w] = State("blank", <<>>, w, skip)
  BY PartsOf
<1> QED
  BY <1>1, <1>2, <1>4, <1>5, <1>6, <1>7, <1>8, Zenon

LEMMA SkipOf ==
  ASSUME NEW m, NEW cur, NEW parts, NEW skip, NEW n
  PROVE  [State(m, cur, parts, skip) EXCEPT !.skip = n] = State(m, cur, parts, n)
BY DEF State

LEMMA AddIs ==
  ASSUME NEW st \in ArgStates, NEW mode \in Modes, NEW c \in Int
  PROVE  Add(st, mode, c) \in ArgStates
<1>1. PICK m, cur, parts, skip : m = st.mode /\ cur = st.cur /\ parts = st.parts /\ skip = st.skip
  OBVIOUS
<1>2. st = State(m, cur, parts, skip) /\ cur \in Seq(Int) /\ parts \in Seq(Seq(Int)) /\ skip \in Nat
  BY <1>1, StateIs
<1>3. Add(st, mode, c) = State(mode, Append(cur, c), parts, skip)
  <2>1. st = State(m, cur, parts, skip)
    BY <1>2
  <2> QED
    BY <2>1, AddOf
<1>4. Append(cur, c) \in Seq(Int)
  BY <1>2, AppendLemma
<1>5. State(mode, Append(cur, c), parts, skip) \in ArgStates
  BY <1>2, <1>4, StateType
<1> QED
  BY <1>3, <1>5, Zenon

LEMMA FinishedIs ==
  ASSUME NEW st \in ArgStates
  PROVE  Finished(st) \in ArgStates
<1>1. PICK m, cur, parts, skip : m = st.mode /\ cur = st.cur /\ parts = st.parts /\ skip = st.skip
  OBVIOUS
<1>2. st = State(m, cur, parts, skip) /\ cur \in Seq(Int) /\ parts \in Seq(Seq(Int)) /\ skip \in Nat
  BY <1>1, StateIs
<1>3. Finished(st) = State("blank", <<>>, Append(parts, cur), skip)
  <2>1. st = State(m, cur, parts, skip)
    BY <1>2
  <2> QED
    BY <2>1, FinishedOf
<1>4. Append(parts, cur) \in Seq(Seq(Int))
  BY <1>2, AppendProperties
<1>5. <<>> \in Seq(Int) /\ "blank" \in Modes
  BY DEF Modes
<1>6. State("blank", <<>>, Append(parts, cur), skip) \in ArgStates
  BY <1>2, <1>4, <1>5, StateType
<1> QED
  BY <1>3, <1>6, Zenon

LEMMA ModeType ==
  ASSUME NEW st \in ArgStates, NEW mode \in Modes
  PROVE  [st EXCEPT !.mode = mode] \in ArgStates
BY DEF ArgStates

LEMMA SkipType ==
  ASSUME NEW st \in ArgStates, NEW n \in Nat
  PROVE  [st EXCEPT !.skip = n] \in ArgStates
BY DEF ArgStates

LEMMA ByteInt ==
  ASSUME NEW line \in Seq(Int), NEW i \in Nat \ {0}
  PROVE  ByteAt(line, i) \in Int
BY LenProperties, ElementOfSeq DEF ByteAt, NUL

LEMMA ClosedType ==
  ASSUME NEW line, NEW st \in ArgStates, NEW i
  PROVE  Closed(line, st, i) \in ArgStates
<1>1. "err" \in Modes
  BY DEF Modes
<1>2. Finished(st) \in ArgStates
  BY FinishedIs
<1>3. [st EXCEPT !.mode = "err"] \in ArgStates
  BY <1>1, ModeType
<1> QED
  BY <1>2, <1>3, Zenon DEF Closed

LEMMA UnquotedType ==
  ASSUME NEW st \in ArgStates, NEW c \in Int
  PROVE  Unquoted(st, c) \in ArgStates
<1>1. "inq" \in Modes /\ "insq" \in Modes /\ "word" \in Modes
  BY DEF Modes
<1>2. Finished(st) \in ArgStates
  BY FinishedIs
<1>3. [st EXCEPT !.mode = "inq"] \in ArgStates /\ [st EXCEPT !.mode = "insq"] \in ArgStates
  BY <1>1, ModeType
<1>4. Add(st, "word", c) \in ArgStates
  BY <1>1, AddIs
<1>5. c \in ArgEnds => c # Quote /\ c # Apostrophe
  BY DEF ArgEnds, Quote, Apostrophe, NUL
<1>6. Quote # Apostrophe
  BY DEF Quote, Apostrophe
<1> QED
  BY <1>2, <1>3, <1>4, <1>5, <1>6 DEF Unquoted

LEMMA HexInt ==
  ASSUME NEW c \in Int
  PROVE  OfHex(c) \in Int
<1>1. c - 48 \in Int /\ c - 55 \in Int /\ c - 87 \in Int
  OBVIOUS
<1>2. CASE c \in 48 .. 57
  <2>1. OfHex(c) = c - 48
    BY <1>2 DEF OfHex
  <2> QED
    BY <1>1, <2>1
<1>3. CASE c \notin 48 .. 57 /\ c \in 65 .. 70
  <2>1. OfHex(c) = c - 55
    BY <1>3 DEF OfHex
  <2> QED
    BY <1>1, <2>1
<1>4. CASE c \notin 48 .. 57 /\ c \notin 65 .. 70
  <2>1. OfHex(c) = c - 87
    BY <1>4 DEF OfHex
  <2> QED
    BY <1>1, <2>1
<1> QED
  BY <1>2, <1>3, <1>4

LEMMA InQuotesType ==
  ASSUME NEW line \in Seq(Int), NEW st \in ArgStates, NEW i \in Nat \ {0}
  PROVE  InQuotes(line, st, i) \in ArgStates
<1>1. PICK c, n, h, l : /\ c = ByteAt(line, i) /\ n = ByteAt(line, i + 1)
                        /\ h = ByteAt(line, i + 2) /\ l = ByteAt(line, i + 3)
  OBVIOUS
<1>2. c \in Int /\ n \in Int /\ h \in Int /\ l \in Int
  <2>1. i + 1 \in Nat \ {0} /\ i + 2 \in Nat \ {0} /\ i + 3 \in Nat \ {0}
    OBVIOUS
  <2> QED
    BY <1>1, <2>1, ByteInt, Zenon
<1>3. "inq" \in Modes /\ "err" \in Modes /\ 1 \in Nat /\ 3 \in Nat
  BY DEF Modes
<1>4. CASE c = Backslash /\ n = LowerX /\ h \in HexDigit /\ l \in HexDigit
  <2>1. OfHex(h) \in Int /\ OfHex(l) \in Int
    BY <1>2, HexInt
  <2>2. PICK d : d = 16 * OfHex(h) + OfHex(l)
    OBVIOUS
  <2>3. d \in Int
    BY <2>1, <2>2
  <2>4. InQuotes(line, st, i) = [Add(st, "inq", d) EXCEPT !.skip = 3]
    BY <1>1, <1>4, <2>2, Zenon DEF InQuotes
  <2>5. Add(st, "inq", d) \in ArgStates
    BY <1>3, <2>3, AddIs
  <2>6. [Add(st, "inq", d) EXCEPT !.skip = 3] \in ArgStates
    BY <1>3, <2>5, SkipType
  <2> QED
    BY <2>4, <2>6, Zenon
<1>5. CASE ~(c = Backslash /\ n = LowerX /\ h \in HexDigit /\ l \in HexDigit) /\ c = Backslash /\ n # NUL
  <2>1. PICK d : d = IF \E e \in Escapes : e[1] = n THEN (CHOOSE e \in Escapes : e[1] = n)[2] ELSE n
    OBVIOUS
  <2>2. d \in Int
    <3>1. CASE \E e \in Escapes : e[1] = n
      <4>1. PICK e : e = CHOOSE x \in Escapes : x[1] = n
        OBVIOUS
      <4>2. e \in Escapes /\ d = e[2]
        BY <2>1, <3>1, <4>1, Zenon
      <4> QED
        BY <4>2 DEF Escapes
    <3>2. CASE ~ \E e \in Escapes : e[1] = n
      BY <1>2, <2>1, <3>2
    <3> QED
      BY <3>1, <3>2
  <2>3. InQuotes(line, st, i) = [Add(st, "inq", d) EXCEPT !.skip = 1]
    BY <1>1, <1>5, <2>1, Zenon DEF InQuotes
  <2>5. Add(st, "inq", d) \in ArgStates
    BY <1>3, <2>2, AddIs
  <2>6. [Add(st, "inq", d) EXCEPT !.skip = 1] \in ArgStates
    BY <1>3, <2>5, SkipType
  <2> QED
    BY <2>3, <2>6, Zenon
<1>6. CASE ~(c = Backslash /\ n = LowerX /\ h \in HexDigit /\ l \in HexDigit) /\ ~(c = Backslash /\ n # NUL)
  <2>1. InQuotes(line, st, i) = CASE c = Quote -> Closed(line, st, i)
                                  [] c = NUL   -> [st EXCEPT !.mode = "err"]
                                  [] OTHER     -> Add(st, "inq", c)
    BY <1>1, <1>6, Zenon DEF InQuotes
  <2>2. Closed(line, st, i) \in ArgStates
    BY ClosedType
  <2>3. [st EXCEPT !.mode = "err"] \in ArgStates
    BY <1>3, ModeType
  <2>4. Add(st, "inq", c) \in ArgStates
    BY <1>2, <1>3, AddIs
  <2>5. Quote # NUL
    BY DEF Quote, NUL
  <2> QED
    BY <2>1, <2>2, <2>3, <2>4, <2>5
<1> QED
  BY <1>4, <1>5, <1>6

LEMMA InSingleQuotesType ==
  ASSUME NEW line \in Seq(Int), NEW st \in ArgStates, NEW i \in Nat \ {0}
  PROVE  InSingleQuotes(line, st, i) \in ArgStates
<1>1. PICK c : c = ByteAt(line, i)
  OBVIOUS
<1>2. c \in Int /\ Apostrophe \in Int /\ 1 \in Nat
  BY <1>1, ByteInt DEF Apostrophe
<1>3. "insq" \in Modes /\ "err" \in Modes
  BY DEF Modes
<1>4. CASE c = Backslash /\ ByteAt(line, i + 1) = Apostrophe
  <2>1. InSingleQuotes(line, st, i) = [Add(st, "insq", Apostrophe) EXCEPT !.skip = 1]
    BY <1>1, <1>4, Zenon DEF InSingleQuotes
  <2>2. Add(st, "insq", Apostrophe) \in ArgStates
    BY <1>2, <1>3, AddIs
  <2>3. [Add(st, "insq", Apostrophe) EXCEPT !.skip = 1] \in ArgStates
    BY <1>2, <2>2, SkipType
  <2> QED
    BY <2>1, <2>3, Zenon
<1>5. CASE ~(c = Backslash /\ ByteAt(line, i + 1) = Apostrophe)
  <2>1. InSingleQuotes(line, st, i) = CASE c = Apostrophe -> Closed(line, st, i)
                                        [] c = NUL        -> [st EXCEPT !.mode = "err"]
                                        [] OTHER          -> Add(st, "insq", c)
    BY <1>1, <1>5, Zenon DEF InSingleQuotes
  <2>2. Closed(line, st, i) \in ArgStates
    BY ClosedType
  <2>3. [st EXCEPT !.mode = "err"] \in ArgStates
    BY <1>3, ModeType
  <2>4. Add(st, "insq", c) \in ArgStates
    BY <1>2, <1>3, AddIs
  <2>5. Apostrophe # NUL
    BY DEF Apostrophe, NUL
  <2> QED
    BY <2>1, <2>2, <2>3, <2>4, <2>5
<1> QED
  BY <1>4, <1>5

(* What a step of the loop does, by the mode it is in.                     *)
LEMMA ArgStepIs ==
  ASSUME NEW line, NEW st \in ArgStates, NEW i
  PROVE  ArgStep(line, st, i) =
           IF st.skip > 0 THEN [st EXCEPT !.skip = st.skip - 1]
           ELSE IF st.mode = "err" THEN st
           ELSE IF st.mode = "blank"
           THEN IF ByteAt(line, i) \in Space \union {NUL} THEN st ELSE Unquoted(st, ByteAt(line, i))
           ELSE IF st.mode = "word" THEN Unquoted(st, ByteAt(line, i))
           ELSE IF st.mode = "inq" THEN InQuotes(line, st, i)
           ELSE InSingleQuotes(line, st, i)
<1>1. st.skip > 0 \/ st.skip = 0
  BY StateIs
<1>2. ~(st.skip > 0 /\ st.skip = 0)
  OBVIOUS
<1>3. st.mode \in {"blank", "word", "inq", "insq", "err"}
  BY StateIs DEF Modes
<1> QED
  BY <1>1, <1>2, <1>3 DEF ArgStep

LEMMA ArgStepType ==
  ASSUME NEW line \in Seq(Int), NEW st \in ArgStates, NEW i \in Nat \ {0}
  PROVE  ArgStep(line, st, i) \in ArgStates
<1>1. st.skip > 0 => st.skip - 1 \in Nat
  BY StateIs
<1>2. ByteAt(line, i) \in Int
  BY ByteInt
<1>3. st.skip > 0 => [st EXCEPT !.skip = st.skip - 1] \in ArgStates
  BY <1>1, SkipType
<1>4. Unquoted(st, ByteAt(line, i)) \in ArgStates
  BY <1>2, UnquotedType
<1>5. InQuotes(line, st, i) \in ArgStates /\ InSingleQuotes(line, st, i) \in ArgStates
  BY InQuotesType, InSingleQuotesType
<1> QED
  BY <1>3, <1>4, <1>5, ArgStepIs, Zenon

(* What the loop has made of the first bytes of the line. *)
ArgBy(line, f, i) == IF i = 0 THEN State("blank", <<>>, <<>>, 0) ELSE ArgStep(line, f[i - 1], i)
ArgLoop(line) ==
  LET after[i \in 0 .. Len(line) + 1] == ArgBy(line, after, i) IN after

LEMMA ArgsExist ==
  ASSUME NEW line \in Seq(Int)
  PROVE  \E f : f = [i \in 0 .. Len(line) + 1 |-> ArgBy(line, f, i)]
<1> DEFINE from == State("blank", <<>>, <<>>, 0)
           B == {0}
           c == [i \in Nat |-> from]
           p == [i \in Nat |-> IF i = 0 THEN 0 ELSE i - 1]
           G == [i \in Nat |-> [st \in ArgStates |-> IF i = 0 THEN st ELSE ArgStep(line, st, i)]]
<1>1. from \in ArgStates
  <2>1. "blank" \in Modes /\ <<>> \in Seq(Int) /\ <<>> \in Seq(Seq(Int)) /\ 0 \in Nat
    BY DEF Modes
  <2> QED
    BY <2>1, StateType, Zenon
<1>2. c \in [Nat -> ArgStates]
  BY <1>1
<1>3. p \in [Nat -> Nat] /\ \A i \in Nat : i \in B \/ p[i] < i
  OBVIOUS
<1>4. G \in [Nat -> [ArgStates -> ArgStates]]
  <2>1. ASSUME NEW i \in Nat, NEW st \in ArgStates
        PROVE  (IF i = 0 THEN st ELSE ArgStep(line, st, i)) \in ArgStates
    BY ArgStepType
  <2> QED
    BY <2>1
<1>5. Ground(ArgStates, B, c, p, G)
  BY <1>2, <1>3, <1>4 DEF Ground
<1>6. PICK g : Recurs(g, ArgStates, B, c, p, G)
  <2> HIDE DEF B, c, p, G
  <2> QED
    BY <1>5, Recursion, Zenon
<1>7. Len(line) \in Nat
  BY LenProperties
<1>8. ASSUME NEW i \in Nat PROVE g[i] = ArgBy(line, g, i) /\ g[i] \in ArgStates
  <2>1. g[i] = (IF i \in B THEN c[i] ELSE G[i][g[p[i]]]) /\ \A k \in Nat : g[k] \in ArgStates
    BY <1>6, Zenon DEF Recurs
  <2>2. CASE i = 0
    <3>1. g[i] = from
      BY <2>1, <2>2
    <3> QED
      BY <2>1, <2>2, <3>1, Zenon DEF ArgBy
  <2>3. CASE i # 0
    <3>1. i - 1 \in Nat /\ p[i] = i - 1
      BY <2>3
    <3>2. g[i - 1] \in ArgStates
      BY <2>1, <3>1
    <3>3. G[i][g[i - 1]] = ArgStep(line, g[i - 1], i)
      BY <2>3, <3>2
    <3>4. g[i] = G[i][g[i - 1]]
      BY <2>1, <2>3, <3>1
    <3> QED
      BY <2>1, <2>3, <3>3, <3>4, Zenon DEF ArgBy
  <2> QED
    BY <2>2, <2>3
<1>9. PICK f : f = [i \in 0 .. Len(line) + 1 |-> g[i]]
  OBVIOUS
<1>10. ASSUME NEW i \in 0 .. Len(line) + 1 PROVE f[i] = ArgBy(line, f, i) /\ f[i] \in ArgStates
  <2>1. i \in Nat /\ f[i] = g[i]
    BY <1>9
  <2>2. i # 0 => i - 1 \in 0 .. Len(line) + 1 /\ f[i - 1] = g[i - 1]
    BY <1>7, <1>9
  <2>3. ArgBy(line, f, i) = ArgBy(line, g, i)
    BY <2>2, Zenon DEF ArgBy
  <2> QED
    BY <1>8, <2>1, <2>3, Zenon
<1>11. f = [i \in 0 .. Len(line) + 1 |-> ArgBy(line, f, i)]
  BY <1>9, <1>10, Zenon
<1> QED
  BY <1>10, <1>11

(* The states the loop goes through, and what sdssplitargs returns.        *)
Reading(line, f) ==
  /\ line \in Seq(Int)
  /\ f[0] = State("blank", <<>>, <<>>, 0)
  /\ \A i \in 1 .. Len(line) + 1 : f[i] = ArgStep(line, f[i - 1], i)
  /\ \A i \in 0 .. Len(line) + 1 : f[i] \in ArgStates

ArgResult(e) == [ok |-> e.mode # "err", parts |-> IF e.mode = "err" THEN <<>> ELSE e.parts]

LEMMA SplitArgsIs ==
  ASSUME NEW line \in Seq(Int)
  PROVE  \E f : Reading(line, f) /\ SplitArgs(line) = ArgResult(f[Len(line) + 1])
<1>1. PICK f : f = ArgLoop(line)
  OBVIOUS
<1>2. SplitArgs(line) = ArgResult(ArgLoop(line)[Len(line) + 1])
  BY Zenon DEF SplitArgs, ArgLoop, ArgBy, State, ArgResult
<1>3. /\ f = [i \in 0 .. Len(line) + 1 |-> ArgBy(line, f, i)]
      /\ \A i \in 0 .. Len(line) + 1 : f[i] \in ArgStates
  <2>1. PICK g : g = [i \in 0 .. Len(line) + 1 |-> ArgBy(line, g, i)]
    BY ArgsExist
  <2>2. f = CHOOSE h : h = [i \in 0 .. Len(line) + 1 |-> ArgBy(line, h, i)]
    BY <1>1, Zenon DEF ArgLoop
  <2>3. f = [i \in 0 .. Len(line) + 1 |-> ArgBy(line, f, i)]
    BY <2>1, <2>2, Zenon
  <2>4. Len(line) \in Nat
    BY LenProperties
  <2> DEFINE Is == {i \in Nat : i <= Len(line) + 1 => f[i] \in ArgStates}
  <2>5. \A i \in 0 .. Len(line) + 1 : f[i] = ArgBy(line, f, i)
    BY <2>3, Zenon
  <2>6. 0 \in Is
    <3>1. "blank" \in Modes /\ <<>> \in Seq(Int) /\ <<>> \in Seq(Seq(Int)) /\ 0 \in Nat
      BY DEF Modes
    <3>2. State("blank", <<>>, <<>>, 0) \in ArgStates
      BY <3>1, StateType, Zenon
    <3>3. f[0] = ArgBy(line, f, 0)
      BY <2>4, <2>5
    <3> QED
      BY <3>2, <3>3 DEF ArgBy
  <2>7. ASSUME NEW i \in Nat, i \in Is PROVE i + 1 \in Is
    <3> SUFFICES ASSUME i + 1 <= Len(line) + 1 PROVE f[i + 1] \in ArgStates
      OBVIOUS
    <3>1. i + 1 \in 0 .. Len(line) + 1 /\ i + 1 # 0 /\ (i + 1) - 1 = i /\ i <= Len(line) + 1
          /\ i + 1 \in Nat \ {0}
      BY <2>4
    <3>2. f[i + 1] = ArgStep(line, f[i], i + 1)
      BY <2>5, <3>1, Zenon DEF ArgBy
    <3>3. f[i] \in ArgStates
      BY <2>7, <3>1
    <3> QED
      BY <3>1, <3>2, <3>3, ArgStepType
  <2> HIDE DEF Is
  <2>8. Nat \subseteq Is
    BY <2>6, <2>7, Induction
  <2>9. \A i \in 0 .. Len(line) + 1 : f[i] \in ArgStates
    BY <2>8 DEF Is
  <2> QED
    BY <2>3, <2>9
<1>4. Len(line) \in Nat
  BY LenProperties
<1>5. \A i \in 0 .. Len(line) + 1 : f[i] = ArgBy(line, f, i)
  BY <1>3, Zenon
<1>6. f[0] = State("blank", <<>>, <<>>, 0)
  <2>1. 0 \in 0 .. Len(line) + 1
    BY <1>4
  <2> QED
    BY <1>5, <2>1, Zenon DEF ArgBy
<1>7. \A i \in 1 .. Len(line) + 1 : f[i] = ArgStep(line, f[i - 1], i)
  <2>1. \A i \in 1 .. Len(line) + 1 : i \in 0 .. Len(line) + 1 /\ i # 0
    BY <1>4
  <2> QED
    BY <1>5, <2>1, Zenon DEF ArgBy
<1> QED
  BY <1>1, <1>2, <1>3, <1>6, <1>7, Zenon DEF Reading

(* The bytes that belong to an argument of a line without quotes.          *)
InWord(line, i) ==
  \E j \in 1 .. i : /\ ByteAt(line, j) \notin Space
                    /\ \A k \in j .. i : ByteAt(line, k) \notin ArgEnds

LEMMA InWordNext ==
  ASSUME NEW line, NEW i \in Nat
  PROVE  InWord(line, i + 1) <=> /\ ByteAt(line, i + 1) \notin ArgEnds
                                 /\ ByteAt(line, i + 1) \notin Space \/ InWord(line, i)
<1>1. ASSUME InWord(line, i + 1)
      PROVE  /\ ByteAt(line, i + 1) \notin ArgEnds
             /\ ByteAt(line, i + 1) \notin Space \/ InWord(line, i)
  <2>1. PICK j \in 1 .. i + 1 : /\ ByteAt(line, j) \notin Space
                                /\ \A k \in j .. i + 1 : ByteAt(line, k) \notin ArgEnds
    BY <1>1 DEF InWord
  <2>2. i + 1 \in j .. i + 1 /\ \A k \in j .. i : k \in j .. i + 1
    OBVIOUS
  <2>3. j = i + 1 \/ j \in 1 .. i
    OBVIOUS
  <2> QED
    BY <2>1, <2>2, <2>3, Zenon DEF InWord
<1>2. ASSUME ByteAt(line, i + 1) \notin ArgEnds, ByteAt(line, i + 1) \notin Space
      PROVE  InWord(line, i + 1)
  <2>1. i + 1 \in 1 .. i + 1 /\ \A k \in i + 1 .. i + 1 : k = i + 1
    OBVIOUS
  <2> QED
    BY <1>2, <2>1, Zenon DEF InWord
<1>3. ASSUME ByteAt(line, i + 1) \notin ArgEnds, InWord(line, i)
      PROVE  InWord(line, i + 1)
  <2>1. PICK j \in 1 .. i : /\ ByteAt(line, j) \notin Space
                            /\ \A k \in j .. i : ByteAt(line, k) \notin ArgEnds
    BY <1>3 DEF InWord
  <2>2. j \in 1 .. i + 1 /\ \A k \in j .. i + 1 : k \in j .. i \/ k = i + 1
    OBVIOUS
  <2> QED
    BY <1>3, <2>1, <2>2, Zenon DEF InWord
<1> QED
  BY <1>1, <1>2, <1>3, Zenon

(* Where the arguments begin and end, in the first i bytes: those that are *)
(* read, and the one that may be being read, which begins behind b[m + 1]. *)
Covered(b, e, m, j) == \E k \in 1 .. m : b[k] < j /\ j <= e[k]

Offsets(line, b, e, m, i) ==
  /\ i \in Nat /\ m \in Nat
  /\ b \in [1 .. m + 1 -> Nat] /\ e \in [1 .. m -> Nat]
  /\ \A k \in 1 .. m : b[k] < e[k] /\ e[k] < i /\ e[k] < b[k + 1]
  /\ \A j \in 1 .. i : InWord(line, j) <=> Covered(b, e, m, j) \/ j > b[m + 1]

LEMMA OffsetsOn ==
  ASSUME NEW line, NEW b, NEW e, NEW m, NEW i,
         Offsets(line, b, e, m, i), b[m + 1] <= i, InWord(line, i + 1)
  PROVE  Offsets(line, b, e, m, i + 1)
<1>1. /\ i \in Nat /\ m \in Nat
      /\ b \in [1 .. m + 1 -> Nat] /\ e \in [1 .. m -> Nat]
      /\ \A k \in 1 .. m : b[k] < e[k] /\ e[k] < i /\ e[k] < b[k + 1]
      /\ \A j \in 1 .. i : InWord(line, j) <=> Covered(b, e, m, j) \/ j > b[m + 1]
  BY Zenon DEF Offsets
<1>2. b[m + 1] \in Nat /\ b[m + 1] < i + 1
  BY <1>1
<1>3. ASSUME NEW j \in 1 .. i + 1
      PROVE  InWord(line, j) <=> Covered(b, e, m, j) \/ j > b[m + 1]
  <2>1. CASE j = i + 1
    BY <1>2, <2>1
  <2>2. CASE j \in 1 .. i
    BY <1>1, <2>2, Zenon
  <2> QED
    BY <1>1, <2>1, <2>2
<1>4. \A k \in 1 .. m : e[k] < i + 1
  BY <1>1
<1>5. i + 1 \in Nat
  BY <1>1
<1> QED
  BY <1>1, <1>3, <1>4, <1>5, Zenon DEF Offsets

OffsetsTo(line, c, e, m, i, b) ==
  Offsets(line, c, e, m, i) /\ c[m + 1] = i /\ \A k \in 1 .. m : c[k] = b[k]

LEMMA OffsetsSkip ==
  ASSUME NEW line, NEW b, NEW e, NEW m, NEW i,
         Offsets(line, b, e, m, i), b[m + 1] = i, ~InWord(line, i + 1)
  PROVE  \E c : OffsetsTo(line, c, e, m, i + 1, b)
<1>1. /\ i \in Nat /\ m \in Nat
      /\ b \in [1 .. m + 1 -> Nat] /\ e \in [1 .. m -> Nat]
      /\ \A k \in 1 .. m : b[k] < e[k] /\ e[k] < i /\ e[k] < b[k + 1]
      /\ \A j \in 1 .. i : InWord(line, j) <=> Covered(b, e, m, j) \/ j > b[m + 1]
  BY Zenon DEF Offsets
<1>2. PICK c : c = [k \in 1 .. m + 1 |-> IF k = m + 1 THEN i + 1 ELSE b[k]]
  OBVIOUS
<1>3. /\ c \in [1 .. m + 1 -> Nat] /\ c[m + 1] = i + 1
      /\ \A k \in 1 .. m : c[k] = b[k]
  BY <1>1, <1>2
<1>4. ASSUME NEW k \in 1 .. m
      PROVE  c[k] < e[k] /\ e[k] < i + 1 /\ e[k] < c[k + 1]
  <2>1. b[k] < e[k] /\ e[k] < i /\ e[k] \in Nat
    BY <1>1
  <2>2. k + 1 \in 1 .. m \/ k = m
    BY <1>1
  <2>3. CASE k + 1 \in 1 .. m
    <3>1. e[k] < b[k + 1] /\ c[k + 1] = b[k + 1] /\ c[k] = b[k]
      BY <1>1, <1>3, <2>3
    <3>2. e[k] < i + 1
      BY <1>1, <2>1
    <3> QED
      BY <2>1, <3>1, <3>2
  <2>4. CASE k = m
    BY <1>1, <1>3, <2>1, <2>4
  <2> QED
    BY <2>2, <2>3, <2>4
<1>5. ASSUME NEW j \in 1 .. i + 1
      PROVE  InWord(line, j) <=> Covered(c, e, m, j) \/ j > c[m + 1]
  <2>1. Covered(c, e, m, j) <=> Covered(b, e, m, j)
    BY <1>3, Zenon DEF Covered
  <2>2. ~(j > c[m + 1])
    BY <1>1, <1>3
  <2>3. CASE j = i + 1
    <3>1. ~Covered(b, e, m, j)
      <4> SUFFICES ASSUME NEW k \in 1 .. m, j <= e[k] PROVE FALSE
        BY DEF Covered
      <4> QED
        BY <1>1, <2>3
    <3> QED
      BY <2>1, <2>2, <2>3, <3>1
  <2>4. CASE j \in 1 .. i
    <3>1. ~(j > b[m + 1])
      BY <1>1, <2>4
    <3>2. InWord(line, j) <=> Covered(b, e, m, j) \/ j > b[m + 1]
      BY <1>1, <2>4, Zenon
    <3> QED
      BY <2>1, <2>2, <3>1, <3>2
  <2> QED
    BY <1>1, <2>3, <2>4
<1>6. i + 1 \in Nat
  BY <1>1
<1>7. Offsets(line, c, e, m, i + 1)
  BY <1>1, <1>3, <1>4, <1>5, <1>6, Zenon DEF Offsets
<1> QED
  BY <1>3, <1>7 DEF OffsetsTo

LEMMA OffsetsEnd ==
  ASSUME NEW line, NEW b, NEW e, NEW m, NEW i,
         Offsets(line, b, e, m, i), b[m + 1] < i, ~InWord(line, i + 1)
  PROVE  \E c, d : /\ Offsets(line, c, d, m + 1, i + 1) /\ c[(m + 1) + 1] = i + 1
                   /\ d[m + 1] = i /\ c[m + 1] = b[m + 1]
                   /\ \A k \in 1 .. m : c[k] = b[k] /\ d[k] = e[k]
<1>1. /\ i \in Nat /\ m \in Nat
      /\ b \in [1 .. m + 1 -> Nat] /\ e \in [1 .. m -> Nat]
      /\ \A k \in 1 .. m : b[k] < e[k] /\ e[k] < i /\ e[k] < b[k + 1]
      /\ \A j \in 1 .. i : InWord(line, j) <=> Covered(b, e, m, j) \/ j > b[m + 1]
  BY Zenon DEF Offsets
<1>2. PICK c : c = [k \in 1 .. (m + 1) + 1 |-> IF k = (m + 1) + 1 THEN i + 1 ELSE b[k]]
  OBVIOUS
<1>3. PICK d : d = [k \in 1 .. m + 1 |-> IF k = m + 1 THEN i ELSE e[k]]
  OBVIOUS
<1>4. /\ c \in [1 .. (m + 1) + 1 -> Nat] /\ c[(m + 1) + 1] = i + 1
      /\ \A k \in 1 .. m + 1 : c[k] = b[k]
  BY <1>1, <1>2
<1>5. /\ d \in [1 .. m + 1 -> Nat] /\ d[m + 1] = i
      /\ \A k \in 1 .. m : d[k] = e[k]
  BY <1>1, <1>3
<1>6. \A k \in 1 .. m : k \in 1 .. m + 1 /\ k + 1 \in 1 .. m + 1
  BY <1>1
<1>7. m + 1 \in 1 .. m + 1 /\ m + 1 \in Nat /\ i + 1 \in Nat /\ i < i + 1
  BY <1>1
<1>8. ASSUME NEW k \in 1 .. m + 1
      PROVE  c[k] < d[k] /\ d[k] < i + 1 /\ d[k] < c[k + 1]
  <2>1. CASE k \in 1 .. m
    <3>1. c[k] = b[k] /\ d[k] = e[k] /\ c[k + 1] = b[k + 1]
      BY <1>4, <1>5, <1>6, <2>1, Zenon
    <3>2. e[k] < i + 1
      BY <1>1, <2>1
    <3> QED
      BY <1>1, <2>1, <3>1, <3>2, Zenon
  <2>2. CASE k = m + 1
    <3>1. c[k] = b[m + 1] /\ d[k] = i /\ c[k + 1] = i + 1
      BY <1>4, <1>5, <1>7, <2>2, Zenon
    <3> QED
      BY <1>7, <3>1
  <2> QED
    BY <1>1, <2>1, <2>2
<1>9. ASSUME NEW j \in 1 .. i + 1
      PROVE  InWord(line, j) <=> Covered(c, d, m + 1, j) \/ j > c[(m + 1) + 1]
  <2>1. Covered(c, d, m + 1, j) <=> Covered(b, e, m, j) \/ (b[m + 1] < j /\ j <= i)
    <3>1. ASSUME Covered(c, d, m + 1, j) PROVE Covered(b, e, m, j) \/ (b[m + 1] < j /\ j <= i)
      <4>1. PICK k \in 1 .. m + 1 : c[k] < j /\ j <= d[k]
        BY <3>1 DEF Covered
      <4>2. k \in 1 .. m \/ k = m + 1
        BY <1>1
      <4>3. CASE k \in 1 .. m
        <5>1. b[k] < j /\ j <= e[k]
          BY <1>4, <1>5, <1>6, <4>1, <4>3, Zenon
        <5> QED
          BY <4>3, <5>1 DEF Covered
      <4>4. CASE k = m + 1
        BY <1>4, <1>5, <1>7, <4>1, <4>4, Zenon
      <4> QED
        BY <4>2, <4>3, <4>4
    <3>2. ASSUME Covered(b, e, m, j) PROVE Covered(c, d, m + 1, j)
      <4>1. PICK k \in 1 .. m : b[k] < j /\ j <= e[k]
        BY <3>2 DEF Covered
      <4>2. k \in 1 .. m + 1 /\ c[k] < j /\ j <= d[k]
        BY <1>4, <1>5, <1>6, <4>1, Zenon
      <4> QED
        BY <4>2 DEF Covered
    <3>3. ASSUME b[m + 1] < j, j <= i PROVE Covered(c, d, m + 1, j)
      <4>1. m + 1 \in 1 .. m + 1 /\ c[m + 1] < j /\ j <= d[m + 1]
        BY <1>4, <1>5, <1>7, <3>3, Zenon
      <4> QED
        BY <4>1 DEF Covered
    <3> QED
      BY <3>1, <3>2, <3>3
  <2>2. ~(j > c[(m + 1) + 1])
    BY <1>1, <1>4
  <2>3. CASE j = i + 1
    <3>1. ~Covered(b, e, m, j)
      <4> SUFFICES ASSUME NEW k \in 1 .. m, j <= e[k] PROVE FALSE
        BY DEF Covered
      <4> QED
        BY <1>1, <2>3
    <3>2. ~(j <= i)
      BY <1>1, <2>3
    <3> QED
      BY <2>1, <2>2, <2>3, <3>1, <3>2
  <2>4. CASE j \in 1 .. i
    <3>1. j > b[m + 1] <=> b[m + 1] < j /\ j <= i
      BY <1>1, <2>4
    <3>2. InWord(line, j) <=> Covered(b, e, m, j) \/ j > b[m + 1]
      BY <1>1, <2>4, Zenon
    <3> QED
      BY <2>1, <2>2, <3>1, <3>2
  <2> QED
    BY <1>1, <2>3, <2>4
<1>10. Offsets(line, c, d, m + 1, i + 1)
  BY <1>4, <1>5, <1>7, <1>8, <1>9, Zenon DEF Offsets
<1>11. \A k \in 1 .. m : c[k] = b[k] /\ d[k] = e[k]
  BY <1>4, <1>5, <1>6, Zenon
<1>12. c[m + 1] = b[m + 1]
  BY <1>4, <1>7, Zenon
<1>13. c[(m + 1) + 1] = i + 1
  BY <1>4
<1>14. d[m + 1] = i
  BY <1>5
<1> QED
  BY <1>10, <1>11, <1>12, <1>13, <1>14, ZenonT(30)

LEMMA StateFields ==
  ASSUME NEW st, NEW mode, NEW cur, NEW parts, NEW skip, st = State(mode, cur, parts, skip)
  PROVE  st.mode = mode /\ st.cur = cur /\ st.parts = parts /\ st.skip = skip
BY DEF State

(* A piece of a text and the byte behind it. *)
LEMMA PieceMore ==
  ASSUME NEW t \in Seq(Int), NEW a \in Nat, NEW i \in Nat, a <= i, i < Len(t)
  PROVE  SubSeq(t, a + 1, i + 1) = Append(SubSeq(t, a + 1, i), t[i + 1])
<1>1. PICK u, v, c : u = SubSeq(t, a + 1, i) /\ v = SubSeq(t, a + 1, i + 1) /\ c = t[i + 1]
  OBVIOUS
<1>2. Len(t) \in Nat /\ i + 1 \in 1 .. Len(t) /\ i + 1 <= Len(t) /\ i <= Len(t) /\ a <= i + 1
  BY LenProperties
<1>3. c \in Int
  BY <1>1, <1>2, ElementOfSeq
<1>4. u \in Seq(Int) /\ Len(u) = i - a /\ \A k \in 1 .. i - a : u[k] = t[a + k]
  <2>1. i <= Len(t)
    BY <1>2
  <2>2. u = SubSeq(t, a + 1, i)
    BY <1>1
  <2> QED
    BY <2>1, <2>2, PieceIs
<1>5. /\ v \in Seq(Int) /\ Len(v) = (i + 1) - a
      /\ \A k \in 1 .. (i + 1) - a : v[k] = t[a + k]
  <2>1. i + 1 \in Nat
    OBVIOUS
  <2> QED
    BY <1>1, <1>2, <2>1, PieceIs
<1>6. PICK w : w = Append(u, c)
  OBVIOUS
<1>7. /\ w \in Seq(Int) /\ Len(w) = (i - a) + 1
      /\ \A k \in 1 .. i - a : w[k] = u[k]
      /\ w[(i - a) + 1] = c
  <2>1. /\ Append(u, c) \in Seq(Int) /\ Len(Append(u, c)) = Len(u) + 1
        /\ \A k \in 1 .. Len(u) : Append(u, c)[k] = u[k]
        /\ Append(u, c)[Len(u) + 1] = c
    BY <1>3, <1>4, AppendLemma
  <2> QED
    BY <1>4, <1>6, <2>1, Zenon
<1>8. (i + 1) - a = (i - a) + 1
  OBVIOUS
<1>9. ASSUME NEW k \in 1 .. (i - a) + 1 PROVE v[k] = w[k]
  <2>1. CASE k \in 1 .. i - a
    BY <1>4, <1>5, <1>7, <1>8, <2>1, Zenon
  <2>2. CASE k = (i - a) + 1
    <3>1. a + k = i + 1 /\ k \in 1 .. (i + 1) - a
      BY <2>2
    <3>2. v[k] = t[a + k]
      BY <1>5, <3>1
    <3> QED
      BY <1>1, <1>7, <2>2, <3>1, <3>2, Zenon
  <2> QED
    BY <2>1, <2>2, SMTT(30)
<1>10. v = w
  BY <1>5, <1>7, <1>8, <1>9, SameSeq
<1> QED
  BY <1>1, <1>6, <1>10

LEMMA EmptyPiece ==
  ASSUME NEW t \in Seq(Int), NEW i \in Nat, i <= Len(t)
  PROVE  SubSeq(t, i + 1, i) = <<>>
<1>1. PICK u : u = SubSeq(t, i + 1, i)
  OBVIOUS
<1>2. u \in Seq(Int) /\ Len(u) = 0
  BY <1>1, PieceIs
<1> QED
  BY <1>1, <1>2, EmptySeq

(* What the loop of sdssplitargs has made of the first i bytes of a line   *)
(* without quotes.                                                         *)
Plain(line) ==
  line \in Seq(Int) /\ \A i \in 1 .. Len(line) : line[i] \notin {NUL, Quote, Apostrophe}

Picked(line, parts, b, e, m) ==
  /\ parts \in Seq(Seq(Int)) /\ Len(parts) = m
  /\ \A k \in 1 .. m : parts[k] = SubSeq(line, b[k] + 1, e[k])

InBlank(line, st, i, b, e, m, parts) ==
  /\ Offsets(line, b, e, m, i) /\ Picked(line, parts, b, e, m)
  /\ st = State("blank", <<>>, parts, 0) /\ b[m + 1] = i /\ ~InWord(line, i)

InArg(line, st, i, b, e, m, parts, cur) ==
  /\ Offsets(line, b, e, m, i) /\ Picked(line, parts, b, e, m)
  /\ st = State("word", cur, parts, 0) /\ b[m + 1] < i /\ i <= Len(line)
  /\ cur = SubSeq(line, b[m + 1] + 1, i) /\ InWord(line, i)

WordState(line, st, i) ==
  \E b, e, m, parts, cur : \/ InBlank(line, st, i, b, e, m, parts)
                           \/ InArg(line, st, i, b, e, m, parts, cur)

LEMMA PlainByte ==
  ASSUME NEW line, Plain(line), NEW i \in 0 .. Len(line), NEW c, c = ByteAt(line, i + 1)
  PROVE  /\ c \in Int /\ c # Quote /\ c # Apostrophe
         /\ c # NUL => i < Len(line) /\ c = line[i + 1]
<1>1. line \in Seq(Int) /\ Len(line) \in Nat /\ \A k \in 1 .. Len(line) : line[k] \notin {NUL, Quote, Apostrophe}
  BY LenProperties DEF Plain
<1>2. CASE i + 1 <= Len(line)
  <2>1. i + 1 \in 1 .. Len(line) /\ i < Len(line)
    BY <1>1, <1>2
  <2>2. c = line[i + 1] /\ line[i + 1] \in Int
    BY <1>1, <1>2, <2>1, ElementOfSeq DEF ByteAt
  <2> QED
    BY <1>1, <2>1, <2>2
<1>3. CASE ~(i + 1 <= Len(line))
  BY <1>3 DEF ByteAt, NUL, Quote, Apostrophe
<1> QED
  BY <1>2, <1>3

LEMMA PickedStays ==
  ASSUME NEW line, NEW parts, NEW b, NEW e, NEW m, Picked(line, parts, b, e, m),
         NEW c, \A k \in 1 .. m : c[k] = b[k]
  PROVE  Picked(line, parts, c, e, m)
BY Zenon DEF Picked

LEMMA PickedMore ==
  ASSUME NEW line, NEW parts, NEW b, NEW e, NEW m \in Nat, Picked(line, parts, b, e, m),
         NEW c, NEW d, \A k \in 1 .. m : c[k] = b[k] /\ d[k] = e[k],
         NEW cur \in Seq(Int), cur = SubSeq(line, c[m + 1] + 1, d[m + 1])
  PROVE  Picked(line, Append(parts, cur), c, d, m + 1)
<1>1. PICK more : more = Append(parts, cur)
  OBVIOUS
<1>2. /\ parts \in Seq(Seq(Int)) /\ Len(parts) = m
      /\ \A k \in 1 .. m : parts[k] = SubSeq(line, b[k] + 1, e[k])
  BY Zenon DEF Picked
<1>3. More(parts, cur, more, m)
  BY <1>1, <1>2, OneMore
<1>4. /\ more \in Seq(Seq(Int)) /\ Len(more) = m + 1 /\ more[m + 1] = cur
      /\ \A k \in 1 .. m : more[k] = parts[k]
  BY <1>3, Zenon DEF More
<1>5. ASSUME NEW k \in 1 .. m + 1 PROVE more[k] = SubSeq(line, c[k] + 1, d[k])
  <2>1. k \in 1 .. m \/ k = m + 1
    OBVIOUS
  <2>2. CASE k \in 1 .. m
    BY <1>2, <1>4, <2>2, Zenon
  <2>3. CASE k = m + 1
    BY <1>4, <2>3, Zenon
  <2> QED
    BY <2>1, <2>2, <2>3
<1> QED
  BY <1>1, <1>4, <1>5, Zenon DEF Picked

(* The next byte, between arguments.                                       *)
LEMMA BlankStep ==
  ASSUME NEW line, Plain(line), NEW i \in 0 .. Len(line), NEW st \in ArgStates,
         NEW b, NEW e, NEW m, NEW parts, InBlank(line, st, i, b, e, m, parts)
  PROVE  WordState(line, ArgStep(line, st, i + 1), i + 1)
<1>1. PICK c : c = ByteAt(line, i + 1)
  OBVIOUS
<1>2. /\ c \in Int /\ c # Quote /\ c # Apostrophe
      /\ c # NUL => i < Len(line) /\ c = line[i + 1]
  BY <1>1, PlainByte
<1>3. /\ Offsets(line, b, e, m, i) /\ Picked(line, parts, b, e, m)
      /\ st = State("blank", <<>>, parts, 0) /\ b[m + 1] = i /\ ~InWord(line, i)
  BY Zenon DEF InBlank
<1>4. i \in Nat /\ m \in Nat
  BY <1>3 DEF Offsets
<1>5. st.mode = "blank" /\ ~(st.skip > 0)
  <2>1. st = State("blank", <<>>, parts, 0)
    BY <1>3
  <2>2. st.mode = "blank" /\ st.skip = 0
    BY <2>1 DEF State
  <2> QED
    BY <2>2
<1>6. ArgStep(line, st, i + 1) = IF c \in Space \union {NUL} THEN st ELSE Unquoted(st, c)
  <2>1. "blank" # "err"
    OBVIOUS
  <2> QED
    BY <1>1, <1>5, <2>1, ArgStepIs, Zenon
<1>7. CASE c \in Space \union {NUL}
  <2>1. c \in Space \/ c \in ArgEnds
    BY <1>7 DEF ArgEnds, NUL
  <2>2. ~InWord(line, i + 1)
    BY <1>1, <1>3, <1>4, <2>1, InWordNext, Zenon
  <2>3. PICK a : OffsetsTo(line, a, e, m, i + 1, b)
    <3>1. Offsets(line, b, e, m, i)
      BY <1>3
    <3>2. b[m + 1] = i
      BY <1>3
    <3> QED
      BY <2>2, <3>1, <3>2, OffsetsSkip
  <2>4. Picked(line, parts, a, e, m)
    BY <1>3, <2>3, PickedStays, Zenon DEF OffsetsTo
  <2>5. InBlank(line, st, i + 1, a, e, m, parts)
    BY <1>3, <2>2, <2>3, <2>4, Zenon DEF InBlank, OffsetsTo
  <2> QED
    BY <1>6, <1>7, <2>5, Zenon DEF WordState
<1>8. CASE c \notin Space \union {NUL}
  <2>1. c \notin Space /\ c \notin ArgEnds /\ c # NUL
    BY <1>8 DEF ArgEnds, Space, NUL
  <2>2. InWord(line, i + 1)
    BY <1>1, <1>4, <2>1, InWordNext, Zenon
  <2>3. Offsets(line, b, e, m, i + 1)
    <3>1. b[m + 1] <= i
      BY <1>3, <1>4
    <3> QED
      BY <1>3, <2>2, <3>1, OffsetsOn, Zenon
  <2>4. i < Len(line) /\ c = line[i + 1] /\ line \in Seq(Int) /\ i + 1 <= Len(line) /\ i <= Len(line) /\ i <= i
        /\ b[m + 1] < i + 1
    BY <1>2, <1>3, <1>4, <2>1, LenProperties DEF Plain
  <2>5. SubSeq(line, i + 1, i + 1) = Append(<<>>, c)
    BY <1>4, <2>4, PieceMore, EmptyPiece, Zenon
  <2>6. Unquoted(st, c) = Add(st, "word", c)
    BY <1>2, <2>1 DEF Unquoted
  <2>7. Add(st, "word", c) = State("word", Append(<<>>, c), parts, 0)
    <3>1. PICK none : none = <<>>
      OBVIOUS
    <3>2. st = State("blank", none, parts, 0)
      BY <1>3, <3>1
    <3>3. Add(st, "word", c) = State("word", Append(none, c), parts, 0)
      BY <3>2, AddOf
    <3> QED
      BY <3>1, <3>3
  <2>8. InArg(line, State("word", Append(<<>>, c), parts, 0), i + 1, b, e, m, parts, Append(<<>>, c))
    BY <1>3, <2>2, <2>3, <2>4, <2>5, Zenon DEF InArg
  <2> QED
    BY <1>6, <1>8, <2>6, <2>7, <2>8, Zenon DEF WordState
<1> QED
  BY <1>7, <1>8

(* The next byte, inside an argument.                                      *)
LEMMA ArgWordStep ==
  ASSUME NEW line, Plain(line), NEW i \in 0 .. Len(line), NEW st \in ArgStates,
         NEW b, NEW e, NEW m, NEW parts, NEW cur, InArg(line, st, i, b, e, m, parts, cur)
  PROVE  WordState(line, ArgStep(line, st, i + 1), i + 1)
<1>1. PICK c : c = ByteAt(line, i + 1)
  OBVIOUS
<1>2. /\ c \in Int /\ c # Quote /\ c # Apostrophe
      /\ c # NUL => i < Len(line) /\ c = line[i + 1]
  BY <1>1, PlainByte
<1>3. /\ Offsets(line, b, e, m, i) /\ Picked(line, parts, b, e, m)
      /\ st = State("word", cur, parts, 0) /\ b[m + 1] < i /\ i <= Len(line)
      /\ cur = SubSeq(line, b[m + 1] + 1, i) /\ InWord(line, i)
  BY Zenon DEF InArg
<1>4. i \in Nat /\ m \in Nat /\ b[m + 1] \in Nat /\ line \in Seq(Int)
  BY <1>3 DEF Offsets, Plain
<1>5. st.mode = "word" /\ ~(st.skip > 0)
  <2>1. st = State("word", cur, parts, 0)
    BY <1>3
  <2>2. st.mode = "word" /\ st.skip = 0
    BY <2>1 DEF State
  <2> QED
    BY <2>2
<1>6. ArgStep(line, st, i + 1) = Unquoted(st, c)
  <2>1. "word" # "err" /\ "word" # "blank"
    OBVIOUS
  <2> QED
    BY <1>1, <1>5, <2>1, ArgStepIs, Zenon
<1>7. CASE c \in ArgEnds
  <2>1. ~InWord(line, i + 1)
    BY <1>1, <1>4, <1>7, InWordNext, Zenon
  <2>2. PICK a, d : /\ Offsets(line, a, d, m + 1, i + 1) /\ a[(m + 1) + 1] = i + 1
                    /\ d[m + 1] = i /\ a[m + 1] = b[m + 1]
                    /\ \A k \in 1 .. m : a[k] = b[k] /\ d[k] = e[k]
    <3>1. Offsets(line, b, e, m, i)
      BY <1>3
    <3>2. b[m + 1] < i
      BY <1>3
    <3> QED
      BY <2>1, <3>1, <3>2, OffsetsEnd
  <2>3. cur \in Seq(Int)
    <3>1. b[m + 1] <= i
      BY <1>3, <1>4
    <3> QED
      BY <1>3, <1>4, <3>1, PieceIs
  <2>4. Picked(line, Append(parts, cur), a, d, m + 1)
    BY <1>3, <1>4, <2>2, <2>3, PickedMore, ZenonT(30)
  <2>5. Unquoted(st, c) = Finished(st)
    <3>1. c # Quote /\ c # Apostrophe
      BY <1>2
    <3> QED
      BY <1>7, <3>1 DEF Unquoted
  <2>6. Finished(st) = State("blank", <<>>, Append(parts, cur), 0)
    <3>1. st = State("word", cur, parts, 0)
      BY <1>3
    <3> QED
      BY <3>1, FinishedOf
  <2>7. InBlank(line, State("blank", <<>>, Append(parts, cur), 0), i + 1, a, d, m + 1, Append(parts, cur))
    BY <2>1, <2>2, <2>4, Zenon DEF InBlank
  <2> QED
    BY <1>6, <2>5, <2>6, <2>7, Zenon DEF WordState
<1>8. CASE c \notin ArgEnds
  <2>1. c # NUL
    BY <1>8 DEF ArgEnds
  <2>2. InWord(line, i + 1)
    BY <1>1, <1>3, <1>4, <1>8, InWordNext, Zenon
  <2>3. i < Len(line) /\ c = line[i + 1] /\ i + 1 <= Len(line) /\ b[m + 1] <= i /\ b[m + 1] < i + 1
    BY <1>2, <1>3, <1>4, <2>1, LenProperties
  <2>4. Offsets(line, b, e, m, i + 1)
    BY <1>3, <2>2, <2>3, OffsetsOn, Zenon
  <2>5. SubSeq(line, b[m + 1] + 1, i + 1) = Append(cur, c)
    BY <1>3, <1>4, <2>3, PieceMore, Zenon
  <2>6. Unquoted(st, c) = Add(st, "word", c)
    BY <1>2, <1>8 DEF Unquoted
  <2>7. Add(st, "word", c) = State("word", Append(cur, c), parts, 0)
    <3>1. st = State("word", cur, parts, 0)
      BY <1>3
    <3> QED
      BY <3>1, AddOf
  <2>8. InArg(line, State("word", Append(cur, c), parts, 0), i + 1, b, e, m, parts, Append(cur, c))
    BY <1>3, <2>2, <2>3, <2>4, <2>5, Zenon DEF InArg
  <2> QED
    BY <1>6, <2>6, <2>7, <2>8, Zenon DEF WordState
<1> QED
  BY <1>7, <1>8

LEMMA WordsStart ==
  ASSUME NEW line
  PROVE  WordState(line, State("blank", <<>>, <<>>, 0), 0)
<1>1. PICK b : b = [k \in 1 .. 1 |-> 0]
  OBVIOUS
<1>2. PICK e : e = [k \in 1 .. 0 |-> 0]
  OBVIOUS
<1>3. /\ b \in [1 .. 0 + 1 -> Nat] /\ e \in [1 .. 0 -> Nat] /\ b[0 + 1] = 0
      /\ 1 .. 0 = {} /\ 0 \in Nat
  BY <1>1, <1>2
<1>4. Offsets(line, b, e, 0, 0)
  BY <1>3 DEF Offsets
<1>5. <<>> \in Seq(Seq(Int)) /\ Len(<<>>) = 0
  OBVIOUS
<1>6. Picked(line, <<>>, b, e, 0)
  BY <1>3, <1>5 DEF Picked
<1>7. ~InWord(line, 0)
  BY <1>3 DEF InWord
<1>8. InBlank(line, State("blank", <<>>, <<>>, 0), 0, b, e, 0, <<>>)
  BY <1>3, <1>4, <1>6, <1>7, Zenon DEF InBlank
<1> QED
  BY <1>8, Zenon DEF WordState

LEMMA WordStep ==
  ASSUME NEW line, Plain(line), NEW i \in 0 .. Len(line), NEW st \in ArgStates, WordState(line, st, i)
  PROVE  WordState(line, ArgStep(line, st, i + 1), i + 1)
<1>1. PICK b, e, m, parts, cur : \/ InBlank(line, st, i, b, e, m, parts)
                                 \/ InArg(line, st, i, b, e, m, parts, cur)
  BY DEF WordState
<1> QED
  BY <1>1, BlankStep, ArgWordStep

LEMMA WordsLoop ==
  ASSUME NEW line, Plain(line), NEW f, Reading(line, f), NEW n, n = Len(line)
  PROVE  WordState(line, f[n + 1], n + 1)
<1>1. n \in Nat
  BY LenProperties DEF Plain
<1>2. /\ f[0] = State("blank", <<>>, <<>>, 0)
      /\ \A i \in 1 .. n + 1 : f[i] = ArgStep(line, f[i - 1], i)
      /\ \A i \in 0 .. n + 1 : f[i] \in ArgStates
  BY Zenon DEF Reading
<1> DEFINE Is == {i \in Nat : i <= n + 1 => WordState(line, f[i], i)}
<1>3. 0 \in Is
  BY <1>2, WordsStart
<1>4. ASSUME NEW i \in Nat, i \in Is PROVE i + 1 \in Is
  <2> SUFFICES ASSUME i + 1 <= n + 1 PROVE WordState(line, f[i + 1], i + 1)
    OBVIOUS
  <2>1. i \in 0 .. Len(line) /\ i \in 0 .. n + 1 /\ i + 1 \in 1 .. n + 1 /\ (i + 1) - 1 = i /\ i <= n + 1
    BY <1>1
  <2>2. f[i + 1] = ArgStep(line, f[i], i + 1) /\ f[i] \in ArgStates
    BY <1>2, <2>1, Zenon
  <2>3. WordState(line, f[i], i)
    BY <1>4, <2>1
  <2> QED
    BY <2>1, <2>2, <2>3, WordStep, Zenon
<1> HIDE DEF Is
<1>5. Nat \subseteq Is
  BY <1>3, <1>4, Induction
<1>6. n + 1 \in Nat /\ n + 1 <= n + 1
  BY <1>1
<1> QED
  BY <1>5, <1>6 DEF Is

(* What sdssplitargs returns of a line without quotes.                     *)
WordsOf(line, parts) ==
  LET inside(i) == \E j \in 1 .. i : /\ line[j] \notin Space
                                    /\ \A k \in j .. i : line[k] \notin Space \ {11, 12}
      last(k, at) == at[k] + Len(parts[k]) - 1
  IN \E at \in [DOMAIN parts -> DOMAIN line] :
       /\ \A k \in DOMAIN parts : /\ at[k] <= last(k, at)
                                  /\ parts[k] = SubSeq(line, at[k], last(k, at))
                                  /\ k > 1 => at[k] > last(k - 1, at) + 1
       /\ {i \in DOMAIN line : inside(i)} =
            UNION {at[k] .. last(k, at) : k \in DOMAIN parts}

LEMMA InsideIs ==
  ASSUME NEW line, Plain(line), NEW i \in 1 .. Len(line)
  PROVE  InWord(line, i) <=> \E j \in 1 .. i : /\ line[j] \notin Space
                                              /\ \A k \in j .. i : line[k] \notin Space \ {11, 12}
<1>1. Len(line) \in Nat
  BY LenProperties DEF Plain
<1>2. \A k \in 1 .. i : ByteAt(line, k) = line[k] /\ line[k] # NUL
  BY <1>1 DEF ByteAt, Plain
<1>3. \A c : c # NUL => (c \in ArgEnds <=> c \in Space \ {11, 12})
  BY DEF ArgEnds, Space
<1>4. \A j \in 1 .. i : \A k \in j .. i : k \in 1 .. i
  OBVIOUS
<1>5. \A k \in 1 .. i : /\ ByteAt(line, k) \in ArgEnds <=> line[k] \in Space \ {11, 12}
                        /\ ByteAt(line, k) \in Space <=> line[k] \in Space
  BY <1>2, <1>3, Zenon
<1> QED
  BY <1>4, <1>5, Zenon DEF InWord

LEMMA WordsLemma ==
  ASSUME NEW line, Plain(line)
  PROVE  WordsOf(line, SplitArgs(line).parts)
<1>1. PICK n : n = Len(line)
  OBVIOUS
<1>2. n \in Nat /\ line \in Seq(Int) /\ DOMAIN line = 1 .. n
  BY <1>1, LenProperties DEF Plain
<1>3. PICK f : Reading(line, f) /\ SplitArgs(line) = ArgResult(f[n + 1])
  BY <1>1, <1>2, SplitArgsIs, Zenon
<1>4. PICK st : st = f[n + 1]
  OBVIOUS
<1>5. WordState(line, st, n + 1)
  BY <1>1, <1>3, <1>4, WordsLoop, Zenon
<1>6. PICK b, e, m, parts, cur : \/ InBlank(line, st, n + 1, b, e, m, parts)
                                 \/ InArg(line, st, n + 1, b, e, m, parts, cur)
  BY <1>5 DEF WordState
<1>7. ~InArg(line, st, n + 1, b, e, m, parts, cur)
  <2>1. ~(n + 1 <= Len(line))
    BY <1>1, <1>2
  <2> QED
    BY <2>1 DEF InArg
<1>8. /\ Offsets(line, b, e, m, n + 1) /\ Picked(line, parts, b, e, m)
      /\ st = State("blank", <<>>, parts, 0)
  BY <1>6, <1>7 DEF InBlank
<1>9. SplitArgs(line).parts = parts
  <2>1. st.mode = "blank" /\ st.parts = parts
    <3>1. st = State("blank", <<>>, parts, 0)
      BY <1>8
    <3> QED
      BY <3>1 DEF State
  <2>2. "blank" # "err"
    OBVIOUS
  <2>3. SplitArgs(line) = ArgResult(st)
    BY <1>3, <1>4
  <2> QED
    BY <2>1, <2>2, <2>3 DEF ArgResult
<1>10. /\ m \in Nat /\ b \in [1 .. m + 1 -> Nat] /\ e \in [1 .. m -> Nat]
       /\ \A k \in 1 .. m : b[k] < e[k] /\ e[k] < n + 1 /\ e[k] < b[k + 1]
       /\ \A j \in 1 .. n + 1 : InWord(line, j) <=> Covered(b, e, m, j) \/ j > b[m + 1]
  BY <1>8, Zenon DEF Offsets
<1>11. b[m + 1] = n + 1
  BY <1>6, <1>7 DEF InBlank
<1>12. DOMAIN parts = 1 .. m /\ \A k \in 1 .. m : parts[k] = SubSeq(line, b[k] + 1, e[k])
  <2>1. /\ parts \in Seq(Seq(Int)) /\ Len(parts) = m
        /\ \A k \in 1 .. m : parts[k] = SubSeq(line, b[k] + 1, e[k])
    BY <1>8, Zenon DEF Picked
  <2> QED
    BY <2>1, LenProperties
<1>13. PICK at : at = [k \in 1 .. m |-> b[k] + 1]
  OBVIOUS
<1>14. ASSUME NEW k \in 1 .. m
       PROVE  /\ at[k] = b[k] + 1 /\ at[k] \in 1 .. n
              /\ at[k] + Len(parts[k]) - 1 = e[k] /\ at[k] <= e[k]
              /\ b[k] \in Nat /\ e[k] \in Nat /\ e[k] <= n
  <2>1. b[k] \in Nat /\ e[k] \in Nat /\ b[k] < e[k] /\ e[k] < n + 1 /\ at[k] = b[k] + 1
    BY <1>10, <1>13
  <2>2. b[k] <= e[k] /\ e[k] <= Len(line)
    BY <1>1, <1>2, <2>1
  <2>3. PICK u : u = parts[k]
    OBVIOUS
  <2>4. u = SubSeq(line, b[k] + 1, e[k])
    BY <1>12, <2>3
  <2>4a. PICK x : x = b[k]
    OBVIOUS
  <2>4b. PICK y : y = e[k]
    OBVIOUS
  <2>4c. x \in Nat /\ y \in Nat /\ x < y /\ y < n + 1
    BY <2>1, <2>4a, <2>4b, Zenon
  <2>4d. x <= y
    BY <2>4c
  <2>4e. y <= Len(line)
    BY <2>2, <2>4b
  <2>4f. u = SubSeq(line, x + 1, y)
    BY <2>4, <2>4a, <2>4b, Zenon
  <2>4g. line \in Seq(Int)
    BY <1>2
  <2>4h. x \in Nat /\ y \in Nat
    BY <2>4c
  <2>5. Len(u) = y - x
    BY <2>4d, <2>4e, <2>4f, <2>4g, <2>4h, PieceIs, Zenon
  <2>6. (x + 1) + (y - x) - 1 = y /\ x + 1 <= y /\ x + 1 \in 1 .. n /\ y <= n
    BY <1>2, <2>4c
  <2>7. Len(parts[k]) = y - x
    BY <2>3, <2>5
  <2>8. at[k] = x + 1
    BY <2>1, <2>4a
  <2>9. at[k] + Len(parts[k]) - 1 = y
    BY <2>6, <2>7, <2>8, Zenon
  <2> QED
    BY <2>1, <2>4a, <2>4b, <2>6, <2>8, <2>9, Zenon
<1>15. at \in [DOMAIN parts -> DOMAIN line]
  BY <1>2, <1>12, <1>13, <1>14
<1>16. ASSUME NEW k \in 1 .. m
       PROVE  /\ at[k] <= at[k] + Len(parts[k]) - 1
              /\ parts[k] = SubSeq(line, at[k], at[k] + Len(parts[k]) - 1)
              /\ k > 1 => at[k] > (at[k - 1] + Len(parts[k - 1]) - 1) + 1
  <2>1. at[k] <= at[k] + Len(parts[k]) - 1
    BY <1>14, Zenon
  <2>2. parts[k] = SubSeq(line, at[k], at[k] + Len(parts[k]) - 1)
    BY <1>12, <1>14, Zenon
  <2>3. ASSUME k > 1 PROVE at[k] > (at[k - 1] + Len(parts[k - 1]) - 1) + 1
    <3>1. k - 1 \in 1 .. m /\ (k - 1) + 1 = k
      BY <1>10, <2>3
    <3>2. at[k - 1] + Len(parts[k - 1]) - 1 = e[k - 1] /\ e[k - 1] \in Nat
      BY <1>14, <3>1, Zenon
    <3>3. e[k - 1] < b[k]
      BY <1>10, <3>1, Zenon
    <3>4. at[k] = b[k] + 1 /\ b[k] \in Nat
      BY <1>14
    <3>5. b[k] + 1 > e[k - 1] + 1
      BY <3>2, <3>3, <3>4
    <3> QED
      BY <3>2, <3>4, <3>5, Zenon
  <2> QED
    BY <2>1, <2>2, <2>3
<1>17. ASSUME NEW i \in 1 .. n
       PROVE  InWord(line, i) <=> \E k \in 1 .. m : i \in at[k] .. at[k] + Len(parts[k]) - 1
  <2>1. i \in 1 .. n + 1 /\ ~(i > b[m + 1])
    BY <1>2, <1>11
  <2>2. InWord(line, i) <=> Covered(b, e, m, i)
    BY <1>10, <2>1, Zenon
  <2>3. \A k \in 1 .. m : (b[k] < i /\ i <= e[k]) <=> i \in at[k] .. e[k]
    BY <1>14
  <2>4. \A k \in 1 .. m : at[k] + Len(parts[k]) - 1 = e[k]
    BY <1>14, Zenon
  <2>5. \A k \in 1 .. m : (b[k] < i /\ i <= e[k]) <=> i \in at[k] .. at[k] + Len(parts[k]) - 1
    BY <2>3, <2>4, Zenon
  <2> QED
    BY <2>2, <2>5, Zenon DEF Covered
<1>18. \A i : (\E k \in 1 .. m : i \in at[k] .. at[k] + Len(parts[k]) - 1) => i \in 1 .. n
  <2>1. ASSUME NEW k \in 1 .. m PROVE at[k] .. e[k] \subseteq 1 .. n
    <3>1. PICK x : x = at[k]
      OBVIOUS
    <3>2. PICK y : y = e[k]
      OBVIOUS
    <3>3. x \in 1 .. n /\ y \in Nat /\ y <= n
      BY <1>14, <3>1, <3>2, Zenon
    <3>4. x .. y \subseteq 1 .. n
      BY <1>2, <3>3
    <3> QED
      BY <3>1, <3>2, <3>4
  <2>2. \A k \in 1 .. m : at[k] + Len(parts[k]) - 1 = e[k]
    BY <1>14, Zenon
  <2> QED
    BY <2>1, <2>2, Zenon
<1>19. {i \in DOMAIN line : \E j \in 1 .. i : /\ line[j] \notin Space
                                              /\ \A k \in j .. i : line[k] \notin Space \ {11, 12}}
         = UNION {at[k] .. at[k] + Len(parts[k]) - 1 : k \in DOMAIN parts}
  <2>1. \A i \in 1 .. n : InWord(line, i) <=>
          \E j \in 1 .. i : /\ line[j] \notin Space
                            /\ \A k \in j .. i : line[k] \notin Space \ {11, 12}
    BY <1>1, InsideIs, Zenon
  <2> QED
    BY <1>2, <1>12, <1>17, <1>18, <2>1, Zenon
<1>20. WordsOf(line, parts)
  BY <1>12, <1>15, <1>16, <1>19, Zenon DEF WordsOf
<1> QED
  BY <1>9, <1>20

-----------------------------------------------------------------------------
(* What sdscatrepr has quoted, read back.                                  *)

Unescaped(n) == IF \E e \in Escapes : e[1] = n THEN (CHOOSE e \in Escapes : e[1] = n)[2] ELSE n

(* The three ways a byte is written.                                       *)
AsItIs(u, c)  == Len(u) = 1 /\ u[1] = c /\ c \notin {Backslash, Quote, NUL}
Escaped(u, c) == /\ Len(u) = 2 /\ u[1] = Backslash /\ u[2] # NUL /\ u[2] # LowerX
                 /\ Unescaped(u[2]) = c
InHex(u, c)   == /\ Len(u) = 4 /\ u[1] = Backslash /\ u[2] = LowerX
                 /\ u[3] \in HexDigit /\ u[4] \in HexDigit
                 /\ 16 * OfHex(u[3]) + OfHex(u[4]) = c

LEMMA HexBack ==
  ASSUME NEW n \in 0 .. 15
  PROVE  ToHex(n) \in HexDigit /\ OfHex(ToHex(n)) = n
<1>1. CASE n < 10
  <2>1. ToHex(n) = 48 + n
    BY <1>1 DEF ToHex
  <2>2. 48 + n \in 48 .. 57 /\ (48 + n) - 48 = n
    BY <1>1
  <2> QED
    BY <2>1, <2>2 DEF HexDigit, OfHex
<1>2. CASE ~(n < 10)
  <2>1. ToHex(n) = 87 + n
    BY <1>2 DEF ToHex
  <2>2. PICK h : h = 87 + n
    OBVIOUS
  <2>3. h \in 97 .. 102 /\ h \notin 48 .. 57 /\ h \notin 65 .. 70 /\ h - 87 = n
    BY <1>2, <2>2
  <2>4. h \in HexDigit
    BY <2>3 DEF HexDigit
  <2>5. OfHex(h) = h - 87
    BY <2>3, Zenon DEF OfHex
  <2> QED
    BY <2>1, <2>2, <2>3, <2>4, <2>5
<1> QED
  BY <1>1, <1>2

LEMMA EscapesOnce ==
  /\ \A x, y \in Escapes : x[1] = y[1] => x[2] = y[2]
  /\ \A x \in Escapes : x[1] # NUL /\ x[1] # LowerX /\ x[1] # Backslash /\ x[1] # Quote
BY DEF Escapes, NUL, LowerX, Backslash, Quote

LEMMA ReprShape ==
  ASSUME NEW c \in Bytes, NEW u, u = Repr(c)
  PROVE  AsItIs(u, c) \/ Escaped(u, c) \/ InHex(u, c)
<1>1. CASE c \in {Backslash, Quote}
  <2>1. u = <<Backslash, c>>
    BY <1>1, Zenon DEF Repr
  <2>2. c # NUL /\ c # LowerX
    BY <1>1 DEF Backslash, Quote, NUL, LowerX
  <2>3. \A e \in Escapes : e[1] # c
    BY <1>1, EscapesOnce
  <2>4. Unescaped(c) = c
    BY <2>3, Zenon DEF Unescaped
  <2>5. Len(u) = 2 /\ u[1] = Backslash /\ u[2] = c
    BY <2>1
  <2> QED
    BY <2>2, <2>4, <2>5, Zenon DEF Escaped
<1>2. CASE c \notin {Backslash, Quote} /\ \E e \in Escapes : e[2] = c
  <2>1. PICK e : e = CHOOSE x \in Escapes : x[2] = c
    OBVIOUS
  <2>2. e \in Escapes /\ e[2] = c
    BY <1>2, <2>1, Zenon
  <2>3. u = <<Backslash, e[1]>>
    BY <1>2, <2>1, Zenon DEF Repr
  <2>4. Len(u) = 2 /\ u[1] = Backslash /\ u[2] = e[1]
    BY <2>3
  <2>5. e[1] # NUL /\ e[1] # LowerX
    BY <2>2, EscapesOnce
  <2>6. Unescaped(e[1]) = c
    <3>1. PICK x : x = CHOOSE y \in Escapes : y[1] = e[1]
      OBVIOUS
    <3>2. x \in Escapes /\ x[1] = e[1]
      BY <2>2, <3>1, Zenon
    <3>3. x[2] = e[2]
      BY <2>2, <3>2, EscapesOnce, Zenon
    <3>4. Unescaped(e[1]) = x[2]
      BY <2>2, <3>1, Zenon DEF Unescaped
    <3> QED
      BY <2>2, <3>3, <3>4
  <2> QED
    BY <2>4, <2>5, <2>6, Zenon DEF Escaped
<1>3. CASE /\ c \notin {Backslash, Quote} /\ ~ \E e \in Escapes : e[2] = c
           /\ c \in Printable
  <2>1. u = <<c>>
    BY <1>3, Zenon DEF Repr
  <2>2. Len(u) = 1 /\ u[1] = c
    BY <2>1
  <2>3. c # NUL
    BY <1>3 DEF Printable, NUL
  <2> QED
    BY <1>3, <2>2, <2>3, Zenon DEF AsItIs
<1>4. CASE /\ c \notin {Backslash, Quote} /\ ~ \E e \in Escapes : e[2] = c
           /\ c \notin Printable
  <2>1. PICK a, b : a = c \div 16 /\ b = c % 16
    OBVIOUS
  <2>2. a \in 0 .. 15 /\ b \in 0 .. 15 /\ 16 * a + b = c
    BY <2>1 DEF Bytes
  <2>3. u = <<Backslash, LowerX, ToHex(a), ToHex(b)>>
    BY <1>4, <2>1, Zenon DEF Repr
  <2>4. Len(u) = 4 /\ u[1] = Backslash /\ u[2] = LowerX /\ u[3] = ToHex(a) /\ u[4] = ToHex(b)
    BY <2>3
  <2>5. ToHex(a) \in HexDigit /\ ToHex(b) \in HexDigit /\ OfHex(ToHex(a)) = a /\ OfHex(ToHex(b)) = b
    BY <2>2, HexBack
  <2>6. 16 * OfHex(u[3]) + OfHex(u[4]) = c
    BY <2>2, <2>4, <2>5, Zenon
  <2> QED
    BY <2>4, <2>5, <2>6, Zenon DEF InHex
<1> QED
  BY <1>1, <1>2, <1>3, <1>4

-----------------------------------------------------------------------------
LEMMA QuotedStepIs ==
  ASSUME NEW line, NEW cur \in Seq(Int), NEW parts \in Seq(Seq(Int)), NEW i,
         NEW st, st = State("inq", cur, parts, 0)
  PROVE  ArgStep(line, st, i) = InQuotes(line, st, i)
<1>1. "inq" \in Modes /\ 0 \in Nat
  BY DEF Modes
<1>2. st \in ArgStates
  BY <1>1, StateType
<1>3. st.skip = 0 /\ st.mode = "inq"
  BY DEF State
<1>4. ~(st.skip > 0)
  BY <1>3
<1>5. "inq" # "err" /\ "inq" # "blank" /\ "inq" # "word"
  OBVIOUS
<1>6. ArgStep(line, st, i) =
           IF st.skip > 0 THEN [st EXCEPT !.skip = st.skip - 1]
           ELSE IF st.mode = "err" THEN st
           ELSE IF st.mode = "blank"
           THEN IF ByteAt(line, i) \in Space \union {NUL} THEN st ELSE Unquoted(st, ByteAt(line, i))
           ELSE IF st.mode = "word" THEN Unquoted(st, ByteAt(line, i))
           ELSE IF st.mode = "inq" THEN InQuotes(line, st, i)
           ELSE InSingleQuotes(line, st, i)
  BY <1>2, ArgStepIs, Zenon
<1> QED
  BY <1>3, <1>4, <1>5, <1>6, Zenon

LEMMA PlainRead ==
  ASSUME NEW line, NEW cur \in Seq(Int), NEW parts \in Seq(Seq(Int)), NEW i,
         NEW st, st = State("inq", cur, parts, 0), NEW c, c = ByteAt(line, i),
         c \notin {Backslash, Quote, NUL}
  PROVE  ArgStep(line, st, i) = State("inq", Append(cur, c), parts, 0)
<1>1. ArgStep(line, st, i) = InQuotes(line, st, i)
  BY QuotedStepIs
<1>2. InQuotes(line, st, i) = CASE c = Quote -> Closed(line, st, i)
                                [] c = NUL   -> [st EXCEPT !.mode = "err"]
                                [] OTHER     -> Add(st, "inq", c)
  BY Zenon DEF InQuotes
<1>3. InQuotes(line, st, i) = Add(st, "inq", c)
  BY <1>2, Zenon
<1>4. Add(st, "inq", c) = State("inq", Append(cur, c), parts, 0)
  BY AddOf
<1> QED
  BY <1>1, <1>3, <1>4

LEMMA EscapeRead ==
  ASSUME NEW line, NEW cur \in Seq(Int), NEW parts \in Seq(Seq(Int)), NEW i,
         NEW st, st = State("inq", cur, parts, 0), ByteAt(line, i) = Backslash,
         NEW n, n = ByteAt(line, i + 1), n # NUL, n # LowerX
  PROVE  ArgStep(line, st, i) = State("inq", Append(cur, Unescaped(n)), parts, 1)
<1>1. ArgStep(line, st, i) = InQuotes(line, st, i)
  BY QuotedStepIs
<1>2. PICK d : d = Unescaped(n)
  OBVIOUS
<1>3. InQuotes(line, st, i) = [Add(st, "inq", d) EXCEPT !.skip = 1]
  BY <1>2, Zenon DEF InQuotes, Unescaped
<1>4. Add(st, "inq", d) = State("inq", Append(cur, d), parts, 0)
  BY AddOf
<1>5. [State("inq", Append(cur, d), parts, 0) EXCEPT !.skip = 1] = State("inq", Append(cur, d), parts, 1)
  BY SkipOf
<1> QED
  BY <1>1, <1>2, <1>3, <1>4, <1>5, Zenon

LEMMA HexRead ==
  ASSUME NEW line, NEW cur \in Seq(Int), NEW parts \in Seq(Seq(Int)), NEW i,
         NEW st, st = State("inq", cur, parts, 0), ByteAt(line, i) = Backslash,
         ByteAt(line, i + 1) = LowerX, NEW h \in HexDigit, NEW l \in HexDigit,
         h = ByteAt(line, i + 2), l = ByteAt(line, i + 3)
  PROVE  ArgStep(line, st, i) = State("inq", Append(cur, 16 * OfHex(h) + OfHex(l)), parts, 3)
<1>1. ArgStep(line, st, i) = InQuotes(line, st, i)
  BY QuotedStepIs
<1>2. PICK d : d = 16 * OfHex(h) + OfHex(l)
  OBVIOUS
<1>3. InQuotes(line, st, i) = [Add(st, "inq", d) EXCEPT !.skip = 3]
  BY <1>2, Zenon DEF InQuotes
<1>4. Add(st, "inq", d) = State("inq", Append(cur, d), parts, 0)
  BY AddOf
<1>5. [State("inq", Append(cur, d), parts, 0) EXCEPT !.skip = 3] = State("inq", Append(cur, d), parts, 3)
  BY SkipOf
<1> QED
  BY <1>1, <1>2, <1>3, <1>4, <1>5, Zenon

LEMMA SkipRead ==
  ASSUME NEW line, NEW cur \in Seq(Int), NEW parts \in Seq(Seq(Int)), NEW i, NEW k \in Nat,
         NEW st, st = State("inq", cur, parts, k + 1)
  PROVE  ArgStep(line, st, i) = State("inq", cur, parts, k)
<1>1. "inq" \in Modes /\ k + 1 \in Nat /\ k + 1 > 0 /\ (k + 1) - 1 = k
  BY DEF Modes
<1>2. st \in ArgStates
  BY <1>1, StateType
<1>3. st.skip = k + 1
  BY DEF State
<1>4. st.skip > 0 /\ st.skip - 1 = k
  BY <1>1, <1>3, Zenon
<1>5. ArgStep(line, st, i) = [st EXCEPT !.skip = st.skip - 1]
  BY <1>2, <1>4, ArgStepIs, Zenon
<1>6. [st EXCEPT !.skip = k] = State("inq", cur, parts, k)
  BY SkipOf
<1> QED
  BY <1>4, <1>5, <1>6, Zenon

LEMMA BlankStepIs ==
  ASSUME NEW line, NEW cur \in Seq(Int), NEW parts \in Seq(Seq(Int)), NEW i,
         NEW st, st = State("blank", cur, parts, 0)
  PROVE  ArgStep(line, st, i) =
           IF ByteAt(line, i) \in Space \union {NUL} THEN st ELSE Unquoted(st, ByteAt(line, i))
<1>1. "blank" \in Modes /\ 0 \in Nat
  BY DEF Modes
<1>2. st \in ArgStates
  BY <1>1, StateType
<1>3. st.skip = 0 /\ st.mode = "blank"
  BY DEF State
<1>4. ~(st.skip > 0)
  BY <1>3
<1>5. "blank" # "err"
  OBVIOUS
<1> QED
  BY <1>2, <1>3, <1>4, <1>5, ArgStepIs, Zenon

LEMMA OpenRead ==
  ASSUME NEW line, NEW cur \in Seq(Int), NEW parts \in Seq(Seq(Int)), NEW i,
         NEW st, st = State("blank", cur, parts, 0), ByteAt(line, i) = Quote
  PROVE  ArgStep(line, st, i) = State("inq", cur, parts, 0)
<1>1. Quote \notin Space \union {NUL} /\ Quote \notin ArgEnds
  BY DEF Quote, Space, NUL, ArgEnds
<1>2. ArgStep(line, st, i) = Unquoted(st, Quote)
  BY <1>1, BlankStepIs, Zenon
<1>3. Quote # Apostrophe
  BY DEF Quote, Apostrophe
<1>4. Unquoted(st, Quote) = [st EXCEPT !.mode = "inq"]
  BY <1>1, <1>3, Zenon DEF Unquoted
<1>5. [st EXCEPT !.mode = "inq"] = State("inq", cur, parts, 0)
  BY ModeOf
<1> QED
  BY <1>2, <1>4, <1>5

LEMMA CloseRead ==
  ASSUME NEW line, NEW cur \in Seq(Int), NEW parts \in Seq(Seq(Int)), NEW i,
         NEW st, st = State("inq", cur, parts, 0), ByteAt(line, i) = Quote, ByteAt(line, i + 1) = NUL
  PROVE  ArgStep(line, st, i) = State("blank", <<>>, Append(parts, cur), 0)
<1>1. ArgStep(line, st, i) = InQuotes(line, st, i)
  BY QuotedStepIs
<1>2. Quote # Backslash /\ Quote # NUL
  BY DEF Quote, Backslash, NUL
<1>3. InQuotes(line, st, i) = CASE Quote = Quote -> Closed(line, st, i)
                                [] Quote = NUL   -> [st EXCEPT !.mode = "err"]
                                [] OTHER         -> Add(st, "inq", Quote)
  BY <1>2, Zenon DEF InQuotes
<1>4. InQuotes(line, st, i) = Closed(line, st, i)
  BY <1>2, <1>3, Zenon
<1>5. Closed(line, st, i) = Finished(st)
  BY Zenon DEF Closed
<1>6. Finished(st) = State("blank", <<>>, Append(parts, cur), 0)
  BY FinishedOf
<1> QED
  BY <1>1, <1>4, <1>5, <1>6

(* The item u stands in the line behind its first a bytes.                 *)
On(line, a, u) ==
  /\ a \in Nat /\ Len(line) \in Nat /\ Len(u) \in Nat /\ a + Len(u) <= Len(line)
  /\ \A i \in 1 .. Len(u) : ByteAt(line, a + i) = u[i]

LEMMA NextRead ==
  ASSUME NEW line, NEW f, Reading(line, f), NEW a \in Nat, a <= Len(line), NEW j, j = a + 1
  PROVE  f[j] = ArgStep(line, f[a], j)
<1>1. line \in Seq(Int) /\ \A i \in 1 .. Len(line) + 1 : f[i] = ArgStep(line, f[i - 1], i)
  BY Zenon DEF Reading
<1>2. Len(line) \in Nat
  BY <1>1, LenProperties
<1>3. j \in 1 .. Len(line) + 1 /\ j - 1 = a
  BY <1>2
<1> QED
  BY <1>1, <1>3, Zenon

LEMMA SkipNext ==
  ASSUME NEW line, NEW f, Reading(line, f), NEW a \in Nat, a <= Len(line), NEW j, j = a + 1,
         NEW cur \in Seq(Int), NEW parts \in Seq(Seq(Int)), NEW k \in Nat, NEW n, n = k + 1,
         f[a] = State("inq", cur, parts, n)
  PROVE  f[j] = State("inq", cur, parts, k)
<1>1. f[j] = ArgStep(line, f[a], j)
  BY NextRead
<1>2. PICK st : st = f[a]
  OBVIOUS
<1>3. st = State("inq", cur, parts, k + 1)
  BY <1>2, Zenon
<1>4. ArgStep(line, st, j) = State("inq", cur, parts, k)
  BY <1>3, SkipRead
<1> QED
  BY <1>1, <1>2, <1>4

LEMMA PieceRead ==
  ASSUME NEW line, NEW f, Reading(line, f), NEW a, NEW u, On(line, a, u),
         NEW c \in Int, AsItIs(u, c) \/ Escaped(u, c) \/ InHex(u, c),
         NEW cur \in Seq(Int), NEW parts \in Seq(Seq(Int)),
         f[a] = State("inq", cur, parts, 0), NEW z, z = a + Len(u)
  PROVE  f[z] = State("inq", Append(cur, c), parts, 0)
<1>1. PICK v : v = Append(cur, c)
  OBVIOUS
<1>2. v \in Seq(Int)
  BY <1>1, AppendLemma
<1>3. a \in Nat /\ Len(line) \in Nat /\ a + Len(u) <= Len(line)
  BY Zenon DEF On
<1>4. \A i \in 1 .. Len(u) : ByteAt(line, a + i) = u[i]
  BY Zenon DEF On
<1>5. CASE AsItIs(u, c)
  <2>1. Len(u) = 1 /\ u[1] = c /\ c \notin {Backslash, Quote, NUL}
    BY <1>5, Zenon DEF AsItIs
  <2>2. a + 1 <= Len(line) /\ a <= Len(line) /\ z = a + 1 /\ 1 \in 1 .. 1
    BY <1>3, <2>1
  <2>3. ByteAt(line, z) = c
    BY <1>4, <2>1, <2>2, Zenon
  <2>4. f[z] = ArgStep(line, f[a], z)
    BY <1>3, <2>2, NextRead
  <2>5. ArgStep(line, f[a], z) = State("inq", Append(cur, c), parts, 0)
    BY <2>1, <2>3, PlainRead
  <2> QED
    BY <2>4, <2>5, Zenon
<1>6. CASE Escaped(u, c)
  <2>1. Len(u) = 2 /\ u[1] = Backslash /\ u[2] # NUL /\ u[2] # LowerX /\ Unescaped(u[2]) = c
    BY <1>6, Zenon DEF Escaped
  <2>2. PICK n : n = u[2]
    OBVIOUS
  <2>3. PICK j : j = a + 1
    OBVIOUS
  <2>4. /\ j \in Nat /\ a <= Len(line) /\ j <= Len(line) /\ z = j + 1 /\ j = a + 1 /\ j + 1 = a + 2
        /\ 1 \in 1 .. 2 /\ 2 \in 1 .. 2
    BY <1>3, <2>1, <2>3
  <2>5. ByteAt(line, j) = Backslash /\ ByteAt(line, j + 1) = n
    BY <1>4, <2>1, <2>2, <2>4, Zenon
  <2>6. f[j] = ArgStep(line, f[a], j)
    BY <1>3, <2>4, NextRead
  <2>7. n # NUL /\ n # LowerX /\ Unescaped(n) = c
    BY <2>1, <2>2
  <2>8. ArgStep(line, f[a], j) = State("inq", Append(cur, Unescaped(n)), parts, 1)
    BY <2>5, <2>7, EscapeRead
  <2>9. f[j] = State("inq", v, parts, 1)
    BY <1>1, <2>6, <2>7, <2>8, Zenon
  <2>10. j \in Nat /\ j <= Len(line) /\ z = j + 1 /\ 0 \in Nat /\ 1 = 0 + 1
    BY <2>4
  <2>11. f[z] = State("inq", v, parts, 0)
    BY <1>2, <2>9, <2>10, SkipNext
  <2> QED
    BY <1>1, <2>11
<1>7. CASE InHex(u, c)
  <2>1. /\ Len(u) = 4 /\ u[1] = Backslash /\ u[2] = LowerX
        /\ u[3] \in HexDigit /\ u[4] \in HexDigit
        /\ 16 * OfHex(u[3]) + OfHex(u[4]) = c
    BY <1>7, Zenon DEF InHex
  <2>2. PICK h, l : h = u[3] /\ l = u[4]
    OBVIOUS
  <2>3. PICK j : j = a + 1
    OBVIOUS
  <2>4. /\ j \in Nat /\ a <= Len(line) /\ j <= Len(line) /\ j = a + 1
        /\ j + 1 = a + 2 /\ j + 2 = a + 3 /\ j + 3 = a + 4 /\ z = a + 4
        /\ 1 \in 1 .. 4 /\ 2 \in 1 .. 4 /\ 3 \in 1 .. 4 /\ 4 \in 1 .. 4
    BY <1>3, <2>1, <2>3
  <2>5. /\ ByteAt(line, j) = Backslash /\ ByteAt(line, j + 1) = LowerX
        /\ h = ByteAt(line, j + 2) /\ l = ByteAt(line, j + 3)
    BY <1>4, <2>1, <2>2, <2>4, Zenon
  <2>6. f[j] = ArgStep(line, f[a], j)
    BY <1>3, <2>4, NextRead
  <2>7. h \in HexDigit /\ l \in HexDigit /\ 16 * OfHex(h) + OfHex(l) = c
    BY <2>1, <2>2, Zenon
  <2>8. ArgStep(line, f[a], j) = State("inq", Append(cur, 16 * OfHex(h) + OfHex(l)), parts, 3)
    BY <2>5, <2>7, HexRead
  <2>9. f[j] = State("inq", v, parts, 3)
    BY <1>1, <2>6, <2>7, <2>8, Zenon
  <2>10. PICK x : x = a + 2
    OBVIOUS
  <2>11. PICK y : y = a + 3
    OBVIOUS
  <2>12. j \in Nat /\ j <= Len(line) /\ x = j + 1 /\ 2 \in Nat /\ 3 = 2 + 1
    BY <2>3, <2>4, <2>10
  <2>13. f[x] = State("inq", v, parts, 2)
    BY <1>2, <2>9, <2>12, SkipNext
  <2>14. x \in Nat /\ x <= Len(line) /\ y = x + 1 /\ 1 \in Nat /\ 2 = 1 + 1
    BY <1>3, <2>1, <2>10, <2>11
  <2>15. f[y] = State("inq", v, parts, 1)
    BY <1>2, <2>13, <2>14, SkipNext
  <2>16. y \in Nat /\ y <= Len(line) /\ z = y + 1 /\ 0 \in Nat /\ 1 = 0 + 1
    BY <1>3, <2>1, <2>11
  <2>17. f[z] = State("inq", v, parts, 0)
    BY <1>2, <2>15, <2>16, SkipNext
  <2> QED
    BY <1>1, <2>17
<1> QED
  BY <1>5, <1>6, <1>7

LEMMA NoNulIn ==
  ASSUME NEW u, NEW c, AsItIs(u, c) \/ Escaped(u, c) \/ InHex(u, c)
  PROVE  \A i \in 1 .. Len(u) : u[i] # NUL
<1>1. Backslash # NUL /\ LowerX # NUL /\ \A h \in HexDigit : h # NUL
  BY DEF Backslash, LowerX, HexDigit, NUL
<1>2. CASE AsItIs(u, c)
  <2>1. Len(u) = 1 /\ u[1] # NUL
    BY <1>2, Zenon DEF AsItIs
  <2>2. \A i \in 1 .. 1 : i = 1
    OBVIOUS
  <2> QED
    BY <2>1, <2>2, Zenon
<1>3. CASE Escaped(u, c)
  <2>1. Len(u) = 2 /\ u[1] # NUL /\ u[2] # NUL
    BY <1>1, <1>3, Zenon DEF Escaped
  <2>2. \A i \in 1 .. 2 : i = 1 \/ i = 2
    OBVIOUS
  <2> QED
    BY <2>1, <2>2, Zenon
<1>4. CASE InHex(u, c)
  <2>1. Len(u) = 4 /\ u[1] # NUL /\ u[2] # NUL /\ u[3] # NUL /\ u[4] # NUL
    BY <1>1, <1>4, Zenon DEF InHex
  <2>2. \A i \in 1 .. 4 : i = 1 \/ i = 2 \/ i = 3 \/ i = 4
    OBVIOUS
  <2> QED
    BY <2>1, <2>2, Zenon
<1> QED
  BY <1>2, <1>3, <1>4

(* A piece of the line stands where it was cut from.                       *)
LEMMA OnItem ==
  ASSUME NEW line \in Seq(Int), NEW x \in Nat, NEW y \in Nat, x <= y, y <= Len(line),
         NEW u, u = SubSeq(line, x + 1, y)
  PROVE  On(line, x, u) /\ y = x + Len(u)
<1>1. Len(line) \in Nat
  BY LenProperties
<1>2. Len(u) = y - x /\ \A i \in 1 .. y - x : u[i] = line[x + i]
  BY PieceIs, Zenon
<1>3. PICK d : d = y - x
  OBVIOUS
<1>4. d \in Nat /\ x + d = y
  BY <1>3
<1>5. Len(u) = d /\ \A i \in 1 .. d : u[i] = line[x + i]
  BY <1>2, <1>3
<1>6. \A i \in 1 .. d : x + i <= Len(line)
  BY <1>1, <1>4
<1>7. \A i \in 1 .. d : ByteAt(line, x + i) = u[i]
  BY <1>5, <1>6, Zenon DEF ByteAt
<1> QED
  BY <1>1, <1>4, <1>5, <1>7, Zenon DEF On

(* The first k bytes of p are read, up to the x-th of the line.            *)
ReadTo(p, line, f, x, k) ==
  /\ f[x] = State("inq", SubSeq(p, 1, k), <<>>, 0)
  /\ \A i \in 1 .. x : ByteAt(line, i) # NUL

LEMMA ReadMore ==
  ASSUME NEW p \in Seq(Int), NEW line, NEW f, Reading(line, f), NEW x,
         NEW k \in Nat, k + 1 <= Len(p), ReadTo(p, line, f, x, k), NEW c, c = p[k + 1], c \in Bytes,
         NEW u, u = Repr(c), On(line, x, u), NEW y, y = x + Len(u)
  PROVE  ReadTo(p, line, f, y, k + 1)
<1>1. PICK none : none = <<>>
  OBVIOUS
<1>2. none \in Seq(Seq(Int))
  BY <1>1
<1>3. PICK cur : cur = SubSeq(p, 1, k)
  OBVIOUS
<1>4. k <= Len(p) /\ 0 <= k /\ 0 \in Nat
  BY LenProperties
<1>5. cur \in Seq(Int) /\ SubSeq(p, 1, k + 1) = Append(cur, c)
  <2>1. cur = SubSeq(p, 0 + 1, k)
    BY <1>3
  <2>2. cur \in Seq(Int)
    BY <1>4, <2>1, PieceIs
  <2>3. SubSeq(p, 0 + 1, k + 1) = Append(SubSeq(p, 0 + 1, k), p[k + 1])
    BY <1>4, PieceMore
  <2> QED
    BY <2>1, <2>2, <2>3
<1>6. f[x] = State("inq", cur, none, 0)
  BY <1>1, <1>3, Zenon DEF ReadTo
<1>7. AsItIs(u, c) \/ Escaped(u, c) \/ InHex(u, c)
  BY ReprShape
<1>8. c \in Int
  BY DEF Bytes
<1>9. f[y] = State("inq", Append(cur, c), none, 0)
  BY <1>2, <1>5, <1>6, <1>7, <1>8, PieceRead
<1>10. \A i \in 1 .. Len(u) : u[i] # NUL
  BY <1>7, NoNulIn
<1>11. /\ x \in Nat /\ Len(u) \in Nat
       /\ \A i \in 1 .. Len(u) : ByteAt(line, x + i) = u[i]
  BY Zenon DEF On
<1>12. ASSUME NEW i \in 1 .. y PROVE ByteAt(line, i) # NUL
  <2>1. CASE i <= x
    <3>1. i \in 1 .. x
      BY <1>11, <2>1
    <3> QED
      BY <3>1, Zenon DEF ReadTo
  <2>2. CASE ~(i <= x)
    <3>1. PICK j : j = i - x
      OBVIOUS
    <3>2. j \in 1 .. Len(u) /\ x + j = i
      BY <1>11, <2>2, <3>1
    <3> QED
      BY <1>10, <1>11, <3>2, Zenon
  <2> QED
    BY <2>1, <2>2
<1> QED
  BY <1>1, <1>5, <1>9, <1>12, Zenon DEF ReadTo

LEMMA OpeningRead ==
  ASSUME NEW p \in Seq(Int), NEW line, NEW f, Reading(line, f), NEW u, u = <<Quote>>, On(line, 0, u),
         NEW y, y = 0 + Len(u)
  PROVE  ReadTo(p, line, f, y, 0)
<1>1. PICK none : none = <<>>
  OBVIOUS
<1>2. none \in Seq(Seq(Int)) /\ none \in Seq(Int)
  BY <1>1
<1>3. Len(u) = 1 /\ u[1] = Quote
  OBVIOUS
<1>4. y = 1 /\ y = 0 + 1 /\ 1 \in 1 .. 1 /\ 0 + 1 = 1
  BY <1>3
<1>5. /\ Len(line) \in Nat /\ 0 + Len(u) <= Len(line)
      /\ \A i \in 1 .. Len(u) : ByteAt(line, 0 + i) = u[i]
  BY Zenon DEF On
<1>6. ByteAt(line, y) = Quote
  BY <1>3, <1>4, <1>5, Zenon
<1>7. 0 \in Nat /\ 0 <= Len(line)
  BY <1>5
<1>8. f[y] = ArgStep(line, f[0], y)
  BY <1>4, <1>7, NextRead
<1>9. PICK st : st = f[0]
  OBVIOUS
<1>10. st = State("blank", none, none, 0)
  BY <1>1, <1>9, Zenon DEF Reading
<1>11. ArgStep(line, st, y) = State("inq", none, none, 0)
  BY <1>2, <1>6, <1>10, OpenRead
<1>12. SubSeq(p, 1, 0) = none
  BY <1>1, EmptyPiece
<1>13. Quote # NUL
  BY DEF Quote, NUL
<1>14. \A i \in 1 .. y : ByteAt(line, i) # NUL
  BY <1>4, <1>6, <1>13
<1> QED
  BY <1>1, <1>8, <1>9, <1>11, <1>12, <1>14, Zenon DEF ReadTo

LEMMA ClosingRead ==
  ASSUME NEW p \in Seq(Int), NEW line, NEW f, Reading(line, f), NEW x,
         ReadTo(p, line, f, x, Len(p)), NEW u, u = <<Quote>>, On(line, x, u),
         Len(line) = x + Len(u)
  PROVE  /\ f[Len(line) + 1] = State("blank", <<>>, <<p>>, 0)
         /\ \A i \in 1 .. Len(line) : ByteAt(line, i) # NUL
<1>1. PICK none : none = <<>>
  OBVIOUS
<1>2. none \in Seq(Seq(Int)) /\ none \in Seq(Int)
  BY <1>1
<1>3. Len(u) = 1 /\ u[1] = Quote
  OBVIOUS
<1>4. /\ x \in Nat /\ Len(line) \in Nat
      /\ \A i \in 1 .. Len(u) : ByteAt(line, x + i) = u[i]
  BY Zenon DEF On
<1>5. PICK n : n = Len(line)
  OBVIOUS
<1>6. PICK z : z = n + 1
  OBVIOUS
<1>7. n = x + 1 /\ n \in Nat /\ x <= n /\ n <= n /\ ~(z <= n) /\ 1 \in 1 .. 1
  BY <1>3, <1>4, <1>5, <1>6
<1>8. ByteAt(line, n) = Quote
  BY <1>3, <1>4, <1>7, Zenon
<1>9. ByteAt(line, z) = NUL
  BY <1>5, <1>7, Zenon DEF ByteAt
<1>10. SubSeq(p, 1, Len(p)) = p
  BY WholeText
<1>11. PICK st : st = f[x]
  OBVIOUS
<1>12. st = State("inq", p, none, 0)
  BY <1>1, <1>10, <1>11, Zenon DEF ReadTo
<1>13. f[n] = ArgStep(line, f[x], n)
  BY <1>4, <1>5, <1>7, NextRead
<1>14. PICK parts : parts = Append(none, p)
  OBVIOUS
<1>15. ByteAt(line, n + 1) = NUL
  BY <1>6, <1>9
<1>16. ArgStep(line, st, n) = State("blank", <<>>, parts, 0)
  BY <1>2, <1>8, <1>12, <1>14, <1>15, CloseRead
<1>17. PICK en : en = f[n]
  OBVIOUS
<1>18. en = State("blank", none, parts, 0)
  BY <1>1, <1>11, <1>13, <1>16, <1>17, Zenon
<1>19. parts \in Seq(Seq(Int))
  BY <1>2, <1>14, AppendProperties
<1>20. f[z] = ArgStep(line, f[n], z)
  BY <1>5, <1>6, <1>7, NextRead
<1>21. ArgStep(line, en, z) = IF ByteAt(line, z) \in Space \union {NUL} THEN en ELSE Unquoted(en, ByteAt(line, z))
  BY <1>2, <1>18, <1>19, BlankStepIs
<1>22. f[z] = en
  BY <1>9, <1>17, <1>20, <1>21, Zenon
<1>23. parts = <<p>>
  BY <1>1, <1>14
<1>24. f[n + 1] = State("blank", <<>>, <<p>>, 0)
  BY <1>1, <1>6, <1>18, <1>22, <1>23, Zenon
<1>25. Quote # NUL
  BY DEF Quote, NUL
<1>26. ASSUME NEW i \in 1 .. n PROVE ByteAt(line, i) # NUL
  <2>1. i = n \/ i \in 1 .. x
    BY <1>4, <1>7
  <2> QED
    BY <1>8, <1>25, <2>1, Zenon DEF ReadTo
<1> QED
  BY <1>5, <1>24, <1>26, Zenon

(* A string that sdscatrepr has made is read as one argument.              *)
LEMMA ReRead ==
  ASSUME NEW p \in Reprs, NEW line \in Seq(Int), Laid(Pieces(p), line, 0)
  PROVE  /\ SplitArgs(line) = [ok |-> TRUE, parts |-> <<p>>]
         /\ \A i \in 1 .. Len(line) : line[i] # NUL
<1>1. PICK m : m = Len(p)
  OBVIOUS
<1>2. PICK items : items = Pieces(p)
  OBVIOUS
<1>3. p \in Seq(Bytes) /\ m \in Nat
  BY <1>1, <1>2, PiecesAre
<1>4. Len(items) = m + 2 /\ items[1] = <<Quote>> /\ items[m + 2] = <<Quote>>
  BY <1>1, <1>2, PiecesAre
<1>5. \A k \in 1 .. m : items[k + 1] = Repr(p[k])
  BY <1>1, <1>2, PiecesAre
<1>6. Bytes \subseteq Int
  BY DEF Bytes
<1>7. p \in Seq(Int)
  BY <1>3, <1>6, SeqMonotonic, Zenon
<1>8. \A k \in 1 .. m : p[k] \in Bytes
  BY <1>1, <1>3, ElementOfSeq
<1>9. PICK b : /\ b \in [1 .. Len(items) + 1 -> Nat] /\ b[1] = 0 /\ b[Len(items) + 1] = Len(line)
               /\ \A k \in 1 .. Len(items) : /\ b[k] <= b[k + 1] /\ b[k + 1] <= Len(line)
                                             /\ items[k] = SubSeq(line, b[k] + 1, b[k + 1])
  BY <1>2, Zenon DEF Laid
<1>10. PICK f : Reading(line, f) /\ SplitArgs(line) = ArgResult(f[Len(line) + 1])
  BY SplitArgsIs
<1>11. ASSUME NEW k \in 1 .. m + 2 PROVE On(line, b[k], items[k]) /\ b[k + 1] = b[k] + Len(items[k])
  <2>1. PICK x, y : x = b[k] /\ y = b[k + 1]
    OBVIOUS
  <2>2. k \in 1 .. (m + 2) + 1 /\ k + 1 \in 1 .. (m + 2) + 1
    BY <1>3
  <2>3. x \in Nat /\ y \in Nat
    BY <1>4, <1>9, <2>1, <2>2
  <2>4. x <= y /\ y <= Len(line) /\ items[k] = SubSeq(line, x + 1, y)
    BY <1>4, <1>9, <2>1, Zenon
  <2>5. PICK u : u = items[k]
    OBVIOUS
  <2>4a. u = SubSeq(line, x + 1, y)
    BY <2>4, <2>5
  <2>4b. x <= y
    BY <2>4, Zenon
  <2>4c. y <= Len(line)
    BY <2>4, Zenon
  <2>4d. x \in Nat
    BY <2>3
  <2>4e. y \in Nat
    BY <2>3
  <2>6a. line \in Seq(Int)
    OBVIOUS
  <2>6b. On(line, x, u)
    BY <2>4a, <2>4b, <2>4c, <2>4d, <2>4e, <2>6a, OnItem, Zenon
  <2>6c. y = x + Len(u)
    BY <2>4a, <2>4b, <2>4c, <2>4d, <2>4e, <2>6a, OnItem
  <2>6. On(line, x, u) /\ y = x + Len(u)
    BY <2>6b, <2>6c
  <2> QED
    BY <2>1, <2>5, <2>6
<1> DEFINE Is == {k \in Nat : k <= m => ReadTo(p, line, f, b[k + 2], k)}
<1>12. 0 \in Is
  <2>1. 1 \in 1 .. m + 2 /\ 1 + 1 = 2 /\ 0 + 2 = 2
    BY <1>3
  <2>2. PICK u, y : u = items[1] /\ y = b[2]
    OBVIOUS
  <2>3. On(line, 0, u) /\ y = 0 + Len(u) /\ u = <<Quote>>
    BY <1>4, <1>9, <1>11, <2>1, <2>2, Zenon
  <2>4. ReadTo(p, line, f, y, 0)
    BY <1>7, <1>10, <2>3, OpeningRead
  <2> QED
    BY <2>1, <2>2, <2>4
<1>13. ASSUME NEW k \in Nat, k \in Is PROVE k + 1 \in Is
  <2> SUFFICES ASSUME k + 1 <= m PROVE ReadTo(p, line, f, b[(k + 1) + 2], k + 1)
    OBVIOUS
  <2>1. /\ k <= m /\ k + 2 \in 1 .. m + 2 /\ (k + 1) + 2 = (k + 2) + 1 /\ k + 1 \in 1 .. m
        /\ (k + 1) + 1 = k + 2
    BY <1>3
  <2>2. PICK x, y, u, c : x = b[k + 2] /\ y = b[(k + 1) + 2] /\ u = items[k + 2] /\ c = p[k + 1]
    OBVIOUS
  <2>3. ReadTo(p, line, f, x, k)
    BY <1>13, <2>1, <2>2
  <2>4. On(line, x, u) /\ y = x + Len(u)
    BY <1>11, <2>1, <2>2, Zenon
  <2>5. u = Repr(c) /\ c \in Bytes
    BY <1>5, <1>8, <2>1, <2>2, Zenon
  <2>6. c = p[k + 1] /\ k + 1 <= Len(p)
    BY <1>1, <2>2
  <2>7. ReadTo(p, line, f, y, k + 1)
    BY <1>7, <1>10, <2>3, <2>4, <2>5, <2>6, ReadMore
  <2> QED
    BY <2>2, <2>7
<1> HIDE DEF Is
<1>14. Nat \subseteq Is
  BY <1>12, <1>13, Induction
<1>15. PICK x, u : x = b[m + 2] /\ u = items[m + 2]
  OBVIOUS
<1>16. ReadTo(p, line, f, x, Len(p))
  BY <1>1, <1>3, <1>14, <1>15 DEF Is
<1>17. m + 2 \in 1 .. m + 2
  BY <1>3
<1>18. On(line, x, u) /\ Len(line) = x + Len(u) /\ u = <<Quote>>
  BY <1>4, <1>9, <1>11, <1>15, <1>17, Zenon
<1>19. /\ f[Len(line) + 1] = State("blank", <<>>, <<p>>, 0)
       /\ \A i \in 1 .. Len(line) : ByteAt(line, i) # NUL
  BY <1>7, <1>10, <1>16, <1>18, ClosingRead
<1>20. PICK parts : parts = <<p>>
  OBVIOUS
<1>21. PICK en : en = f[Len(line) + 1]
  OBVIOUS
<1>22. en.mode = "blank" /\ en.parts = parts
  <2>1. en = State("blank", <<>>, parts, 0)
    BY <1>19, <1>20, <1>21, Zenon
  <2> QED
    BY <2>1 DEF State
<1>23. "blank" # "err"
  OBVIOUS
<1>24. SplitArgs(line) = ArgResult(en)
  BY <1>10, <1>21
<1>25. ArgResult(en) = [ok |-> TRUE, parts |-> parts]
  BY <1>22, <1>23 DEF ArgResult
<1>26. \A i \in 1 .. Len(line) : line[i] = ByteAt(line, i)
  BY DEF ByteAt
<1> QED
  BY <1>19, <1>20, <1>24, <1>25, <1>26, Zenon

(* What sdssplitargs has returned, of which line.                          *)
LEMMA LineOf ==
  ASSUME NEW t \in Seq(Int), NEW n \in Nat, n < Len(t), IsStrLen(t, n), NEW line, line = Prefix(t, n)
  PROVE  /\ line \in Seq(Int) /\ Len(line) = n
         /\ \A i \in 1 .. n : line[i] = t[i] /\ line[i] # NUL
<1>1. n <= Len(t)
  BY LenProperties
<1>2. line \in Seq(Int) /\ Len(line) = n /\ \A i \in 1 .. n : line[i] = t[i]
  BY <1>1, PrefixShort
<1> QED
  BY <1>2, Zenon DEF IsStrLen

LEMMA ContentByte ==
  ASSUME SdsInv, pc = "idle", NEW i \in 1 .. s.len
  PROVE  Content(s)[i] = s.text[i]
<1>1. PICK t, l : t = s.text /\ l = s.len
  OBVIOUS
<1>2. t \in Seq(Int) /\ l \in Nat /\ Len(t) = l + 1
  BY <1>1 DEF SdsInv, TypeOK, Terminated
<1>3. Content(s) = SubSeq(t, 1, l)
  BY <1>1 DEF Content
<1>4. 1 <= i /\ i <= l /\ l <= Len(t)
  BY <1>1, <1>2
<1>5. SubSeq(t, 1, l)[i] = t[i]
  BY <1>2, <1>4
<1> QED
  BY <1>1, <1>3, <1>5

LEMMA RereadStep ==
  ASSUME ListsInv, pc = "idle", out.kind = "repr", NEW n \in 0 .. s.len, IsStrLen(s.text, n)
  PROVE  SplitArgs(Prefix(s.text, n)) = [ok |-> TRUE, parts |-> <<out.of>>]
<1>1. PICK p : p = out.of
  OBVIOUS
<1>2. p \in Reprs /\ OfRepr
  BY <1>1 DEF ListsInv, OutInv
<1>3. PICK txt : Laid(Pieces(p), txt, 0) /\ Laying(txt)
  BY <1>1, <1>2 DEF OfRepr
<1>4. txt \in Seq(Int) /\ Content(s) = txt
  BY <1>3 DEF Laying
<1>5. SplitArgs(txt) = [ok |-> TRUE, parts |-> <<p>>] /\ \A i \in 1 .. Len(txt) : txt[i] # NUL
  <2>1. Laid(Pieces(p), txt, 0)
    BY <1>3
  <2> QED
    BY <1>2, <1>4, <2>1, ReRead, Zenon
<1>6. PICK l : l = s.len
  OBVIOUS
<1>7. PICK t : t = s.text
  OBVIOUS
<1>8. l \in Nat /\ Len(txt) = l /\ t \in Seq(Int) /\ Len(t) = l + 1
  <2>1. Len(Content(s)) = s.len /\ s.len \in Nat
    BY WhenTerminated DEF ListsInv
  <2>2. s.text \in Seq(Int) /\ Len(s.text) = s.len + 1
    BY DEF ListsInv, SdsInv, TypeOK, Terminated
  <2> QED
    BY <1>4, <1>6, <1>7, <2>1, <2>2, Zenon
<1>9. \A i \in 1 .. l : txt[i] = t[i]
  BY <1>4, <1>6, <1>7, ContentByte DEF ListsInv
<1>10. n = l
  <2>1. n \in 0 .. l
    BY <1>6
  <2>2. CASE n < l
    <3>1. n + 1 \in 1 .. l
      BY <1>8, <2>1, <2>2
    <3>2. t[n + 1] # NUL
      BY <1>5, <1>8, <1>9, <3>1, Zenon
    <3> QED
      BY <1>7, <3>2, Zenon DEF IsStrLen
  <2> QED
    BY <1>8, <2>1, <2>2
<1>11. PICK line : line = Prefix(t, n)
  OBVIOUS
<1>12. line \in Seq(Int) /\ Len(line) = n /\ \A i \in 1 .. n : line[i] = t[i]
  <2>1. n \in Nat /\ n < Len(t)
    BY <1>8, <1>10
  <2>2. IsStrLen(t, n)
    BY <1>7
  <2> QED
    BY <1>8, <1>11, <2>1, <2>2, LineOf, Zenon
<1>13. line = txt
  <2>1. \A i \in 1 .. Len(txt) : line[i] = txt[i]
    BY <1>8, <1>9, <1>10, <1>12, Zenon
  <2>2. Len(line) = Len(txt)
    BY <1>8, <1>10, <1>12
  <2>3. line \in Seq(Int)
    BY <1>12
  <2> QED
    BY <1>4, <2>1, <2>2, <2>3, SameSeq
<1> QED
  BY <1>1, <1>5, <1>7, <1>11, <1>13, Zenon

(* What ArgsRead says of a line.                                           *)
ArgsOf(line, parts) ==
  (\A i \in DOMAIN line : line[i] \notin {Quote, Apostrophe}) => WordsOf(line, parts)

LEMMA LineRead ==
  ASSUME ListsInv, pc = "idle", NEW n \in 0 .. s.len, IsStrLen(s.text, n),
         NEW line, line = Prefix(s.text, n)
  PROVE  ArgsOf(line, SplitArgs(line).parts)
<1>1. PICK t : t = s.text
  OBVIOUS
<1>2. t \in Seq(Int) /\ n \in Nat /\ n < Len(t)
  <2>1. s.text \in Seq(Int) /\ Len(s.text) = s.len + 1 /\ s.len \in Nat
    BY DEF ListsInv, SdsInv, TypeOK, Terminated
  <2> QED
    BY <1>1, <2>1
<1>3. line \in Seq(Int) /\ Len(line) = n /\ \A i \in 1 .. n : line[i] # NUL
  <2>1. IsStrLen(t, n) /\ line = Prefix(t, n)
    BY <1>1
  <2> QED
    BY <1>2, <2>1, LineOf, ZenonT(30)
<1>4. DOMAIN line = 1 .. n
  BY <1>3, LenProperties
<1>5. ASSUME \A i \in DOMAIN line : line[i] \notin {Quote, Apostrophe}
      PROVE  WordsOf(line, SplitArgs(line).parts)
  <2>1. \A i \in 1 .. Len(line) : line[i] \notin {NUL, Quote, Apostrophe}
    BY <1>3, <1>4, <1>5, Zenon
  <2>2. Plain(line)
    BY <1>3, <2>1, Zenon DEF Plain
  <2> QED
    BY <2>2, WordsLemma
<1> QED
  BY <1>5, Zenon DEF ArgsOf

LEMMA ArgsReadStep ==
  ASSUME ListsInv, SplitArgsOf
  PROVE  ArgsRead'
<1>1. pc = "idle" /\ out.kind \in {"line", "unsplit", "repr"}
  BY DEF SplitArgsOf, IsLine
<1>2. PICK n \in 0 .. s.len :
        /\ IsStrLen(s.text, n)
        /\ out' = [NoOut EXCEPT !.kind = IF out.kind = "repr" THEN "reread" ELSE "args",
                                !.of = IF out.kind = "repr" THEN out.of ELSE Prefix(s.text, n),
                                !.parts = SplitArgs(Prefix(s.text, n)).parts,
                                !.ok = SplitArgs(Prefix(s.text, n)).ok]
  BY Zenon DEF SplitArgsOf
<1>3. PICK k, of, parts, ok, line :
        /\ k = IF out.kind = "repr" THEN "reread" ELSE "args"
        /\ of = IF out.kind = "repr" THEN out.of ELSE Prefix(s.text, n)
        /\ parts = SplitArgs(Prefix(s.text, n)).parts /\ ok = SplitArgs(Prefix(s.text, n)).ok
        /\ line = Prefix(s.text, n)
  OBVIOUS
<1>4. out' = Out(k, of, <<>>, parts, 0, ok)
  BY <1>2, <1>3, Zenon DEF NoOut, Out
<1>5. out'.kind = k /\ out'.of = of /\ out'.parts = parts /\ out'.ok = ok
  BY <1>4 DEF Out
<1>6. ArgsRead' <=> /\ out'.kind = "reread" => out'.ok /\ out'.parts = <<out'.of>>
                    /\ out'.kind = "args" => ArgsOf(out'.of, out'.parts)
  BY Zenon DEF ArgsRead, ArgsOf, WordsOf
<1>7. CASE out.kind = "repr"
  <2>1. SplitArgs(line) = [ok |-> TRUE, parts |-> <<out.of>>]
    BY <1>1, <1>2, <1>3, <1>7, RereadStep, Zenon
  <2>2. PICK w, r : w = <<out.of>> /\ r = SplitArgs(line)
    OBVIOUS
  <2>3. r = [ok |-> TRUE, parts |-> w]
    BY <2>1, <2>2, Zenon
  <2>4. r.ok /\ r.parts = w
    BY <2>3
  <2>5. ok = r.ok /\ parts = r.parts
    BY <1>3, <2>2, Zenon
  <2>6. k = "reread" /\ of = out.of
    BY <1>3, <1>7, Zenon
  <2>7. "reread" # "args"
    OBVIOUS
  <2> QED
    BY <1>5, <1>6, <2>2, <2>4, <2>5, <2>6, <2>7, Zenon
<1>8. CASE out.kind # "repr"
  <2>1. k = "args" /\ of = line
    BY <1>3, <1>8, Zenon
  <2>2. ArgsOf(line, SplitArgs(line).parts)
    BY <1>1, <1>2, <1>3, LineRead, Zenon
  <2>3. parts = SplitArgs(line).parts
    BY <1>3, Zenon
  <2>4. "reread" # "args"
    OBVIOUS
  <2> QED
    BY <1>5, <1>6, <2>1, <2>2, <2>3, <2>4, Zenon
<1> QED
  BY <1>7, <1>8

LEMMA ArgsReadKept ==
  ASSUME ListsInv, ListsInv', ArgsRead, [LNext]_vars
  PROVE  ArgsRead'
<1>1. CASE out' = out
  BY <1>1 DEF ArgsRead
<1>2. CASE out'.kind \notin {"args", "reread"}
  BY <1>2 DEF ArgsRead
<1>3. CASE SplitArgsOf
  BY <1>3, ArgsReadStep
<1>4. ASSUME NEW t, NewLine(t) PROVE out'.kind \notin {"args", "reread"}
  BY <1>4 DEF NewLine, NoOut
<1>5. ASSUME NEW v, FromLongLong(v) PROVE out'.kind \notin {"args", "reread"}
  BY <1>5 DEF FromLongLong, NoOut
<1>6. ASSUME out' = NoOut PROVE out'.kind \notin {"args", "reread"}
  BY <1>6 DEF NoOut
<1>7. ASSUME NEW sep, SplitLen(sep) PROVE out'.kind \notin {"args", "reread"}
  BY <1>7 DEF SplitLen, NoOut
<1>8. ASSUME NEW p, Quoted(p) PROVE out'.kind \notin {"args", "reread"}
  BY <1>8 DEF Quoted, NoOut
<1>9. ASSUME Join PROVE out'.kind \notin {"args", "reread"}
  <2>1. pc' = "cat"
    BY <1>9 DEF Join
  <2> QED
    BY <2>1 DEF ListsInv, OutInv
<1> QED
  BY <1>1, <1>2, <1>3, <1>4, <1>5, <1>6, <1>7, <1>8, <1>9 DEF LNext, vars

(* Whatever bytes sdscatrepr has quoted, sdssplitargs (sds.c:965) reads    *)
(* back as one argument; and it finds the arguments of every line without  *)
(* quotes.                                                                 *)
THEOREM ArgumentsRead == LSpec => []ArgsRead
<1>1. ASSUME LInit PROVE ArgsRead
  <2>1. out.kind = "none"
    BY <1>1, ListsInit DEF ListsInv, OutInv, LInit, Init
  <2> QED
    BY <2>1 DEF ArgsRead
<1> QED
  BY <1>1, ArgsReadKept, ListsInvariant, PTL DEF LSpec
=============================================================================
