------------------------------- MODULE Pages -------------------------------
(***************************************************************************)
(* The double-ended queue of lib/ctl/deq.h: an array of pointers to pages  *)
(* of Width values, of which those from mark_a to mark_b are in use.  The  *)
(* first page may begin late and the last one may end early.               *)
(*                                                                         *)
(* live counts, for each value, what has been put in or copied and not yet *)
(* freed; heap counts the pages.  What malloc, realloc or a value that has *)
(* left leave in a place is Wild.                                          *)
(***************************************************************************)
EXTENDS Integers, Sequences

CONSTANTS
  Width,      \* DEQ_BUCKET_SIZE
  Vals,       \* the values, numbers; 0 is the value of zero bytes
  Wild

NoPage == [a |-> 0, b |-> 0, value |-> <<>>]
Zero == 0

(* init. *)
NoDeque ==
  [pages |-> <<>>, mark_a |-> 0, mark_b |-> 0, capacity |-> 0, size |-> 0,
   live |-> [v \in Vals |-> 0], heap |-> 0]

(* The page at this place of the array of pages, which begins at 0. *)
Page(d, p) == d.pages[p + 1]
Made(d, v)  == IF v \in Vals THEN [d EXCEPT !.live[v] = @ + 1] ELSE d
Freed(d, v) == IF v \in Vals THEN [d EXCEPT !.live[v] = @ - 1] ELSE d

-----------------------------------------------------------------------------
(* Fault: the first page is taken to begin at 0. *)
Place_FromZero(d, index) ==
  [page |-> d.mark_a + index \div Width, slot |-> index % Width]

(* at: where the value of an index is. *)
Place(d, index) ==
  LET actual == index + Page(d, d.mark_a).a
  IN [page |-> d.mark_a + actual \div Width, slot |-> actual % Width]

At(d, index) == LET q == Place(d, index) IN Page(d, q.page).value[q.slot]
Put(d, index, v) ==
  LET q == Place(d, index) IN [d EXCEPT !.pages[q.page + 1].value[q.slot] = v]

(* set frees what it overwrites, when there is a function for it. *)
Set(d, index, v) == Put(Freed(d, At(d, index)), index, v)

(* equal, copy, find and foreach see the values in this order. *)
Items(d) == [i \in 1 .. d.size |-> At(d, i - 1)]
Find(d, v) ==
  LET at == {i \in 1 .. d.size : At(d, i - 1) = v}
  IN IF at = {} THEN -1 ELSE (CHOOSE i \in at : \A j \in at : i <= j) - 1

-----------------------------------------------------------------------------
NewPage(cut) == [a |-> cut, b |-> cut, value |-> [i \in 0 .. Width - 1 |-> Wild]]

(* alloc: a bigger array, with the pages in the middle of what is free. *)
Alloc(d, capacity, shiftFrom) ==
  LET shift == (capacity - shiftFrom) \div 2
      kept(q) == q > d.mark_a /\ q <= d.mark_b /\ q <= Len(d.pages)
  IN [d EXCEPT !.capacity = capacity,
               !.pages = [q \in 1 .. capacity |->
                            IF kept(q - shift) THEN d.pages[q - shift] ELSE NoPage],
               !.mark_a = @ + shift, !.mark_b = @ + shift]

WithPage(d, p, cut) == [d EXCEPT !.pages[p + 1] = NewPage(cut), !.heap = @ + 1]
Fresh(d, cut) ==
  LET d1 == Alloc([d EXCEPT !.mark_a = 0, !.mark_b = 1, !.pages = <<>>], 1, 0)
  IN WithPage(d1, d1.mark_b - 1, cut)

(* Room for one more value at the front, and at the back. *)
FrontRoom(d) ==
  IF d.size = 0 THEN Fresh(d, Width)
  ELSE IF Page(d, d.mark_a).a # 0 THEN d
  ELSE LET d1 == IF d.mark_a = 0 THEN Alloc(d, 2 * d.capacity, d.mark_a) ELSE d
           d2 == [d1 EXCEPT !.mark_a = @ - 1]
       IN WithPage(d2, d2.mark_a, Width)

BackRoom(d) ==
  IF d.size = 0 THEN Fresh(d, 0)
  ELSE IF Page(d, d.mark_b - 1).b # Width THEN d
  ELSE LET d1 == IF d.mark_b = d.capacity THEN Alloc(d, 2 * d.capacity, d.mark_b) ELSE d
           d2 == [d1 EXCEPT !.mark_b = @ + 1]
       IN WithPage(d2, d2.mark_b - 1, 0)

PushFront(d, v) ==
  LET d1 == FrontRoom(d)
      p  == d1.mark_a + 1
      a  == d1.pages[p].a - 1
  IN [d1 EXCEPT !.pages[p].a = a, !.pages[p].value[a] = v, !.size = @ + 1]

PushBack(d, v) ==
  LET d1 == BackRoom(d)
      b  == d1.pages[d1.mark_b].b
  IN [d1 EXCEPT !.pages[d1.mark_b].value[b] = v, !.pages[d1.mark_b].b = b + 1, !.size = @ + 1]

(* pop_front and pop_back without the call to free, which erase disables. *)
DropFront(d) ==
  LET p == d.mark_a + 1
      a == d.pages[p].a
      d1 == [d EXCEPT !.pages[p].value[a] = Wild, !.pages[p].a = a + 1, !.size = @ - 1]
  IN IF a + 1 # d.pages[p].b THEN d1
     ELSE [d1 EXCEPT !.pages[p] = NoPage, !.heap = @ - 1, !.mark_a = @ + 1]

(* Fault: the page that is empty is kept. *)
DropBack_KeepPage(d) ==
  LET b == d.pages[d.mark_b].b - 1
      d1 == [d EXCEPT !.pages[d.mark_b].value[b] = Wild, !.pages[d.mark_b].b = b, !.size = @ - 1]
  IN IF b # d.pages[d.mark_b].a THEN d1 ELSE [d1 EXCEPT !.mark_b = @ - 1]

DropBack(d) ==
  LET b == d.pages[d.mark_b].b - 1
      d1 == [d EXCEPT !.pages[d.mark_b].value[b] = Wild, !.pages[d.mark_b].b = b, !.size = @ - 1]
  IN IF b # d.pages[d.mark_b].a THEN d1
     ELSE [d1 EXCEPT !.pages[d.mark_b] = NoPage, !.heap = @ - 1, !.mark_b = @ - 1]

PopFront(d) == DropFront(Freed(d, At(d, 0)))
PopBack(d)  == DropBack(Freed(d, At(d, d.size - 1)))

-----------------------------------------------------------------------------
(* The loops that move values by one place, from an index towards another. *)
RECURSIVE Pull(_, _, _, _)
Pull(d, i, last, by) ==
  IF i = last THEN d ELSE Pull(Put(d, i, At(d, i + by)), i + by, last, by)

(* Fault: the value that goes is freed by set and by pop. *)
Erase_FreeTwice(d, index) ==
  LET d1 == Set(d, index, At(d, index))
  IN IF index < d1.size \div 2 THEN DropFront(Pull(d1, index, 0, -1))
     ELSE DropBack(Freed(Pull(d1, index, d1.size - 1, 1), At(d, d.size - 1)))

(* erase fills the hole from the nearer end. *)
Erase(d, index) ==
  LET d1 == Set(d, index, Zero)
  IN IF index < d1.size \div 2 THEN DropFront(Pull(d1, index, 0, -1))
     ELSE DropBack(Pull(d1, index, d1.size - 1, 1))

Insert(d, index, v) ==
  IF d.size = 0 THEN PushBack(d, v)
  ELSE IF index < d.size \div 2
  THEN Put(Pull(PushFront(d, At(d, 0)), 0, index, 1), index, v)
  ELSE LET d1 == PushBack(d, At(d, d.size - 1))
       IN Put(Pull(d1, d1.size - 1, index, -1), index, v)

(* resize and assign are given a value of their own, and free it.          *)
RECURSIVE Resized(_, _, _), Clear(_), AllSet(_, _, _)
Resized(d, n, v) ==
  IF n = d.size THEN d
  ELSE Resized(IF n < d.size THEN PopBack(d) ELSE PushBack(Made(d, v), v), n, v)
Resize(d, n, v) == Freed(Resized(Made(d, v), n, v), v)

AllSet(d, i, v) == IF i = d.size THEN d ELSE AllSet(Set(Made(d, v), i, v), i + 1, v)
Assign(d, n, v) ==
  LET d1 == Made(d, v)
  IN Freed(AllSet(Resize(d1, n, v), 0, v), v)

Clear(d) == IF d.size = 0 THEN d ELSE Clear(PopBack(d))

(* free: the array too. *)
Free(d) == [NoDeque EXCEPT !.live = Clear(d).live, !.heap = Clear(d).heap]

(* copy, and then free of what was copied. *)
RECURSIVE Pushed(_, _)
Pushed(d, vs) == IF vs = <<>> THEN d ELSE Pushed(PushBack(Made(d, Head(vs)), Head(vs)), Tail(vs))
Replaced(d) ==
  LET f == Free(d) IN Pushed([NoDeque EXCEPT !.live = f.live, !.heap = f.heap], Items(d))

(* remove_if: an erased value leaves the iterator where it is.             *)
RECURSIVE Removed(_, _, _)
Removed(d, i, match) ==
  IF i = d.size THEN d
  ELSE IF At(d, i) \in match THEN Removed(Erase(d, i), i, match)
  ELSE Removed(d, i + 1, match)
RemoveIf(d, match) == Removed(d, 0, match)

-----------------------------------------------------------------------------
Swap(d, i, j) == Put(Put(d, i, At(d, j)), j, At(d, i))

(* One partition of ranged_sort: the pivot is in a, and values that it     *)
(* compares before go up to z.                                             *)
RECURSIVE Partition(_, _, _, _, _), RangedSort(_, _, _)
Partition(d, a, b, i, z) ==
  IF i > b THEN [deque |-> Swap(d, a, z), z |-> z]
  ELSE IF At(d, a) > At(d, i) THEN Partition(Swap(d, z + 1, i), a, b, i + 1, z + 1)
  ELSE Partition(d, a, b, i + 1, z)

RangedSort(d, a, b) ==
  IF a >= b THEN d
  ELSE LET part == Partition(Swap(d, a, (a + b) \div 2), a, b, a + 1, a)
           d1 == RangedSort(part.deque, a, part.z - 1)
       IN RangedSort(d1, part.z + 1, b)

Sort(d) == RangedSort(d, 0, d.size - 1)
=============================================================================
