------------------------------- MODULE Deque -------------------------------
(***************************************************************************)
(* Programs of calls on a deque, beside the sequence it should be.  A call *)
(* is one step.  The program keeps to the interface: an index that erase   *)
(* is given is below the size, and an empty deque is not popped.  que.h    *)
(* and stk.h are this deque with some of the calls, under other names.     *)
(***************************************************************************)
EXTENDS Pages, FiniteSets

CONSTANTS
  MaxSize,       \* bound: the values in the deque
  MaxCapacity,   \* bound: the pages there is room for
  Matches        \* bound: what remove_if may match

ASSUME DequeAssumption ==
  /\ Width \in Nat \ {0} /\ Vals \subseteq Nat \ {Zero} /\ Wild \notin Vals \union {Zero}
  /\ MaxSize \in Nat /\ MaxCapacity \in Nat

VARIABLES
  deque,
  list      \* the sequence of values that the calls should have left

dvars == <<deque, list>>

Becomes(d, s) ==
  /\ d.size <= MaxSize /\ d.capacity <= MaxCapacity
  /\ deque' = d /\ list' = s

Without(s, i) == SubSeq(s, 1, i - 1) \o SubSeq(s, i + 1, Len(s))

Push(v) ==
  \/ Becomes(PushFront(Made(deque, v), v), <<v>> \o list)
  \/ Becomes(PushBack(Made(deque, v), v), Append(list, v))

Pop ==
  /\ deque.size > 0
  /\ \/ Becomes(PopFront(deque), Tail(list))
     \/ Becomes(PopBack(deque), SubSeq(list, 1, Len(list) - 1))

EraseAt(i) == i < deque.size /\ Becomes(Erase(deque, i), Without(list, i + 1))

InsertAt(i, v) ==
  /\ i <= deque.size
  /\ Becomes(Insert(Made(deque, v), i, v),
             SubSeq(list, 1, i) \o <<v>> \o SubSeq(list, i + 1, Len(list)))

SetAt(i, v) ==
  i < deque.size /\ Becomes(Set(Made(deque, v), i, v), [list EXCEPT ![i + 1] = v])

ResizeTo(n, v) ==
  Becomes(Resize(deque, n, v), [i \in 1 .. n |-> IF i <= Len(list) THEN list[i] ELSE v])
AssignTo(n, v) == Becomes(Assign(deque, n, v), [i \in 1 .. n |-> v])
ClearAll == Becomes(Clear(deque), <<>>)
FreeAll  == Becomes(Free(deque), <<>>)
CopyAll  == Becomes(Replaced(deque), list)
RemoveSome(S) == Becomes(RemoveIf(deque, S), SelectSeq(list, LAMBDA v : v \notin S))

Ordered(s) == \A i, j \in DOMAIN s : i < j => s[i] <= s[j]
Occurrences(s, v) == Cardinality({i \in DOMAIN s : s[i] = v})
SortAll ==
  Becomes(Sort(deque),
          CHOOSE s \in [DOMAIN list -> {list[i] : i \in DOMAIN list}] :
            Ordered(s) /\ \A v \in Vals : Occurrences(s, v) = Occurrences(list, v))

Init == deque = NoDeque /\ list = <<>>

Next ==
  \/ \E v \in Vals :
       \/ Push(v)
       \/ \E i \in 0 .. MaxSize :
            InsertAt(i, v) \/ SetAt(i, v) \/ ResizeTo(i, v) \/ AssignTo(i, v)
  \/ \E i \in 0 .. MaxSize : EraseAt(i)
  \/ \E S \in Matches : RemoveSome(S)
  \/ Pop \/ ClearAll \/ FreeAll \/ CopyAll \/ SortAll

Spec == Init /\ [][Next]_dvars

-----------------------------------------------------------------------------
(* Whatever the calls, on whatever layout of the pages, the deque holds    *)
(* the sequence they should leave, and finds the first of the values.      *)
IsSequence ==
  /\ Items(deque) = list
  /\ \A v \in Vals :
       LET at == {i \in DOMAIN list : list[i] = v}
       IN Find(deque, v) = IF at = {} THEN -1 ELSE (CHOOSE i \in at : \A j \in at : i <= j) - 1

(* The pages in use are in the array, are as many as have been allocated,  *)
(* and hold the values without a gap: only the first begins late, and only *)
(* the last ends early.  Every value put in or copied is freed once, when  *)
(* it leaves.                                                              *)
PagesInUse ==
  /\ \A v \in Vals : deque.live[v] = Occurrences(list, v)
  /\ deque.heap = IF deque.size = 0 THEN 0 ELSE deque.mark_b - deque.mark_a
  /\ deque.size > 0 =>
       /\ deque.mark_a < deque.mark_b /\ deque.mark_b <= deque.capacity
       /\ \A q \in deque.mark_a .. deque.mark_b - 1 :
            LET page == Page(deque, q) IN
            /\ page.a < page.b /\ page.b <= Width
            /\ q > deque.mark_a => page.a = 0
            /\ q < deque.mark_b - 1 => page.b = Width
            /\ \A i \in page.a .. page.b - 1 : page.value[i] # Wild
=============================================================================
